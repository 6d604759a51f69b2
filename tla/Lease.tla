------------------------------- MODULE Lease -------------------------------
(***************************************************************************)
(* What a lease promises, whatever implements it.                          *)
(*                                                                         *)
(* A lease is a succession of terms.  A term belongs to one participant    *)
(* and has an epoch above all earlier ones.  Its owner may report that it  *)
(* holds the lease, stop, and report it again; terms change hands only     *)
(* while nobody does.                                                      *)
(***************************************************************************)
EXTENDS Integers

CONSTANTS Node, NoHolder

VARIABLES
  owner,   \* whose term it is; NoHolder when it has been given back
  epoch,   \* the epoch of the latest term
  holding  \* the participants that report that they hold the lease

leaseVars == <<owner, epoch, holding>>

Init ==
  /\ owner = NoHolder
  /\ epoch = -1
  /\ holding = {}

(* A new term, possibly of the same participant.                           *)
Grant(n) ==
  /\ holding = {}
  /\ owner' = n
  /\ epoch' > epoch
  /\ UNCHANGED holding

(* The term is given back.                                                 *)
Free ==
  /\ holding = {}
  /\ owner' = NoHolder
  /\ UNCHANGED <<epoch, holding>>

(* The owner of the term reports that it holds the lease ...               *)
Start(n) ==
  /\ owner = n /\ holding = {}
  /\ holding' = {n}
  /\ UNCHANGED <<owner, epoch>>

(* ... and no longer does.                                                 *)
Quit(n) ==
  /\ holding = {n}
  /\ holding' = {}
  /\ UNCHANGED <<owner, epoch>>

Next ==
  \/ \E n \in Node : Grant(n) \/ Start(n) \/ Quit(n)
  \/ Free

Spec == Init /\ [][Next]_leaseVars
=============================================================================
