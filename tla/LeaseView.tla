----------------------------- MODULE LeaseView -----------------------------
(***************************************************************************)
(* The deterministic fold of a lease log (lease/view.go).                  *)
(*                                                                         *)
(* A View is a value; the methods of the Go type that change it are        *)
(* operators from the old value to the new one.  Broker time is an         *)
(* integer and ZeroTime, below every real time, is Go's zero time.Time.    *)
(*                                                                         *)
(* An operator whose name starts with Bug is a plausible mistake in the    *)
(* operator that follows it: the properties are checked to notice it.      *)
(***************************************************************************)
EXTENDS LeaseRecord, Sequences, FiniteSets

CONSTANT TTL  \* the TTL of the lease, the same for every participant

ASSUME TTLAssumption == TTL \in Nat \ {0}

ZeroTime == -1
NoOffset == -1

Pending  == "pending"
Accepted == "accepted"
Rejected == "rejected"
Outcome  == {Pending, Accepted, Rejected}

FreeState(epoch) == [holder |-> NoHolder, epoch |-> epoch, expires |-> ZeroTime]

HeldAt(s, t) == s.holder # NoHolder /\ t < s.expires

NewView ==
  [certain    |-> FALSE,
   state      |-> FreeState(0),
   clock      |-> ZeroTime,
   lastOffset |-> NoOffset,
   seen       |-> FALSE,
   pending    |-> << >>]

NewViewFromStart ==
  [NewView EXCEPT !.certain = TRUE, !.state = FreeState(NoOffset)]

(* Bug: what was known before the hole is kept.                            *)
BugGapKeepsState(v) == [v EXCEPT !.pending = << >>]

(* Records may have been skipped: back to uncertain.  The clock and the    *)
(* last offset survive.                                                    *)
Gap(v) ==
  [v EXCEPT !.certain = FALSE,
            !.state   = FreeState(0),
            !.pending = << >>,
            !.seen    = FALSE]

setFree(v) ==
  [v EXCEPT !.state   = IF v.certain THEN [v.state EXCEPT !.holder = NoHolder]
                                     ELSE FreeState(NoOffset),
            !.certain = TRUE,
            !.pending = << >>]

(* The reader sat at the end of the log for d and nothing arrived.         *)
Quiet(v, d) == IF d < TTL THEN v ELSE setFree(v)

(* Bug: a record may ask for any TTL.                                      *)
BugAnyTTL(r) == r.kind = Release \/ 0 < r.ttl

validTTL(r) == r.kind = Release \/ (0 < r.ttl /\ r.ttl <= TTL)

(* Bug: the holder of the lease may claim it again.                        *)
BugOwnClaim(s, r) ==
  LET held     == HeldAt(s, r.ts)
      sameTerm == s.holder = r.holder /\ s.epoch = r.epoch
  IN  IF /\ validTTL(r)
         /\ IF r.kind = Claim THEN ~held \/ s.holder = r.holder ELSE held /\ sameTerm
      THEN Accepted ELSE Rejected

(* Bug: a release is taken from anybody.                                   *)
BugAnyRelease(s, r) ==
  LET held     == HeldAt(s, r.ts)
      sameTerm == s.holder = r.holder /\ s.epoch = r.epoch
  IN  IF /\ validTTL(r)
         /\ IF r.kind = Claim THEN ~held ELSE held /\ (sameTerm \/ r.kind = Release)
      THEN Accepted ELSE Rejected

(* The verdict on r of a view that is certain of state s.                  *)
foldOutcome(s, r) ==
  LET held     == HeldAt(s, r.ts)
      sameTerm == s.holder = r.holder /\ s.epoch = r.epoch
  IN  IF /\ validTTL(r)
         /\ IF r.kind = Claim THEN ~held ELSE held /\ sameTerm
      THEN Accepted ELSE Rejected

(* The state r leaves behind when it is accepted.                          *)
foldState(s, r) ==
  CASE r.kind = Claim   -> [holder |-> r.holder, epoch |-> r.offset, expires |-> r.ts + r.ttl]
    [] r.kind = Renew   -> [s EXCEPT !.expires = r.ts + r.ttl]
    [] r.kind = Release -> [s EXCEPT !.holder = NoHolder, !.expires = r.ts]

fold(v, r) ==
  IF foldOutcome(v.state, r) = Accepted THEN [v EXCEPT !.state = foldState(v.state, r)] ELSE v

(* The first of a set of positions.                                        *)
firstOf(I) == CHOOSE i \in I : \A j \in I : i <= j

(* Records older than two TTLs cannot matter any more: those before the    *)
(* first recent one are cut off.                                           *)
prunePending(pending, clock) ==
  LET recent == {i \in 1..Len(pending) : pending[i].ts >= clock - 2 * TTL}
  IN  SubSeq(pending, firstOf(recent \cup {Len(pending) + 1}), Len(pending))

(* The pending records that r, a renew or release, proves valid.           *)
Anchors(v, r) ==
  {i \in DOMAIN v.pending : /\ r.kind # Claim
                            /\ v.pending[i].kind # Release
                            /\ term(v.pending[i]) = term(r)}

(* The view once its pending record i is proven: the state right after it  *)
(* is known, and everything seen since is replayed.                        *)
Anchored(v, i) ==
  LET p     == v.pending[i]
      known == [v EXCEPT !.certain = TRUE,
                         !.state   = [holder  |-> term(p)[1],
                                      epoch   |-> term(p)[2],
                                      expires |-> p.ts + p.ttl],
                         !.pending = << >>]
      replay[k \in i..Len(v.pending)] ==
        IF k = i THEN known ELSE fold(replay[k - 1], v.pending[k])
  IN  replay[Len(v.pending)]

applyUncertain(v, r) ==
  LET anchors == Anchors(v, r)
  IN  IF anchors # {}
      THEN LET w == Anchored(v, firstOf(anchors))
           IN  [view |-> fold(w, r), outcome |-> foldOutcome(w.state, r)]
      ELSE LET pending == IF validTTL(r) THEN Append(v.pending, r) ELSE v.pending
           IN  [view    |-> [v EXCEPT !.pending = prunePending(pending, v.clock)],
                outcome |-> Pending]

(* Whether Apply returns no error.                                         *)
Applicable(v, r) == r.offset > v.lastOffset /\ r.kind \in Kind

(* A broker timestamp never runs behind the view's clock.                  *)
Clamped(v, r) == IF r.ts < v.clock THEN [r EXCEPT !.ts = v.clock] ELSE r

(* Bug: off by one in how long the silence must be.                        *)
BugShortSilence(v, r) ==
  LET w      == [v EXCEPT !.clock = r.ts, !.lastOffset = r.offset, !.seen = TRUE]
      silent == ~v.certain /\ v.seen /\ r.ts - v.clock >= TTL - 1
  IN  IF silent THEN setFree(w) ELSE w

(* The view after it has noted the clamped record r, before judging it:    *)
(* a whole TTL without a record proves the lease free.                     *)
Noted(v, r) ==
  LET w      == [v EXCEPT !.clock = r.ts, !.lastOffset = r.offset, !.seen = TRUE]
      silent == ~v.certain /\ v.seen /\ r.ts - v.clock >= TTL
  IN  IF silent THEN setFree(w) ELSE w

Apply(v, r) ==
  LET c == Clamped(v, r)
      w == Noted(v, c)
  IN  IF w.certain THEN [view |-> fold(w, c), outcome |-> foldOutcome(w.state, c)]
                   ELSE applyUncertain(w, c)

-----------------------------------------------------------------------------
(* Types.                                                                  *)

StateOf(H) == [holder : H \cup {NoHolder}, epoch : Int, expires : Int]

RecordOf(H) ==
  [offset : Int, ts : Int, kind : Kind, holder : H, epoch : Int, ttl : Int]

ViewOf(H) ==
  [certain : BOOLEAN, state : StateOf(H), clock : Int, lastOffset : Int,
   seen : BOOLEAN, pending : Seq(RecordOf(H))]
=============================================================================
