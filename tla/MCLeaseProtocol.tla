-------------------------- MODULE MCLeaseProtocol --------------------------
(***************************************************************************)
(* LeaseProtocol for TLC: two participants, the symmetry between them, and *)
(* a VIEW of the state without what can no longer matter.                  *)
(***************************************************************************)
EXTENDS LeaseProtocol, TLC

(* Participants differ only in their names.                                *)
Symmetry == Permutations(Node)

(* A value of another version of the protocol, and a claim by a            *)
(* participant that is configured with a longer TTL.                       *)
OtherVersion  == [version |-> 2, kind |-> Claim, holder |-> "other", epoch |-> 0, ttlMs |-> TTL]
OtherTTL      == [OtherVersion EXCEPT !.version = WireVersion, !.ttlMs = TTL + 1]
MCForeign     == {OtherVersion, OtherTTL}

-----------------------------------------------------------------------------
(* Two states with the same StateView have the same future, and satisfy    *)
(* the same properties.  Times are only ever compared with now: a deadline *)
(* that has passed, or a claim that is due, is as good as any other.  A    *)
(* new or stopped agent takes no step that reads it.  Without compaction   *)
(* log and nextOffset determine the view.  What serves to measure silence  *)
(* is read by uncertain agents only; an agent that becomes uncertain has   *)
(* just fetched.  landed is read while its request is not acknowledged,    *)
(* and so is the verdict on the record at that offset; no later request    *)
(* gets the offset of an earlier verdict.  The broker's time that a        *)
(* certain agent reckons with, until its next record, matters up to the    *)
(* end of the term it sees.  ref is a function of log.                     *)
Past(t) == IF t < now THEN ZeroTime ELSE t
Live(t) == IF now < t THEN t ELSE ZeroTime

Silence(a) ==
  IF a.view.certain
  THEN <<a.lastRecordAt = ZeroTime, IF a.highWater <= a.nextOffset + 2 THEN 0 ELSE a.highWater>>
  ELSE <<a.connected, a.highWater,
         IF a.lastRecordAt > a.caughtUpAt THEN a.lastRecordAt ELSE a.caughtUpAt>>

Unacked(n)    == agent[n].inflight # Idle /\ agent[n].inflight.offset = NoOffset
Remembered(n) == {o \in agent[n].ownOutcomes : Unacked(n) /\ o[1] = landed[n]}

BrokerTime(a) ==
  LET t == brokerNow(a, now)
  IN  IF a.view.certain /\ a.view.state.expires < t THEN a.view.state.expires ELSE t

AgentView(n) ==
  LET a == agent[n]
  IN  IF ~Running(n) THEN <<a.inflight>>
      ELSE <<a.nextOffset, Remembered(n), a.epoch, Live(a.deadline), a.inflight,
             Past(a.nextClaimAt),
             IF now < a.deadline THEN a.lastSend ELSE ZeroTime,
             BrokerTime(a),
             IF "compaction" \in Faults THEN <<a.view, Silence(a)>> ELSE << >> >>

StateView ==
  <<now, lead, log, first, wire, phase,
    [n \in Node |-> IF Unacked(n) THEN landed[n] ELSE NoOffset],
    [n \in Node |-> AgentView(n)],
    [n \in Node |-> <<Live(pub[n].deadline), pub[n].epoch>>]>>
=============================================================================
