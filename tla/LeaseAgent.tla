----------------------------- MODULE LeaseAgent -----------------------------
(***************************************************************************)
(* The decision core of a participant (lease/agent.go): the writer rules   *)
(* on top of a view.  Like the Go type it does no I/O and reads no clock:  *)
(* every operator takes the agent and the current local time and returns   *)
(* the new agent.  An operator that may hand a record to the client        *)
(* returns [agent, out], out being a set of at most one record.            *)
(*                                                                         *)
(* As in LeaseView, an operator whose name starts with Bug is a mistake    *)
(* for the properties to notice.                                           *)
(***************************************************************************)
EXTENDS LeaseView

CONSTANTS Margin,      \* safety margin of the belief
          RenewEvery,  \* how often a holder renews
          PollEvery    \* Config.pollEvery: RenewEvery / 4

(* What Config.withDefaults enforces.                                      *)
ASSUME ConfigAssumption ==
  /\ Margin \in Nat
  /\ RenewEvery \in Nat \ {0}
  /\ PollEvery \in Nat
  /\ Margin + RenewEvery < TTL

(* No request in flight: the nil *inflight of the code.                    *)
Idle == [kind |-> "none", sentAt |-> ZeroTime, offset |-> NoOffset]

(* An agent on a log whose retained records span [start, end).             *)
newAgent(holder, start, end, now) ==
  [holder       |-> holder,
   view         |-> IF start = 0 THEN NewViewFromStart ELSE NewView,
   nextOffset   |-> start,
   highWater    |-> end,
   ownOutcomes  |-> {},
   epoch        |-> NoOffset,
   deadline     |-> ZeroTime,
   inflight     |-> Idle,
   lastSend     |-> ZeroTime,
   nextClaimAt  |-> ZeroTime,
   connected    |-> TRUE,
   caughtUpAt   |-> now,
   lastRecordAt |-> ZeroTime,
   lastRecordBroker |-> ZeroTime]

-----------------------------------------------------------------------------
(* The belief.                                                             *)

believing(a, now) == now < a.deadline

(* Bug: the margin is forgotten.                                           *)
BugNoMargin(a, sentAt) == [a EXCEPT !.deadline = sentAt + TTL]

(* The deadline counts from the send time of the accepted record.          *)
extendBelief(a, sentAt) == [a EXCEPT !.deadline = sentAt + TTL - Margin]

dropBelief(a) == [a EXCEPT !.deadline = ZeroTime]

(* The broker's clock, estimated from the last record seen.                *)
brokerNow(a, now) ==
  IF a.lastRecordAt = ZeroTime THEN a.view.clock
                               ELSE a.lastRecordBroker + (now - a.lastRecordAt)

(* How long a candidate whose claim was rejected waits before the next.    *)
claimBackoff(a, now) ==
  LET left    == a.view.state.expires - brokerNow(a, now)
      atLeast == IF left > PollEvery THEN left ELSE PollEvery
  IN  IF atLeast < TTL THEN atLeast ELSE TTL

(* Bug: the belief counts from when the verdict is known.                  *)
BugSettleFromNow(a, now, out) ==
  LET in == a.inflight
      b  == [a EXCEPT !.inflight = Idle, !.ownOutcomes = {}]
  IN  CASE out = Pending -> b
        [] in.kind = Claim /\ out = Accepted ->
             extendBelief([b EXCEPT !.epoch = in.offset], now)
        [] in.kind = Claim /\ out = Rejected ->
             [b EXCEPT !.nextClaimAt = now + claimBackoff(b, now)]
        [] in.kind = Renew /\ out = Accepted ->
             IF believing(b, now) THEN extendBelief(b, now) ELSE b
        [] in.kind = Renew /\ out = Rejected -> dropBelief(b)

(* The fold's verdict on the record in flight decides the belief.          *)
settle(a, now, out) ==
  LET in == a.inflight
      b  == [a EXCEPT !.inflight = Idle, !.ownOutcomes = {}]
  IN  CASE out = Pending -> b
        [] in.kind = Claim /\ out = Accepted ->
             extendBelief([b EXCEPT !.epoch = in.offset], in.sentAt)
        [] in.kind = Claim /\ out = Rejected ->
             [b EXCEPT !.nextClaimAt = now + claimBackoff(b, now)]
        [] in.kind = Renew /\ out = Accepted ->
             IF believing(b, now) THEN extendBelief(b, in.sentAt) ELSE b
        [] in.kind = Renew /\ out = Rejected -> dropBelief(b)

-----------------------------------------------------------------------------
(* What the client feeds in.                                               *)

fetchFailed(a) == [a EXCEPT !.connected = FALSE]

fetched(a, now, highWater) ==
  [a EXCEPT !.connected  = TRUE,
            !.caughtUpAt = IF a.connected THEN @ ELSE now,
            !.highWater  = IF highWater > @ THEN highWater ELSE @]

(* A record this participant wrote came back.  Only the one in flight      *)
(* counts, and only once the acknowledgement has told its offset; until    *)
(* then the verdict is remembered.                                         *)
ownRecord(a, now, offset, kind, out) ==
  IF a.inflight.kind # kind THEN a
  ELSE IF a.inflight.offset = NoOffset
       THEN [a EXCEPT !.ownOutcomes = @ \cup {<<offset, out>>}]
       ELSE IF a.inflight.offset = offset THEN settle(a, now, out) ELSE a

(* A certain view that shows the believed term over ends the belief.       *)
confirmBelief(a, now) ==
  LET s == a.view.state
  IN  IF /\ believing(a, now) /\ a.view.certain
         /\ \/ s.holder # a.holder
            \/ s.epoch # a.epoch
            \/ ~HeldAt(s, a.view.clock)
      THEN dropBelief(a) ELSE a

(* Bug: off by one in the position.                                        *)
BugAdvancedTo(a, now, offset, ts) ==
  [a EXCEPT !.view         = IF offset > a.nextOffset THEN Gap(@) ELSE @,
            !.caughtUpAt   = IF offset > a.nextOffset THEN now ELSE @,
            !.nextOffset   = offset,
            !.lastRecordAt = now,
            !.lastRecordBroker = ts]

(* The reader's position moves to the record at offset, past any hole.     *)
advanced(a, now, offset, ts) ==
  [a EXCEPT !.view         = IF offset > a.nextOffset THEN Gap(@) ELSE @,
            !.caughtUpAt   = IF offset > a.nextOffset THEN now ELSE @,
            !.nextOffset   = offset + 1,
            !.lastRecordAt = now,
            !.lastRecordBroker = ts]

record(a, now, offset, ts, value) ==
  LET b       == advanced(a, now, offset, ts)
      rec     == DecodeValue(value, offset, ts)
      applied == Apply(b.view, rec)
      c       == [b EXCEPT !.view = applied.view]
      d       == IF rec.holder = a.holder
                 THEN ownRecord(c, now, offset, rec.kind, applied.outcome) ELSE c
  IN  IF offset < a.nextOffset THEN a
      ELSE IF ~Decodes(value) THEN b
      ELSE confirmBelief(d, now)

(* Bug: the verdict on any record read so far is taken for this one's.     *)
BugAckedAny(a, now, offset) ==
  LET b == [a EXCEPT !.inflight.offset = offset]
  IN  IF a.inflight = Idle THEN a
      ELSE IF a.ownOutcomes = {} THEN b
      ELSE settle(b, now, (CHOOSE o \in a.ownOutcomes : TRUE)[2])

(* Bug: a record that was read back before its acknowledgement is          *)
(* forgotten.                                                              *)
BugAckedLate(a, now, offset) ==
  IF a.inflight = Idle THEN a ELSE [a EXCEPT !.inflight.offset = offset]

(* The broker's answer to the record in flight: its offset.                *)
acked(a, now, offset) ==
  LET b    == [a EXCEPT !.inflight.offset = offset]
      read == {o \in a.ownOutcomes : o[1] = offset}
  IN  IF a.inflight = Idle THEN a
      ELSE IF read = {} THEN b
      ELSE settle(b, now, (CHOOSE o \in read : TRUE)[2])

(* The broker's answer to the record in flight: it failed.                 *)
ackFailed(a, now) ==
  IF a.inflight = Idle THEN a
  ELSE [a EXCEPT !.inflight    = Idle,
                 !.nextClaimAt = IF a.inflight.kind = Claim THEN now + RenewEvery ELSE @]

-----------------------------------------------------------------------------
(* What the agent decides.                                                 *)

newRecord(a, kind, epoch) ==
  [kind |-> kind, holder |-> a.holder, epoch |-> IF kind = Claim THEN 0 ELSE epoch, ttl |-> TTL]

send(a, now, kind) ==
  [agent |-> [a EXCEPT !.inflight = [kind |-> kind, sentAt |-> now, offset |-> NoOffset],
                       !.lastSend = now],
   out   |-> {newRecord(a, kind, a.epoch)}]

(* Bug: silence is also measured while the log cannot be read.             *)
BugSilentUnconnected(a, now) ==
  LET since == IF a.lastRecordAt > a.caughtUpAt THEN a.lastRecordAt ELSE a.caughtUpAt
  IN  /\ a.nextOffset >= a.highWater /\ ~a.view.certain
      /\ now - since >= TTL + Margin

(* Whether tick concludes that the end of the log has been silent for a    *)
(* TTL and the margin.                                                     *)
silent(a, now) ==
  LET since == IF a.lastRecordAt > a.caughtUpAt THEN a.lastRecordAt ELSE a.caughtUpAt
  IN  /\ a.connected /\ a.nextOffset >= a.highWater /\ ~a.view.certain
      /\ now - since >= TTL + Margin

(* tick, first half: the belief expires and silence is measured.           *)
aged(a, now) ==
  [a EXCEPT !.deadline = IF believing(a, now) THEN @ ELSE ZeroTime,
            !.view     = IF silent(a, now) THEN Quiet(@, TTL) ELSE @]

(* Bug: a record is written while another one is in flight.                *)
BugTickInFlight(a, now) ==
  LET b     == aged(a, now)
      renew == b.view.certain /\ believing(b, now) /\ now - b.lastSend >= RenewEvery
      claim == /\ b.view.certain /\ ~believing(b, now) /\ now > b.nextClaimAt
               /\ ~HeldAt(b.view.state, brokerNow(b, now))
  IN  IF renew THEN send(b, now, Renew)
      ELSE IF claim THEN send(b, now, Claim)
      ELSE [agent |-> b, out |-> {}]

(* tick, second half: what to write, if anything.                          *)
tick(a, now) ==
  LET b     == aged(a, now)
      free  == b.inflight = Idle /\ b.view.certain
      renew == free /\ believing(b, now) /\ now - b.lastSend >= RenewEvery
      claim == /\ free /\ ~believing(b, now) /\ now > b.nextClaimAt
               /\ ~HeldAt(b.view.state, brokerNow(b, now))
  IN  IF renew THEN send(b, now, Renew)
      ELSE IF claim THEN send(b, now, Claim)
      ELSE [agent |-> b, out |-> {}]

(* Bug: the release is sent like any other record.                         *)
BugReleaseInFlight(a, now) ==
  IF believing(a, now) THEN send(dropBelief(a), now, Release)
                       ELSE [agent |-> a, out |-> {}]

(* The belief goes first, the record second.                               *)
release(a, now) ==
  IF believing(a, now)
  THEN [agent |-> dropBelief(a), out |-> {newRecord(a, Release, a.epoch)}]
  ELSE [agent |-> a, out |-> {}]

(* The belief status publishes, with the deadline that bounds it.          *)
status(a, now) ==
  [deadline |-> IF believing(a, now) THEN a.deadline ELSE ZeroTime, epoch |-> a.epoch]

-----------------------------------------------------------------------------
(* Types.                                                                  *)

InFlight == [kind : {"none", Claim, Renew}, sentAt : Int, offset : Int]

AgentOf(H) ==
  [holder : H \cup {NoHolder}, view : ViewOf(H), nextOffset : Nat, highWater : Nat,
   ownOutcomes : SUBSET (Nat \X Outcome), epoch : Int, deadline : Int,
   inflight : InFlight, lastSend : Int, nextClaimAt : Int, connected : BOOLEAN,
   caughtUpAt : Int, lastRecordAt : Int, lastRecordBroker : Int]
=============================================================================
