-------------------------- MODULE LeaseAgentProofs --------------------------
(***************************************************************************)
(* What the operations of an agent do to it, on a log that it reads from   *)
(* its beginning and without holes.                                        *)
(***************************************************************************)
EXTENDS LeaseHistoryProofs

(* The fields of an agent have their types.                                *)
LEMMA AgentFields ==
  ASSUME NEW a \in AgentOf(Node)
  PROVE  /\ a.holder \in Node \cup {NoHolder} /\ a.view \in ViewOf(Node)
         /\ a.nextOffset \in Nat /\ a.highWater \in Nat
         /\ a.ownOutcomes \in SUBSET (Nat \X Outcome)
         /\ a.epoch \in Int /\ a.deadline \in Int /\ a.inflight \in InFlight
         /\ a.lastSend \in Int /\ a.nextClaimAt \in Int /\ a.connected \in BOOLEAN
         /\ a.caughtUpAt \in Int /\ a.lastRecordAt \in Int /\ a.lastRecordBroker \in Int
BY Zenon DEF AgentOf

(* No request in flight is a value of its type.                            *)
LEMMA IdleType == Idle \in InFlight
BY DEF Idle, InFlight, ZeroTime, NoOffset, Claim, Renew

(* How long a rejected claim waits is a number.                            *)
LEMMA BackoffType ==
  ASSUME NEW a \in AgentOf(Node), NEW t \in Int
  PROVE  claimBackoff(a, t) \in Int
<1>1. a.view \in ViewOf(Node) /\ a.lastRecordBroker \in Int /\ a.lastRecordAt \in Int
  BY AgentFields
<1>2. a.view.clock \in Int /\ a.view.state.expires \in Int
  BY <1>1, ViewFields
<1>3. brokerNow(a, t) \in Int
  BY <1>1, <1>2 DEF brokerNow
<1> QED
  BY <1>2, <1>3, ConfigAssumption, TTLAssumption DEF claimBackoff

-----------------------------------------------------------------------------
(* b is a after its request was settled with verdict out.                  *)
Settled(a, out, b) ==
  /\ b \in AgentOf(Node)
  /\ b.holder = a.holder /\ b.view = a.view /\ b.nextOffset = a.nextOffset
  /\ b.lastSend = a.lastSend
  /\ b.inflight = Idle /\ b.ownOutcomes = {}
  /\ \/ b.deadline \in {a.deadline, ZeroTime} /\ b.epoch = a.epoch
     \/ /\ out = Accepted
        /\ b.deadline = a.inflight.sentAt + TTL - Margin
        /\ b.epoch = IF a.inflight.kind = Claim THEN a.inflight.offset ELSE a.epoch

(* settle ends the request in flight and touches only belief, epoch and    *)
(* the time of the next claim.                                             *)
LEMMA SettleFacts ==
  ASSUME NEW a \in AgentOf(Node), NEW t \in Int, NEW out \in Outcome,
         a.inflight.kind \in {Claim, Renew}
  PROVE  Settled(a, out, settle(a, t, out))
<1> DEFINE b == [a EXCEPT !.inflight = Idle, !.ownOutcomes = {}]
           at == a.inflight.sentAt + TTL - Margin
<1> HIDE DEF b
<1>1. {} \in SUBSET (Nat \X Outcome)
  OBVIOUS
<1>2. b \in AgentOf(Node)
  BY <1>1, AgentFields, IdleType, Zenon DEF b, AgentOf
<1>3. /\ b.holder = a.holder /\ b.view = a.view /\ b.nextOffset = a.nextOffset
      /\ b.lastSend = a.lastSend /\ b.epoch = a.epoch /\ b.deadline = a.deadline
      /\ b.inflight = Idle /\ b.ownOutcomes = {}
  BY Zenon DEF b, AgentOf
<1>4. a.inflight.sentAt \in Int /\ a.inflight.offset \in Int
  BY AgentFields DEF InFlight
<1>5. at \in Int /\ ZeroTime \in Int
  BY <1>4, ConfigAssumption, TTLAssumption DEF ZeroTime
<1>6. t + claimBackoff(b, t) \in Int
  BY <1>2, BackoffType
<1>7. Claim # Renew /\ Accepted # Rejected /\ Pending # Accepted /\ Pending # Rejected
  BY DEF Claim, Renew, Pending, Accepted, Rejected
<1>8. \/ settle(a, t, out) \in {b, dropBelief(b), [b EXCEPT !.nextClaimAt = t + claimBackoff(b, t)]}
      \/ /\ out = Accepted /\ a.inflight.kind = Claim
         /\ settle(a, t, out) = extendBelief([b EXCEPT !.epoch = a.inflight.offset], a.inflight.sentAt)
      \/ /\ out = Accepted /\ a.inflight.kind = Renew
         /\ settle(a, t, out) = extendBelief(b, a.inflight.sentAt)
  <2>1. settle(a, t, out) =
          CASE out = Pending -> b
            [] a.inflight.kind = Claim /\ out = Accepted ->
                 extendBelief([b EXCEPT !.epoch = a.inflight.offset], a.inflight.sentAt)
            [] a.inflight.kind = Claim /\ out = Rejected ->
                 [b EXCEPT !.nextClaimAt = t + claimBackoff(b, t)]
            [] a.inflight.kind = Renew /\ out = Accepted ->
                 IF believing(b, t) THEN extendBelief(b, a.inflight.sentAt) ELSE b
            [] a.inflight.kind = Renew /\ out = Rejected -> dropBelief(b)
    BY Zenon DEF settle, b
  <2>2. CASE out = Pending
    BY <1>7, <2>1, <2>2
  <2>3. CASE out = Accepted /\ a.inflight.kind = Claim
    BY <1>7, <2>1, <2>3
  <2>4. CASE out = Rejected /\ a.inflight.kind = Claim
    BY <1>7, <2>1, <2>4
  <2>5. CASE out = Accepted /\ a.inflight.kind = Renew
    BY <1>7, <2>1, <2>5
  <2>6. CASE out = Rejected /\ a.inflight.kind = Renew
    BY <1>7, <2>1, <2>6
  <2> QED
    BY <2>2, <2>3, <2>4, <2>5, <2>6 DEF Outcome
<1>9. Settled(a, out, b)
  BY <1>2, <1>3 DEF Settled
<1>10. Settled(a, out, dropBelief(b))
  <2>1. dropBelief(b) \in AgentOf(Node)
    BY <1>2, <1>5, AgentFields, Zenon DEF dropBelief, AgentOf
  <2>2. /\ dropBelief(b).holder = b.holder /\ dropBelief(b).view = b.view
        /\ dropBelief(b).nextOffset = b.nextOffset /\ dropBelief(b).lastSend = b.lastSend
        /\ dropBelief(b).epoch = b.epoch /\ dropBelief(b).deadline = ZeroTime
        /\ dropBelief(b).inflight = b.inflight /\ dropBelief(b).ownOutcomes = b.ownOutcomes
    BY <1>2, Zenon DEF dropBelief, AgentOf
  <2> QED
    BY <1>3, <2>1, <2>2, Zenon DEF Settled
<1>11. Settled(a, out, [b EXCEPT !.nextClaimAt = t + claimBackoff(b, t)])
  <2> DEFINE c == [b EXCEPT !.nextClaimAt = t + claimBackoff(b, t)]
  <2>1. c \in AgentOf(Node)
    BY <1>2, <1>6, AgentFields, Zenon DEF AgentOf
  <2>2. /\ c.holder = b.holder /\ c.view = b.view
        /\ c.nextOffset = b.nextOffset /\ c.lastSend = b.lastSend
        /\ c.epoch = b.epoch /\ c.deadline = b.deadline
        /\ c.inflight = b.inflight /\ c.ownOutcomes = b.ownOutcomes
    BY <1>2, Zenon DEF AgentOf
  <2> HIDE DEF c
  <2>3. Settled(a, out, c)
    BY <1>3, <2>1, <2>2, Zenon DEF Settled
  <2> QED
    BY <2>3 DEF c
<1>12. ASSUME NEW e \in Int, out = Accepted,
              e = IF a.inflight.kind = Claim THEN a.inflight.offset ELSE a.epoch
       PROVE  Settled(a, out, extendBelief([b EXCEPT !.epoch = e], a.inflight.sentAt))
  <2> DEFINE c == [[b EXCEPT !.epoch = e] EXCEPT !.deadline = at]
  <2>1. c \in AgentOf(Node)
    BY <1>2, <1>5, AgentFields, Zenon DEF AgentOf
  <2>2. /\ c.holder = b.holder /\ c.view = b.view
        /\ c.nextOffset = b.nextOffset /\ c.lastSend = b.lastSend
        /\ c.epoch = e /\ c.deadline = at
        /\ c.inflight = b.inflight /\ c.ownOutcomes = b.ownOutcomes
    BY <1>2, Zenon DEF AgentOf
  <2> HIDE DEF c
  <2>3. Settled(a, out, c)
    BY <1>3, <1>12, <2>1, <2>2, Zenon DEF Settled
  <2> QED
    BY <2>3 DEF c, extendBelief
<1>13. [b EXCEPT !.epoch = a.epoch] = b
  BY <1>2, <1>3, Zenon DEF AgentOf
<1>14. CASE settle(a, t, out) \in {b, dropBelief(b), [b EXCEPT !.nextClaimAt = t + claimBackoff(b, t)]}
  BY <1>14, <1>9, <1>10, <1>11
<1>15. CASE /\ out = Accepted /\ a.inflight.kind = Claim
            /\ settle(a, t, out) = extendBelief([b EXCEPT !.epoch = a.inflight.offset], a.inflight.sentAt)
  BY <1>15, <1>4, <1>12
<1>16. CASE /\ out = Accepted /\ a.inflight.kind = Renew
            /\ settle(a, t, out) = extendBelief(b, a.inflight.sentAt)
  BY <1>16, <1>7, <1>12, <1>13, AgentFields
<1> QED
  BY <1>8, <1>14, <1>15, <1>16

-----------------------------------------------------------------------------
(* The invariant of an agent a of node n, which reads log lg; l is the     *)
(* offset of its request in flight once that has landed.                   *)

(* Some view among the first k shows the term that n believes in until d,  *)
(* with epoch e, and the term outlives the belief.                         *)
Backed(rf, k, n, d, e) ==
  \E i \in 1..k : /\ rf[i].state.holder = n /\ rf[i].state.epoch = e
                  /\ rf[i].state.expires >= d + Margin + W - TTL

(* The agent's view is that of the whole log up to its position, and the   *)
(* verdicts it remembers are those of the whole log.                       *)
ReaderInv(lg, rf, a) ==
  /\ a.nextOffset <= Len(lg)
  /\ a.view = rf[a.nextOffset + 1]
  /\ \A x \in a.ownOutcomes : x[1] < a.nextOffset /\ x[2] = verdict(lg, rf, x[1])

(* The record at offset l is the request that a has in flight.             *)
Own(lg, n, a, l) ==
  /\ l \in 0..Len(lg) - 1
  /\ lg[l + 1].value \in OwnValue
  /\ lg[l + 1].value.holder = n /\ lg[l + 1].value.kind = a.inflight.kind
  /\ a.inflight.kind = Renew => lg[l + 1].value.epoch = a.epoch
  /\ lg[l + 1].ts >= a.inflight.sentAt

FlightInv(lg, t, n, a, l) ==
  /\ a.lastSend <= t
  /\ a.inflight # Idle =>
       /\ a.inflight.kind \in {Claim, Renew} /\ a.inflight.sentAt = a.lastSend
       /\ l # NoOffset => Own(lg, n, a, l)
       /\ a.inflight.offset # NoOffset => a.inflight.offset = l

(* A request is settled when both its acknowledgement and its record are   *)
(* there: with only one of them, the record is ahead or its verdict is     *)
(* remembered.                                                             *)
AheadInv(a, l) ==
  a.inflight # Idle =>
    /\ a.inflight.offset # NoOffset => a.inflight.offset >= a.nextOffset
    /\ a.inflight.offset = NoOffset /\ l # NoOffset /\ l < a.nextOffset =>
         \E x \in a.ownOutcomes : x[1] = l

BeliefInv(rf, n, a) ==
  /\ a.deadline # ZeroTime => Backed(rf, a.nextOffset + 1, n, a.deadline, a.epoch)
  /\ a.epoch <= rf[a.nextOffset + 1].state.epoch

AgentInv(lg, rf, t, n, a, l) ==
  /\ a.holder = n
  /\ ReaderInv(lg, rf, a)
  /\ FlightInv(lg, t, n, a, l)
  /\ AheadInv(a, l)
  /\ BeliefInv(rf, n, a)

(* From a to b the request in flight is the same, or it has landed.        *)
FlightKept(a, b, l) ==
  /\ b.lastSend = a.lastSend
  /\ a.inflight = Idle => b.inflight = Idle
  /\ \/ /\ b.inflight.kind = a.inflight.kind /\ b.inflight.sentAt = a.inflight.sentAt
        /\ b.epoch = a.epoch
     \/ l # NoOffset

(* The fields that the invariant is about.                                 *)
SameCore(a, b) ==
  /\ b.holder = a.holder /\ b.view = a.view /\ b.nextOffset = a.nextOffset
  /\ b.ownOutcomes = a.ownOutcomes /\ b.epoch = a.epoch /\ b.deadline = a.deadline
  /\ b.inflight = a.inflight /\ b.lastSend = a.lastSend

(* What an agent's invariant is about is its core.                         *)
LEMMA CoreInv ==
  ASSUME NEW lg, NEW rf, NEW t, NEW n, NEW l, NEW a, NEW b,
         AgentInv(lg, rf, t, n, a, l), SameCore(a, b)
  PROVE  AgentInv(lg, rf, t, n, b, l)
<1>1. ReaderInv(lg, rf, b)
  BY DEF AgentInv, SameCore, ReaderInv
<1>2. FlightInv(lg, t, n, b, l)
  BY DEF AgentInv, SameCore, FlightInv, Own
<1>3. AheadInv(b, l)
  BY DEF AgentInv, SameCore, AheadInv
<1>4. BeliefInv(rf, n, b)
  BY DEF AgentInv, SameCore, BeliefInv
<1> QED
  BY <1>1, <1>2, <1>3, <1>4 DEF AgentInv, SameCore

(* What is before the position is a record of the log, with a view.        *)
LEMMA Before ==
  ASSUME NEW k \in Nat, NEW m \in Nat, k <= m, NEW i \in Nat, i < k
  PROVE  i + 1 \in 1..m /\ i + 1 \in 1..m + 1
OBVIOUS

(* A longer log and a later time disturb no agent.                         *)
LEMMA AgentLonger ==
  ASSUME NEW lg \in Seq(Entry), NEW rf \in Seq(ViewOf(Node)), NEW lg2 \in Seq(Entry),
         NEW rf2 \in Seq(ViewOf(Node)), Len(rf) = Len(lg) + 1, Longer(lg, rf, lg2, rf2),
         NEW t \in Int, NEW t2 \in Int, t <= t2,
         NEW n, NEW l \in Int, NEW a \in AgentOf(Node), AgentInv(lg, rf, t, n, a, l)
  PROVE  AgentInv(lg2, rf2, t2, n, a, l)
<1>0. a.nextOffset \in Nat /\ a.lastSend \in Int /\ a.ownOutcomes \in SUBSET (Nat \X Outcome)
  BY AgentFields
<1>00. Len(lg) \in Nat /\ Len(rf) \in Nat /\ Len(lg2) \in Nat /\ Len(rf2) \in Nat
  OBVIOUS
<1>1. a.nextOffset + 1 \in 1..Len(rf) /\ a.nextOffset <= Len(lg)
  BY <1>0, <1>00 DEF AgentInv, ReaderInv
<1>2. ReaderInv(lg2, rf2, a)
  <2>1. a.nextOffset <= Len(lg2) /\ a.view = rf2[a.nextOffset + 1]
    BY <1>0, <1>00, <1>1 DEF AgentInv, ReaderInv, Longer
  <2>2. ASSUME NEW x \in a.ownOutcomes
        PROVE  x[1] < a.nextOffset /\ x[2] = verdict(lg2, rf2, x[1])
    <3>1. x[1] < a.nextOffset /\ x[2] = verdict(lg, rf, x[1]) /\ x[1] \in Nat
      BY <1>0 DEF AgentInv, ReaderInv
    <3>2. x[1] + 1 \in 1..Len(lg) /\ x[1] + 1 \in 1..Len(rf)
      <4>1. \A i \in Nat : i < a.nextOffset => i + 1 \in 1..Len(lg) /\ i + 1 \in 1..Len(rf)
        BY <1>0, <1>00, <1>1, Before, Zenon
      <4> QED
        BY <3>1, <4>1, Zenon
    <3>3. lg2[x[1] + 1] = lg[x[1] + 1] /\ rf2[x[1] + 1] = rf[x[1] + 1]
      BY <3>2 DEF Longer
    <3> QED
      BY <3>1, <3>3 DEF verdict
  <2> QED
    BY <2>1, <2>2 DEF ReaderInv
<1>3. FlightInv(lg2, t2, n, a, l)
  <2>1. Own(lg, n, a, l) => Own(lg2, n, a, l)
    BY <1>00 DEF Own, Longer
  <2> QED
    BY <1>0, <2>1 DEF AgentInv, FlightInv
<1>4. BeliefInv(rf2, n, a)
  <2>1. rf2[a.nextOffset + 1] = rf[a.nextOffset + 1]
    BY <1>1 DEF Longer
  <2>2. \A i \in 1..a.nextOffset + 1 : rf2[i] = rf[i]
    BY <1>0, <1>00, <1>1 DEF Longer
  <2> QED
    BY <2>1, <2>2 DEF AgentInv, BeliefInv, Backed
<1> QED
  BY <1>2, <1>3, <1>4 DEF AgentInv

-----------------------------------------------------------------------------
(* A term of a wire TTL from s covers a belief that counts from q <= s.    *)
LEMMA BeliefArithmetic ==
  ASSUME NEW x \in Int, NEW s \in Int, NEW q \in Int, x >= s + W, s >= q
  PROVE  x >= (q + TTL - Margin) + Margin + W - TTL
BY WireInt, TTLAssumption, ConfigAssumption

(* An accepted request in flight backs the belief that counts from when it *)
(* was sent.                                                               *)
LEMMA AcceptedBacks ==
  ASSUME NEW lg \in Seq(Entry), NEW rf \in Seq(ViewOf(Node)), NEW t, HistoryInv(lg, rf, t),
         NEW n, NEW l \in Int, NEW a \in AgentOf(Node),
         Own(lg, n, a, l), a.inflight.kind \in {Claim, Renew},
         l < a.nextOffset, a.nextOffset <= Len(lg)
  PROVE  /\ verdict(lg, rf, l) \in {Accepted, Rejected}
         /\ verdict(lg, rf, l) = Accepted =>
              LET e == IF a.inflight.kind = Claim THEN l ELSE a.epoch
              IN  /\ Backed(rf, a.nextOffset + 1, n, a.inflight.sentAt + TTL - Margin, e)
                  /\ e <= rf[a.nextOffset + 1].state.epoch
<1> DEFINE x == lg[l + 1].value
           s == lg[l + 1].ts
           v == rf[l + 1]
           w == rf[l + 2]
           e == IF a.inflight.kind = Claim THEN l ELSE a.epoch
<1>1. a.nextOffset \in Nat /\ a.inflight.sentAt \in Int /\ a.epoch \in Int
  BY AgentFields DEF InFlight
<1>2. l + 1 \in 1..Len(lg) /\ l + 2 \in 1..a.nextOffset + 1 /\ a.nextOffset + 1 \in 1..Len(rf)
      /\ Len(rf) = Len(lg) + 1 /\ l + 1 \in 1..Len(rf) /\ l + 2 \in 1..Len(rf)
  <2>1. l >= 0 /\ Len(rf) = Len(lg) + 1 /\ Len(lg) \in Nat
    BY DEF Own, HistoryInv, FoldInv
  <2> QED
    BY <1>1, <2>1
<1>3. v \in ViewOf(Node) /\ v.certain /\ w \in ViewOf(Node)
  BY <1>2 DEF HistoryInv, ViewInv
<1>4. s \in Int
  <2>1. lg[l + 1] \in Entry
    BY <1>2
  <2> QED
    BY <2>1 DEF Entry
<1>5. x \in OwnValue /\ x.kind \in {Claim, Renew} /\ x.holder = n /\ x.kind = a.inflight.kind
      /\ (x.kind = Renew => x.epoch = a.epoch) /\ s >= a.inflight.sentAt
  BY DEF Own
<1>6. w = viewAfter(v, l, s, x)
  <2>1. rf[(l + 1) + 1] = viewAfter(rf[l + 1], (l + 1) - 1, s, x)
    BY <1>2 DEF HistoryInv, FoldInv
  <2>2. (l + 1) + 1 = l + 2 /\ (l + 1) - 1 = l
    OBVIOUS
  <2> QED
    BY <2>1, <2>2
<1>7. verdict(lg, rf, l) = Apply(v, DecodeValue(x, l, s)).outcome
  BY DEF verdict
<1> HIDE DEF x, s, v, w
<1>8. /\ verdict(lg, rf, l) \in {Accepted, Rejected}
      /\ verdict(lg, rf, l) = Accepted =>
           /\ w.state.holder = n /\ w.state.epoch = e /\ w.state.expires >= s + W
  <2>1. Claim # Renew
    BY DEF Claim, Renew
  <2> QED
    BY <1>3, <1>4, <1>5, <1>6, <1>7, <2>1, AcceptedFacts
<1>9. w.state.epoch <= rf[a.nextOffset + 1].state.epoch
  BY <1>1, <1>2 DEF HistoryInv, TermInv, w
<1>10. ASSUME verdict(lg, rf, l) = Accepted
       PROVE  Backed(rf, a.nextOffset + 1, n, a.inflight.sentAt + TTL - Margin, e)
  <2>1. w.state.expires \in Int
    BY <1>3, ViewFields
  <2>2. w.state.expires >= (a.inflight.sentAt + TTL - Margin) + Margin + W - TTL
    BY <1>1, <1>4, <1>5, <1>8, <1>10, <2>1, BeliefArithmetic
  <2> QED
    BY <1>2, <1>8, <1>10, <2>2 DEF Backed, w
<1> QED
  BY <1>8, <1>9, <1>10

(* Settling a request that is behind the reader restores the invariant.    *)
LEMMA SettleInv ==
  ASSUME NEW lg \in Seq(Entry), NEW rf \in Seq(ViewOf(Node)), NEW t \in Int, HistoryInv(lg, rf, t),
         NEW n, NEW l \in Int, NEW a \in AgentOf(Node), a.holder = n,
         ReaderInv(lg, rf, a), FlightInv(lg, t, n, a, l), BeliefInv(rf, n, a),
         a.inflight # Idle, l # NoOffset, a.inflight.offset = l, l < a.nextOffset
  PROVE  LET b == settle(a, t, verdict(lg, rf, l))
         IN  /\ b \in AgentOf(Node) /\ AgentInv(lg, rf, t, n, b, l)
             /\ FlightKept(a, b, l)
<1> DEFINE out == verdict(lg, rf, l)
           b == settle(a, t, out)
<1>1. a.inflight.kind \in {Claim, Renew} /\ Own(lg, n, a, l)
  BY DEF FlightInv
<1>2. out \in {Accepted, Rejected} /\ a.nextOffset <= Len(lg)
  BY <1>1, AcceptedBacks DEF ReaderInv
<1>3. Settled(a, out, b)
  BY <1>1, <1>2, SettleFacts DEF Outcome
<1> HIDE DEF b, out
<1>4. ReaderInv(lg, rf, b)
  BY <1>3 DEF Settled, ReaderInv
<1>5. FlightInv(lg, t, n, b, l)
  BY <1>3 DEF Settled, FlightInv
<1>6. AheadInv(b, l)
  BY <1>3 DEF Settled, AheadInv
<1>7. BeliefInv(rf, n, b)
  <2>1. CASE b.deadline \in {a.deadline, ZeroTime} /\ b.epoch = a.epoch
    BY <1>3, <2>1 DEF Settled, BeliefInv
  <2>2. CASE /\ out = Accepted
             /\ b.deadline = a.inflight.sentAt + TTL - Margin
             /\ b.epoch = IF a.inflight.kind = Claim THEN a.inflight.offset ELSE a.epoch
    <3>1. /\ Backed(rf, a.nextOffset + 1, n, b.deadline, b.epoch)
          /\ b.epoch <= rf[a.nextOffset + 1].state.epoch
      BY <1>1, <1>2, <2>2, AcceptedBacks DEF out
    <3> QED
      BY <1>3, <3>1 DEF Settled, BeliefInv
  <2> QED
    BY <1>3, <2>1, <2>2 DEF Settled
<1> QED
  BY <1>3, <1>4, <1>5, <1>6, <1>7 DEF AgentInv, Settled, FlightKept, b, out

(* Dropping a belief disturbs nothing.                                     *)
LEMMA DropInv ==
  ASSUME NEW lg, NEW rf, NEW t, NEW n, NEW l, NEW a \in AgentOf(Node),
         AgentInv(lg, rf, t, n, a, l)
  PROVE  /\ dropBelief(a) \in AgentOf(Node)
         /\ AgentInv(lg, rf, t, n, dropBelief(a), l)
         /\ dropBelief(a).view = a.view /\ dropBelief(a).nextOffset = a.nextOffset
         /\ dropBelief(a).deadline = ZeroTime /\ dropBelief(a).epoch = a.epoch
         /\ dropBelief(a).inflight = a.inflight /\ dropBelief(a).lastSend = a.lastSend
<1> DEFINE b == dropBelief(a)
<1>1. ZeroTime \in Int
  BY DEF ZeroTime
<1>2. b \in AgentOf(Node)
  BY <1>1, AgentFields, Zenon DEF dropBelief, AgentOf
<1>3. /\ b.holder = a.holder /\ b.view = a.view /\ b.nextOffset = a.nextOffset
      /\ b.ownOutcomes = a.ownOutcomes /\ b.epoch = a.epoch /\ b.deadline = ZeroTime
      /\ b.inflight = a.inflight /\ b.lastSend = a.lastSend
  BY Zenon DEF dropBelief, AgentOf
<1> HIDE DEF b
<1>4. ReaderInv(lg, rf, b)
  BY <1>3 DEF AgentInv, ReaderInv
<1>5. FlightInv(lg, t, n, b, l)
  BY <1>3 DEF AgentInv, FlightInv, Own
<1>6. AheadInv(b, l)
  BY <1>3 DEF AgentInv, AheadInv
<1>7. BeliefInv(rf, n, b)
  BY <1>3 DEF AgentInv, BeliefInv
<1> QED
  BY <1>2, <1>3, <1>4, <1>5, <1>6, <1>7 DEF AgentInv, b

(* c is agent a of node n one record further: at the record at offset o.   *)
Moved(rf, a, c) ==
  /\ c \in AgentOf(Node)
  /\ c.nextOffset = a.nextOffset + 1 /\ c.view = rf[a.nextOffset + 2]
  /\ c.holder = a.holder /\ c.ownOutcomes = a.ownOutcomes
  /\ c.epoch = a.epoch /\ c.deadline = a.deadline
  /\ c.inflight = a.inflight /\ c.lastSend = a.lastSend

(* What moving on keeps, and when the request in flight stays ahead.       *)
LEMMA MovedInv ==
  ASSUME NEW lg \in Seq(Entry), NEW rf \in Seq(ViewOf(Node)), NEW t \in Int, HistoryInv(lg, rf, t),
         NEW n, NEW l \in Int, NEW a \in AgentOf(Node), AgentInv(lg, rf, t, n, a, l),
         a.nextOffset < Len(lg), NEW c, Moved(rf, a, c)
  PROVE  /\ c.holder = n /\ ReaderInv(lg, rf, c) /\ FlightInv(lg, t, n, c, l) /\ BeliefInv(rf, n, c)
         /\ (a.inflight = Idle \/ l # a.nextOffset) => AgentInv(lg, rf, t, n, c, l)
<1> DEFINE o == a.nextOffset
<1>1. o \in Nat /\ a.epoch \in Int /\ a.ownOutcomes \in SUBSET (Nat \X Outcome)
      /\ a.inflight.offset \in Int
  BY AgentFields DEF InFlight
<1>2. o + 1 \in 1..Len(rf) /\ o + 2 \in 1..Len(rf) /\ o + 1 \in 1..o + 2 /\ o + 1 <= Len(lg)
  BY <1>1 DEF HistoryInv, FoldInv
<1>3. ReaderInv(lg, rf, c)
  <2>1. (o + 1) + 1 = o + 2
    BY <1>1
  <2>2. \A x \in a.ownOutcomes : x[1] < o + 1 /\ x[2] = verdict(lg, rf, x[1])
    BY <1>1 DEF AgentInv, ReaderInv
  <2> QED
    BY <1>1, <1>2, <2>1, <2>2 DEF ReaderInv, Moved
<1>4. FlightInv(lg, t, n, c, l)
  BY DEF AgentInv, FlightInv, Own, Moved
<1>5. BeliefInv(rf, n, c)
  <2>1. rf[o + 1].state.epoch <= rf[o + 2].state.epoch
    BY <1>2 DEF HistoryInv, TermInv
  <2>2. rf[o + 1].state.epoch \in Int /\ rf[o + 2].state.epoch \in Int
    <3>1. rf[o + 1] \in ViewOf(Node) /\ rf[o + 2] \in ViewOf(Node)
      BY <1>2
    <3> QED
      BY <3>1, ViewFields
  <2>3. a.epoch <= rf[o + 2].state.epoch
    <3>1. a.epoch <= rf[o + 1].state.epoch
      BY DEF AgentInv, BeliefInv
    <3> QED
      BY <1>1, <2>1, <2>2, <3>1, Transitive
  <2>4. Backed(rf, o + 1, n, a.deadline, a.epoch) => Backed(rf, o + 2, n, a.deadline, a.epoch)
    <3>1. \A i \in 1..o + 1 : i \in 1..o + 2
      BY <1>1
    <3> QED
      BY <3>1 DEF Backed
  <2>5. (o + 1) + 1 = o + 2
    BY <1>1
  <2>6. a.deadline # ZeroTime => Backed(rf, o + 1, n, a.deadline, a.epoch)
    BY DEF AgentInv, BeliefInv
  <2> QED
    BY <2>3, <2>4, <2>5, <2>6 DEF BeliefInv, Moved
<1>6. (a.inflight = Idle \/ l # o) => AheadInv(c, l)
  BY <1>1 DEF AgentInv, AheadInv, FlightInv, Moved
<1> QED
  BY <1>3, <1>4, <1>5, <1>6 DEF AgentInv, Moved

(* The agent once it has moved to the record at its position, and once it  *)
(* has the view v of it.                                                   *)
OneFurther(a, b, v) ==
  /\ b \in AgentOf(Node) /\ b.view = v
  /\ b.nextOffset = a.nextOffset + 1
  /\ b.holder = a.holder /\ b.ownOutcomes = a.ownOutcomes
  /\ b.epoch = a.epoch /\ b.deadline = a.deadline
  /\ b.inflight = a.inflight /\ b.lastSend = a.lastSend

(* Reading the next record moves the position by one, with no hole.        *)
LEMMA AdvancedFacts ==
  ASSUME NEW a \in AgentOf(Node), NEW t \in Int, NEW ts \in Int
  PROVE  OneFurther(a, advanced(a, t, a.nextOffset, ts), a.view)
<1> DEFINE b == [a EXCEPT !.view = a.view, !.caughtUpAt = a.caughtUpAt,
                          !.nextOffset = a.nextOffset + 1,
                          !.lastRecordAt = t, !.lastRecordBroker = ts]
<1>1. a.nextOffset + 1 \in Nat /\ ~(a.nextOffset > a.nextOffset)
  BY AgentFields
<1>2. advanced(a, t, a.nextOffset, ts) = b
  BY <1>1 DEF advanced
<1>3. b \in AgentOf(Node)
  BY <1>1, AgentFields, Zenon DEF AgentOf
<1>4. /\ b.nextOffset = a.nextOffset + 1 /\ b.view = a.view
      /\ b.holder = a.holder /\ b.ownOutcomes = a.ownOutcomes
      /\ b.epoch = a.epoch /\ b.deadline = a.deadline
      /\ b.inflight = a.inflight /\ b.lastSend = a.lastSend
  BY Zenon DEF AgentOf
<1> HIDE DEF b
<1> QED
  BY <1>2, <1>3, <1>4 DEF OneFurther

(* ... and then sets the view.                                             *)
LEMMA AppliedFacts ==
  ASSUME NEW a, NEW b, NEW u, OneFurther(a, b, u), NEW v \in ViewOf(Node)
  PROVE  OneFurther(a, [b EXCEPT !.view = v], v)
<1> DEFINE c == [b EXCEPT !.view = v]
<1>1. b \in AgentOf(Node)
  BY DEF OneFurther
<1>2. c \in AgentOf(Node)
  BY <1>1, AgentFields, Zenon DEF AgentOf
<1>3. /\ c.nextOffset = b.nextOffset /\ c.view = v
      /\ c.holder = b.holder /\ c.ownOutcomes = b.ownOutcomes
      /\ c.epoch = b.epoch /\ c.deadline = b.deadline
      /\ c.inflight = b.inflight /\ c.lastSend = b.lastSend
  BY <1>1, Zenon DEF AgentOf
<1> HIDE DEF c
<1>4. OneFurther(a, c, v)
  BY <1>2, <1>3 DEF OneFurther
<1> QED
  BY <1>4 DEF c

(* Reading an own record: it is settled, or its verdict remembered, or it  *)
(* is not the one in flight.                                               *)
LEMMA OwnRecordInv ==
  ASSUME NEW lg \in Seq(Entry), NEW rf \in Seq(ViewOf(Node)), NEW t \in Int, HistoryInv(lg, rf, t),
         NEW n \in Node, NEW l \in Int, NEW a \in AgentOf(Node), AgentInv(lg, rf, t, n, a, l),
         a.nextOffset < Len(lg), NEW c, Moved(rf, a, c),
         NEW x \in OwnValue, x = lg[a.nextOffset + 1].value
  PROVE  LET d == ownRecord(c, t, a.nextOffset, x.kind, verdict(lg, rf, a.nextOffset))
         IN  d \in AgentOf(Node) /\ AgentInv(lg, rf, t, n, d, l) /\ FlightKept(a, d, l)
<1> DEFINE o == a.nextOffset
           out == verdict(lg, rf, o)
           d == ownRecord(c, t, o, x.kind, out)
<1>1. /\ c.holder = n /\ ReaderInv(lg, rf, c) /\ FlightInv(lg, t, n, c, l) /\ BeliefInv(rf, n, c)
      /\ (a.inflight = Idle \/ l # o) => AgentInv(lg, rf, t, n, c, l)
  BY MovedInv
<1>2. c \in AgentOf(Node) /\ c.inflight = a.inflight /\ c.nextOffset = o + 1
      /\ c.ownOutcomes = a.ownOutcomes
  BY DEF Moved
<1>22. FlightKept(a, c, l)
  BY DEF Moved, FlightKept
<1>3. o \in Nat /\ o # NoOffset /\ c.inflight.offset \in Int
      /\ a.ownOutcomes \in SUBSET (Nat \X Outcome)
  BY <1>2, AgentFields DEF InFlight, NoOffset
<1>4. l = o /\ a.inflight # Idle => a.inflight.kind = x.kind
  BY <1>3 DEF AgentInv, FlightInv, Own
<1>5. CASE c.inflight.kind # x.kind
  <2>1. d = c
    BY <1>5 DEF ownRecord
  <2> QED
    BY <1>1, <1>2, <1>22, <1>4, <1>5, <2>1
<1>6. x.kind \in Kind /\ Idle.kind \notin Kind
  BY DEF OwnValue, Idle, Kind, Claim, Renew, Release
<1>7. CASE c.inflight.kind = x.kind /\ c.inflight.offset = NoOffset
  <2>1. c.inflight # Idle /\ x.kind \in {Claim, Renew}
    BY <1>1, <1>6, <1>7 DEF FlightInv
  <2>2. out \in Outcome
    <3>1. o + 1 \in 1..Len(rf) /\ o + 1 \in 1..Len(lg)
      BY <1>3 DEF HistoryInv, FoldInv
    <3>2. rf[o + 1] \in ViewOf(Node) /\ rf[o + 1].certain /\ lg[o + 1] \in Entry
      BY <3>1 DEF HistoryInv, ViewInv
    <3>3. lg[o + 1].ts \in Int
      BY <3>2 DEF Entry
    <3>4. Apply(rf[o + 1], DecodeValue(x, o, lg[o + 1].ts)).outcome \in {Accepted, Rejected}
      BY <1>3, <2>1, <3>2, <3>3, AcceptedFacts
    <3> QED
      BY <3>4 DEF verdict, Outcome
  <2>3. d = [c EXCEPT !.ownOutcomes = c.ownOutcomes \cup {<<o, out>>}]
    BY <1>7 DEF ownRecord
  <2> DEFINE stash == c.ownOutcomes \cup {<<o, out>>}
  <2>4. stash \in SUBSET (Nat \X Outcome)
    BY <1>2, <1>3, <2>2
  <2> HIDE DEF stash, out
  <2>5. d \in AgentOf(Node)
    BY <1>2, <2>3, <2>4, AgentFields, Zenon DEF AgentOf, stash
  <2>6. /\ d.holder = c.holder /\ d.view = c.view /\ d.nextOffset = c.nextOffset
        /\ d.ownOutcomes = stash /\ d.epoch = c.epoch /\ d.deadline = c.deadline
        /\ d.inflight = c.inflight /\ d.lastSend = c.lastSend
    BY <1>2, <2>3, Zenon DEF AgentOf, stash
  <2> HIDE DEF d
  <2>7. ReaderInv(lg, rf, d)
    <3>1. <<o, out>>[1] < c.nextOffset /\ <<o, out>>[2] = verdict(lg, rf, o) /\ <<o, out>>[1] = o
      BY <1>2, <1>3 DEF out
    <3> QED
      BY <1>1, <2>6, <3>1 DEF ReaderInv, stash
  <2>8. FlightInv(lg, t, n, d, l)
    BY <1>1, <2>6 DEF FlightInv, Own
  <2>9. AheadInv(d, l)
    <3>1. \A y \in a.ownOutcomes : y \in stash
      BY <1>2 DEF stash
    <3>2. <<o, out>> \in stash /\ <<o, out>>[1] = o
      BY DEF stash
    <3>3. l < o + 1 /\ l # NoOffset => \E y \in stash : y[1] = l
      <4>1. CASE l = o
        BY <3>2, <4>1
      <4>2. CASE l < o
        BY <1>2, <1>7, <2>1, <3>1, <4>2 DEF AgentInv, AheadInv
      <4> QED
        BY <1>3, <4>1, <4>2
    <3> QED
      BY <1>2, <1>7, <2>6, <3>3 DEF AheadInv
  <2>10. BeliefInv(rf, n, d)
    BY <1>1, <2>6 DEF BeliefInv
  <2>11. FlightKept(a, d, l)
    BY <1>22, <2>6 DEF FlightKept
  <2> QED
    BY <1>1, <2>5, <2>6, <2>7, <2>8, <2>9, <2>10, <2>11 DEF AgentInv, d, out
<1>8. CASE c.inflight.kind = x.kind /\ c.inflight.offset = o
  <2>1. c.inflight # Idle
    BY <1>6, <1>8
  <2>2. l = o
    BY <1>1, <1>3, <1>8, <2>1 DEF FlightInv
  <2>3. d = settle(c, t, out)
    BY <1>3, <1>8 DEF ownRecord
  <2>4. d \in AgentOf(Node) /\ AgentInv(lg, rf, t, n, d, l) /\ FlightKept(c, d, l)
    BY <1>1, <1>2, <1>3, <1>8, <2>1, <2>2, <2>3, SettleInv
  <2>5. FlightKept(a, d, l)
    BY <1>3, <1>22, <2>2, <2>4 DEF FlightKept
  <2> QED
    BY <2>4, <2>5
<1>9. CASE c.inflight.kind = x.kind /\ c.inflight.offset # NoOffset /\ c.inflight.offset # o
  <2>1. d = c
    BY <1>9 DEF ownRecord
  <2>2. c.inflight # Idle
    BY <1>6, <1>9
  <2>3. l # o
    BY <1>1, <1>9, <2>2 DEF FlightInv
  <2> QED
    BY <1>1, <1>2, <1>22, <2>1, <2>3
<1> QED
  BY <1>5, <1>7, <1>8, <1>9

(* Reading the next record keeps the invariant (agent.record).             *)
LEMMA RecordInv ==
  ASSUME NEW lg \in Seq(Entry), NEW rf \in Seq(ViewOf(Node)), NEW t \in Int, HistoryInv(lg, rf, t),
         NEW n \in Node, NEW l \in Int, NEW a \in AgentOf(Node), AgentInv(lg, rf, t, n, a, l),
         a.nextOffset < Len(lg)
  PROVE  LET o == a.nextOffset
             b == record(a, t, o, lg[o + 1].ts, lg[o + 1].value)
         IN  b \in AgentOf(Node) /\ AgentInv(lg, rf, t, n, b, l) /\ FlightKept(a, b, l)
<1> DEFINE o == a.nextOffset
           ts == lg[o + 1].ts
           x == lg[o + 1].value
           b == advanced(a, t, o, ts)
           rec == DecodeValue(x, o, ts)
           app == Apply(b.view, rec)
           c == [b EXCEPT !.view = app.view]
           d == IF rec.holder = a.holder THEN ownRecord(c, t, o, rec.kind, app.outcome) ELSE c
           res == record(a, t, o, ts, x)
<1>1. o \in Nat /\ o + 1 \in 1..Len(lg) /\ o + 1 \in 1..Len(rf) /\ o + 2 \in 1..Len(rf) /\ ~(o < o)
  BY AgentFields DEF HistoryInv, FoldInv
<1>2. lg[o + 1] \in Entry /\ rf[o + 2] \in ViewOf(Node) /\ rf[o + 1] \in ViewOf(Node)
  BY <1>1
<1>3. ts \in Int /\ x \in OwnValue \cup ForeignValues
  BY <1>2 DEF Entry
<1>4. rf[o + 2] = viewAfter(rf[o + 1], o, ts, x)
  <2>1. rf[(o + 1) + 1] = viewAfter(rf[o + 1], (o + 1) - 1, ts, x)
    BY <1>1 DEF HistoryInv, FoldInv
  <2>2. (o + 1) + 1 = o + 2 /\ (o + 1) - 1 = o
    BY <1>1
  <2> QED
    BY <2>1, <2>2
<1>5. a.view = rf[o + 1] /\ a.holder = n
  BY DEF AgentInv, ReaderInv
<1>6. res = IF ~Decodes(x) THEN b ELSE confirmBelief(d, t)
  BY <1>1 DEF record
<1> HIDE DEF ts, x, res
<1>7. OneFurther(a, b, rf[o + 1])
  BY <1>3, <1>5, AdvancedFacts
<1> HIDE DEF b
<1>8. CASE ~Decodes(x)
  <2>1. rf[o + 2] = rf[o + 1]
    BY <1>4, <1>8 DEF viewAfter
  <2>2. Moved(rf, a, b)
    BY <1>7, <2>1 DEF Moved, OneFurther
  <2>3. a.inflight = Idle \/ l # o
    <3>1. x \notin OwnValue
      BY <1>1, <1>3, <1>8, DecodeOwn
    <3> QED
      BY <1>1, <3>1 DEF AgentInv, FlightInv, Own, x, NoOffset
  <2>4. b \in AgentOf(Node) /\ AgentInv(lg, rf, t, n, b, l)
    BY <2>2, <2>3, MovedInv DEF Moved
  <2>5. FlightKept(a, b, l)
    BY <2>2 DEF Moved, FlightKept
  <2> QED
    BY <1>6, <1>8, <2>4, <2>5 DEF res, ts, x
<1>9. CASE Decodes(x)
  <2>1. app.view = rf[o + 2]
    BY <1>4, <1>7, <1>9 DEF viewAfter, OneFurther
  <2>2. app.outcome = verdict(lg, rf, o)
    BY <1>7 DEF verdict, ts, x, OneFurther
  <2>3. Moved(rf, a, c)
    <3>1. OneFurther(a, c, rf[o + 2])
      BY <1>2, <1>7, <2>1, AppliedFacts
    <3> QED
      BY <3>1 DEF Moved, OneFurther
  <2> HIDE DEF app, c
  <2>4. d \in AgentOf(Node) /\ AgentInv(lg, rf, t, n, d, l) /\ FlightKept(a, d, l)
    <3>1. CASE x \in OwnValue /\ rec.holder = a.holder
      <4>1. rec.kind = x.kind
        BY <1>1, <1>3, <3>1, DecodeOwn
      <4>2. d = ownRecord(c, t, o, x.kind, verdict(lg, rf, o))
        BY <2>2, <3>1, <4>1
      <4>3. x = lg[o + 1].value
        BY DEF x
      <4> HIDE DEF d, o
      <4> QED
        BY <2>3, <3>1, <4>2, <4>3, OwnRecordInv DEF o
    <3>2. CASE ~(x \in OwnValue /\ rec.holder = a.holder)
      <4>1. rec.holder = x.holder
        BY DEF DecodeValue
      <4>2. rec.holder # a.holder
        BY <1>3, <1>5, <1>9, <3>2, <4>1, ForeignAssumption
      <4>3. a.inflight = Idle \/ l # o
        BY <1>1, <1>5, <4>1, <4>2 DEF AgentInv, FlightInv, Own, x, NoOffset
      <4>4. FlightKept(a, c, l)
        BY <2>3 DEF Moved, FlightKept
      <4> QED
        BY <2>3, <4>2, <4>3, <4>4, MovedInv DEF Moved
    <3> QED
      BY <3>1, <3>2
  <2> HIDE DEF d
  <2>5. confirmBelief(d, t) \in {d, dropBelief(d)}
    BY DEF confirmBelief
  <2>6. confirmBelief(d, t) \in AgentOf(Node) /\ AgentInv(lg, rf, t, n, confirmBelief(d, t), l)
    BY <2>4, <2>5, DropInv
  <2>7. FlightKept(a, confirmBelief(d, t), l)
    <3>1. /\ dropBelief(d).epoch = d.epoch /\ dropBelief(d).inflight = d.inflight
          /\ dropBelief(d).lastSend = d.lastSend
      BY <2>4, Zenon DEF dropBelief, AgentOf
    <3>2. FlightKept(a, d, l)
      BY <2>4
    <3>3. FlightKept(a, dropBelief(d), l)
      BY <3>1, <3>2 DEF FlightKept
    <3> QED
      BY <2>5, <3>2, <3>3
  <2> QED
    BY <1>6, <1>9, <2>6, <2>7 DEF res, ts, x
<1> QED
  BY <1>8, <1>9

(* The results of fetches do not matter to the invariant.                  *)
LEMMA FetchedInv ==
  ASSUME NEW lg, NEW rf, NEW t \in Int, NEW n, NEW l, NEW a \in AgentOf(Node),
         AgentInv(lg, rf, t, n, a, l), NEW h \in Nat
  PROVE  /\ fetched(a, t, h) \in AgentOf(Node) /\ AgentInv(lg, rf, t, n, fetched(a, t, h), l)
         /\ SameCore(a, fetched(a, t, h))
         /\ fetchFailed(a) \in AgentOf(Node) /\ AgentInv(lg, rf, t, n, fetchFailed(a), l)
         /\ SameCore(a, fetchFailed(a))
<1> DEFINE b == fetched(a, t, h)
           c == fetchFailed(a)
           at == IF a.connected THEN a.caughtUpAt ELSE t
           hw == IF h > a.highWater THEN h ELSE a.highWater
<1>1. at \in Int /\ hw \in Nat
  BY AgentFields
<1>2. b = [a EXCEPT !.connected = TRUE, !.caughtUpAt = at, !.highWater = hw]
  BY Zenon DEF fetched
<1> HIDE DEF at, hw
<1>3. TRUE \in BOOLEAN /\ FALSE \in BOOLEAN
  OBVIOUS
<1>4. b \in AgentOf(Node)
  BY <1>1, <1>2, <1>3, AgentFields, Zenon DEF AgentOf
<1>5. SameCore(a, b)
  BY <1>2, Zenon DEF AgentOf, SameCore
<1>6. c \in AgentOf(Node)
  BY <1>3, AgentFields, Zenon DEF AgentOf, fetchFailed
<1>7. SameCore(a, c)
  BY Zenon DEF AgentOf, SameCore, fetchFailed
<1> QED
  BY <1>4, <1>5, <1>6, <1>7, CoreInv

(* The acknowledgement of the request in flight keeps the invariant.       *)
LEMMA AckedInv ==
  ASSUME NEW lg \in Seq(Entry), NEW rf \in Seq(ViewOf(Node)), NEW t \in Int, HistoryInv(lg, rf, t),
         NEW n, NEW l \in Int, NEW a \in AgentOf(Node), AgentInv(lg, rf, t, n, a, l),
         a.inflight # Idle, a.inflight.offset = NoOffset, l # NoOffset
  PROVE  /\ acked(a, t, l) \in AgentOf(Node) /\ AgentInv(lg, rf, t, n, acked(a, t, l), l)
         /\ FlightKept(a, acked(a, t, l), l)
<1> DEFINE f == [a.inflight EXCEPT !.offset = l]
           b == [a EXCEPT !.inflight = f]
           read == {x \in a.ownOutcomes : x[1] = l}
<1>1. a.inflight \in InFlight /\ a.nextOffset \in Nat
  BY AgentFields
<1>2. f \in InFlight /\ f.kind = a.inflight.kind /\ f.sentAt = a.inflight.sentAt /\ f.offset = l
  BY <1>1 DEF InFlight
<1>3. a.inflight.kind \in {Claim, Renew}
  BY DEF AgentInv, FlightInv
<1>4. f # Idle
  BY <1>2, <1>3 DEF Idle, Claim, Renew
<1> HIDE DEF f
<1>5. b \in AgentOf(Node)
  BY <1>2, AgentFields, Zenon DEF AgentOf
<1>6. /\ b.holder = a.holder /\ b.view = a.view /\ b.nextOffset = a.nextOffset
      /\ b.ownOutcomes = a.ownOutcomes /\ b.epoch = a.epoch /\ b.deadline = a.deadline
      /\ b.inflight = f /\ b.lastSend = a.lastSend
  BY Zenon DEF AgentOf
<1>7. acked(a, t, l) = IF read = {} THEN b ELSE settle(b, t, (CHOOSE x \in read : TRUE)[2])
  BY DEF acked, f
<1> HIDE DEF b
<1>8. ReaderInv(lg, rf, b)
  BY <1>6 DEF AgentInv, ReaderInv
<1>9. FlightInv(lg, t, n, b, l)
  BY <1>2, <1>6 DEF AgentInv, FlightInv, Own
<1>10. BeliefInv(rf, n, b)
  BY <1>6 DEF AgentInv, BeliefInv
<1>11. CASE read = {}
  <2>1. ~(l < a.nextOffset)
    BY <1>11 DEF AgentInv, AheadInv
  <2>2. AheadInv(b, l)
    BY <1>1, <1>2, <1>6, <2>1 DEF AheadInv
  <2> QED
    BY <1>2, <1>5, <1>6, <1>7, <1>8, <1>9, <1>10, <1>11, <2>2 DEF AgentInv, FlightKept
<1>12. CASE read # {}
  <2>1. PICK x \in read : x = CHOOSE y \in read : TRUE
    BY <1>12
  <2>2. x[1] = l /\ l < a.nextOffset /\ x[2] = verdict(lg, rf, l)
    BY DEF AgentInv, ReaderInv
  <2>3. acked(a, t, l) = settle(b, t, verdict(lg, rf, l))
    BY <1>7, <1>12, <2>1, <2>2
  <2>4. acked(a, t, l) \in AgentOf(Node) /\ AgentInv(lg, rf, t, n, acked(a, t, l), l)
    BY <1>2, <1>4, <1>5, <1>6, <1>8, <1>9, <1>10, <2>2, <2>3, SettleInv DEF AgentInv
  <2>5. FlightKept(a, acked(a, t, l), l)
    <3>1. FlightKept(b, acked(a, t, l), l)
      BY <1>2, <1>4, <1>5, <1>6, <1>8, <1>9, <1>10, <2>2, <2>3, SettleInv DEF AgentInv
    <3> QED
      BY <1>6, <3>1 DEF FlightKept
  <2> QED
    BY <2>4, <2>5
<1> QED
  BY <1>11, <1>12

(* A request that failed is forgotten, wherever it may land.               *)
LEMMA AckFailedInv ==
  ASSUME NEW lg, NEW rf, NEW t \in Int, NEW n, NEW l, NEW a \in AgentOf(Node),
         AgentInv(lg, rf, t, n, a, l), a.inflight # Idle
  PROVE  /\ ackFailed(a, t) \in AgentOf(Node) /\ AgentInv(lg, rf, t, n, ackFailed(a, t), NoOffset)
         /\ ackFailed(a, t).inflight = Idle /\ ackFailed(a, t).lastSend = a.lastSend
<1> DEFINE at == IF a.inflight.kind = Claim THEN t + RenewEvery ELSE a.nextClaimAt
           b == [a EXCEPT !.inflight = Idle, !.nextClaimAt = at]
<1>1. at \in Int
  BY AgentFields, ConfigAssumption
<1>2. ackFailed(a, t) = b
  BY Zenon DEF ackFailed
<1> HIDE DEF at
<1>3. b \in AgentOf(Node)
  BY <1>1, AgentFields, IdleType, Zenon DEF AgentOf
<1>4. /\ b.holder = a.holder /\ b.view = a.view /\ b.nextOffset = a.nextOffset
      /\ b.ownOutcomes = a.ownOutcomes /\ b.epoch = a.epoch /\ b.deadline = a.deadline
      /\ b.inflight = Idle /\ b.lastSend = a.lastSend
  BY Zenon DEF AgentOf
<1> HIDE DEF b
<1>5. ReaderInv(lg, rf, b) /\ BeliefInv(rf, n, b)
  BY <1>4 DEF AgentInv, ReaderInv, BeliefInv
<1>6. FlightInv(lg, t, n, b, NoOffset) /\ AheadInv(b, NoOffset)
  BY <1>4 DEF AgentInv, FlightInv, AheadInv
<1> QED
  BY <1>2, <1>3, <1>4, <1>5, <1>6 DEF AgentInv

(* What tick hands out, and the agent it leaves: a record only when no     *)
(* other is in flight, and otherwise at most a belief that expired.        *)
LEMMA TickFacts ==
  ASSUME NEW a \in AgentOf(Node), NEW t \in Int, a.view.certain
  PROVE  \/ /\ tick(a, t).out = {}
            /\ tick(a, t).agent \in {a, dropBelief(a)}
         \/ \E k \in {Claim, Renew} : \E b \in {a, dropBelief(a)} :
              /\ b.inflight = Idle /\ tick(a, t) = send(b, t, k)
              /\ k = Renew <=> believing(b, t)
<1> DEFINE b == aged(a, t)
<1>1. ~silent(a, t)
  BY DEF silent
<1>2. b \in {a, dropBelief(a)}
  <2>1. CASE believing(a, t)
    <3>1. b = [a EXCEPT !.deadline = a.deadline, !.view = a.view]
      BY <1>1, <2>1, Zenon DEF aged
    <3>2. b = a
      BY <3>1, Zenon DEF AgentOf
    <3> QED
      BY <3>2
  <2>2. CASE ~believing(a, t)
    <3>1. b = [a EXCEPT !.deadline = ZeroTime, !.view = a.view]
      BY <1>1, <2>2, Zenon DEF aged
    <3>2. b = dropBelief(a)
      BY <3>1, Zenon DEF AgentOf, dropBelief
    <3> QED
      BY <3>2
  <2> QED
    BY <2>1, <2>2
<1> HIDE DEF b
<1>3. \/ tick(a, t) = [agent |-> b, out |-> {}]
      \/ b.inflight = Idle /\ tick(a, t) = send(b, t, Renew) /\ believing(b, t)
      \/ b.inflight = Idle /\ tick(a, t) = send(b, t, Claim) /\ ~believing(b, t)
  BY Zenon DEF tick, b
<1>4. CASE tick(a, t) = [agent |-> b, out |-> {}]
  <2>1. tick(a, t).out = {} /\ tick(a, t).agent = b
    BY <1>4
  <2> QED
    BY <1>2, <2>1
<1>5. Claim # Renew
  BY DEF Claim, Renew
<1>6. CASE b.inflight = Idle /\ tick(a, t) = send(b, t, Renew) /\ believing(b, t)
  BY <1>2, <1>6
<1>7. CASE b.inflight = Idle /\ tick(a, t) = send(b, t, Claim) /\ ~believing(b, t)
  BY <1>2, <1>5, <1>7
<1> QED
  BY <1>3, <1>4, <1>6, <1>7

(* Sending keeps the invariant; nothing has landed yet.                    *)
LEMMA SendInv ==
  ASSUME NEW lg, NEW rf, NEW t \in Int, NEW n, NEW l, NEW a \in AgentOf(Node),
         AgentInv(lg, rf, t, n, a, l), a.inflight = Idle, NEW k \in {Claim, Renew}
  PROVE  LET b == send(a, t, k).agent
         IN  /\ b \in AgentOf(Node) /\ AgentInv(lg, rf, t, n, b, NoOffset)
             /\ b.inflight.kind = k /\ b.inflight.sentAt = t
             /\ b.lastSend = t /\ b.epoch = a.epoch /\ b.deadline = a.deadline
             /\ send(a, t, k).out = {newRecord(a, k, a.epoch)}
<1> DEFINE f == [kind |-> k, sentAt |-> t, offset |-> NoOffset]
           b == [a EXCEPT !.inflight = f, !.lastSend = t]
<1>1. f \in InFlight /\ f.kind = k /\ f.sentAt = t /\ f.offset = NoOffset
  BY DEF InFlight, NoOffset
<1>2. send(a, t, k).agent = b /\ send(a, t, k).out = {newRecord(a, k, a.epoch)}
  BY Zenon DEF send
<1> HIDE DEF f
<1>3. b \in AgentOf(Node)
  BY <1>1, AgentFields, Zenon DEF AgentOf
<1>4. /\ b.holder = a.holder /\ b.view = a.view /\ b.nextOffset = a.nextOffset
      /\ b.ownOutcomes = a.ownOutcomes /\ b.epoch = a.epoch /\ b.deadline = a.deadline
      /\ b.inflight = f /\ b.lastSend = t
  BY Zenon DEF AgentOf
<1> HIDE DEF b
<1>5. ReaderInv(lg, rf, b) /\ BeliefInv(rf, n, b)
  BY <1>4 DEF AgentInv, ReaderInv, BeliefInv
<1>6. FlightInv(lg, t, n, b, NoOffset) /\ AheadInv(b, NoOffset)
  BY <1>1, <1>4 DEF FlightInv, AheadInv
<1> QED
  BY <1>1, <1>2, <1>3, <1>4, <1>5, <1>6 DEF AgentInv
=============================================================================
