------------------------- MODULE LateReadersProofs -------------------------
(***************************************************************************)
(* Readers that start anywhere in the log agree with those that saw all of *)
(* it, as soon as they are certain.                                        *)
(*                                                                         *)
(* A reader that knows nothing trusts a record because its writer went on  *)
(* in that term later.  That is sound because writers keep their rules: a  *)
(* renew or a release is written only while all that its term has in the   *)
(* log was accepted, and nothing else of that term is under way.  The      *)
(* first part shows this of the writers, on top of the invariant of        *)
(* LeaseProtocolProofs, the second what a reader may conclude from it.     *)
(***************************************************************************)
EXTENDS LateReaders, LeaseProtocolProofs

-----------------------------------------------------------------------------
(* What reading and acknowledgements do to an agent a, l being where its   *)
(* request in flight has landed: the request stays as it is ...            *)
Kept(a, b) ==
  /\ b.lastSend = a.lastSend /\ b.epoch = a.epoch
  /\ b.deadline \in {a.deadline, ZeroTime}
  /\ b.inflight.kind = a.inflight.kind /\ b.inflight.sentAt = a.inflight.sentAt
  /\ b.inflight = Idle <=> a.inflight = Idle

(* ... or its verdict is in.  A belief outlives it only when the request   *)
(* was accepted, unless that was a claim, whose term the agent does not    *)
(* believe in then.                                                        *)
Resolved(lg, rf, t, a, b, l) ==
  /\ a.inflight # Idle /\ l # NoOffset
  /\ b.inflight = Idle /\ b.lastSend = a.lastSend
  /\ b.epoch = a.epoch \/ (a.inflight.kind = Claim /\ b.epoch = l)
  /\ b.deadline # ZeroTime =>
       /\ \/ b.epoch = a.epoch /\ (b.deadline = a.deadline \/ believing(a, t))
          \/ a.inflight.kind = Claim /\ b.epoch = l /\ verdict(lg, rf, l) = Accepted
       /\ a.inflight.kind = Renew => verdict(lg, rf, l) = Accepted
       /\ b.deadline \in {a.deadline, a.inflight.sentAt + TTL - Margin}

Moves(lg, rf, t, a, b, l) == Kept(a, b) \/ Resolved(lg, rf, t, a, b, l)

(* The verdict on the request in flight settles it (agent.settle).         *)
LEMMA SettleResolves ==
  ASSUME NEW lg, NEW rf, NEW t \in Int, NEW a \in AgentOf(Node), NEW l, l # NoOffset,
         a.inflight # Idle, a.inflight.kind \in {Claim, Renew}, a.inflight.offset = l,
         verdict(lg, rf, l) \in {Accepted, Rejected}
  PROVE  Resolved(lg, rf, t, a, settle(a, t, verdict(lg, rf, l)), l)
<1> DEFINE out == verdict(lg, rf, l)
           b == [a EXCEPT !.inflight = Idle, !.ownOutcomes = {}]
           c == settle(a, t, out)
           at == a.inflight.sentAt + TTL - Margin
<1> HIDE DEF b, out
<1>1. /\ b.lastSend = a.lastSend /\ b.epoch = a.epoch /\ b.deadline = a.deadline
      /\ b.inflight = Idle
  BY Zenon DEF b, AgentOf
<1>2. b \in AgentOf(Node)
  BY AgentFields, IdleType, Zenon DEF b, AgentOf
<1>3. Claim # Renew /\ Accepted # Rejected /\ Pending # Accepted /\ Pending # Rejected
  BY DEF Claim, Renew, Pending, Accepted, Rejected
<1>4. c = CASE out = Pending -> b
            [] a.inflight.kind = Claim /\ out = Accepted ->
                 extendBelief([b EXCEPT !.epoch = a.inflight.offset], a.inflight.sentAt)
            [] a.inflight.kind = Claim /\ out = Rejected ->
                 [b EXCEPT !.nextClaimAt = t + claimBackoff(b, t)]
            [] a.inflight.kind = Renew /\ out = Accepted ->
                 IF believing(b, t) THEN extendBelief(b, a.inflight.sentAt) ELSE b
            [] a.inflight.kind = Renew /\ out = Rejected -> dropBelief(b)
  BY Zenon DEF settle, b
<1> HIDE DEF c
<1>5. CASE a.inflight.kind = Claim /\ out = Accepted
  <2> DEFINE e == [b EXCEPT !.epoch = a.inflight.offset]
  <2>1. c = [e EXCEPT !.deadline = at]
    BY <1>3, <1>4, <1>5 DEF extendBelief
  <2>2. c.lastSend = b.lastSend /\ c.inflight = b.inflight /\ c.epoch = l /\ c.deadline = at
    BY <1>2, <2>1, Zenon DEF AgentOf
  <2> QED
    BY <1>1, <1>3, <1>5, <2>2 DEF Resolved, out, c
<1>6. CASE a.inflight.kind = Claim /\ out = Rejected
  <2>1. c = [b EXCEPT !.nextClaimAt = t + claimBackoff(b, t)]
    BY <1>3, <1>4, <1>6
  <2>2. /\ c.lastSend = b.lastSend /\ c.inflight = b.inflight /\ c.epoch = b.epoch
        /\ c.deadline = b.deadline
    BY <1>2, <2>1, Zenon DEF AgentOf
  <2> QED
    BY <1>1, <1>3, <1>6, <2>2 DEF Resolved, out, c
<1>7. CASE a.inflight.kind = Renew /\ out = Accepted
  <2>1. CASE ~believing(b, t)
    <3>1. c = b
      BY <1>3, <1>4, <1>7, <2>1
    <3> QED
      BY <1>1, <1>3, <1>7, <3>1 DEF Resolved, out, c
  <2>2. CASE believing(b, t)
    <3>1. c = [b EXCEPT !.deadline = at]
      BY <1>3, <1>4, <1>7, <2>2 DEF extendBelief
    <3>2. /\ c.lastSend = b.lastSend /\ c.inflight = b.inflight /\ c.epoch = b.epoch
          /\ c.deadline = at
      BY <1>2, <3>1, Zenon DEF AgentOf
    <3>3. believing(a, t)
      BY <1>1, <2>2 DEF believing
    <3> QED
      BY <1>1, <1>3, <1>7, <3>2, <3>3 DEF Resolved, out, c
  <2> QED
    BY <2>1, <2>2
<1>8. CASE a.inflight.kind = Renew /\ out = Rejected
  <2>1. c = dropBelief(b)
    BY <1>3, <1>4, <1>8
  <2>2. /\ c.lastSend = b.lastSend /\ c.inflight = b.inflight /\ c.epoch = b.epoch
        /\ c.deadline = ZeroTime
    BY <1>2, <2>1, Zenon DEF AgentOf, dropBelief
  <2> QED
    BY <1>1, <1>3, <1>8, <2>2 DEF Resolved, out, c
<1> QED
  BY <1>5, <1>6, <1>7, <1>8 DEF out

(* A belief may also be dropped.                                           *)
LEMMA MovesDrop ==
  ASSUME NEW lg, NEW rf, NEW t, NEW a, NEW b \in AgentOf(Node), NEW l,
         Moves(lg, rf, t, a, b, l)
  PROVE  Moves(lg, rf, t, a, dropBelief(b), l)
<1>1. /\ dropBelief(b).lastSend = b.lastSend /\ dropBelief(b).epoch = b.epoch
      /\ dropBelief(b).deadline = ZeroTime /\ dropBelief(b).inflight = b.inflight
  BY Zenon DEF dropBelief, AgentOf
<1> QED
  BY <1>1 DEF Moves, Kept, Resolved

(* The verdict on a participant's claim or renew in the log.               *)
LEMMA VerdictOf ==
  ASSUME NEW lg \in Seq(Entry), NEW rf \in Seq(ViewOf(Node)), NEW t, HistoryInv(lg, rf, t),
         NEW o \in 0..Len(lg) - 1, lg[o + 1].value \in OwnValue,
         lg[o + 1].value.kind \in {Claim, Renew}
  PROVE  verdict(lg, rf, o) \in {Accepted, Rejected}
<1>1. o + 1 \in 1..Len(rf) /\ o + 1 \in 1..Len(lg) /\ o \in Int
  BY DEF HistoryInv, FoldInv
<1>2. rf[o + 1] \in ViewOf(Node) /\ rf[o + 1].certain /\ lg[o + 1] \in Entry
  BY <1>1 DEF HistoryInv, ViewInv
<1>3. lg[o + 1].ts \in Int
  BY <1>2 DEF Entry
<1> QED
  BY <1>1, <1>2, <1>3, AcceptedFacts DEF verdict

(* agent.record and agent.acked move the agent so.                         *)
LEMMA RecordMoves ==
  ASSUME NEW lg \in Seq(Entry), NEW rf \in Seq(ViewOf(Node)), NEW t \in Int, HistoryInv(lg, rf, t),
         NEW n \in Node, NEW l \in Int, NEW a \in AgentOf(Node), AgentInv(lg, rf, t, n, a, l),
         a.nextOffset < Len(lg)
  PROVE  LET o == a.nextOffset
         IN  Moves(lg, rf, t, a, record(a, t, o, lg[o + 1].ts, lg[o + 1].value), l)
<1> DEFINE o == a.nextOffset
           ts == lg[o + 1].ts
           x == lg[o + 1].value
           b == advanced(a, t, o, ts)
           rec == DecodeValue(x, o, ts)
           app == Apply(b.view, rec)
           c == [b EXCEPT !.view = app.view]
           d == IF rec.holder = a.holder THEN ownRecord(c, t, o, rec.kind, app.outcome) ELSE c
           res == record(a, t, o, ts, x)
<1>1. o \in Nat /\ o + 1 \in 1..Len(lg) /\ o + 1 \in 1..Len(rf) /\ o + 2 \in 1..Len(rf) /\ ~(o < o)
      /\ o \in 0..Len(lg) - 1 /\ o # NoOffset
  BY AgentFields DEF HistoryInv, FoldInv, NoOffset
<1>2. lg[o + 1] \in Entry /\ rf[o + 2] \in ViewOf(Node) /\ rf[o + 1] \in ViewOf(Node)
  BY <1>1
<1>3. ts \in Int /\ x \in OwnValue \cup ForeignValues
  BY <1>2 DEF Entry
<1>4. rf[o + 2] = viewAfter(rf[o + 1], o, ts, x)
  <2>1. rf[(o + 1) + 1] = viewAfter(rf[o + 1], (o + 1) - 1, ts, x)
    BY <1>1 DEF HistoryInv, FoldInv
  <2>2. (o + 1) + 1 = o + 2 /\ (o + 1) - 1 = o
    BY <1>1
  <2> QED
    BY <2>1, <2>2
<1>5. a.view = rf[o + 1] /\ a.holder = n
  BY DEF AgentInv, ReaderInv
<1>6. res = IF ~Decodes(x) THEN b ELSE confirmBelief(d, t)
  BY <1>1 DEF record
<1> HIDE DEF ts, x, res
<1>7. OneFurther(a, b, rf[o + 1])
  BY <1>3, <1>5, AdvancedFacts
<1> HIDE DEF b
<1>8. CASE ~Decodes(x)
  BY <1>6, <1>7, <1>8 DEF Moves, Kept, OneFurther, res, ts, x
<1>9. CASE Decodes(x)
  <2>1. app.view = rf[o + 2]
    BY <1>4, <1>7, <1>9 DEF viewAfter, OneFurther
  <2>2. app.outcome = verdict(lg, rf, o)
    BY <1>7 DEF verdict, ts, x, OneFurther
  <2>3. OneFurther(a, c, rf[o + 2])
    BY <1>2, <1>7, <2>1, AppliedFacts
  <2> HIDE DEF app, c
  <2>4. c \in AgentOf(Node) /\ c.inflight = a.inflight /\ c.deadline = a.deadline
        /\ c.epoch = a.epoch /\ c.lastSend = a.lastSend
    BY <2>3 DEF OneFurther
  <2>5. Kept(a, c)
    BY <2>4 DEF Kept
  <2>6. d \in AgentOf(Node) /\ Moves(lg, rf, t, a, d, l)
    <3>1. CASE d = c
      BY <2>4, <2>5, <3>1 DEF Moves
    <3>2. CASE d # c
      <4>1. rec.holder = a.holder /\ rec.holder = x.holder /\ rec.kind = x.kind
        BY <3>2 DEF DecodeValue
      <4>2. x \in OwnValue
        BY <1>3, <1>5, <1>9, <4>1, ForeignAssumption
      <4>3. d = ownRecord(c, t, o, x.kind, verdict(lg, rf, o))
        BY <2>2, <4>1
      <4>4. c.inflight.kind = x.kind
        BY <3>2, <4>3 DEF ownRecord
      <4>5. c.inflight # Idle
        BY <4>2, <4>4 DEF Idle, OwnValue, Kind, Claim, Renew, Release
      <4>6. x.kind \in {Claim, Renew} /\ (c.inflight.offset # NoOffset => c.inflight.offset = l)
        BY <2>4, <4>4, <4>5 DEF AgentInv, FlightInv
      <4>7. verdict(lg, rf, o) \in {Accepted, Rejected}
        BY <1>1, <4>2, <4>6, VerdictOf DEF x
      <4>8. CASE c.inflight.offset = NoOffset
        <5> DEFINE stash == c.ownOutcomes \cup {<<o, verdict(lg, rf, o)>>}
        <5>1. d = [c EXCEPT !.ownOutcomes = stash]
          BY <4>3, <4>4, <4>8 DEF ownRecord
        <5>2. stash \in SUBSET (Nat \X Outcome)
          <6>1. c.ownOutcomes \in SUBSET (Nat \X Outcome)
            BY <2>4, AgentFields
          <6> QED
            BY <1>1, <4>7, <6>1 DEF Outcome
        <5> HIDE DEF stash
        <5>3. d \in AgentOf(Node)
          BY <2>4, <5>1, <5>2, AgentFields, Zenon DEF AgentOf
        <5>4. d.inflight = c.inflight /\ d.deadline = c.deadline
              /\ d.epoch = c.epoch /\ d.lastSend = c.lastSend
          BY <2>4, <5>1, Zenon DEF AgentOf
        <5> QED
          BY <2>4, <5>3, <5>4 DEF Moves, Kept
      <4>9. CASE c.inflight.offset # NoOffset
        <5>1. c.inflight.offset = o /\ l = o /\ d = settle(c, t, verdict(lg, rf, o))
          BY <3>2, <4>3, <4>4, <4>6, <4>9 DEF ownRecord
        <5>2. Resolved(lg, rf, t, c, d, l)
          BY <1>1, <2>4, <4>4, <4>5, <4>6, <4>7, <5>1, SettleResolves
        <5>3. Settled(c, verdict(lg, rf, o), d)
          BY <2>4, <4>4, <4>6, <4>7, <5>1, SettleFacts DEF Outcome
        <5>4. Resolved(lg, rf, t, a, d, l)
          BY <2>4, <5>2 DEF Resolved, believing
        <5> QED
          BY <5>3, <5>4 DEF Moves, Settled
      <4> QED
        BY <4>8, <4>9
    <3> QED
      BY <3>1, <3>2
  <2> HIDE DEF d
  <2>7. confirmBelief(d, t) \in {d, dropBelief(d)}
    BY DEF confirmBelief
  <2>8. Moves(lg, rf, t, a, confirmBelief(d, t), l)
    BY <2>6, <2>7, MovesDrop
  <2> QED
    BY <1>6, <1>9, <2>8 DEF res, ts, x
<1> QED
  BY <1>8, <1>9

(* acked settles the request in flight or only notes its offset.           *)
LEMMA AckedMoves ==
  ASSUME NEW lg \in Seq(Entry), NEW rf \in Seq(ViewOf(Node)), NEW t \in Int, HistoryInv(lg, rf, t),
         NEW n, NEW l \in Int, NEW a \in AgentOf(Node), AgentInv(lg, rf, t, n, a, l),
         a.inflight # Idle, a.inflight.offset = NoOffset, l # NoOffset
  PROVE  Moves(lg, rf, t, a, acked(a, t, l), l)
<1> DEFINE f == [a.inflight EXCEPT !.offset = l]
           b == [a EXCEPT !.inflight = f]
           read == {x \in a.ownOutcomes : x[1] = l}
<1>1. a.inflight \in InFlight
  BY AgentFields
<1>2. f \in InFlight /\ f.kind = a.inflight.kind /\ f.sentAt = a.inflight.sentAt /\ f.offset = l
  BY <1>1 DEF InFlight
<1>3. a.inflight.kind \in {Claim, Renew} /\ Own(lg, n, a, l)
  BY DEF AgentInv, FlightInv
<1>4. f # Idle
  BY <1>2, <1>3 DEF Idle, Claim, Renew
<1> HIDE DEF f
<1>5. b \in AgentOf(Node)
  BY <1>2, AgentFields, Zenon DEF AgentOf
<1>6. /\ b.ownOutcomes = a.ownOutcomes /\ b.epoch = a.epoch /\ b.deadline = a.deadline
      /\ b.inflight = f /\ b.lastSend = a.lastSend
  BY Zenon DEF AgentOf
<1>7. acked(a, t, l) = IF read = {} THEN b ELSE settle(b, t, (CHOOSE x \in read : TRUE)[2])
  BY DEF acked, f
<1> HIDE DEF b
<1>8. CASE read = {}
  BY <1>2, <1>4, <1>6, <1>7, <1>8 DEF Moves, Kept
<1>9. CASE read # {}
  <2>1. PICK x \in read : x = CHOOSE y \in read : TRUE
    BY <1>9
  <2>2. x[2] = verdict(lg, rf, l)
    BY DEF AgentInv, ReaderInv
  <2>3. acked(a, t, l) = settle(b, t, verdict(lg, rf, l))
    BY <1>7, <1>9, <2>1, <2>2
  <2>4. verdict(lg, rf, l) \in {Accepted, Rejected}
    BY <1>3, VerdictOf DEF Own
  <2>5. Resolved(lg, rf, t, b, acked(a, t, l), l)
    BY <1>2, <1>3, <1>4, <1>5, <1>6, <2>3, <2>4, SettleResolves
  <2>6. Resolved(lg, rf, t, a, acked(a, t, l), l)
    BY <1>2, <1>6, <2>5 DEF Resolved, believing
  <2> QED
    BY <2>6 DEF Moves
<1> QED
  BY <1>8, <1>9

-----------------------------------------------------------------------------
(* The writers.                                                            *)

(* Value x at offset o starts or renews n's term e.                        *)
InTerm(x, o, n, e) ==
  /\ x.holder = n
  /\ \/ x.kind = Claim /\ o = e
     \/ x.kind = Renew /\ x.epoch = e

(* x is a renew or a release of n.                                         *)
Names(x, n) == x.holder = n /\ x.kind # Claim

(* All that n's term e has in the log was accepted, but for what is at l.  *)
Clean(lg, rf, n, e, l) ==
  \A o \in 0..Len(lg) - 1 :
    InTerm(lg[o + 1].value, o, n, e) /\ o # l => verdict(lg, rf, o) = Accepted

(* Where the request in flight is, if there is one.                        *)
flying(a, l) == IF a.inflight = Idle THEN NoOffset ELSE l

(* Agent a of node n, whose request in flight has landed at l, and the     *)
(* requests wr on the wire: no term is renewed before it is believed in,   *)
(* what is under way of a term is alone there, and the term is clean.      *)
NodeTerms(lg, rf, t, wr, n, a, l) ==
  /\ a.deadline # ZeroTime => a.deadline <= a.lastSend + TTL
  /\ a.inflight # Idle /\ a.inflight.kind = Claim /\ l # NoOffset => a.epoch < l
  /\ \A o \in 0..Len(lg) - 1 :
       Names(lg[o + 1].value, n) => lg[o + 1].value.epoch <= a.epoch
  /\ \A m \in wr : Names(m.value, n) =>
       /\ m.value.epoch <= a.epoch
       /\ Clean(lg, rf, n, m.value.epoch, NoOffset)
       /\ \A q \in wr : Names(q.value, n) /\ q.value.epoch = m.value.epoch => q = m
  /\ believing(a, t) =>
       /\ Clean(lg, rf, n, a.epoch, flying(a, l))
       /\ \A m \in wr : Names(m.value, n) /\ m.value.epoch = a.epoch => Pursued(a, l, m)

Terms == \A n \in Node : NodeTerms(log, ref, now, wire, n, agent[n], landed[n])

(* n's term e is clean, and nothing of it is under way.                    *)
QuietTerm(lg, rf, wr, n, e) ==
  /\ Clean(lg, rf, n, e, NoOffset)
  /\ \A m \in wr : ~(Names(m.value, n) /\ m.value.epoch = e)

(* A node that is about to write its release has a quiet term.             *)
Due == \A n \in Node : phase[n] = "releasing" => QuietTerm(log, ref, wire, n, agent[n].epoch)

(* The step of an agent that keeps its request, and of the nodes that take *)
(* no part in a step.                                                      *)
LEMMA TermsKept ==
  ASSUME NEW lg, NEW rf, NEW t \in Nat, NEW wr, NEW wr2, NEW n, NEW l,
         NEW a \in AgentOf(Node), NEW b \in AgentOf(Node),
         NodeTerms(lg, rf, t, wr, n, a, l), Kept(a, b),
         \A m \in wr2 : m.value.holder = n => m \in wr
  PROVE  NodeTerms(lg, rf, t, wr2, n, b, l)
<1>1. a.deadline \in Int /\ b.deadline \in Int
  BY AgentFields
<1>2. believing(b, t) => believing(a, t)
  BY <1>1 DEF Kept, believing, ZeroTime
<1>3. b.deadline # ZeroTime => b.deadline = a.deadline
  BY DEF Kept
<1>4. flying(b, l) = flying(a, l)
  BY DEF Kept, flying
<1>5. b.deadline # ZeroTime => b.deadline <= b.lastSend + TTL
  BY <1>3 DEF NodeTerms, Kept
<1>6. b.inflight # Idle /\ b.inflight.kind = Claim /\ l # NoOffset => b.epoch < l
  BY DEF NodeTerms, Kept
<1>7. ASSUME NEW m \in wr2, Names(m.value, n)
      PROVE  /\ m \in wr /\ m.value.epoch <= b.epoch
             /\ Clean(lg, rf, n, m.value.epoch, NoOffset)
             /\ \A q \in wr2 : Names(q.value, n) /\ q.value.epoch = m.value.epoch => q = m
  BY <1>7 DEF NodeTerms, Kept, Names
<1>8. ASSUME believing(b, t)
      PROVE  /\ Clean(lg, rf, n, b.epoch, flying(b, l))
             /\ \A m \in wr2 : Names(m.value, n) /\ m.value.epoch = b.epoch => Pursued(b, l, m)
  BY <1>2, <1>4, <1>7, <1>8 DEF NodeTerms, Kept, Pursued
<1> QED
  BY <1>5, <1>6, <1>7, <1>8 DEF NodeTerms, Kept

(* The verdict on the request is in.                                       *)
LEMMA TermsResolved ==
  ASSUME NEW lg, NEW rf, NEW t \in Nat, NEW wr, NEW n, NEW l \in Int,
         NEW a \in AgentOf(Node), NEW b \in AgentOf(Node),
         NodeTerms(lg, rf, t, wr, n, a, l), Resolved(lg, rf, t, a, b, l),
         FlightInv(lg, t, n, a, l),
         \A o \in 0..Len(lg) - 1 : Names(lg[o + 1].value, n) => lg[o + 1].value.epoch \in Int,
         \A m \in wr : m.value.epoch \in Int
  PROVE  NodeTerms(lg, rf, t, wr, n, b, l)
<1>1. /\ a.deadline \in Int /\ b.deadline \in Int /\ a.epoch \in Int /\ b.epoch \in Int
      /\ a.inflight.sentAt = a.lastSend /\ a.lastSend \in Int
      /\ TTL \in Int /\ Margin \in Nat
  BY AgentFields, TTLAssumption, ConfigAssumption DEF FlightInv, Resolved
<1>2. /\ a.inflight # Idle /\ l # NoOffset /\ b.inflight = Idle /\ b.lastSend = a.lastSend
      /\ a.inflight.kind \in {Claim, Renew} /\ Own(lg, n, a, l)
  BY DEF Resolved, FlightInv
<1>3. a.inflight.kind = Claim => a.epoch < l
  BY <1>2 DEF NodeTerms
<1>4. a.epoch <= b.epoch
  BY <1>1, <1>3 DEF Resolved
<1>5. b.deadline # ZeroTime => b.deadline <= b.lastSend + TTL
  BY <1>1, <1>2 DEF NodeTerms, Resolved
<1>6. ASSUME NEW o \in 0..Len(lg) - 1, Names(lg[o + 1].value, n)
      PROVE  lg[o + 1].value.epoch <= b.epoch
  BY <1>1, <1>4, <1>6 DEF NodeTerms
<1>7. ASSUME NEW m \in wr, Names(m.value, n)
      PROVE  m.value.epoch <= b.epoch
  BY <1>1, <1>4, <1>7 DEF NodeTerms
<1>8. ASSUME believing(b, t)
      PROVE  /\ Clean(lg, rf, n, b.epoch, NoOffset)
             /\ \A m \in wr : ~(Names(m.value, n) /\ m.value.epoch = b.epoch)
  <2>1. b.deadline # ZeroTime
    BY <1>1, <1>8 DEF believing, ZeroTime
  <2>2. CASE b.epoch = a.epoch /\ believing(a, t)
    <3>1. Clean(lg, rf, n, a.epoch, l)
      BY <1>2, <2>2 DEF NodeTerms, flying
    <3>2. ASSUME InTerm(lg[l + 1].value, l, n, a.epoch)
          PROVE  verdict(lg, rf, l) = Accepted
      BY <1>1, <1>2, <1>3, <2>1, <3>2 DEF Resolved, InTerm, Own, Claim, Renew
    <3>3. Clean(lg, rf, n, b.epoch, NoOffset)
      BY <2>2, <3>1, <3>2 DEF Clean
    <3>4. ASSUME NEW m \in wr, Names(m.value, n), m.value.epoch = b.epoch
          PROVE  FALSE
      BY <1>2, <2>2, <3>4 DEF NodeTerms, Pursued
    <3> QED
      BY <3>3, <3>4
  <2>3. CASE a.inflight.kind = Claim /\ b.epoch = l /\ verdict(lg, rf, l) = Accepted
    <3>1. ASSUME NEW o \in 0..Len(lg) - 1, InTerm(lg[o + 1].value, o, n, l)
          PROVE  verdict(lg, rf, o) = Accepted
      <4>1. CASE o = l
        BY <2>3, <4>1
      <4>2. CASE o # l
        <5>1. Names(lg[o + 1].value, n) /\ lg[o + 1].value.epoch = l
          BY <3>1, <4>2 DEF InTerm, Names, Claim, Renew
        <5>2. lg[o + 1].value.epoch <= a.epoch
          BY <5>1 DEF NodeTerms
        <5> QED
          BY <1>1, <1>3, <2>3, <5>1, <5>2
      <4> QED
        BY <4>1, <4>2
    <3>2. Clean(lg, rf, n, b.epoch, NoOffset)
      BY <2>3, <3>1 DEF Clean
    <3>3. ASSUME NEW m \in wr, Names(m.value, n), m.value.epoch = b.epoch
          PROVE  FALSE
      BY <1>1, <1>3, <2>3, <3>3 DEF NodeTerms
    <3> QED
      BY <3>2, <3>3
  <2> QED
    BY <1>8, <2>1, <2>2, <2>3 DEF Resolved, believing
<1>9. flying(b, l) = NoOffset
  BY <1>2 DEF flying
<1> QED
  BY <1>2, <1>5, <1>6, <1>7, <1>8, <1>9 DEF NodeTerms

(* The request failed: a belief that lasts knows that it never landed.     *)
LEMMA TermsFailed ==
  ASSUME NEW lg, NEW rf, NEW t \in Nat, NEW wr, NEW wr2, NEW n, NEW l \in Int,
         NEW a \in AgentOf(Node), NEW b \in AgentOf(Node),
         NodeTerms(lg, rf, t, wr, n, a, l), FlightInv(lg, t, n, a, l), a.inflight # Idle,
         b.inflight = Idle, b.lastSend = a.lastSend, b.epoch = a.epoch, b.deadline = a.deadline,
         wr2 \subseteq wr,
         \/ t - a.inflight.sentAt >= TTL
         \/ l = NoOffset /\ \A m \in wr2 : m.value.holder = n => ~Pursued(a, l, m)
  PROVE  NodeTerms(lg, rf, t, wr2, n, b, NoOffset)
<1>1. /\ a.deadline \in Int /\ a.lastSend \in Int /\ TTL \in Int
      /\ a.inflight.sentAt = a.lastSend
  BY AgentFields, TTLAssumption DEF FlightInv
<1>2. ASSUME believing(b, t)
      PROVE  /\ Clean(lg, rf, n, b.epoch, NoOffset)
             /\ \A m \in wr2 : ~(Names(m.value, n) /\ m.value.epoch = b.epoch)
  <2>1. believing(a, t) /\ a.deadline # ZeroTime
    BY <1>1, <1>2 DEF believing, ZeroTime
  <2>2. a.deadline <= a.lastSend + TTL
    BY <2>1 DEF NodeTerms
  <2>3. ~(t - a.inflight.sentAt >= TTL)
    BY <1>1, <2>1, <2>2 DEF believing
  <2>4. l = NoOffset /\ \A m \in wr2 : m.value.holder = n => ~Pursued(a, l, m)
    BY <2>3
  <2>5. Clean(lg, rf, n, a.epoch, NoOffset)
    BY <2>1, <2>4 DEF NodeTerms, flying
  <2> QED
    BY <2>1, <2>4, <2>5 DEF NodeTerms, Names
<1>3. flying(b, NoOffset) = NoOffset
  BY DEF flying
<1> QED
  BY <1>2, <1>3 DEF NodeTerms

(* The term of an agent that believes and has nothing in flight is quiet.  *)
LEMMA BelievedQuiet ==
  ASSUME NEW lg, NEW rf, NEW t, NEW wr, NEW n, NEW a, NEW l,
         NodeTerms(lg, rf, t, wr, n, a, l), a.inflight = Idle, believing(a, t),
         \A m \in wr : m.value.kind \in Kind
  PROVE  QuietTerm(lg, rf, wr, n, a.epoch)
<1>1. Clean(lg, rf, n, a.epoch, NoOffset)
  BY DEF NodeTerms, flying
<1>2. ASSUME NEW m \in wr, Names(m.value, n), m.value.epoch = a.epoch
      PROVE  FALSE
  <2>1. Pursued(a, l, m)
    BY <1>2 DEF NodeTerms
  <2> QED
    BY <2>1 DEF Pursued, Idle, Kind, Claim, Renew, Release
<1> QED
  BY <1>1, <1>2 DEF QuietTerm

(* A request q is written: a renew or a release only for a quiet term.     *)
LEMMA TermsSent ==
  ASSUME NEW lg, NEW rf, NEW t \in Nat, NEW wr, NEW wr2, NEW n, NEW l,
         NEW a \in AgentOf(Node), NEW b \in AgentOf(Node), NEW l2,
         NodeTerms(lg, rf, t, wr, n, a, l), a.inflight = Idle, a.lastSend <= t,
         NEW q, wr2 \subseteq wr \cup {q}, \A m \in wr : m.value.kind \in Kind,
         Names(q.value, n) => QuietTerm(lg, rf, wr, n, a.epoch) /\ q.value.epoch = a.epoch,
         b.epoch = a.epoch, b.deadline \in {a.deadline, ZeroTime},
         b.lastSend = a.lastSend \/ b.lastSend = t, b.inflight = Idle \/ l2 = NoOffset,
         believing(b, t) => Pursued(b, l2, q)
  PROVE  NodeTerms(lg, rf, t, wr2, n, b, l2)
<1>1. /\ a.deadline \in Int /\ a.lastSend \in Int /\ a.epoch \in Int /\ TTL \in Int
  BY AgentFields, TTLAssumption
<1>2. b.deadline # ZeroTime => b.deadline <= b.lastSend + TTL
  BY <1>1 DEF NodeTerms
<1>3. ASSUME QuietTerm(lg, rf, wr, n, a.epoch)
      PROVE  /\ Clean(lg, rf, n, a.epoch, NoOffset)
             /\ \A m \in wr : ~(Names(m.value, n) /\ m.value.epoch = a.epoch)
  BY <1>3 DEF QuietTerm
<1>4. ASSUME NEW m \in wr2, Names(m.value, n)
      PROVE  /\ m.value.epoch <= b.epoch
             /\ Clean(lg, rf, n, m.value.epoch, NoOffset)
             /\ \A p \in wr2 : Names(p.value, n) /\ p.value.epoch = m.value.epoch => p = m
  <2>1. CASE m = q
    BY <1>1, <1>3, <1>4, <2>1
  <2>2. CASE m \in wr
    <3>1. m.value.epoch <= b.epoch /\ Clean(lg, rf, n, m.value.epoch, NoOffset)
      BY <1>4, <2>2 DEF NodeTerms
    <3>2. ASSUME NEW p \in wr2, Names(p.value, n), p.value.epoch = m.value.epoch
          PROVE  p = m
      <4>1. CASE p \in wr
        BY <1>4, <2>2, <3>2, <4>1 DEF NodeTerms
      <4>2. CASE p = q
        BY <1>3, <1>4, <2>2, <3>2, <4>2
      <4> QED
        BY <4>1, <4>2
    <3> QED
      BY <3>1, <3>2
  <2> QED
    BY <2>1, <2>2
<1>5. ASSUME believing(b, t)
      PROVE  /\ Clean(lg, rf, n, b.epoch, flying(b, l2))
             /\ \A m \in wr2 : Names(m.value, n) /\ m.value.epoch = b.epoch => Pursued(b, l2, m)
  <2>1. believing(a, t)
    BY <1>1, <1>5 DEF believing, ZeroTime
  <2>2. flying(b, l2) = NoOffset
    BY DEF flying
  <2>3. QuietTerm(lg, rf, wr, n, a.epoch)
    BY <2>1, BelievedQuiet
  <2> QED
    BY <1>3, <1>5, <2>2, <2>3
<1> QED
  BY <1>2, <1>4, <1>5 DEF NodeTerms

(* A value is appended: the request m of the node itself, or another's.    *)
LEMMA TermsAppended ==
  ASSUME NEW lg \in Seq(Entry), NEW rf, NEW lg2, NEW rf2, NEW t, NEW wr, NEW wr2, NEW n,
         NEW a \in AgentOf(Node), NEW l \in Int, NEW l2,
         NodeTerms(lg, rf, t, wr, n, a, l), Len(rf) = Len(lg) + 1, Longer(lg, rf, lg2, rf2),
         Len(lg2) = Len(lg) + 1, a.epoch < Len(lg), wr2 \subseteq wr,
         \A m \in wr : m.value.epoch \in Int,
         LET x == lg2[Len(lg) + 1].value
         IN  x.holder # n \/ \E m \in wr : x = m.value /\ m \notin wr2,
         \/ /\ l2 = l
            /\ \A m \in wr : m.value.holder = n /\ Pursued(a, l, m) =>
                              lg2[Len(lg) + 1].value # m.value \/ m \in wr2
         \/ /\ l2 = Len(lg) /\ l = NoOffset /\ a.inflight # Idle
            /\ \A m \in wr2 : m.value.holder = n => ~Pursued(a, l, m)
  PROVE  NodeTerms(lg2, rf2, t, wr2, n, a, l2)
<1> DEFINE x == lg2[Len(lg) + 1].value
<1>1. Len(lg) \in Nat /\ a.epoch \in Int
  BY AgentFields
<1>2. ASSUME NEW o \in 0..Len(lg2) - 1, o # Len(lg)
      PROVE  /\ o \in 0..Len(lg) - 1 /\ lg2[o + 1] = lg[o + 1]
             /\ verdict(lg2, rf2, o) = verdict(lg, rf, o)
  <2>1. o \in 0..Len(lg) - 1 /\ o + 1 \in 1..Len(lg) /\ o + 1 \in 1..Len(rf)
    BY <1>1, <1>2
  <2>2. lg2[o + 1] = lg[o + 1] /\ rf2[o + 1] = rf[o + 1]
    BY <2>1 DEF Longer
  <2> QED
    BY <2>1, <2>2 DEF verdict
<1>3. ASSUME NEW e \in Int, NEW k, NEW k2, Clean(lg, rf, n, e, k), e < Len(lg),
             k2 = k \/ k = NoOffset,
             Names(x, n) /\ x.epoch = e => k2 = Len(lg)
      PROVE  Clean(lg2, rf2, n, e, k2)
  <2> SUFFICES ASSUME NEW o \in 0..Len(lg2) - 1, InTerm(lg2[o + 1].value, o, n, e), o # k2
               PROVE  verdict(lg2, rf2, o) = Accepted
    BY DEF Clean
  <2>1. CASE o = Len(lg)
    BY <1>1, <1>3, <2>1 DEF InTerm, Names, Claim, Renew
  <2>2. CASE o # Len(lg)
    <3>1. o # k
      BY <1>3 DEF NoOffset
    <3> QED
      BY <1>2, <1>3, <2>2, <3>1 DEF Clean
  <2> QED
    BY <2>1, <2>2
<1> HIDE DEF x
<1>4. a.inflight # Idle /\ a.inflight.kind = Claim /\ l2 # NoOffset => a.epoch < l2
  BY DEF NodeTerms
<1>5. ASSUME NEW o \in 0..Len(lg2) - 1, Names(lg2[o + 1].value, n)
      PROVE  lg2[o + 1].value.epoch <= a.epoch
  <2>1. CASE o = Len(lg)
    BY <1>5, <2>1 DEF NodeTerms, Names
  <2>2. CASE o # Len(lg)
    BY <1>2, <1>5, <2>2 DEF NodeTerms
  <2> QED
    BY <2>1, <2>2
<1>6. ASSUME NEW m \in wr2, Names(m.value, n)
      PROVE  /\ m.value.epoch <= a.epoch
             /\ Clean(lg2, rf2, n, m.value.epoch, NoOffset)
             /\ \A q \in wr2 : Names(q.value, n) /\ q.value.epoch = m.value.epoch => q = m
  <2>1. m \in wr /\ m.value.epoch \in Int
    OBVIOUS
  <2>2. /\ m.value.epoch <= a.epoch
        /\ Clean(lg, rf, n, m.value.epoch, NoOffset)
        /\ \A q \in wr : Names(q.value, n) /\ q.value.epoch = m.value.epoch => q = m
    BY <1>6, <2>1 DEF NodeTerms
  <2>3. ~(Names(x, n) /\ x.epoch = m.value.epoch)
    <3>1. SUFFICES ASSUME Names(x, n), x.epoch = m.value.epoch PROVE FALSE
      OBVIOUS
    <3>2. PICK q \in wr : x = q.value /\ q \notin wr2
      BY <3>1 DEF x, Names
    <3> QED
      BY <2>2, <3>1, <3>2
  <2>4. m.value.epoch < Len(lg)
    BY <1>1, <2>1, <2>2
  <2>5. Clean(lg2, rf2, n, m.value.epoch, NoOffset)
    BY <1>3, <2>1, <2>2, <2>3, <2>4
  <2> QED
    BY <2>2, <2>5
<1>7. ASSUME believing(a, t)
      PROVE  /\ Clean(lg2, rf2, n, a.epoch, flying(a, l2))
             /\ \A m \in wr2 : Names(m.value, n) /\ m.value.epoch = a.epoch => Pursued(a, l2, m)
  <2>1. /\ Clean(lg, rf, n, a.epoch, flying(a, l))
        /\ \A m \in wr : Names(m.value, n) /\ m.value.epoch = a.epoch => Pursued(a, l, m)
    BY <1>7 DEF NodeTerms
  <2>2. ASSUME Names(x, n), x.epoch = a.epoch PROVE flying(a, l2) = Len(lg)
    <3>1. PICK q \in wr : x = q.value /\ q \notin wr2
      BY <2>2 DEF x, Names
    <3>2. Pursued(a, l, q)
      BY <2>1, <2>2, <3>1
    <3>3. l2 = Len(lg) /\ a.inflight # Idle
      BY <2>2, <3>1, <3>2 DEF x, Names
    <3> QED
      BY <3>3 DEF flying
  <2>3. flying(a, l2) = flying(a, l) \/ flying(a, l) = NoOffset
    BY DEF flying
  <2>4. Clean(lg2, rf2, n, a.epoch, flying(a, l2))
    BY <1>1, <1>3, <2>1, <2>2, <2>3
  <2>5. ASSUME NEW m \in wr2, Names(m.value, n), m.value.epoch = a.epoch
        PROVE  Pursued(a, l2, m)
    BY <2>1, <2>5 DEF Names
  <2> QED
    BY <2>4, <2>5
<1> QED
  BY <1>4, <1>5, <1>6, <1>7 DEF NodeTerms

(* A step of node n: the others only see requests of theirs leave.         *)
LEMMA TermsNodeStep ==
  ASSUME Inv, Terms, NEW n \in Node, NEW b, NEW l,
         UNCHANGED <<now, log, ref>>,
         agent' = [agent EXCEPT ![n] = b], landed' = [landed EXCEPT ![n] = l],
         \A m \in wire' : m.value.holder # n => m \in wire,
         NodeTerms(log, ref, now, wire', n, b, l)
  PROVE  Terms'
<1>1. /\ agent'[n] = b /\ landed'[n] = l
      /\ \A k \in Node \ {n} : agent'[k] = agent[k] /\ landed'[k] = landed[k]
  BY Zenon DEF Inv, TypeOK
<1>2. ASSUME NEW k \in Node \ {n}
      PROVE  NodeTerms(log, ref, now, wire', k, agent[k], landed[k])
  <2>1. /\ agent[k] \in AgentOf(Node) /\ now \in Nat
        /\ NodeTerms(log, ref, now, wire, k, agent[k], landed[k])
    BY AtNode DEF Terms
  <2>2. Kept(agent[k], agent[k])
    BY DEF Kept
  <2> QED
    BY <2>1, <2>2, TermsKept
<1>3. ASSUME NEW k \in Node
      PROVE  NodeTerms(log', ref', now', wire', k, agent'[k], landed'[k])
  BY <1>1, <1>2
<1> QED
  BY <1>3 DEF Terms

(* Node n reads or is told of its request: nothing is written.             *)
LEMMA MovesStep ==
  ASSUME Inv, Inv', Terms, NEW n \in Node, NEW b,
         UNCHANGED <<now, log, ref, wire, landed>>, agent' = [agent EXCEPT ![n] = b],
         \/ Kept(agent[n], b)
         \/ Running(n) /\ Resolved(log, ref, now, agent[n], b, landed[n])
  PROVE  Terms'
<1> DEFINE a == agent[n]
           l == landed[n]
<1>1. /\ a \in AgentOf(Node) /\ l \in Int /\ now \in Nat /\ wire \subseteq Request
      /\ log \in Seq(Entry) /\ NodeTerms(log, ref, now, wire, n, a, l)
  BY AtNode DEF Terms
<1>2. b \in AgentOf(Node)
  <2>1. agent'[n] = b /\ agent'[n] \in AgentOf(Node)
    BY DEF Inv, TypeOK
  <2> QED
    BY <2>1
<1>3. NodeTerms(log, ref, now, wire, n, b, l)
  <2>1. CASE Kept(a, b)
    BY <1>1, <1>2, <2>1, TermsKept
  <2>2. CASE Running(n) /\ Resolved(log, ref, now, a, b, l)
    <3>1. FlightInv(log, now, n, a, l)
      BY <2>2, RunningAgent DEF AgentInv
    <3>2. ASSUME NEW o \in 0..Len(log) - 1, Names(log[o + 1].value, n)
          PROVE  log[o + 1].value.epoch \in Int
      <4>1. log[o + 1] \in Entry
        BY <1>1
      <4>2. log[o + 1].value \in OwnValue
        BY <3>2, <4>1, ForeignAssumption DEF Entry, Names
      <4> QED
        BY <4>2 DEF OwnValue
    <3>3. \A m \in wire : m.value.epoch \in Int
      BY <1>1 DEF Request, OwnValue
    <3> QED
      BY <1>1, <1>2, <2>2, <3>1, <3>2, <3>3, TermsResolved
  <2> QED
    BY <2>1, <2>2
<1>4. landed' = [landed EXCEPT ![n] = landed[n]]
  BY Unchanged
<1> HIDE DEF l
<1> QED
  BY <1>3, <1>4, TermsNodeStep DEF l

(* consume without a record writes nothing and learns nothing of a term.   *)
LEMMA PollEndsTerms ==
  ASSUME Inv, Inv', Terms, NEW n \in Node, PollEnds(n)
  PROVE  Terms'
<1> DEFINE a == agent[n]
<1>1. /\ AgentInv(log, ref, now, n, a, landed[n]) /\ a \in AgentOf(Node)
      /\ now \in Int /\ a.nextOffset \in Nat
  BY RunningAgent, AtNode, AgentFields DEF PollEnds, Running
<1>2. PICK b \in {fetchFailed(a), fetched(a, now, a.nextOffset)} :
        agent' = [agent EXCEPT ![n] = b]
  BY DEF PollEnds
<1>3. SameCore(a, fetchFailed(a)) /\ SameCore(a, fetched(a, now, a.nextOffset))
  BY <1>1, FetchedInv
<1>4. Kept(a, b)
  BY <1>2, <1>3 DEF SameCore, Kept
<1>5. UNCHANGED <<now, log, ref, wire, landed>>
  BY DEF PollEnds, broker
<1> QED
  BY <1>2, <1>4, <1>5, MovesStep

(* consume of a record: what the agent writes from then on is for a term   *)
(* that the log has.                                                       *)
LEMMA ConsumeTerms ==
  ASSUME Inv, Inv', Terms, NEW n \in Node, Consume(n)
  PROVE  Terms'
<1>1. Running(n)
  BY DEF Consume, Running
<1> DEFINE a == agent[n]
           o == a.nextOffset
           b(h) == record(fetched(a, now, h), now, o, log[o + 1].ts, log[o + 1].value)
<1>2. /\ AgentInv(log, ref, now, n, a, landed[n]) /\ a \in AgentOf(Node)
      /\ now \in Int /\ o \in Nat /\ Len(log) \in Nat /\ landed[n] \in Int
      /\ log \in Seq(Entry) /\ ref \in Seq(ViewOf(Node)) /\ HistoryInv(log, ref, now)
  BY <1>1, RunningAgent, AtNode, AgentFields
<1>3. (IF a.nextOffset < first THEN first ELSE a.nextOffset) = o
  BY <1>2 DEF Inv
<1>4. /\ o < Len(log)
      /\ \E h \in {o + 1, Len(log)} : agent' = [agent EXCEPT ![n] = b(h)]
  <2>1. End = Len(log)
    BY DEF End
  <2> QED
    BY <1>3, <2>1, Zenon DEF Consume
<1> HIDE DEF b
<1>5. PICK h \in Nat : agent' = [agent EXCEPT ![n] = b(h)]
  <2>1. o + 1 \in Nat /\ Len(log) \in Nat
    BY <1>2
  <2> QED
    BY <1>4, <2>1, Zenon
<1> USE DEF b
<1> DEFINE f == fetched(a, now, h)
           c == b(h)
<1>6. f \in AgentOf(Node) /\ AgentInv(log, ref, now, n, f, landed[n]) /\ SameCore(a, f)
  BY <1>2, FetchedInv
<1> HIDE DEF f
<1>7. Moves(log, ref, now, f, c, landed[n])
  <2>1. f.nextOffset = o
    BY <1>6 DEF SameCore
  <2>2. c = record(f, now, f.nextOffset, log[f.nextOffset + 1].ts, log[f.nextOffset + 1].value)
    BY <2>1 DEF f
  <2>3. f.nextOffset < Len(log)
    BY <1>4, <2>1
  <2> HIDE DEF c
  <2> QED
    BY <1>2, <1>6, <2>2, <2>3, RecordMoves
<1> HIDE DEF c
<1>8. Moves(log, ref, now, a, c, landed[n])
  BY <1>6, <1>7 DEF SameCore, Moves, Kept, Resolved, believing
<1>9. UNCHANGED <<now, log, ref, wire, landed>> /\ agent' = [agent EXCEPT ![n] = c]
  BY <1>5 DEF Consume, broker, c
<1> QED
  BY <1>1, <1>8, <1>9, MovesStep DEF Moves

(* An acknowledgement gives the agent at most the term of its own accepted *)
(* claim.                                                                  *)
LEMMA AckArrivesTerms ==
  ASSUME Inv, Inv', Terms, NEW n \in Node, AckArrives(n)
  PROVE  Terms'
<1> DEFINE a == agent[n]
           b == acked(a, now, landed[n])
<1>1. Running(n)
  BY DEF AckArrives
<1>2. /\ AgentInv(log, ref, now, n, a, landed[n]) /\ a \in AgentOf(Node)
      /\ now \in Int /\ landed[n] \in Int
      /\ log \in Seq(Entry) /\ ref \in Seq(ViewOf(Node)) /\ HistoryInv(log, ref, now)
  BY <1>1, RunningAgent, AtNode
<1>3. a.inflight # Idle /\ a.inflight.offset = NoOffset /\ landed[n] # NoOffset
  BY DEF AckArrives
<1>4. Moves(log, ref, now, a, b, landed[n])
  BY <1>2, <1>3, AckedMoves
<1>5. UNCHANGED <<now, log, ref, wire, landed>> /\ agent' = [agent EXCEPT ![n] = b]
  BY DEF AckArrives, broker
<1> HIDE DEF b
<1> QED
  BY <1>1, <1>4, <1>5, MovesStep DEF Moves

(* A failed request leaves the agent with the term it had.                 *)
LEMMA AckFailsTerms ==
  ASSUME Inv, Inv', Terms, NEW n \in Node, AckFails(n)
  PROVE  Terms'
<1> DEFINE a == agent[n]
           b == ackFailed(a, now)
<1>1. /\ AgentInv(log, ref, now, n, a, landed[n]) /\ a \in AgentOf(Node)
      /\ now \in Nat /\ landed[n] \in Int /\ NodeTerms(log, ref, now, wire, n, a, landed[n])
  BY RunningAgent, AtNode DEF AckFails, Terms
<1>2. a.inflight # Idle /\ FlightInv(log, now, n, a, landed[n])
  BY <1>1 DEF AckFails, AgentInv
<1>3. b \in AgentOf(Node) /\ b.inflight = Idle /\ b.lastSend = a.lastSend
  BY <1>1, <1>2, AckFailedInv
<1>4. b.epoch = a.epoch /\ b.deadline = a.deadline
  <2> DEFINE at == IF a.inflight.kind = Claim THEN now + RenewEvery ELSE a.nextClaimAt
  <2>1. b = [a EXCEPT !.inflight = Idle, !.nextClaimAt = at]
    BY <1>2, Zenon DEF ackFailed
  <2> HIDE DEF at, b
  <2> QED
    BY <1>1, <2>1, Zenon DEF AgentOf
<1>5. /\ UNCHANGED <<now, log, ref>> /\ agent' = [agent EXCEPT ![n] = b]
      /\ landed' = [landed EXCEPT ![n] = NoOffset]
  BY DEF AckFails, broker
<1>6. \/ now - a.inflight.sentAt >= TTL /\ wire' = wire
      \/ landed[n] = NoOffset /\ wire' = {m \in wire : ~(m.value.holder = n /\ Current(m))}
  BY Zenon DEF AckFails
<1> HIDE DEF b
<1>7. wire' \subseteq wire
  BY <1>6
<1>8. \/ now - a.inflight.sentAt >= TTL
      \/ landed[n] = NoOffset /\ \A m \in wire' : m.value.holder = n => ~Pursued(a, landed[n], m)
  BY <1>6 DEF Pursued, Current
<1>9. NodeTerms(log, ref, now, wire', n, b, NoOffset)
  BY <1>1, <1>2, <1>3, <1>4, <1>7, <1>8, TermsFailed
<1> QED
  BY <1>5, <1>7, <1>9, TermsNodeStep

(* tick renews what it believes in, and claims when it believes in none.   *)
LEMMA TickTerms ==
  ASSUME Inv, Inv', Terms, NEW n \in Node, Tick(n)
  PROVE  Terms'
<1> DEFINE a == agent[n]
           t == tick(a, now)
<1>1. /\ AgentInv(log, ref, now, n, a, landed[n]) /\ a \in AgentOf(Node)
      /\ a.view.certain /\ now \in Nat /\ landed[n] \in Int /\ wire \subseteq Request
      /\ NodeTerms(log, ref, now, wire, n, a, landed[n])
  BY RunningAgent, AtNode DEF Tick, Terms
<1>2. \/ t.out = {} /\ t.agent \in {a, dropBelief(a)}
      \/ \E k \in {Claim, Renew} : \E b \in {a, dropBelief(a)} :
           /\ b.inflight = Idle /\ t = send(b, now, k)
           /\ k = Renew <=> believing(b, now)
  BY <1>1, TickFacts
<1>3. /\ UNCHANGED <<now, log, ref>>
      /\ agent' = [agent EXCEPT ![n] = t.agent]
      /\ landed' = IF t.out # {} THEN [landed EXCEPT ![n] = NoOffset] ELSE landed
      /\ wire' = wire \cup {[value |-> EncodeValue(r), sentAt |-> now] : r \in t.out}
  BY Zenon DEF Tick, Produce, broker
<1> HIDE DEF t
<1>4. ASSUME NEW b \in {a, dropBelief(a)}
      PROVE  /\ b \in AgentOf(Node) /\ AgentInv(log, ref, now, n, b, landed[n])
             /\ b.deadline \in {a.deadline, ZeroTime} /\ b.inflight = a.inflight
             /\ b.epoch = a.epoch /\ b.lastSend = a.lastSend
  <2>1. /\ dropBelief(a) \in AgentOf(Node)
        /\ AgentInv(log, ref, now, n, dropBelief(a), landed[n])
    BY <1>1, DropInv
  <2>2. /\ dropBelief(a).epoch = a.epoch /\ dropBelief(a).inflight = a.inflight
        /\ dropBelief(a).lastSend = a.lastSend /\ dropBelief(a).deadline = ZeroTime
    BY <1>1, Zenon DEF dropBelief, AgentOf
  <2> QED
    BY <1>1, <2>1, <2>2
<1>5. CASE t.out = {} /\ t.agent \in {a, dropBelief(a)}
  <2>1. wire' = wire /\ landed' = landed
    BY <1>3, <1>5
  <2>2. Kept(a, t.agent)
    BY <1>4, <1>5 DEF Kept
  <2> QED
    BY <1>3, <2>1, <2>2, MovesStep
<1>6. ASSUME NEW k \in {Claim, Renew}, NEW b \in {a, dropBelief(a)},
             b.inflight = Idle, t = send(b, now, k), k = Renew <=> believing(b, now)
      PROVE  Terms'
  <2> DEFINE c == send(b, now, k).agent
             x == EncodeValue(newRecord(b, k, b.epoch))
             q == [value |-> x, sentAt |-> now]
  <2>1. /\ b \in AgentOf(Node) /\ AgentInv(log, ref, now, n, b, landed[n])
        /\ b.deadline \in {a.deadline, ZeroTime} /\ a.inflight = Idle
        /\ b.epoch = a.epoch /\ b.lastSend = a.lastSend
    BY <1>4, <1>6
  <2>2. /\ c \in AgentOf(Node) /\ c.inflight.kind = k /\ c.inflight.sentAt = now
        /\ c.lastSend = now /\ c.epoch = b.epoch /\ c.deadline = b.deadline
        /\ send(b, now, k).out = {newRecord(b, k, b.epoch)}
    BY <1>1, <1>6, <2>1, SendInv
  <2>3. b.holder = n /\ b.epoch \in Int /\ k \in Kind /\ a.deadline \in Int
    BY <1>1, <2>1, AgentFields DEF AgentInv, Kind
  <2>4. /\ x \in OwnValue /\ x.kind = k /\ x.holder = n
        /\ x.epoch = IF k = Claim THEN 0 ELSE b.epoch
    BY <2>3, EncodeOwn
  <2> HIDE DEF x
  <2>5. wire' = wire \cup {q}
    <3>1. {[value |-> EncodeValue(r), sentAt |-> now] : r \in {newRecord(b, k, b.epoch)}} = {q}
      BY DEF x
    <3> QED
      BY <1>3, <1>6, <2>2, <3>1
  <2>6. landed' = [landed EXCEPT ![n] = NoOffset] /\ agent' = [agent EXCEPT ![n] = c]
    <3>1. t.out # {} /\ t.agent = c
      BY <1>6, <2>2
    <3> QED
      BY <1>3, <3>1
  <2>7. q.value = x /\ q.sentAt = now
    OBVIOUS
  <2> HIDE DEF q, c
  <2>8. believing(b, now) => believing(a, now)
    BY <1>1, <2>1, <2>3 DEF believing, ZeroTime
  <2>9. Names(q.value, n) => believing(a, now) /\ q.value.epoch = a.epoch
    BY <1>6, <2>1, <2>4, <2>7, <2>8 DEF Names
  <2>10. believing(c, now) => Pursued(c, NoOffset, q)
    BY <2>2, <2>4, <2>7 DEF Pursued
  <2>11. a.lastSend <= now
    BY <1>1 DEF AgentInv, FlightInv
  <2>12. \A m \in wire : m.value.kind \in Kind
    BY <1>1 DEF Request, OwnValue
  <2>13. NodeTerms(log, ref, now, wire', n, c, NoOffset)
    <3>1. believing(a, now) => QuietTerm(log, ref, wire, n, a.epoch)
      BY <1>1, <2>1, <2>12, BelievedQuiet
    <3> QED
      BY <1>1, <2>1, <2>2, <2>5, <2>9, <2>10, <2>11, <2>12, <3>1, TermsSent
  <2>14. \A m \in wire' : m.value.holder # n => m \in wire
    BY <2>4, <2>5, <2>7
  <2> QED
    BY <1>3, <2>6, <2>13, <2>14, TermsNodeStep
<1> QED
  BY <1>2, <1>5, <1>6

(* shutdown keeps at most the term it had.                                 *)
LEMMA StopTerms ==
  ASSUME Inv, Inv', Terms, NEW n \in Node, Stop(n)
  PROVE  Terms'
<1> DEFINE a == agent[n]
           t == release(a, now)
<1>1. a \in AgentOf(Node)
  BY AtNode
<1>2. UNCHANGED <<now, log, ref, wire, landed>> /\ agent' = [agent EXCEPT ![n] = t.agent]
  BY DEF Stop, broker
<1>3. t.agent \in {a, dropBelief(a)}
  BY DEF release
<1> HIDE DEF t
<1>4. /\ dropBelief(a).epoch = a.epoch /\ dropBelief(a).inflight = a.inflight
      /\ dropBelief(a).lastSend = a.lastSend /\ dropBelief(a).deadline = ZeroTime
  BY <1>1, Zenon DEF dropBelief, AgentOf
<1>5. Kept(a, t.agent)
  BY <1>3, <1>4 DEF Kept
<1> QED
  BY <1>2, <1>5, MovesStep

(* The release is written for a quiet term.                                *)
LEMMA WriteReleaseTerms ==
  ASSUME "stopInFlight" \notin Faults, Inv, Inv', Terms, Due, NEW n \in Node, WriteRelease(n)
  PROVE  Terms'
<1> DEFINE a == agent[n]
           l == landed[n]
           x == EncodeValue(newRecord(a, Release, a.epoch))
           q == [value |-> x, sentAt |-> now]
<1>1. /\ NodeInv(log, ref, now, n, "releasing", a, pub[n], l) /\ a \in AgentOf(Node)
      /\ now \in Nat /\ wire \subseteq Request
      /\ NodeTerms(log, ref, now, wire, n, a, l) /\ QuietTerm(log, ref, wire, n, a.epoch)
  BY AtNode DEF WriteRelease, Terms, Due
<1>2. /\ a.inflight = Idle /\ a.holder = n /\ a.lastSend <= now /\ a.deadline <= now
      /\ a.epoch \in Int /\ a.deadline \in Int
  BY <1>1, AgentFields DEF NodeInv, AgentInv, ReaderInv, FlightInv
<1>3. Release \in Kind /\ Release # Claim
  BY DEF Kind, Release, Claim
<1>4. x.holder = n /\ x.epoch = a.epoch
  BY <1>2, <1>3, EncodeOwn
<1>5. UNCHANGED <<now, log, ref, agent, landed>> /\ wire' = wire \cup {q}
  BY DEF WriteRelease, Produce, broker
<1> HIDE DEF x
<1>6. q.value = x
  OBVIOUS
<1> HIDE DEF q
<1>7. \A m \in wire : m.value.kind \in Kind
  BY <1>1 DEF Request, OwnValue
<1>8. ~believing(a, now)
  BY <1>1, <1>2 DEF believing
<1>9. NodeTerms(log, ref, now, wire', n, a, l)
  BY <1>1, <1>2, <1>4, <1>5, <1>6, <1>7, <1>8, TermsSent
<1>10. \A m \in wire' : m.value.holder # n => m \in wire
  BY <1>4, <1>5, <1>6
<1>11. agent' = [agent EXCEPT ![n] = a] /\ landed' = [landed EXCEPT ![n] = l]
  BY <1>5, Unchanged, Zenon
<1> HIDE DEF a, l
<1> QED
  BY <1>5, <1>9, <1>10, <1>11, TermsNodeStep

(* bootstrap: a new agent is like none.                                    *)
LEMMA JoinTerms ==
  ASSUME Inv, Inv', Terms, NEW n \in Node, Join(n)
  PROVE  Terms'
<1>1. agent[n] = NoAgent
  BY AtNode DEF Join, NodeInv
<1>2. PICK start : agent' = [agent EXCEPT ![n] = newAgent(n, start, End, now)]
  BY DEF Join
<1>3. Kept(NoAgent, newAgent(n, start, End, now))
  BY DEF Kept, NoAgent, newAgent
<1>4. UNCHANGED <<now, log, ref, wire, landed>>
  BY DEF Join, broker
<1> QED
  BY <1>1, <1>2, <1>3, <1>4, MovesStep

(* An epoch is an offset in the log.                                       *)
LEMMA EpochInLog ==
  ASSUME Inv, NEW n \in Node
  PROVE  agent[n].epoch < Len(log)
<1>1. /\ log \in Seq(Entry) /\ ref \in Seq(ViewOf(Node)) /\ HistoryInv(log, ref, now)
      /\ NodeInv(log, ref, now, n, phase[n], agent[n], pub[n], landed[n])
      /\ agent[n] \in AgentOf(Node)
  BY AtNode
<1>2. Len(log) \in Nat
  BY <1>1
<1>3. CASE phase[n] = "new"
  BY <1>1, <1>2, <1>3 DEF NodeInv, NoAgent, newAgent, NoOffset
<1>4. CASE phase[n] # "new"
  <2> DEFINE a == agent[n]
             k == a.nextOffset + 1
  <2>1. AgentInv(log, ref, now, n, a, landed[n]) /\ a.nextOffset \in Nat /\ a.epoch \in Int
    BY <1>1, <1>4, AgentFields DEF NodeInv
  <2>2. a.nextOffset <= Len(log) /\ a.epoch <= ref[k].state.epoch
    BY <2>1 DEF AgentInv, ReaderInv, BeliefInv
  <2>3. k \in 1..Len(ref)
    BY <1>1, <1>2, <2>1, <2>2 DEF HistoryInv, FoldInv
  <2>4. ref[k].state.epoch \in Int
    <3>1. ref[k] \in ViewOf(Node)
      BY <1>1, <2>3
    <3> QED
      BY <3>1, ViewFields
  <2>5. ref[k].state.epoch <= k - 2
    BY <1>1, <2>3 DEF HistoryInv, ViewInv
  <2> QED
    BY <1>2, <2>1, <2>2, <2>4, <2>5
<1> QED
  BY <1>3, <1>4

(* What append does to the log and to the reference views.                 *)
LEMMA AppendFacts ==
  ASSUME Inv, NEW x \in OwnValue \cup ForeignValues, append(x)
  PROVE  /\ Longer(log, ref, log', ref') /\ Len(log') = Len(log) + 1
         /\ log'[Len(log) + 1].ts = now + lead /\ log'[Len(log) + 1].value = x
         /\ ref'[Len(log) + 2] = viewAfter(ref[Len(log) + 1], Len(log), now + lead, x)
<1> DEFINE ts == now + lead
<1>1. /\ now \in Nat /\ lead \in 0..MaxSkew /\ log \in Seq(Entry) /\ ref \in Seq(ViewOf(Node))
      /\ HistoryInv(log, ref, now)
  BY DEF Inv, TypeOK
<1>2. ts \in Int /\ ts <= now + MaxSkew
  BY <1>1, ProtocolAssumption
<1>3. Appended(log, ref, now, ts, x, log', ref')
  BY DEF append, End, Appended
<1> HIDE DEF ts
<1>4. /\ Longer(log, ref, log', ref') /\ Len(log') = Len(log) + 1
      /\ log'[Len(log) + 1].ts = ts /\ log'[Len(log) + 1].value = x
      /\ ref'[Len(log) + 2] = viewAfter(ref[Len(log) + 1], Len(log), ts, x)
  BY <1>1, <1>2, <1>3, HistoryAppend
<1> QED
  BY <1>4 DEF ts

(* A request lands.                                                        *)
LEMMA LandTerms ==
  ASSUME Inv, Terms, NEW m \in wire, Land(m)
  PROVE  Terms'
<1> DEFINE h == m.value.holder
           x == m.value
           L == Len(log)
<1>1. x \in OwnValue /\ h \in Node /\ m \in Request /\ wire \subseteq Request
  BY DEF Inv, TypeOK, Request, OwnValue
<1>2. /\ append(x) /\ wire' = wire \ {m}
      /\ landed' = IF Current(m) THEN [landed EXCEPT ![h] = L] ELSE landed
      /\ now' = now /\ agent' = agent
  BY DEF Land, End
<1>3. /\ Longer(log, ref, log', ref') /\ Len(log') = L + 1 /\ log'[L + 1].value = x
  BY <1>1, <1>2, AppendFacts
<1>4. \A q \in wire : q.value.epoch \in Int
  BY <1>1 DEF Request, OwnValue
<1>5. ASSUME NEW n \in Node
      PROVE  NodeTerms(log', ref', now, wire', n, agent[n], landed'[n])
  <2> DEFINE a == agent[n]
             l == landed[n]
  <2>1. /\ log \in Seq(Entry) /\ a \in AgentOf(Node) /\ l \in Int
        /\ NodeTerms(log, ref, now, wire, n, a, l)
        /\ Len(ref) = L + 1 /\ a.epoch < L
    BY AtNode, EpochInLog DEF Terms, HistoryInv, FoldInv
  <2>2. landed \in [Node -> Int]
    BY DEF Inv, TypeOK
  <2>3. wire' \subseteq wire /\ m \notin wire'
    BY <1>2
  <2>4. x.holder # n \/ \E q \in wire : x = q.value /\ q \notin wire'
    BY <2>3
  <2>5. CASE n # h \/ ~Current(m)
    <3>1. landed'[n] = l
      BY <1>2, <2>2, <2>5
    <3>2. ASSUME NEW q \in wire, q.value.holder = n, Pursued(a, l, q), x = q.value
          PROVE  q \in wire'
      BY <1>2, <2>5, <3>2 DEF Pursued, Current
    <3> HIDE DEF a, l, x
    <3>3. NodeTerms(log', ref', now, wire', n, a, l)
      BY <1>3, <1>4, <2>1, <2>3, <2>4, <3>2, TermsAppended
    <3> QED
      BY <3>1, <3>3 DEF a
  <2>6. CASE n = h /\ Current(m)
    <3>1. landed'[n] = L
      BY <1>2, <2>2, <2>6
    <3>2. Pursued(a, l, m) /\ a.inflight # Idle
      BY <2>6, CurrentPursued
    <3>3. l = NoOffset
      BY <3>2 DEF Pursued
    <3>4. ASSUME NEW q \in wire', q.value.holder = n, Pursued(a, l, q)
          PROVE  FALSE
      BY <1>1, <1>2, <2>6, <3>2, <3>4, PursuedUnique
    <3> HIDE DEF a, l, x, L
    <3>5. NodeTerms(log', ref', now, wire', n, a, L)
      BY <1>3, <1>4, <2>1, <2>3, <2>4, <3>2, <3>3, <3>4, TermsAppended DEF L
    <3> QED
      BY <3>1, <3>5 DEF a
  <2> QED
    BY <2>5, <2>6
<1> QED
  BY <1>2, <1>5 DEF Terms

(* A foreign value belongs to no term of a participant.                    *)
LEMMA ForeignTerms ==
  ASSUME Inv, Terms, NEW x \in ForeignValues, Foreign(x)
  PROVE  Terms'
<1>1. append(x) /\ wire' = wire /\ landed' = landed /\ now' = now /\ agent' = agent
  BY DEF Foreign
<1>2. Longer(log, ref, log', ref') /\ Len(log') = Len(log) + 1 /\ log'[Len(log) + 1].value = x
  BY <1>1, AppendFacts
<1>3. \A q \in wire : q.value.epoch \in Int
  BY DEF Inv, TypeOK, Request, OwnValue
<1>4. ASSUME NEW n \in Node
      PROVE  NodeTerms(log', ref', now, wire, n, agent[n], landed[n])
  <2> DEFINE a == agent[n]
             l == landed[n]
  <2>1. /\ log \in Seq(Entry) /\ a \in AgentOf(Node) /\ l \in Int
        /\ NodeTerms(log, ref, now, wire, n, a, l)
        /\ Len(ref) = Len(log) + 1 /\ a.epoch < Len(log)
    BY AtNode, EpochInLog DEF Terms, HistoryInv, FoldInv
  <2>2. x.holder # n
    BY ForeignAssumption
  <2> HIDE DEF a, l
  <2>3. NodeTerms(log', ref', now, wire, n, a, l)
    BY <1>2, <1>3, <2>1, <2>2, TermsAppended
  <2> QED
    BY <2>3 DEF a, l
<1> QED
  BY <1>1, <1>4 DEF Terms

(* A belief that lasts after time has passed was there before.             *)
LEMMA AdvanceTerms ==
  ASSUME Inv, Terms, Advance
  PROVE  Terms'
<1>1. now \in Nat /\ now' = now + 1 /\ UNCHANGED <<log, ref, wire, agent, landed>>
  BY DEF Advance, broker, Inv, TypeOK
<1>2. ASSUME NEW n \in Node
      PROVE  NodeTerms(log, ref, now + 1, wire, n, agent[n], landed[n])
  <2>1. /\ NodeTerms(log, ref, now, wire, n, agent[n], landed[n])
        /\ agent[n].deadline \in Int
    BY AtNode, AgentFields DEF Terms
  <2>2. believing(agent[n], now + 1) => believing(agent[n], now)
    BY <1>1, <2>1 DEF believing
  <2> QED
    BY <2>1, <2>2 DEF NodeTerms
<1> QED
  BY <1>1, <1>2 DEF Terms

(* Initially nothing has been written.                                     *)
LEMMA InitTerms ==
  ASSUME Init
  PROVE  Terms
<1> SUFFICES ASSUME NEW n \in Node
             PROVE  NodeTerms(log, ref, now, wire, n, agent[n], landed[n])
  BY DEF Terms
<1>1. /\ now = 0 /\ Len(log) = 0 /\ wire = {} /\ landed[n] = NoOffset
      /\ agent[n].deadline = ZeroTime /\ agent[n].inflight = Idle
  BY DEF Init, NoAgent, newAgent
<1>2. ~believing(agent[n], now)
  BY <1>1 DEF believing, ZeroTime
<1>3. 0..Len(log) - 1 = {}
  BY <1>1
<1> QED
  BY <1>1, <1>2, <1>3 DEF NodeTerms

(* Every step keeps what renews and releases prove about their terms.      *)
LEMMA NextTerms ==
  ASSUME "compaction" \notin Faults, "stopInFlight" \notin Faults,
         Inv, Inv', Terms, Due, [Next]_vars
  PROVE  Terms'
<1>1. CASE Advance
  BY <1>1, AdvanceTerms
<1>2. CASE LeaderChange \/ UNCHANGED vars
  BY <1>2 DEF LeaderChange, vars, broker, Terms
<1>3. ASSUME NEW m \in wire, Land(m) PROVE Terms'
  BY <1>3, LandTerms
<1>4. ASSUME NEW v \in ForeignValues, Foreign(v) PROVE Terms'
  BY <1>4, ForeignTerms
<1>5. ASSUME NEW n \in Node,
             \/ Join(n) \/ Consume(n) \/ PollEnds(n) \/ AckArrives(n) \/ AckFails(n)
             \/ Tick(n) \/ Stop(n) \/ WriteRelease(n)
      PROVE  Terms'
  BY <1>5, JoinTerms, ConsumeTerms, PollEndsTerms, AckArrivesTerms, AckFailsTerms, TickTerms,
     StopTerms, WriteReleaseTerms
<1>6. ~Compact
  BY DEF Compact
<1> QED
  BY <1>1, <1>2, <1>3, <1>4, <1>5, <1>6 DEF Next

(* What a node writes is its own.                                          *)
LEMMA Written ==
  ASSUME Inv, NEW k \in Node, Tick(k) \/ WriteRelease(k), NEW m \in wire', m \notin wire
  PROVE  m.value.holder = k
<1> DEFINE a == agent[k]
           t == tick(a, now)
<1>1. \A b, c, e : EncodeValue(newRecord(b, c, e)).holder = b.holder
  BY DEF EncodeValue, newRecord
<1>2. CASE Tick(k)
  <2>1. /\ a \in AgentOf(Node) /\ a.view.certain /\ a.holder = k /\ now \in Int
        /\ wire' = wire \cup {[value |-> EncodeValue(r), sentAt |-> now] : r \in t.out}
    BY <1>2, RunningAgent, AtNode DEF Tick, Produce
  <2>2. \/ t.out = {}
        \/ \E c \in {Claim, Renew} : \E b \in {a, dropBelief(a)} : t = send(b, now, c)
    BY <2>1, TickFacts
  <2>3. dropBelief(a).holder = a.holder
    BY <2>1, Zenon DEF dropBelief, AgentOf
  <2>4. t.out # {} => \E b, c, e : b.holder = k /\ t.out = {newRecord(b, c, e)}
    BY <2>1, <2>2, <2>3 DEF send
  <2> HIDE DEF t
  <2> QED
    BY <1>1, <2>1, <2>4
<1>3. CASE WriteRelease(k)
  <2>1. NodeInv(log, ref, now, k, "releasing", a, pub[k], landed[k])
    BY <1>3, AtNode DEF WriteRelease
  <2>2. a.holder = k
    BY <2>1 DEF NodeInv, AgentInv, ReaderInv
  <2> QED
    BY <1>1, <1>3, <2>2 DEF WriteRelease, Produce
<1> QED
  BY <1>2, <1>3

(* A quiet term stays quiet when something is appended.                    *)
LEMMA QuietAppended ==
  ASSUME Inv, Due, NEW n \in Node, phase[n] = "releasing",
         NEW x \in OwnValue \cup ForeignValues, append(x),
         x \in ForeignValues \/ \E m \in wire : x = m.value, wire' \subseteq wire
  PROVE  QuietTerm(log', ref', wire', n, agent[n].epoch)
<1> DEFINE e == agent[n].epoch
           L == Len(log)
<1>1. /\ log \in Seq(Entry) /\ L \in Nat /\ Len(ref) = L + 1 /\ e < L
  BY AtNode, EpochInLog DEF HistoryInv, FoldInv
<1>2. Longer(log, ref, log', ref') /\ Len(log') = L + 1 /\ log'[L + 1].value = x
  BY AppendFacts
<1>3. QuietTerm(log, ref, wire, n, e)
  BY DEF Due
<1>4. ~(Names(x, n) /\ x.epoch = e)
  BY <1>3, ForeignAssumption DEF QuietTerm, Names
<1> HIDE DEF e
<1>5. ASSUME NEW o \in 0..Len(log') - 1, InTerm(log'[o + 1].value, o, n, e)
      PROVE  verdict(log', ref', o) = Accepted
  <2>1. CASE o = L
    BY <1>1, <1>2, <1>4, <1>5, <2>1 DEF InTerm, Names, Claim, Renew
  <2>2. CASE o # L
    <3>1. o \in 0..L - 1 /\ o + 1 \in 1..L /\ o + 1 \in 1..Len(ref)
      BY <1>1, <1>2, <2>2
    <3>2. log'[o + 1] = log[o + 1] /\ ref'[o + 1] = ref[o + 1]
      BY <1>2, <3>1 DEF Longer
    <3>3. verdict(log, ref, o) = Accepted
      BY <1>3, <1>5, <3>1, <3>2 DEF QuietTerm, Clean, NoOffset
    <3> QED
      BY <3>2, <3>3 DEF verdict
  <2> QED
    BY <2>1, <2>2
<1> QED
  BY <1>3, <1>5 DEF QuietTerm, Clean, e

(* Every step leaves the terms of nodes that are about to write their      *)
(* release quiet.                                                          *)
LEMMA DueStep ==
  ASSUME "compaction" \notin Faults, "stopInFlight" \notin Faults, Inv, Terms, Due, [Next]_vars
  PROVE  Due'
<1> SUFFICES ASSUME NEW n \in Node, phase'[n] = "releasing"
             PROVE  QuietTerm(log', ref', wire', n, agent'[n].epoch)
  BY DEF Due
<1>1. phase \in [Node -> {"new", "poll", "drain", "releasing", "stopped"}]
  BY DEF Inv, TypeOK
<1>2. ASSUME NEW m \in wire, Land(m)
      PROVE  QuietTerm(log', ref', wire', n, agent'[n].epoch)
  <2>1. m.value \in OwnValue
    BY DEF Inv, TypeOK, Request
  <2> QED
    BY <1>2, <2>1, QuietAppended DEF Land
<1>3. ASSUME NEW x \in ForeignValues, Foreign(x)
      PROVE  QuietTerm(log', ref', wire', n, agent'[n].epoch)
  BY <1>3, QuietAppended DEF Foreign
<1>4. CASE Stop(n)
  <2> DEFINE a == agent[n]
             t == release(a, now)
  <2>1. /\ a \in AgentOf(Node) /\ wire \subseteq Request
        /\ NodeTerms(log, ref, now, wire, n, a, landed[n])
    BY AtNode DEF Terms
  <2>2. /\ UNCHANGED <<now, log, ref, wire>> /\ a.inflight = Idle
        /\ agent' = [agent EXCEPT ![n] = t.agent]
        /\ phase' = [phase EXCEPT ![n] = IF t.out = {} THEN "stopped" ELSE "releasing"]
    BY <1>4 DEF Stop, broker
  <2>3. t.out # {}
    BY <1>1, <2>2
  <2>4. believing(a, now) /\ t.agent = dropBelief(a)
    BY <2>3 DEF release
  <2> HIDE DEF t
  <2>5. agent'[n] = t.agent
    BY <2>2, Zenon DEF Inv, TypeOK
  <2>6. dropBelief(a).epoch = a.epoch
    BY <2>1, Zenon DEF dropBelief, AgentOf
  <2>7. \A m \in wire : m.value.kind \in Kind
    BY <2>1 DEF Request, OwnValue
  <2>8. QuietTerm(log, ref, wire, n, a.epoch)
    BY <2>1, <2>2, <2>4, <2>7, BelievedQuiet
  <2> QED
    BY <2>2, <2>4, <2>5, <2>6, <2>8
<1>5. ASSUME phase[n] = "releasing", agent'[n] = agent[n], UNCHANGED <<log, ref>>,
             \A m \in wire' : m.value.holder = n => m \in wire
      PROVE  QuietTerm(log', ref', wire', n, agent'[n].epoch)
  BY <1>5 DEF Due, QuietTerm, Names
<1>6. ASSUME NEW k \in Node, Tick(k) \/ WriteRelease(k)
      PROVE  QuietTerm(log', ref', wire', n, agent'[n].epoch)
  <2>1. /\ UNCHANGED <<log, ref>>
        /\ \E ph \in {"poll", "stopped"} : phase' = [phase EXCEPT ![k] = ph]
        /\ \E b : agent' = [agent EXCEPT ![k] = b]
    BY <1>6, Unchanged, Zenon DEF Tick, WriteRelease, broker
  <2>2. n # k /\ phase[n] = "releasing"
    BY <1>1, <2>1
  <2>3. agent'[n] = agent[n]
    BY <2>1, <2>2, Zenon DEF Inv, TypeOK
  <2>4. ASSUME NEW m \in wire', m \notin wire PROVE m.value.holder = k
    BY <1>6, <2>4, Written
  <2> QED
    BY <1>5, <2>1, <2>2, <2>3, <2>4
<1>7. ASSUME NEW k \in Node,
             \/ Join(k) \/ Consume(k) \/ PollEnds(k) \/ AckArrives(k) \/ AckFails(k)
             \/ k # n /\ Stop(k)
      PROVE  QuietTerm(log', ref', wire', n, agent'[n].epoch)
  <2>1. /\ UNCHANGED <<log, ref>> /\ wire' \subseteq wire
        /\ \E b : agent' = [agent EXCEPT ![k] = b]
    BY <1>7 DEF Join, Consume, PollEnds, AckArrives, AckFails, Stop, broker
  <2>2. \/ phase' = phase /\ phase[k] = "poll"
        \/ \E ph \in {"poll", "drain"} : phase' = [phase EXCEPT ![k] = ph]
        \/ k # n /\ \E ph : phase' = [phase EXCEPT ![k] = ph]
    BY <1>7, Zenon DEF Join, Consume, PollEnds, AckArrives, AckFails, Stop
  <2>3. n # k /\ phase[n] = "releasing"
    BY <1>1, <2>2
  <2>4. agent'[n] = agent[n]
    BY <2>1, <2>3, Zenon DEF Inv, TypeOK
  <2> QED
    BY <1>5, <2>1, <2>3, <2>4
<1>8. CASE Advance \/ LeaderChange \/ UNCHANGED vars
  <2>1. UNCHANGED <<log, ref, wire, agent, phase>>
    BY <1>8 DEF Advance, LeaderChange, vars, broker
  <2> QED
    BY <1>5, <2>1
<1>9. ~Compact
  BY DEF Compact
<1> QED
  BY <1>2, <1>3, <1>4, <1>6, <1>7, <1>8, <1>9 DEF Next

-----------------------------------------------------------------------------
(* The readers.  Of a log without clock skew, what counts is the records   *)
(* that could be accepted.                                                 *)
rec(lg, o) == DecodeValue(lg[o + 1].value, o, lg[o + 1].ts)

Valid(lg, o) == Decodes(lg[o + 1].value) /\ validTTL(rec(lg, o))

(* The log and the views of it.                                            *)
Sound(lg, rf, t) ==
  /\ lg \in Seq(Entry) /\ rf \in Seq(ViewOf(Node))
  /\ HistoryInv(lg, rf, t) /\ Stamped(lg, rf)

(* A record: what it decodes to, and what it makes of the lease.           *)
LEMMA RecordFacts ==
  ASSUME NEW lg, NEW rf, NEW t, Sound(lg, rf, t), NEW o \in 0..Len(lg) - 1
  PROVE  /\ rec(lg, o).offset = o /\ rec(lg, o).ts = lg[o + 1].ts /\ lg[o + 1].ts \in Int
         /\ Valid(lg, o) => /\ lg[o + 1].value \in OwnValue
                            /\ rec(lg, o) \in RecordOf(Node)
                            /\ verdict(lg, rf, o) = foldOutcome(rf[o + 1].state, rec(lg, o))
         /\ rf[o + 1].state \in StateOf(Node)
         /\ rf[o + 2].state = IF Valid(lg, o) THEN folded(rf[o + 1].state, rec(lg, o))
                                              ELSE rf[o + 1].state
<1> DEFINE x == lg[o + 1].value
           ts == lg[o + 1].ts
           r == rec(lg, o)
           v == rf[o + 1]
           w == rf[o + 2]
<1>1. /\ o + 1 \in 1..Len(lg) /\ o + 1 \in 1..Len(rf) /\ o \in Int /\ (o + 1) - 1 = o
      /\ (o + 1) + 1 = o + 2
  BY DEF Sound, HistoryInv, FoldInv
<1>2. /\ lg[o + 1] \in Entry /\ v \in ViewOf(Node) /\ v.certain /\ v.clock <= ts
      /\ w = viewAfter(v, o, ts, x)
  BY <1>1 DEF Sound, HistoryInv, ViewInv, FoldInv, Stamped
<1>3. ts \in Int /\ x \in OwnValue \cup ForeignValues /\ v.state \in StateOf(Node)
  BY <1>2 DEF Entry, ViewOf
<1>4. r.offset = o /\ r.ts = ts
  BY DEF rec, DecodeValue
<1>5. verdict(lg, rf, o) = Apply(v, r).outcome /\ r = DecodeValue(x, o, ts)
  BY DEF verdict, rec
<1> HIDE DEF r, v, w, ts, x
<1>6. CASE ~Decodes(x)
  BY <1>2, <1>3, <1>4, <1>6 DEF viewAfter, Valid, r, v, w, ts, x
<1>7. CASE Decodes(x)
  <2>1. PICK G : r \in RecordOf(G)
    BY <1>1, <1>3, <1>5, <1>7, DecodeOwn, DecodeForeign
  <2>2. w.state = folded(v.state, r) /\ Apply(v, r).outcome = foldOutcome(v.state, r)
    BY <1>2, <1>4, <1>5, <1>7, <2>1, ApplyState DEF viewAfter
  <2>3. ~validTTL(r) => folded(v.state, r) = v.state
    BY DEF folded, foldOutcome, Accepted, Rejected
  <2>4. validTTL(r) => x \in OwnValue /\ r \in RecordOf(Node)
    BY <1>1, <1>3, <1>5, <1>7, DecodeOwn, DecodeForeign
  <2> QED
    BY <1>3, <1>4, <1>5, <1>7, <2>2, <2>3, <2>4 DEF Valid, r, v, w, ts, x
<1> QED
  BY <1>6, <1>7

(* Where no record could be accepted, the lease stays as it is.            *)
LEMMA Unmoved ==
  ASSUME NEW lg, NEW rf, NEW t, Sound(lg, rf, t), NEW o \in Nat, NEW q \in o..Len(lg),
         \A k \in o..q - 1 : ~Valid(lg, k)
  PROVE  rf[q + 1].state = rf[o + 1].state
<1> DEFINE T == {k \in o..q : rf[k + 1].state # rf[o + 1].state}
<1>0. Len(lg) \in Nat /\ q \in o..q /\ q \in Nat
  BY DEF Sound
<1>1. SUFFICES ASSUME T # {} PROVE FALSE
  BY <1>0
<1>2. PICK k \in T : \A j \in T : k <= j
  <2>1. T \in SUBSET Nat
    BY <1>0
  <2> HIDE DEF T
  <2> QED
    BY <1>1, <2>1, LeastElement
<1>3. k # o /\ k \in o..q
  OBVIOUS
<1> DEFINE p == k - 1
<1>4. p \in o..q - 1 /\ p \in o..q /\ p \in 0..Len(lg) - 1 /\ ~(k <= p) /\ p + 1 = k /\ p + 2 = k + 1
  BY <1>0, <1>3
<1>5. rf[p + 1].state = rf[o + 1].state
  BY <1>2, <1>4
<1>6. rf[p + 2].state = rf[p + 1].state
  <2>1. ~Valid(lg, p)
    BY <1>4
  <2> HIDE DEF p
  <2> QED
    BY <1>4, <2>1, RecordFacts
<1> QED
  BY <1>2, <1>4, <1>5, <1>6

(* What an accepted claim or renew leaves behind, as a reader infers it    *)
(* from the record alone.                                                  *)
LEMMA AcceptedState ==
  ASSUME NEW lg, NEW rf, NEW t, Sound(lg, rf, t), NEW o \in 0..Len(lg) - 1,
         Valid(lg, o), rec(lg, o).kind # Release, verdict(lg, rf, o) = Accepted
  PROVE  rf[o + 2].state = [holder  |-> term(rec(lg, o))[1],
                            epoch   |-> term(rec(lg, o))[2],
                            expires |-> rec(lg, o).ts + rec(lg, o).ttl]
<1> DEFINE r == rec(lg, o)
           s == rf[o + 1].state
<1>1. /\ r \in RecordOf(Node) /\ s \in StateOf(Node) /\ foldOutcome(s, r) = Accepted
      /\ rf[o + 2].state = folded(s, r)
  BY RecordFacts
<1> HIDE DEF r, s
<1>2. rf[o + 2].state = foldState(s, r)
  BY <1>1 DEF folded
<1>3. r.kind \in {Claim, Renew} /\ Claim # Renew
  BY <1>1 DEF RecordOf, Kind, Claim, Renew, Release, r
<1>4. CASE r.kind = Claim
  BY <1>2, <1>3, <1>4 DEF foldState, term, r
<1>5. CASE r.kind = Renew
  <2>1. s.holder = r.holder /\ s.epoch = r.epoch
    BY <1>1, <1>3, <1>5 DEF foldOutcome, Accepted, Rejected
  <2>2. foldState(s, r) = [s EXCEPT !.expires = r.ts + r.ttl]
    BY <1>3, <1>5 DEF foldState, Claim, Renew, Release
  <2>3. [s EXCEPT !.expires = r.ts + r.ttl]
          = [holder |-> s.holder, epoch |-> s.epoch, expires |-> r.ts + r.ttl]
    BY <1>1 DEF StateOf
  <2> QED
    BY <1>2, <1>3, <1>5, <2>1, <2>2, <2>3 DEF term, r
<1> QED
  BY <1>3, <1>4, <1>5

(* What an uncertain reader keeps: the last records that could be          *)
(* accepted, without a hole.                                               *)
nextOffset(lg, ps, i) == IF i = Len(ps) THEN Len(lg) ELSE ps[i + 1].offset

PendingInv(lg, ps) ==
  \A i \in 1..Len(ps) :
    LET o == ps[i].offset
        q == nextOffset(lg, ps, i)
    IN  /\ o \in 0..Len(lg) - 1 /\ Valid(lg, o) /\ ps[i] = rec(lg, o)
        /\ o < q
        /\ \A k \in o + 1..q - 1 : ~Valid(lg, k)

(* A proven record and all that is kept after it give the lease as the     *)
(* whole log has it (View.applyUncertain).                                 *)
LEMMA Replay ==
  ASSUME NEW lg, NEW rf, NEW t, Sound(lg, rf, t), NEW w \in ViewOf(Node),
         PendingInv(lg, w.pending), NEW i \in 1..Len(w.pending),
         w.pending[i].kind # Release, verdict(lg, rf, w.pending[i].offset) = Accepted
  PROVE  Anchored(w, i) = [w EXCEPT !.certain = TRUE, !.state = rf[Len(lg) + 1].state,
                                    !.pending = << >>]
<1> DEFINE ps == w.pending
           n == Len(ps)
           p == ps[i]
           known == [w EXCEPT !.certain = TRUE,
                              !.state   = [holder  |-> term(p)[1],
                                           epoch   |-> term(p)[2],
                                           expires |-> p.ts + p.ttl],
                              !.pending = << >>]
           replay[k \in i..n] == IF k = i THEN known ELSE fold(replay[k - 1], ps[k])
           at(k) == rf[ps[k].offset + 2].state
           g == [k \in i..n |-> [known EXCEPT !.state = at(k)]]
<1>1. ps \in Seq(RecordOf(Node)) /\ n \in Nat /\ i \in Nat /\ Len(lg) \in Nat /\ n \in i..n
  BY DEF ViewOf, Sound
<1>2. Anchored(w, i) = replay[n]
  BY DEF Anchored
<1>3. ASSUME NEW k \in i..n
      PROVE  /\ k \in 1..n /\ ps[k].offset \in 0..Len(lg) - 1 /\ Valid(lg, ps[k].offset)
             /\ ps[k] = rec(lg, ps[k].offset) /\ ps[k].offset < nextOffset(lg, ps, k)
             /\ \A j \in ps[k].offset + 1..nextOffset(lg, ps, k) - 1 : ~Valid(lg, j)
  BY <1>1 DEF PendingInv
<1>4. known.state = at(i) /\ known = [known EXCEPT !.state = at(i)]
  <2>1. at(i) = [holder |-> term(p)[1], epoch |-> term(p)[2], expires |-> p.ts + p.ttl]
    <3>1. /\ p.offset \in 0..Len(lg) - 1 /\ Valid(lg, p.offset) /\ p = rec(lg, p.offset)
      BY <1>1, <1>3
    <3> QED
      BY <3>1, AcceptedState
  <2> QED
    BY <2>1, Zenon DEF ViewOf
<1>5. ASSUME NEW k \in i..n
      PROVE  rf[nextOffset(lg, ps, k) + 1].state = at(k)
  <2> DEFINE o == ps[k].offset + 1
             q == nextOffset(lg, ps, k)
  <2>1. q \in Nat /\ q <= Len(lg)
    <3>1. CASE k = n
      BY <1>1, <3>1 DEF nextOffset
    <3>2. CASE k # n
      <4>1. k + 1 \in i..n
        BY <1>1, <3>2
      <4> QED
        BY <1>1, <1>3, <3>2, <4>1 DEF nextOffset
    <3> QED
      BY <3>1, <3>2
  <2>2. ps[k].offset \in Nat /\ ps[k].offset < q
    BY <1>1, <1>3
  <2>3. o \in Nat /\ q \in o..Len(lg) /\ o + 1 = ps[k].offset + 2
    BY <1>1, <2>1, <2>2
  <2>4. \A j \in o..q - 1 : ~Valid(lg, j)
    BY <1>3
  <2> HIDE DEF o, q
  <2>5. rf[q + 1].state = rf[o + 1].state
    BY <2>3, <2>4, Unmoved
  <2> QED
    BY <2>3, <2>5 DEF q
<1>6. ASSUME NEW k \in i..n, k # i
      PROVE  k - 1 \in i..n /\ at(k) = folded(at(k - 1), ps[k])
  <2>1. k - 1 \in i..n /\ k - 1 # n /\ (k - 1) + 1 = k
    BY <1>1, <1>6
  <2>2. nextOffset(lg, ps, k - 1) = ps[k].offset
    BY <2>1 DEF nextOffset
  <2>3. rf[ps[k].offset + 1].state = at(k - 1)
    BY <1>5, <2>1, <2>2
  <2>4. at(k) = folded(rf[ps[k].offset + 1].state, ps[k])
    <3> DEFINE o == ps[k].offset
    <3>1. o \in 0..Len(lg) - 1 /\ Valid(lg, o) /\ ps[k] = rec(lg, o)
      BY <1>3
    <3> HIDE DEF o
    <3>2. rf[o + 2].state = folded(rf[o + 1].state, rec(lg, o))
      BY <3>1, RecordFacts
    <3> QED
      BY <3>1, <3>2 DEF o
  <2> QED
    BY <2>1, <2>3, <2>4
<1> HIDE DEF at
<1>7. ASSUME NEW s, NEW r
      PROVE  fold([known EXCEPT !.state = s], r) = [known EXCEPT !.state = folded(s, r)]
  <2> DEFINE u == [known EXCEPT !.state = s]
  <2>1. u.state = s /\ \A z : [u EXCEPT !.state = z] = [known EXCEPT !.state = z]
    BY Zenon DEF ViewOf
  <2> HIDE DEF u
  <2>2. fold(u, r) = [known EXCEPT !.state = folded(s, r)]
    <3>1. CASE foldOutcome(s, r) = Accepted
      BY <2>1, <3>1 DEF fold, folded
    <3>2. CASE foldOutcome(s, r) # Accepted
      BY <2>1, <3>2 DEF fold, folded, u
    <3> QED
      BY <3>1, <3>2
  <2> QED
    BY <2>2 DEF u
<1> HIDE DEF known
<1>8. g = [k \in i..n |-> IF k = i THEN known ELSE fold(g[k - 1], ps[k])]
  <2> SUFFICES ASSUME NEW k \in i..n
               PROVE  g[k] = IF k = i THEN known ELSE fold(g[k - 1], ps[k])
    BY Zenon
  <2>1. g[k] = [known EXCEPT !.state = at(k)]
    OBVIOUS
  <2>2. CASE k = i
    BY <1>4, <2>1, <2>2
  <2>3. CASE k # i
    <3>1. g[k - 1] = [known EXCEPT !.state = at(k - 1)]
      BY <1>6, <2>3
    <3>2. fold([known EXCEPT !.state = at(k - 1)], ps[k])
            = [known EXCEPT !.state = folded(at(k - 1), ps[k])]
      BY <1>7, Zenon
    <3>3. at(k) = folded(at(k - 1), ps[k])
      BY <1>6, <2>3
    <3> HIDE DEF g
    <3> QED
      BY <2>1, <2>3, <3>1, <3>2, <3>3, Zenon
  <2> QED
    BY <2>2, <2>3
<1>9. replay = [k \in i..n |-> IF k = i THEN known ELSE fold(replay[k - 1], ps[k])]
  <2> HIDE DEF g
  <2> QED
    BY <1>8
<1> HIDE DEF replay, g
<1>10. replay[n] = g[n]
  <2> DEFINE T == {k \in i..n : replay[k] # g[k]}
  <2>1. SUFFICES ASSUME T # {} PROVE FALSE
    BY <1>1
  <2>2. PICK k \in T : \A j \in T : k <= j
    <3>1. T \in SUBSET Nat
      BY <1>1
    <3> HIDE DEF T
    <3> QED
      BY <2>1, <3>1, LeastElement
  <2>3. k \in i..n /\ k # i
    BY <1>8, <1>9
  <2>4. k - 1 \in i..n /\ ~(k <= k - 1)
    BY <1>1, <2>3
  <2>5. replay[k - 1] = g[k - 1]
    BY <2>2, <2>4
  <2> QED
    BY <1>8, <1>9, <2>2, <2>3, <2>5
<1>11. at(n) = rf[Len(lg) + 1].state
  BY <1>1, <1>5 DEF nextOffset
<1>12. g[n] = [known EXCEPT !.state = rf[Len(lg) + 1].state]
  BY <1>1, <1>11 DEF g
<1> QED
  BY <1>2, <1>10, <1>12, Zenon DEF known, ViewOf

(* One more record: it is kept, or could not be accepted anyway.           *)
LEMMA PendingGrows ==
  ASSUME NEW lg \in Seq(Entry), NEW lg2 \in Seq(Entry), Len(lg2) = Len(lg) + 1,
         \A k \in 1..Len(lg) : lg2[k] = lg[k],
         NEW ps \in Seq(RecordOf(Node)), PendingInv(lg, ps)
  PROVE  PendingInv(lg2, IF Valid(lg2, Len(lg)) THEN Append(ps, rec(lg2, Len(lg))) ELSE ps)
<1> DEFINE L == Len(lg)
           n == Len(ps)
           r == rec(lg2, L)
<1>1. L \in Nat /\ n \in Nat /\ r.offset = L
  BY DEF rec, DecodeValue
<1>2. ASSUME NEW o \in 0..L - 1
      PROVE  rec(lg2, o) = rec(lg, o) /\ (Valid(lg2, o) <=> Valid(lg, o))
  <2>1. o + 1 \in 1..L
    BY <1>1
  <2>2. lg2[o + 1] = lg[o + 1]
    BY <2>1
  <2> QED
    BY <2>2 DEF rec, Valid
<1>3. ASSUME NEW i \in 1..n
      PROVE  /\ ps[i].offset \in 0..L - 1 /\ Valid(lg, ps[i].offset)
             /\ ps[i] = rec(lg, ps[i].offset) /\ ps[i].offset < nextOffset(lg, ps, i)
             /\ nextOffset(lg, ps, i) \in Nat /\ nextOffset(lg, ps, i) <= L
             /\ \A k \in ps[i].offset + 1..nextOffset(lg, ps, i) - 1 : ~Valid(lg, k)
  <2>1. nextOffset(lg, ps, i) \in Nat /\ nextOffset(lg, ps, i) <= L
    <3>1. CASE i = n
      BY <1>1, <3>1 DEF nextOffset
    <3>2. CASE i # n
      <4>1. i + 1 \in 1..n
        BY <1>1, <3>2
      <4>2. ps[i + 1].offset \in 0..L - 1
        BY <4>1 DEF PendingInv
      <4> QED
        BY <1>1, <3>2, <4>2 DEF nextOffset
    <3> QED
      BY <3>1, <3>2
  <2> QED
    BY <2>1 DEF PendingInv
<1>4. CASE Valid(lg2, L)
  <2> DEFINE qs == Append(ps, r)
  <2>1. Len(qs) = n + 1 /\ qs[n + 1] = r /\ \A i \in 1..n : qs[i] = ps[i]
    BY <1>1
  <2> HIDE DEF qs, r
  <2>2. ASSUME NEW i \in 1..n PROVE nextOffset(lg2, qs, i) = nextOffset(lg, ps, i)
    <3>1. CASE i = n
      BY <1>1, <2>1, <3>1 DEF nextOffset
    <3>2. CASE i # n
      <4>1. i + 1 \in 1..n /\ i # n + 1
        BY <1>1, <3>2
      <4> QED
        BY <2>1, <3>2, <4>1 DEF nextOffset
    <3> QED
      BY <3>1, <3>2
  <2>3. ASSUME NEW i \in 1..n + 1
        PROVE  LET o == qs[i].offset
                   q == nextOffset(lg2, qs, i)
               IN  /\ o \in 0..Len(lg2) - 1 /\ Valid(lg2, o) /\ qs[i] = rec(lg2, o)
                   /\ o < q
                   /\ \A k \in o + 1..q - 1 : ~Valid(lg2, k)
    <3>1. CASE i = n + 1
      <4>1. nextOffset(lg2, qs, i) = L + 1
        BY <2>1, <3>1 DEF nextOffset
      <4> QED
        BY <1>1, <1>4, <2>1, <3>1, <4>1 DEF r
    <3>2. CASE i # n + 1
      <4>1. i \in 1..n
        BY <1>1, <3>2
      <4> DEFINE o == ps[i].offset
                 q == nextOffset(lg, ps, i)
      <4>2. qs[i] = ps[i] /\ nextOffset(lg2, qs, i) = q
        BY <2>1, <2>2, <4>1
      <4>3. /\ o \in 0..L - 1 /\ Valid(lg, o) /\ ps[i] = rec(lg, o)
            /\ o < q /\ q \in Nat /\ q <= L /\ \A k \in o + 1..q - 1 : ~Valid(lg, k)
        BY <1>3, <4>1
      <4> HIDE DEF o, q
      <4>4. \A k \in o + 1..q - 1 : ~Valid(lg2, k)
        BY <1>1, <1>2, <4>3
      <4>5. o \in 0..Len(lg2) - 1 /\ Valid(lg2, o) /\ ps[i] = rec(lg2, o)
        BY <1>1, <1>2, <4>3
      <4> QED
        BY <4>2, <4>3, <4>4, <4>5 DEF o
    <3> QED
      BY <3>1, <3>2
  <2> QED
    BY <1>4, <2>1, <2>3 DEF PendingInv, qs, r
<1>5. CASE ~Valid(lg2, L)
  <2>1. ASSUME NEW i \in 1..n
        PROVE  LET o == ps[i].offset
                   q == nextOffset(lg2, ps, i)
               IN  /\ o \in 0..Len(lg2) - 1 /\ Valid(lg2, o) /\ ps[i] = rec(lg2, o)
                   /\ o < q
                   /\ \A k \in o + 1..q - 1 : ~Valid(lg2, k)
    <3> DEFINE o == ps[i].offset
               q == nextOffset(lg, ps, i)
               q2 == nextOffset(lg2, ps, i)
    <3>1. /\ o \in 0..L - 1 /\ Valid(lg, o) /\ ps[i] = rec(lg, o)
          /\ o < q /\ q \in Nat /\ q <= L /\ \A k \in o + 1..q - 1 : ~Valid(lg, k)
      BY <1>3
    <3>2. q2 = q \/ (q = L /\ q2 = L + 1)
      BY DEF nextOffset
    <3> HIDE DEF o, q, q2
    <3>3. ASSUME NEW k \in o + 1..q2 - 1 PROVE ~Valid(lg2, k)
      <4>1. k = L \/ (k \in o + 1..q - 1 /\ k \in 0..L - 1)
        BY <1>1, <3>1, <3>2
      <4> QED
        BY <1>2, <1>5, <3>1, <4>1
    <3>4. o \in 0..Len(lg2) - 1 /\ Valid(lg2, o) /\ ps[i] = rec(lg2, o) /\ o < q2
      BY <1>1, <1>2, <3>1, <3>2
    <3> QED
      BY <3>3, <3>4 DEF o, q2
  <2> QED
    BY <1>5, <2>1 DEF PendingInv
<1> QED
  BY <1>4, <1>5

(* Pruning cuts off the oldest (View.prunePending).                        *)
LEMMA PendingPruned ==
  ASSUME NEW lg, NEW ps \in Seq(RecordOf(Node)), NEW clock, PendingInv(lg, ps)
  PROVE  LET qs == prunePending(ps, clock)
         IN  qs \in Seq(RecordOf(Node)) /\ PendingInv(lg, qs)
<1> DEFINE n == Len(ps)
           recent == {i \in 1..Len(ps) : ps[i].ts >= clock - 2 * TTL}
           I == recent \cup {Len(ps) + 1}
           j == firstOf(I)
           qs == SubSeq(ps, j, n)
<1>1. n \in Nat
  OBVIOUS
<1>2. j \in I
  <2>1. I \in SUBSET Nat /\ I # {}
    BY <1>1
  <2> HIDE DEF I
  <2>2. \E i \in I : \A k \in I : i <= k
    BY <2>1, LeastElement
  <2> QED
    BY <2>2 DEF firstOf
<1>3. j \in 1..n + 1
  BY <1>1, <1>2
<1>4. prunePending(ps, clock) = qs
  BY DEF prunePending
<1> HIDE DEF j
<1>5. /\ qs \in Seq(RecordOf(Node)) /\ Len(qs) = n + 1 - j
      /\ \A i \in 1..Len(qs) : qs[i] = ps[i + j - 1]
  BY <1>1, <1>3
<1> HIDE DEF qs
<1>6. ASSUME NEW i \in 1..Len(qs)
      PROVE  LET o == qs[i].offset
                 q == nextOffset(lg, qs, i)
             IN  /\ o \in 0..Len(lg) - 1 /\ Valid(lg, o) /\ qs[i] = rec(lg, o)
                 /\ o < q
                 /\ \A k \in o + 1..q - 1 : ~Valid(lg, k)
  <2> DEFINE a == i + j - 1
  <2>1. a \in 1..n /\ qs[i] = ps[a]
    BY <1>1, <1>3, <1>5
  <2>2. nextOffset(lg, qs, i) = nextOffset(lg, ps, a)
    <3>1. CASE i = Len(qs)
      <4>1. a = n
        BY <1>1, <1>3, <1>5, <3>1
      <4> QED
        BY <3>1, <4>1 DEF nextOffset
    <3>2. CASE i # Len(qs)
      <4>1. i \in Int /\ j \in Int /\ Len(qs) \in Int /\ Len(qs) = n + 1 - j
        BY <1>1, <1>3, <1>5
      <4>2. i + 1 \in 1..Len(qs) /\ a # n
        BY <1>1, <3>2, <4>1
      <4>3. (i + 1) + j - 1 = a + 1
        BY <4>1
      <4>4. qs[i + 1] = ps[a + 1]
        BY <1>5, <4>2, <4>3
      <4> QED
        BY <3>2, <4>2, <4>4 DEF nextOffset
    <3> QED
      BY <3>1, <3>2
  <2> HIDE DEF a
  <2> QED
    BY <2>1, <2>2 DEF PendingInv
<1>7. PendingInv(lg, qs)
  BY <1>6 DEF PendingInv
<1> QED
  BY <1>4, <1>5, <1>7

(* Two states that agree still do later, and after the same record.        *)
LEMMA AgreeLater ==
  ASSUME NEW s \in StateOf(Node), NEW q \in StateOf(Node), NEW t \in Int, NEW t2 \in Int,
         t <= t2, Agree(s, q, t)
  PROVE  Agree(s, q, t2)
BY DEF Agree, HeldAt, StateOf

(* Two states that agree still do after the same record.                   *)
LEMMA AgreeFolded ==
  ASSUME NEW s \in StateOf(Node), NEW q \in StateOf(Node), NEW G, NEW r \in RecordOf(G),
         Agree(s, q, r.ts)
  PROVE  Agree(folded(s, r), folded(q, r), r.ts)
<1>1. CASE HeldAt(q, r.ts)
  BY <1>1 DEF Agree
<1>2. CASE ~HeldAt(q, r.ts)
  <2>1. ~HeldAt(s, r.ts)
    BY <1>2 DEF Agree
  <2>2. foldOutcome(s, r) = foldOutcome(q, r)
    BY <1>2, <2>1 DEF foldOutcome
  <2>3. CASE foldOutcome(s, r) = Accepted
    <3>1. r.kind = Claim
      BY <2>1, <2>3 DEF foldOutcome, Accepted, Rejected
    <3>2. foldState(s, r) = foldState(q, r)
      BY <3>1 DEF foldState, Claim, Renew, Release
    <3> QED
      BY <2>2, <2>3, <3>2 DEF folded, Agree
  <2>4. CASE foldOutcome(s, r) # Accepted
    BY <2>2, <2>4 DEF folded
  <2> QED
    BY <2>3, <2>4
<1> QED
  BY <1>1, <1>2

(* A reader that is certain as the record arrives folds it.                *)
LEMMA CertainFold ==
  ASSUME NEW w \in ViewOf(Node), w.certain, w.seen, NEW s \in StateOf(Node),
         NEW G, NEW r \in RecordOf(G), validTTL(r) => r.holder \in Node,
         w.clock = r.ts, Agree(w.state, s, r.ts)
  PROVE  /\ fold(w, r) \in ViewOf(Node) /\ fold(w, r).certain /\ fold(w, r).seen
         /\ fold(w, r).clock = r.ts
         /\ Agree(fold(w, r).state, folded(s, r), r.ts)
<1>1. w.state \in StateOf(Node)
  BY DEF ViewOf
<1>2. Agree(folded(w.state, r), folded(s, r), r.ts)
  BY <1>1, AgreeFolded
<1>3. CASE foldOutcome(w.state, r) # Accepted
  BY <1>2, <1>3 DEF fold, folded
<1>4. CASE foldOutcome(w.state, r) = Accepted
  <2> DEFINE z == foldState(w.state, r)
  <2>1. validTTL(r)
    BY <1>4 DEF foldOutcome, Accepted, Rejected
  <2>2. /\ r.ts \in Int /\ r.ttl \in Int /\ r.offset \in Int /\ r.holder \in Node
        /\ r.kind \in {Claim, Renew, Release}
    BY <2>1 DEF RecordOf, Kind
  <2>3. z \in StateOf(Node)
    <3>1. r.ts + r.ttl \in Int
      BY <2>2
    <3>2. CASE r.kind = Claim
      BY <2>2, <3>1, <3>2 DEF foldState, StateOf, Claim, Renew, Release
    <3>3. CASE r.kind = Renew
      <4>1. z = [w.state EXCEPT !.expires = r.ts + r.ttl]
        BY <3>3 DEF foldState, Claim, Renew, Release
      <4> QED
        BY <1>1, <3>1, <4>1 DEF StateOf
    <3>4. CASE r.kind = Release
      <4>1. z = [w.state EXCEPT !.holder = NoHolder, !.expires = r.ts]
        BY <3>4 DEF foldState, Claim, Renew, Release
      <4> QED
        BY <1>1, <2>2, <4>1 DEF StateOf
    <3> QED
      BY <2>2, <3>2, <3>3, <3>4
  <2>4. fold(w, r) = [w EXCEPT !.state = z] /\ folded(w.state, r) = z
    BY <1>4 DEF fold, folded
  <2> HIDE DEF z
  <2>5. /\ [w EXCEPT !.state = z] \in ViewOf(Node)
        /\ [w EXCEPT !.state = z].certain = w.certain /\ [w EXCEPT !.state = z].seen = w.seen
        /\ [w EXCEPT !.state = z].clock = w.clock /\ [w EXCEPT !.state = z].state = z
    BY <2>3, Zenon DEF ViewOf
  <2> QED
    BY <1>2, <2>4, <2>5
<1> QED
  BY <1>3, <1>4

(* The reader's view v of log lg, whose views of the whole are rf.         *)
ReaderView(lg, rf, v) ==
  LET u == rf[Len(lg) + 1]
  IN  /\ v \in ViewOf(Node)
      /\ v.clock <= u.clock
      /\ v.seen => v.clock = u.clock
      /\ IF v.certain THEN v.seen /\ Agree(v.state, u.state, v.clock)
                      ELSE PendingInv(lg, v.pending)

(* A reader that starts knows nothing.                                     *)
LEMMA NewReader ==
  ASSUME NEW lg, NEW rf, NEW t, Sound(lg, rf, t)
  PROVE  ReaderView(lg, rf, NewView)
<1>1. /\ ZeroTime \in Int /\ NoOffset \in Int /\ 0 \in Int
      /\ << >> \in Seq(RecordOf(Node))
  BY DEF ZeroTime, NoOffset
<1>2. FreeState(0) \in StateOf(Node)
  BY <1>1 DEF FreeState, StateOf
<1>3. NewView \in ViewOf(Node)
  BY <1>1, <1>2, Zenon DEF NewView, ViewOf
<1>4. ~NewView.certain /\ ~NewView.seen /\ NewView.clock = ZeroTime /\ NewView.pending = << >>
  BY DEF NewView
<1>5. rf[1].clock = ZeroTime /\ rf[1].clock <= rf[Len(lg) + 1].clock
  <2>1. 1 \in 1..Len(lg) + 1 /\ Len(lg) + 1 \in 1..Len(rf) /\ rf[1] = NewViewFromStart
    BY DEF Sound, HistoryInv, FoldInv
  <2>2. NewViewFromStart.clock = ZeroTime
    BY DEF NewViewFromStart, NewView
  <2> QED
    BY <2>1, <2>2 DEF Sound, HistoryInv, TermInv
<1>6. PendingInv(lg, << >>)
  BY DEF PendingInv
<1> QED
  BY <1>3, <1>4, <1>5, <1>6 DEF ReaderView

(* Record r, stamped ts, is what value x at offset o decodes to.           *)
Decoded(x, o, ts, r) ==
  /\ r.ts = ts /\ r.offset = o
  /\ validTTL(r) => r \in RecordOf(Node) /\ r.holder \in Node
  /\ r \in RecordOf({x.holder}) \/ r \in RecordOf(Node)
  /\ r.kind # Claim => x \in OwnValue
  /\ x \in OwnValue => r.kind = x.kind /\ r.holder = x.holder
                       /\ (x.kind # Claim => r.epoch = x.epoch)

(* DecodeValue: only a participant's value has a TTL that counts.          *)
LEMMA DecodeAny ==
  ASSUME NEW x \in OwnValue \cup ForeignValues, NEW o \in Int, NEW ts \in Int, Decodes(x)
  PROVE  Decoded(x, o, ts, DecodeValue(x, o, ts))
<1> DEFINE r == DecodeValue(x, o, ts)
<1>1. CASE x \in OwnValue
  <2>1. /\ r \in RecordOf(Node) /\ r.kind = x.kind /\ r.holder = x.holder /\ r.ts = ts
        /\ r.offset = o /\ (x.kind # Claim => r.epoch = x.epoch)
    BY <1>1, DecodeOwn
  <2> HIDE DEF r
  <2>2. r.holder \in Node
    BY <2>1 DEF RecordOf
  <2> QED
    BY <1>1, <2>1, <2>2 DEF Decoded, r
<1>2. CASE x \in ForeignValues /\ x \notin OwnValue
  <2>1. r \in RecordOf({x.holder}) /\ ~validTTL(r) /\ r.ts = ts /\ r.offset = o
    BY <1>2, DecodeForeign
  <2>2. r.kind = x.kind /\ x.kind = Claim
    BY <1>2, ForeignAssumption DEF DecodeValue
  <2> HIDE DEF r
  <2> QED
    BY <1>2, <2>1, <2>2 DEF Decoded, r
<1> QED
  BY <1>1, <1>2

(* The next record, for a reader that started late: it stays uncertain and *)
(* keeps the record, or finds out, from silence or from an anchor, what    *)
(* the whole log says (View.Apply).                                        *)
LEMMA ReaderStep ==
  ASSUME NEW lg, NEW rf, NEW t \in Int, Sound(lg, rf, t), NEW lg2, NEW rf2, Sound(lg2, rf2, t),
         Longer(lg, rf, lg2, rf2), Len(lg2) = Len(lg) + 1,
         LET x == lg2[Len(lg) + 1].value
         IN  x \in OwnValue /\ x.kind # Claim => Clean(lg, rf, x.holder, x.epoch, NoOffset),
         NEW v, ReaderView(lg, rf, v)
  PROVE  ReaderView(lg2, rf2,
           viewAfter(v, Len(lg), lg2[Len(lg) + 1].ts, lg2[Len(lg) + 1].value))
<1> DEFINE L == Len(lg)
           x == lg2[L + 1].value
           ts == lg2[L + 1].ts
           r == DecodeValue(x, L, ts)
           u == rf[L + 1]
           u2 == rf2[L + 2]
           v2 == viewAfter(v, L, ts, x)
<1>1. /\ lg \in Seq(Entry) /\ lg2 \in Seq(Entry) /\ L \in Nat /\ L \in 0..Len(lg2) - 1 /\ L \in Int
      /\ Len(rf) = L + 1 /\ L + 1 \in 1..Len(rf) /\ L + 1 \in 1..Len(lg2) /\ L + 1 \in 1..Len(rf2)
      /\ Len(lg2) + 1 = L + 2 /\ (L + 1) + 1 = L + 2 /\ (L + 1) - 1 = L
      /\ L + 2 \in 1..Len(rf2)
  BY DEF Sound, HistoryInv, FoldInv
<1>2. /\ lg2[L + 1] \in Entry /\ u \in ViewOf(Node) /\ u2 \in ViewOf(Node) /\ rf2[L + 1] = u
      /\ u.certain /\ u.clock <= ts /\ u2 = viewAfter(u, L, ts, x)
      /\ u.state.holder # NoHolder => u.state.expires <= u.clock + W
      /\ \A k \in 1..L : lg2[k] = lg[k]
  BY <1>1 DEF Sound, HistoryInv, ViewInv, FoldInv, Stamped, Longer
<1>3. ts \in Int /\ x \in OwnValue \cup ForeignValues
  BY <1>2 DEF Entry
<1>4. rec(lg2, L) = r
  BY DEF rec
<1>5. /\ v \in ViewOf(Node) /\ v.clock <= u.clock /\ (v.seen => v.clock = u.clock)
      /\ IF v.certain THEN v.seen /\ Agree(v.state, u.state, v.clock)
                      ELSE PendingInv(lg, v.pending)
  BY DEF ReaderView
<1>6. /\ v.clock \in Int /\ u.clock \in Int /\ v.state \in StateOf(Node) /\ u.state \in StateOf(Node)
      /\ v.pending \in Seq(RecordOf(Node)) /\ v.certain \in BOOLEAN /\ u.state.expires \in Int
  BY <1>2, <1>5, ViewFields DEF ViewOf
<1>7. SUFFICES /\ v2 \in ViewOf(Node) /\ v2.clock <= u2.clock
               /\ v2.seen => v2.clock = u2.clock
               /\ IF v2.certain THEN v2.seen /\ Agree(v2.state, u2.state, v2.clock)
                                ELSE PendingInv(lg2, v2.pending)
  BY <1>1 DEF ReaderView
<1>8. u2.state = IF Valid(lg2, L) THEN folded(u.state, r) ELSE u.state
  BY <1>1, <1>2, <1>4, RecordFacts
<1>9. PendingInv(lg, v.pending) =>
        PendingInv(lg2, IF Valid(lg2, L) THEN Append(v.pending, r) ELSE v.pending)
  BY <1>1, <1>2, <1>4, <1>6, PendingGrows
<1>10. Valid(lg2, L) <=> Decodes(x) /\ validTTL(r)
  BY <1>4 DEF Valid
<1> HIDE DEF L, x, ts, r, u, u2, v2
<1>11. CASE ~Decodes(x)
  <2>1. v2 = v /\ u2 = u
    BY <1>2, <1>11 DEF viewAfter, v2
  <2> QED
    BY <1>5, <1>9, <1>10, <1>11, <2>1
<1>12. CASE Decodes(x)
  <2>1. /\ r.ts = ts /\ r.offset = L
        /\ validTTL(r) => r \in RecordOf(Node) /\ r.holder \in Node
        /\ r \in RecordOf({x.holder}) \/ r \in RecordOf(Node)
        /\ r.kind # Claim => x \in OwnValue
        /\ x \in OwnValue => r.kind = x.kind /\ r.holder = x.holder
                             /\ (x.kind # Claim => r.epoch = x.epoch)
    <3>1. Decoded(x, L, ts, r)
      <4> HIDE DEF x, ts, L
      <4> QED
        BY <1>1, <1>3, <1>12, DecodeAny, Zenon DEF r
    <3> QED
      BY <3>1, Zenon DEF Decoded
  <2>2. PICK G : r \in RecordOf(G)
    BY <2>1
  <2>3. u2.clock = ts /\ u2.state = folded(u.state, r)
    <3>1. Applied(Node, u, r, Apply(u, r)) /\ u2 = Apply(u, r).view
      BY <1>2, <1>12, <2>1, <2>2, ApplyFacts DEF viewAfter, r
    <3>2. u2.clock = ts
      BY <1>2, <1>3, <1>6, <2>1, <3>1 DEF Applied, clockAfter
    <3>3. u2.state = folded(u.state, r)
      BY <1>2, <2>1, <2>2, <3>1, ApplyState
    <3> QED
      BY <3>2, <3>3
  <2> DEFINE w == [v EXCEPT !.clock = r.ts, !.lastOffset = r.offset, !.seen = TRUE]
  <2>4. v.clock <= ts
    BY <1>2, <1>3, <1>5, <1>6
  <2>5. Clamped(v, r) = r
    BY <1>3, <1>6, <2>1, <2>4 DEF Clamped
  <2>6. /\ w \in ViewOf(Node) /\ w.seen /\ w.clock = ts /\ w.certain = v.certain
        /\ w.state = v.state /\ w.pending = v.pending
    <3>1. r.ts \in Int /\ r.offset \in Int
      BY <1>1, <1>3, <2>1
    <3> QED
      BY <1>5, <2>1, <3>1, Zenon DEF ViewOf
  <2>7. v2 = Apply(v, r).view
    BY <1>12 DEF viewAfter, v2, r
  <2> DEFINE quiet == ~v.certain /\ v.seen /\ r.ts - v.clock >= TTL
  <2>8. Noted(v, r) = IF quiet THEN setFree(w) ELSE w
    BY DEF Noted
  <2> HIDE DEF w
  <2>9. ASSUME NEW z \in ViewOf(Node), z.certain, z.seen, z.clock = ts,
               Agree(z.state, u.state, ts), v2 = fold(z, r)
        PROVE  /\ v2 \in ViewOf(Node) /\ v2.clock <= u2.clock
               /\ v2.seen => v2.clock = u2.clock
               /\ v2.certain /\ v2.seen /\ Agree(v2.state, u2.state, v2.clock)
    BY <1>3, <1>6, <2>1, <2>2, <2>3, <2>9, CertainFold
  <2>10. CASE v.certain
    <3>1. ~quiet /\ Noted(v, r) = w /\ w.certain
      BY <2>6, <2>8, <2>10
    <3>2. v2 = fold(w, r)
      BY <2>5, <2>7, <3>1 DEF Apply
    <3>3. Agree(w.state, u.state, ts)
      BY <1>3, <1>5, <1>6, <2>4, <2>6, <2>10, AgreeLater
    <3> QED
      BY <2>6, <2>9, <3>1, <3>2, <3>3
  <2>11. CASE quiet
    <3> DEFINE z == setFree(w)
    <3>1. z = [w EXCEPT !.state = FreeState(NoOffset), !.certain = TRUE, !.pending = << >>]
      BY <2>6, <2>11 DEF setFree
    <3>2. FreeState(NoOffset) \in StateOf(Node) /\ << >> \in Seq(RecordOf(Node))
      BY DEF FreeState, StateOf, NoOffset, ZeroTime
    <3> HIDE DEF z
    <3>3. /\ z \in ViewOf(Node) /\ z.certain /\ z.seen = w.seen /\ z.clock = w.clock
          /\ z.state = FreeState(NoOffset)
      BY <2>6, <3>1, <3>2, Zenon DEF ViewOf
    <3>4. v2 = fold(z, r)
      BY <2>5, <2>7, <2>8, <2>11, <3>3 DEF Apply, z
    <3>5. ~HeldAt(u.state, ts)
      <4>1. W <= TTL /\ W \in Int /\ TTL \in Int
        BY TTLAssumption, MsUnitAssumption, WireInt DEF W, WireTTL
      <4> QED
        BY <1>2, <1>3, <1>5, <1>6, <2>1, <2>11, <4>1 DEF HeldAt
    <3>6. Agree(z.state, u.state, ts)
      BY <3>3, <3>5 DEF Agree, HeldAt, FreeState
    <3> QED
      BY <2>6, <2>9, <3>3, <3>4, <3>6
  <2>12. CASE ~v.certain /\ ~quiet
    <3> DEFINE A == Anchors(w, r)
    <3>1. v2 = applyUncertain(w, r).view
      BY <2>5, <2>6, <2>7, <2>8, <2>12 DEF Apply
    <3>2. PendingInv(lg, w.pending)
      BY <1>5, <2>6, <2>12
    <3>3. CASE A # {}
      <4> DEFINE i == firstOf(A)
                 o == w.pending[i].offset
                 z == Anchored(w, i)
      <4>1. i \in A
        <5>1. A \in SUBSET Nat
          BY <1>6, <2>6 DEF Anchors
        <5> HIDE DEF A
        <5>2. \E k \in A : \A j \in A : k <= j
          BY <3>3, <5>1, LeastElement
        <5> QED
          BY <5>2 DEF firstOf
      <4>2. /\ i \in 1..Len(w.pending) /\ r.kind # Claim /\ w.pending[i].kind # Release
            /\ term(w.pending[i]) = term(r)
        BY <1>6, <2>6, <4>1 DEF Anchors
      <4>3. v2 = fold(z, r)
        BY <3>1, <3>3 DEF applyUncertain
      <4> HIDE DEF A, i, z
      <4>4. o \in 0..L - 1 /\ Valid(lg, o) /\ w.pending[i] = rec(lg, o)
        BY <3>2, <4>2 DEF PendingInv, L
      <4>5. verdict(lg, rf, o) = Accepted
        <5>1. x \in OwnValue /\ x.kind # Claim /\ r.holder = x.holder /\ r.epoch = x.epoch
          BY <2>1, <4>2
        <5>2. Clean(lg, rf, x.holder, x.epoch, NoOffset)
          BY <5>1 DEF x, L
        <5>3. term(r) = <<x.holder, x.epoch>>
          BY <4>2, <5>1 DEF term
        <5>4. InTerm(lg[o + 1].value, o, x.holder, x.epoch)
          <6> DEFINE y == lg[o + 1].value
                     p == rec(lg, o)
          <6>1. /\ y \in OwnValue /\ p.offset = o
            BY <4>4, RecordFacts DEF L
          <6>2. p.kind = y.kind /\ p.holder = y.holder /\ (y.kind # Claim => p.epoch = y.epoch)
            BY DEF rec, DecodeValue
          <6>3. y.kind \in {Claim, Renew}
            BY <4>2, <4>4, <6>1, <6>2 DEF OwnValue, Kind
          <6>4. term(p) = <<x.holder, x.epoch>>
            BY <4>2, <4>4, <5>3
          <6> HIDE DEF p, y
          <6>5. p.holder = x.holder /\ (IF p.kind = Claim THEN p.offset ELSE p.epoch) = x.epoch
            BY <6>4 DEF term
          <6> QED
            BY <6>1, <6>2, <6>3, <6>5 DEF InTerm, y, Claim, Renew
        <5>5. o # NoOffset
          BY <1>1, <4>4 DEF NoOffset
        <5> QED
          BY <4>4, <5>2, <5>4, <5>5 DEF Clean, L
      <4>6. z = [w EXCEPT !.certain = TRUE, !.state = u.state, !.pending = << >>]
        <5>1. w.pending[i].kind # Release /\ verdict(lg, rf, w.pending[i].offset) = Accepted
          BY <4>2, <4>5
        <5> HIDE DEF o
        <5>2. Anchored(w, i) = [w EXCEPT !.certain = TRUE, !.state = rf[Len(lg) + 1].state,
                                         !.pending = << >>]
          <6>1. w \in ViewOf(Node) /\ i \in 1..Len(w.pending)
            BY <2>6, <4>2
          <6> QED
            BY <3>2, <5>1, <6>1, Replay, Zenon
        <5> QED
          BY <5>2 DEF z, u, L
      <4>7. << >> \in Seq(RecordOf(Node))
        OBVIOUS
      <4>8. z \in ViewOf(Node) /\ z.certain /\ z.seen = w.seen /\ z.clock = w.clock /\ z.state = u.state
        BY <1>6, <2>6, <4>6, <4>7, Zenon DEF ViewOf
      <4>9. Agree(z.state, u.state, ts)
        BY <4>8 DEF Agree
      <4> QED
        BY <2>6, <2>9, <4>3, <4>8, <4>9
    <3>4. CASE A = {}
      <4> DEFINE ps == IF validTTL(r) THEN Append(w.pending, r) ELSE w.pending
                 qs == prunePending(ps, w.clock)
      <4>1. v2 = [w EXCEPT !.pending = qs]
        BY <3>1, <3>4 DEF applyUncertain
      <4>2. ps \in Seq(RecordOf(Node))
        BY <1>6, <2>1, <2>6
      <4>3. PendingInv(lg2, ps)
        BY <1>9, <1>10, <1>12, <2>6, <3>2
      <4> HIDE DEF ps
      <4>4. qs \in Seq(RecordOf(Node)) /\ PendingInv(lg2, qs)
        BY <4>2, <4>3, PendingPruned
      <4> HIDE DEF qs
      <4>5. /\ v2 \in ViewOf(Node) /\ v2.certain = w.certain /\ v2.seen = w.seen
            /\ v2.clock = w.clock /\ v2.pending = qs
        BY <2>6, <4>1, <4>4, Zenon DEF ViewOf
      <4> QED
        BY <1>3, <2>3, <2>6, <2>12, <4>4, <4>5
    <3> QED
      BY <3>3, <3>4
  <2> QED
    BY <2>10, <2>11, <2>12
<1> QED
  BY <1>11, <1>12

-----------------------------------------------------------------------------
(* Every late reader, along with the protocol.                             *)
LateInv == \A k \in 1..End : ReaderView(log, ref, late[k])

(* A late reader reads its next record.                                    *)
LEMMA FollowStep ==
  ASSUME MaxSkew = 0, Inv, Inv', Stamped(log, ref), Stamped(log, ref)', Terms, LateInv,
         NEW x \in OwnValue \cup ForeignValues, append(x), now' = now, Follow,
         x \in OwnValue /\ x.kind # Claim => Clean(log, ref, x.holder, x.epoch, NoOffset)
  PROVE  LateInv'
<1> DEFINE L == Len(log)
           z(k) == IF k = L + 1 THEN NewView ELSE late[k]
<1>1. /\ Longer(log, ref, log', ref') /\ Len(log') = L + 1 /\ log'[L + 1].value = x
  BY AppendFacts
<1>2. now \in Int /\ L \in Nat /\ Sound(log, ref, now) /\ Sound(log', ref', now)
  BY DEF Inv, TypeOK, Sound
<1>3. log' # log /\ (L + 1) - 1 = L
  BY <1>1, <1>2
<1>4. late' = [k \in 1..L + 1 |-> viewAfter(z(k), L, log'[L + 1].ts, log'[L + 1].value)]
  BY <1>1, <1>3 DEF Follow
<1>5. ASSUME NEW k \in 1..L + 1
      PROVE  ReaderView(log', ref', late'[k])
  <2>1. ReaderView(log, ref, z(k))
    <3>1. CASE k = L + 1
      BY <1>2, <3>1, NewReader
    <3>2. CASE k # L + 1
      <4>1. k \in 1..L
        BY <1>2, <3>2
      <4> QED
        BY <3>2, <4>1 DEF LateInv, End
    <3> QED
      BY <3>1, <3>2
  <2>2. late'[k] = viewAfter(z(k), L, log'[L + 1].ts, log'[L + 1].value)
    BY <1>4
  <2> HIDE DEF z
  <2>3. ReaderView(log', ref', viewAfter(z(k), L, log'[L + 1].ts, log'[L + 1].value))
    BY <1>1, <1>2, <2>1, ReaderStep
  <2> QED
    BY <2>2, <2>3
<1> QED
  BY <1>1, <1>5 DEF LateInv, End

(* Every step, of a candidate, the broker or a late reader, keeps the      *)
(* invariant.                                                              *)
LEMMA LateStep ==
  ASSUME MaxSkew = 0, "compaction" \notin Faults, "stopInFlight" \notin Faults,
         Inv, Inv', Stamped(log, ref), Stamped(log, ref)', Terms, LateInv, [LateNext]_lateVars
  PROVE  LateInv'
<1>1. CASE UNCHANGED lateVars
  BY <1>1 DEF lateVars, vars, broker, LateInv, End
<1>2. CASE LateNext
  <2>1. Next /\ Follow
    BY <1>2 DEF LateNext
  <2>2. CASE log' = log /\ ref' = ref
    <3>1. late' = late
      BY <2>1, <2>2 DEF Follow
    <3> QED
      BY <2>2, <3>1 DEF LateInv, End
  <2>3. ASSUME NEW m \in wire, Land(m) PROVE LateInv'
    <3> DEFINE x == m.value
    <3>1. append(x) /\ now' = now
      BY <2>3 DEF Land
    <3>2. x \in OwnValue /\ x.holder \in Node
      BY DEF Inv, TypeOK, Request, OwnValue
    <3>3. x.kind # Claim => Clean(log, ref, x.holder, x.epoch, NoOffset)
      BY <3>2 DEF Terms, NodeTerms, Names
    <3> QED
      BY <2>1, <3>1, <3>2, <3>3, FollowStep
  <2>4. ASSUME NEW x \in ForeignValues, Foreign(x) PROVE LateInv'
    <3>1. append(x) /\ now' = now
      BY <2>4 DEF Foreign
    <3>2. x \notin OwnValue
      BY ForeignAssumption DEF OwnValue
    <3> QED
      BY <2>1, <3>1, <3>2, FollowStep
  <2> QED
    BY <2>1, <2>2, <2>3, <2>4
       DEF Next, Advance, LeaderChange, Compact, Join, Consume, PollEnds, AckArrives, AckFails,
           Tick, Stop, WriteRelease, broker
<1> QED
  BY <1>1, <1>2

(* Readers that started at different points of the log agree as soon as    *)
(* they are certain, be it through an anchor or through silence: for       *)
(* clocks that agree, and participants that are not stopped with a request *)
(* in flight (View.Apply, View.applyUncertain, and the writer rules of     *)
(* agent.tick that it relies on).                                          *)
THEOREM LateReaders_Agree ==
  ASSUME "compaction" \notin Faults, "stopInFlight" \notin Faults, MaxSkew = 0
  PROVE  LateSpec => []LateReadersAgree
<1> DEFINE All == Inv /\ Stamped(log, ref) /\ Terms /\ LateInv /\ Due
<1>1. LateInit => All
  <2> SUFFICES ASSUME LateInit PROVE All
    OBVIOUS
  <2>1. Init
    BY DEF LateInit
  <2>2. Inv /\ Terms
    BY <2>1, InitInv, InitTerms
  <2>3. Len(log) = 0
    BY <2>1 DEF Init
  <2>4. Stamped(log, ref) /\ LateInv /\ Due
    BY <2>1, <2>3 DEF Stamped, LateInv, End, Due, Init
  <2> QED
    BY <2>2, <2>4
<1>2. All /\ [LateNext]_lateVars => All'
  <2> SUFFICES ASSUME All, [LateNext]_lateVars PROVE All'
    OBVIOUS
  <2>1. [Next]_vars
    BY DEF LateNext, lateVars
  <2>2. Inv'
    BY <2>1, NextInv
  <2>3. Stamped(log, ref)'
    BY <2>1, StampedStep
  <2>4. Terms'
    BY <2>1, <2>2, NextTerms
  <2>5. LateInv'
    BY <2>2, <2>3, LateStep
  <2>6. Due'
    BY <2>1, <2>2, DueStep
  <2> QED
    BY <2>2, <2>3, <2>4, <2>5, <2>6
<1>3. All => LateReadersAgree
  BY DEF LateInv, ReaderView, LateReadersAgree, LogState, End
<1> HIDE DEF All
<1> QED
  BY <1>1, <1>2, <1>3, PTL DEF LateSpec
=============================================================================
