------------------------ MODULE LeaseProtocolProofs ------------------------
(***************************************************************************)
(* The protocol's safety, for any number of participants, any TTL, margin  *)
(* and clock skew, and logs of any length, as long as nothing is           *)
(* compacted: every reader sees the whole log.                             *)
(***************************************************************************)
EXTENDS LeaseAgentProofs

(* What a node has published is backed by the whole log.                   *)
PubInv(rf, n, p) ==
  /\ p.deadline # ZeroTime => Backed(rf, Len(rf), n, p.deadline, p.epoch)
  /\ p.epoch <= 0 \/ p.epoch <= rf[Len(rf)].state.epoch

(* Node n, in phase ph, with agent a, published belief p and landed        *)
(* request l.                                                              *)
NodeInv(lg, rf, t, n, ph, a, p, l) ==
  /\ IF ph = "new" THEN a = NoAgent ELSE AgentInv(lg, rf, t, n, a, l)
  /\ ph \in {"new", "releasing", "stopped"} => p.deadline = ZeroTime /\ a.deadline <= t
  /\ ph = "releasing" => a.inflight = Idle \/ "stopInFlight" \in Faults
  /\ PubInv(rf, n, p)
  /\ ReleasedBy(lg, n) => ph = "stopped"

(* Request m is the one a has in flight, and has not landed.               *)
Pursued(a, l, m) ==
  /\ m.value.kind = a.inflight.kind /\ m.sentAt = a.inflight.sentAt
  /\ l = NoOffset
  /\ m.value.epoch = IF m.value.kind = Claim THEN 0 ELSE a.epoch

(* Request m is one that a gave up on.                                     *)
GivenUp(t, a, m) ==
  /\ t >= m.sentAt + TTL
  /\ a.inflight = Idle \/ m.sentAt < a.lastSend

(* A request on the wire, of a node in phase ph.                           *)
RequestInv(t, ph, a, l, m) ==
  /\ m.sentAt <= t
  /\ ph # "new"
  /\ IF m.value.kind = Release THEN ph = "stopped" ELSE Pursued(a, l, m) \/ GivenUp(t, a, m)

(* The inductive invariant.                                                *)
Inv ==
  /\ TypeOK
  /\ first = 0
  /\ HistoryInv(log, ref, now)
  /\ \A n \in Node : NodeInv(log, ref, now, n, phase[n], agent[n], pub[n], landed[n])
  /\ \A m \in wire :
       LET h == m.value.holder
       IN  RequestInv(now, phase[h], agent[h], landed[h], m)

-----------------------------------------------------------------------------
(* A published belief stays backed when the log grows.                     *)
LEMMA PubLonger ==
  ASSUME NEW lg \in Seq(Entry), NEW rf \in Seq(ViewOf(Node)), NEW lg2 \in Seq(Entry),
         NEW rf2 \in Seq(ViewOf(Node)), Len(rf) >= 1, Longer(lg, rf, lg2, rf2),
         TermInv(lg2, rf2), NEW n, NEW p \in [deadline : Int, epoch : Int], PubInv(rf, n, p)
  PROVE  PubInv(rf2, n, p)
<1> DEFINE k == Len(rf)
           k2 == Len(rf2)
<1>1. k \in Nat /\ k2 \in Nat /\ k <= k2 /\ k \in 1..k2 /\ k2 \in 1..k2 /\ k \in 1..k
  BY DEF Longer
<1>2. \A i \in 1..k : rf2[i] = rf[i] /\ i \in 1..k2
  BY <1>1 DEF Longer
<1>3. Backed(rf, k, n, p.deadline, p.epoch) => Backed(rf2, k2, n, p.deadline, p.epoch)
  BY <1>2 DEF Backed
<1>4. rf2[k].state.epoch <= rf2[k2].state.epoch
  BY <1>1 DEF TermInv
<1>5. rf2[k].state.epoch \in Int /\ rf2[k2].state.epoch \in Int /\ p.epoch \in Int
  <2>1. rf2[k] \in ViewOf(Node) /\ rf2[k2] \in ViewOf(Node)
    BY <1>1
  <2> QED
    BY <2>1, ViewFields
<1>6. rf2[k] = rf[k]
  BY <1>1, <1>2
<1> QED
  BY <1>3, <1>4, <1>5, <1>6 DEF PubInv

(* What an agent publishes is backed.                                      *)
LEMMA PublishInv ==
  ASSUME NEW lg \in Seq(Entry), NEW rf \in Seq(ViewOf(Node)), NEW t \in Nat, HistoryInv(lg, rf, t),
         NEW n, NEW l, NEW a \in AgentOf(Node), AgentInv(lg, rf, t, n, a, l)
  PROVE  /\ status(a, t) \in [deadline : Int, epoch : Int]
         /\ PubInv(rf, n, status(a, t))
<1> DEFINE k == a.nextOffset + 1
           k2 == Len(rf)
<1>1. a.nextOffset \in Nat /\ a.deadline \in Int /\ a.epoch \in Int
  BY AgentFields
<1>2. k2 \in Nat /\ k2 = Len(lg) + 1
  BY DEF HistoryInv, FoldInv
<1>3. k \in 1..k2 /\ k2 \in 1..k2
  BY <1>1, <1>2 DEF AgentInv, ReaderInv
<1>4. rf[k].state.epoch <= rf[k2].state.epoch
  BY <1>3 DEF HistoryInv, TermInv
<1>5. rf[k].state.epoch \in Int /\ rf[k2].state.epoch \in Int
  <2>1. rf[k] \in ViewOf(Node) /\ rf[k2] \in ViewOf(Node)
    BY <1>3
  <2> QED
    BY <2>1, ViewFields
<1>6. a.epoch <= rf[k2].state.epoch
  BY <1>1, <1>4, <1>5 DEF AgentInv, BeliefInv
<1>7. a.deadline # ZeroTime => Backed(rf, k2, n, a.deadline, a.epoch)
  BY <1>1, <1>2, <1>3 DEF AgentInv, BeliefInv, Backed
<1>8. status(a, t).deadline \in {a.deadline, ZeroTime} /\ status(a, t).epoch = a.epoch
  BY DEF status
<1>9. status(a, t) \in [deadline : Int, epoch : Int]
  BY <1>1 DEF status, ZeroTime
<1> QED
  BY <1>6, <1>7, <1>8, <1>9 DEF PubInv

(* The request a node has in flight is pursued until it is settled.        *)
LEMMA RequestKept ==
  ASSUME NEW t \in Int, NEW ph, NEW ph2, NEW a, NEW b, NEW l, NEW m,
         RequestInv(t, ph, a, l, m), FlightKept(a, b, l),
         ph2 # "new", ph = "stopped" => ph2 = "stopped"
  PROVE  RequestInv(t, ph2, b, l, m)
<1>1. Pursued(a, l, m) => Pursued(b, l, m)
  BY DEF Pursued, FlightKept
<1>2. GivenUp(t, a, m) => GivenUp(t, b, m)
  BY DEF GivenUp, FlightKept
<1> QED
  BY <1>1, <1>2 DEF RequestInv

(* What a node writes is a value of a participant.                         *)
LEMMA EncodeOwn ==
  ASSUME NEW a, a.holder \in Node, NEW k \in Kind, NEW e \in Int
  PROVE  LET x == EncodeValue(newRecord(a, k, e))
         IN  /\ x \in OwnValue /\ x.kind = k /\ x.holder = a.holder
             /\ x.epoch = IF k = Claim THEN 0 ELSE e
<1> DEFINE x == EncodeValue(newRecord(a, k, e))
<1>1. x = [version |-> WireVersion, kind |-> k, holder |-> a.holder,
           epoch |-> IF k = Claim THEN 0 ELSE e, ttlMs |-> TTL \div MsUnit]
  BY DEF EncodeValue, newRecord
<1> QED
  BY <1>1 DEF OwnValue

-----------------------------------------------------------------------------
(* A step of node n: the broker and the other nodes are left alone.        *)
OnlyNode(n, ph, a, p, l) ==
  /\ UNCHANGED <<now, lead, log, first, ref>>
  /\ phase' = [phase EXCEPT ![n] = ph] /\ agent' = [agent EXCEPT ![n] = a]
  /\ pub' = [pub EXCEPT ![n] = p] /\ landed' = [landed EXCEPT ![n] = l]

(* The requests on the wire after a step of node n.                        *)
WireInv(n, ph, a, l) ==
  /\ wire' \subseteq Request
  /\ \A m \in wire' : IF m.value.holder = n THEN RequestInv(now, ph, a, l, m) ELSE m \in wire

(* A step of one node keeps the invariant if it does for that node and its *)
(* requests.                                                               *)
LEMMA NodeStep ==
  ASSUME Inv, NEW n \in Node, NEW ph \in {"new", "poll", "drain", "releasing", "stopped"},
         NEW a \in AgentOf(Node), NEW p \in [deadline : Int, epoch : Int], NEW l \in Int,
         OnlyNode(n, ph, a, p, l), NodeInv(log, ref, now, n, ph, a, p, l), WireInv(n, ph, a, l)
  PROVE  Inv'
<1>1. TypeOK'
  <2>1. /\ agent' \in [Node -> AgentOf(Node)]
        /\ phase' \in [Node -> {"new", "poll", "drain", "releasing", "stopped"}]
        /\ pub' \in [Node -> [deadline : Int, epoch : Int]]
        /\ landed' \in [Node -> Int]
    BY Zenon DEF Inv, TypeOK, OnlyNode
  <2> QED
    BY <2>1 DEF Inv, TypeOK, OnlyNode, WireInv
<1>2. /\ phase'[n] = ph /\ agent'[n] = a /\ pub'[n] = p /\ landed'[n] = l
      /\ \A k \in Node \ {n} : /\ phase'[k] = phase[k] /\ agent'[k] = agent[k]
                               /\ pub'[k] = pub[k] /\ landed'[k] = landed[k]
  BY Zenon DEF Inv, TypeOK, OnlyNode
<1>3. ASSUME NEW k \in Node
      PROVE  NodeInv(log', ref', now', k, phase'[k], agent'[k], pub'[k], landed'[k])
  BY <1>2 DEF Inv, OnlyNode
<1>4. ASSUME NEW m \in wire', NEW h, h = m.value.holder
      PROVE  RequestInv(now', phase'[h], agent'[h], landed'[h], m)
  <2>1. h \in Node
    BY <1>4 DEF Request, OwnValue, WireInv
  <2>2. CASE h = n
    <3>1. RequestInv(now, ph, a, l, m)
      BY <1>4, <2>2 DEF WireInv
    <3> QED
      BY <1>2, <2>2, <3>1, Zenon DEF OnlyNode
  <2>3. CASE h # n
    BY <1>2, <1>4, <2>1, <2>3 DEF Inv, OnlyNode, WireInv
  <2> QED
    BY <2>2, <2>3
<1> QED
  BY <1>1, <1>3, <1>4 DEF Inv, OnlyNode

(* The parts of the invariant for one node.                                *)
LEMMA AtNode ==
  ASSUME Inv, NEW n \in Node
  PROVE  /\ now \in Nat /\ log \in Seq(Entry) /\ ref \in Seq(ViewOf(Node))
         /\ HistoryInv(log, ref, now)
         /\ NodeInv(log, ref, now, n, phase[n], agent[n], pub[n], landed[n])
         /\ agent[n] \in AgentOf(Node) /\ landed[n] \in Int
         /\ pub[n] \in [deadline : Int, epoch : Int]
         /\ phase[n] \in {"new", "poll", "drain", "releasing", "stopped"}
         /\ wire \subseteq Request
         /\ \A m \in wire :
              m.value.holder = n => RequestInv(now, phase[n], agent[n], landed[n], m)
BY DEF Inv, TypeOK

(* A step of a running node that sends nothing: only the agent moves on.   *)
LEMMA QuietStep ==
  ASSUME Inv, NEW n \in Node, Running(n), NEW ph \in {"poll", "drain"}, NEW a \in AgentOf(Node),
         NEW p, p = pub[n] \/ p = status(a, now),
         OnlyNode(n, ph, a, p, landed[n]), wire' = wire,
         AgentInv(log, ref, now, n, a, landed[n]), FlightKept(agent[n], a, landed[n])
  PROVE  Inv'
<1> DEFINE l == landed[n]
<1>1. /\ now \in Nat /\ log \in Seq(Entry) /\ ref \in Seq(ViewOf(Node))
      /\ HistoryInv(log, ref, now)
      /\ NodeInv(log, ref, now, n, phase[n], agent[n], pub[n], l)
      /\ agent[n] \in AgentOf(Node) /\ l \in Int
      /\ pub[n] \in [deadline : Int, epoch : Int]
      /\ wire \subseteq Request
      /\ \A m \in wire : m.value.holder = n => RequestInv(now, phase[n], agent[n], l, m)
  BY AtNode
<1> HIDE DEF l
<1>2. ph # "new" /\ ph # "stopped" /\ phase[n] # "stopped"
  BY DEF Running
<1>3. p \in [deadline : Int, epoch : Int] /\ PubInv(ref, n, p)
  <2>1. CASE p = pub[n]
    BY <1>1, <2>1 DEF NodeInv
  <2>2. CASE p = status(a, now)
    BY <1>1, <2>2, PublishInv DEF l
  <2> QED
    BY <2>1, <2>2
<1>4. ~ReleasedBy(log, n)
  BY <1>1, <1>2 DEF NodeInv
<1>5. NodeInv(log, ref, now, n, ph, a, p, l)
  BY <1>2, <1>3, <1>4 DEF NodeInv, l
<1>6. WireInv(n, ph, a, l)
  BY <1>1, <1>2, RequestKept DEF l, WireInv
<1> QED
  BY <1>1, <1>3, <1>5, <1>6, NodeStep DEF l

(* What a step of node n leaves alone, in the form of OnlyNode.            *)
LEMMA Unchanged ==
  ASSUME Inv, NEW n \in Node
  PROVE  /\ phase = [phase EXCEPT ![n] = phase[n]] /\ pub = [pub EXCEPT ![n] = pub[n]]
         /\ landed = [landed EXCEPT ![n] = landed[n]] /\ agent = [agent EXCEPT ![n] = agent[n]]
BY Zenon DEF Inv, TypeOK

(* A running node's agent satisfies its invariant.                         *)
LEMMA RunningAgent ==
  ASSUME Inv, NEW n \in Node, Running(n)
  PROVE  /\ AgentInv(log, ref, now, n, agent[n], landed[n])
         /\ agent[n] \in AgentOf(Node) /\ agent[n].holder = n
         /\ agent[n].view.certain
<1>1. NodeInv(log, ref, now, n, phase[n], agent[n], pub[n], landed[n]) /\ phase[n] # "new"
  BY AtNode DEF Running
<1>2. AgentInv(log, ref, now, n, agent[n], landed[n]) /\ agent[n] \in AgentOf(Node)
  BY <1>1, AtNode DEF NodeInv
<1>3. agent[n].nextOffset \in Nat /\ Len(log) \in Nat /\ Len(ref) = Len(log) + 1
  BY <1>2, AgentFields, AtNode DEF HistoryInv, FoldInv
<1>4. agent[n].nextOffset + 1 \in 1..Len(ref)
  BY <1>2, <1>3 DEF AgentInv, ReaderInv
<1>5. ref[agent[n].nextOffset + 1].certain
  BY <1>4, AtNode DEF HistoryInv, ViewInv
<1> QED
  BY <1>2, <1>5 DEF AgentInv, ReaderInv

(* consume, a failed or an empty fetch.                                    *)
LEMMA PollEndsInv ==
  ASSUME Inv, NEW n \in Node, PollEnds(n)
  PROVE  Inv'
<1>1. Running(n)
  BY DEF PollEnds, Running
<1> DEFINE a == agent[n]
<1>2. /\ AgentInv(log, ref, now, n, a, landed[n]) /\ a \in AgentOf(Node)
      /\ now \in Int /\ a.nextOffset \in Nat
  BY <1>1, RunningAgent, AtNode, AgentFields
<1>3. PICK b \in {fetchFailed(a), fetched(a, now, a.nextOffset)} :
        agent' = [agent EXCEPT ![n] = b] /\ publish(n, b)
  BY DEF PollEnds
<1>4. /\ b \in AgentOf(Node) /\ AgentInv(log, ref, now, n, b, landed[n])
      /\ SameCore(a, b)
  <2> DEFINE c == fetchFailed(a)
             d == fetched(a, now, a.nextOffset)
  <2>1. /\ c \in AgentOf(Node) /\ AgentInv(log, ref, now, n, c, landed[n]) /\ SameCore(a, c)
        /\ d \in AgentOf(Node) /\ AgentInv(log, ref, now, n, d, landed[n]) /\ SameCore(a, d)
    BY <1>2, FetchedInv
  <2> HIDE DEF c, d
  <2>2. b = c \/ b = d
    BY <1>3 DEF c, d
  <2> QED
    BY <2>1, <2>2, Zenon
<1>5. FlightKept(a, b, landed[n])
  BY <1>4 DEF SameCore, FlightKept
<1>6. OnlyNode(n, "drain", b, status(b, now), landed[n]) /\ wire' = wire
  <2>1. /\ UNCHANGED <<now, lead, log, first, ref>> /\ wire' = wire
        /\ pub' = [pub EXCEPT ![n] = status(b, now)]
        /\ phase' = [phase EXCEPT ![n] = "drain"]
    BY <1>3 DEF PollEnds, publish, broker
  <2>2. landed' = [landed EXCEPT ![n] = landed[n]]
    BY Unchanged, Zenon DEF PollEnds
  <2> QED
    BY <1>3, <2>1, <2>2, Zenon DEF OnlyNode
<1> QED
  BY <1>1, <1>4, <1>5, <1>6, QuietStep

(* consume, a record: without compaction it is the one at nextOffset.      *)
LEMMA ConsumeInv ==
  ASSUME Inv, NEW n \in Node, Consume(n)
  PROVE  Inv'
<1>1. Running(n)
  BY DEF Consume, Running
<1> DEFINE a == agent[n]
           o == a.nextOffset
           b(h) == record(fetched(a, now, h), now, o, log[o + 1].ts, log[o + 1].value)
<1>2. /\ AgentInv(log, ref, now, n, a, landed[n]) /\ a \in AgentOf(Node)
      /\ now \in Int /\ o \in Nat /\ Len(log) \in Nat /\ landed[n] \in Int
      /\ log \in Seq(Entry) /\ ref \in Seq(ViewOf(Node)) /\ HistoryInv(log, ref, now)
  BY <1>1, RunningAgent, AtNode, AgentFields
<1>3. (IF a.nextOffset < first THEN first ELSE a.nextOffset) = o
  BY <1>2 DEF Inv
<1>4. /\ o < Len(log)
      /\ \E h \in {o + 1, Len(log)} : agent' = [agent EXCEPT ![n] = b(h)] /\ publish(n, b(h))
  <2>1. End = Len(log)
    BY DEF End
  <2> QED
    BY <1>3, <2>1, Zenon DEF Consume
<1> HIDE DEF b
<1>5. PICK h \in Nat : agent' = [agent EXCEPT ![n] = b(h)] /\ publish(n, b(h))
  <2>1. o + 1 \in Nat /\ Len(log) \in Nat
    BY <1>2
  <2> QED
    BY <1>4, <2>1, Zenon
<1> USE DEF b
<1> DEFINE f == fetched(a, now, h)
           c == b(h)
<1>6. f \in AgentOf(Node) /\ AgentInv(log, ref, now, n, f, landed[n]) /\ SameCore(a, f)
  BY <1>2, FetchedInv
<1> HIDE DEF f
<1>7. f.nextOffset = o
  BY <1>6 DEF SameCore
<1>8. /\ c \in AgentOf(Node) /\ AgentInv(log, ref, now, n, c, landed[n])
      /\ FlightKept(f, c, landed[n])
  <2>1. c = record(f, now, f.nextOffset, log[f.nextOffset + 1].ts, log[f.nextOffset + 1].value)
    BY <1>7 DEF f
  <2>2. f.nextOffset < Len(log)
    BY <1>4, <1>7
  <2> HIDE DEF c
  <2> QED
    BY <1>2, <1>6, <2>1, <2>2, RecordInv
<1>9. OnlyNode(n, phase[n], c, status(c, now), landed[n]) /\ wire' = wire
  BY <1>5, Unchanged DEF Consume, OnlyNode, publish, broker
<1> HIDE DEF c
<1>10. FlightKept(a, c, landed[n])
  BY <1>6, <1>8 DEF SameCore, FlightKept
<1>11. phase[n] \in {"poll", "drain"}
  BY <1>1 DEF Running
<1> QED
  BY <1>1, <1>8, <1>9, <1>10, <1>11, QuietStep

(* drain, the acknowledgement of the request in flight.                    *)
LEMMA AckArrivesInv ==
  ASSUME Inv, NEW n \in Node, AckArrives(n)
  PROVE  Inv'
<1>1. Running(n)
  BY DEF AckArrives
<1> DEFINE a == agent[n]
           b == acked(a, now, landed[n])
<1>2. /\ AgentInv(log, ref, now, n, a, landed[n]) /\ a \in AgentOf(Node)
      /\ now \in Int /\ landed[n] \in Int
      /\ log \in Seq(Entry) /\ ref \in Seq(ViewOf(Node)) /\ HistoryInv(log, ref, now)
  BY <1>1, RunningAgent, AtNode
<1>3. a.inflight # Idle /\ a.inflight.offset = NoOffset /\ landed[n] # NoOffset
  BY DEF AckArrives
<1>4. /\ b \in AgentOf(Node) /\ AgentInv(log, ref, now, n, b, landed[n])
      /\ FlightKept(a, b, landed[n])
  BY <1>2, <1>3, AckedInv
<1>5. OnlyNode(n, "drain", b, pub[n], landed[n]) /\ wire' = wire
  BY Unchanged DEF AckArrives, OnlyNode, broker
<1> HIDE DEF b
<1> QED
  BY <1>1, <1>4, <1>5, QuietStep

(* drain, the request in flight failed.                                    *)
LEMMA AckFailsInv ==
  ASSUME Inv, NEW n \in Node, AckFails(n)
  PROVE  Inv'
<1>1. Running(n)
  BY DEF AckFails
<1> DEFINE a == agent[n]
           b == ackFailed(a, now)
<1>2. /\ AgentInv(log, ref, now, n, a, landed[n]) /\ a \in AgentOf(Node)
      /\ now \in Int /\ landed[n] \in Int
      /\ NodeInv(log, ref, now, n, phase[n], a, pub[n], landed[n])
      /\ pub[n] \in [deadline : Int, epoch : Int]
      /\ wire \subseteq Request
      /\ \A m \in wire : m.value.holder = n => RequestInv(now, phase[n], a, landed[n], m)
  BY <1>1, RunningAgent, AtNode
<1>3. a.inflight # Idle
  BY DEF AckFails
<1>4. /\ b \in AgentOf(Node) /\ AgentInv(log, ref, now, n, b, NoOffset)
      /\ b.inflight = Idle
  BY <1>2, <1>3, AckFailedInv
<1>5. OnlyNode(n, "drain", b, pub[n], NoOffset)
  <2>1. pub' = [pub EXCEPT ![n] = pub[n]]
    BY Unchanged DEF AckFails
  <2> QED
    BY <2>1 DEF AckFails, OnlyNode, broker
<1>6. \/ now - a.inflight.sentAt >= TTL /\ wire' = wire
      \/ wire' = {m \in wire : ~(m.value.holder = n /\ Current(m))}
  BY Zenon DEF AckFails
<1> HIDE DEF b
<1>7. phase[n] # "stopped" /\ "drain" # "stopped" /\ "drain" # "new"
  BY <1>1 DEF Running
<1>8. NodeInv(log, ref, now, n, "drain", b, pub[n], NoOffset)
  BY <1>2, <1>4, <1>7 DEF NodeInv
<1>9. ASSUME NEW m \in wire', m.value.holder = n
      PROVE  RequestInv(now, "drain", b, NoOffset, m)
  <2>1. m \in wire
    BY <1>6
  <2>2. m.sentAt \in Int /\ a.inflight.sentAt \in Int
    BY <1>2, <2>1, AgentFields DEF Request, InFlight
  <2>3. /\ m.value.kind # Release /\ m.sentAt <= now
        /\ Pursued(a, landed[n], m) \/ GivenUp(now, a, m)
    BY <1>2, <1>7, <1>9, <2>1 DEF RequestInv
  <2>4. now >= m.sentAt + TTL
    <3>1. CASE GivenUp(now, a, m)
      BY <3>1 DEF GivenUp
    <3>2. CASE Pursued(a, landed[n], m)
      <4>1. Current(m)
        BY <1>9, <3>2 DEF Pursued, Current
      <4>2. now - a.inflight.sentAt >= TTL
        BY <1>6, <1>9, <4>1
      <4> QED
        BY <1>2, <2>2, <3>2, <4>2, TTLAssumption DEF Pursued
    <3> QED
      BY <2>3, <3>1, <3>2
  <2> QED
    BY <1>4, <1>7, <2>3, <2>4 DEF RequestInv, GivenUp
<1>10. WireInv(n, "drain", b, NoOffset)
  BY <1>2, <1>6, <1>9 DEF WireInv
<1>11. "drain" \in {"new", "poll", "drain", "releasing", "stopped"} /\ NoOffset \in Int
  BY DEF NoOffset
<1> QED
  BY <1>2, <1>4, <1>5, <1>8, <1>10, <1>11, NodeStep

(* tick writes a record: only the new request can be the one in flight.    *)
LEMMA SendStep ==
  ASSUME Inv, NEW n \in Node, Running(n), NEW a \in AgentOf(Node),
         AgentInv(log, ref, now, n, a, landed[n]), a.inflight = Idle,
         FlightKept(agent[n], a, landed[n]), NEW k \in {Claim, Renew},
         OnlyNode(n, "poll", send(a, now, k).agent, status(send(a, now, k).agent, now), NoOffset),
         Produce(send(a, now, k).out)
  PROVE  Inv'
<1> DEFINE b == send(a, now, k).agent
           p == status(b, now)
           x == EncodeValue(newRecord(a, k, a.epoch))
           q == [value |-> x, sentAt |-> now]
<1>1. /\ now \in Nat /\ now \in Int /\ landed[n] \in Int
      /\ log \in Seq(Entry) /\ ref \in Seq(ViewOf(Node)) /\ HistoryInv(log, ref, now)
      /\ NodeInv(log, ref, now, n, phase[n], agent[n], pub[n], landed[n])
      /\ wire \subseteq Request
      /\ \A m \in wire : m.value.holder = n => RequestInv(now, phase[n], agent[n], landed[n], m)
  BY AtNode
<1>2. /\ b \in AgentOf(Node) /\ AgentInv(log, ref, now, n, b, NoOffset)
      /\ b.inflight.kind = k /\ b.inflight.sentAt = now
      /\ b.lastSend = now /\ b.epoch = a.epoch
      /\ send(a, now, k).out = {newRecord(a, k, a.epoch)}
  BY <1>1, SendInv
<1>3. a.holder = n /\ a.epoch \in Int /\ k \in Kind
  BY AgentFields DEF AgentInv, Kind
<1>4. /\ x \in OwnValue /\ x.kind = k /\ x.holder = n
      /\ x.epoch = IF k = Claim THEN 0 ELSE a.epoch
  BY <1>3, EncodeOwn
<1> HIDE DEF x
<1>5. wire' = wire \cup {q}
  <2>1. {[value |-> EncodeValue(r), sentAt |-> now] : r \in {newRecord(a, k, a.epoch)}} = {q}
    BY DEF x
  <2> QED
    BY <1>2, <2>1 DEF Produce
<1>6. q \in Request /\ q.value = x /\ q.sentAt = now
  BY <1>1, <1>4 DEF Request
<1> HIDE DEF q
<1>7. p \in [deadline : Int, epoch : Int] /\ PubInv(ref, n, p)
  BY <1>1, <1>2, PublishInv
<1>8. OnlyNode(n, "poll", b, p, NoOffset)
  OBVIOUS
<1> HIDE DEF b, p
<1>9. phase[n] # "stopped" /\ "poll" # "stopped" /\ "poll" # "new"
  BY DEF Running
<1>10. NodeInv(log, ref, now, n, "poll", b, p, NoOffset)
  BY <1>1, <1>2, <1>7, <1>9 DEF NodeInv
<1>11. RequestInv(now, "poll", b, NoOffset, q)
  <2>1. Pursued(b, NoOffset, q) /\ k # Release
    BY <1>2, <1>4, <1>6 DEF Pursued, Claim, Renew, Release
  <2> QED
    BY <1>1, <1>4, <1>6, <1>9, <2>1 DEF RequestInv
<1>12. ASSUME NEW m \in wire, m.value.holder = n
       PROVE  RequestInv(now, "poll", b, NoOffset, m)
  <2>1. m.sentAt \in Int /\ m.value.kind \in Kind
    BY <1>1 DEF Request, OwnValue
  <2>2. RequestInv(now, phase[n], a, landed[n], m)
    BY <1>1, <1>9, <1>12, RequestKept DEF Running
  <2>3. ~Pursued(a, landed[n], m)
    BY <2>1 DEF Pursued, Idle, Kind, Claim, Renew, Release
  <2>4. m.value.kind # Release /\ m.sentAt <= now /\ now >= m.sentAt + TTL
    BY <1>9, <2>2, <2>3 DEF RequestInv, GivenUp
  <2>5. m.sentAt < now
    BY <1>1, <2>1, <2>4, TTLAssumption
  <2> QED
    BY <1>2, <1>9, <2>4, <2>5 DEF RequestInv, GivenUp
<1>13. WireInv(n, "poll", b, NoOffset)
  <2>1. \A m \in wire' : m \in wire \/ m = q
    BY <1>5
  <2>2. wire' \subseteq Request
    BY <1>1, <1>6, <2>1
  <2>3. ASSUME NEW m \in wire', m.value.holder = n
        PROVE  RequestInv(now, "poll", b, NoOffset, m)
    BY <1>11, <1>12, <2>1, <2>3
  <2>4. ASSUME NEW m \in wire', m.value.holder # n
        PROVE  m \in wire
    BY <1>4, <1>6, <2>1, <2>4
  <2> QED
    BY <2>2, <2>3, <2>4 DEF WireInv
<1>14. "poll" \in {"new", "poll", "drain", "releasing", "stopped"} /\ NoOffset \in Int
  BY DEF NoOffset
<1> QED
  BY <1>2, <1>7, <1>8, <1>10, <1>13, <1>14, NodeStep

(* tick: without compaction a view is certain, and silence plays no part.  *)
LEMMA TickInv ==
  ASSUME Inv, NEW n \in Node, Tick(n)
  PROVE  Inv'
<1>1. Running(n)
  BY DEF Tick
<1> DEFINE a == agent[n]
           t == tick(a, now)
<1>2. /\ AgentInv(log, ref, now, n, a, landed[n]) /\ a \in AgentOf(Node)
      /\ a.view.certain /\ now \in Int /\ landed[n] \in Int
  BY <1>1, RunningAgent, AtNode
<1>3. \/ t.out = {} /\ t.agent \in {a, dropBelief(a)}
      \/ \E k \in {Claim, Renew} : \E b \in {a, dropBelief(a)} :
           b.inflight = Idle /\ t = send(b, now, k)
  BY <1>2, TickFacts
<1>4. /\ UNCHANGED <<now, lead, log, first, ref>>
      /\ agent' = [agent EXCEPT ![n] = t.agent]
      /\ landed' = IF t.out # {} THEN [landed EXCEPT ![n] = NoOffset] ELSE landed
      /\ wire' = wire \cup {[value |-> EncodeValue(r), sentAt |-> now] : r \in t.out}
      /\ pub' = [pub EXCEPT ![n] = status(t.agent, now)]
      /\ phase' = [phase EXCEPT ![n] = "poll"]
  BY Zenon DEF Tick, Produce, publish, broker
<1> HIDE DEF t
<1>5. ASSUME NEW b \in {a, dropBelief(a)}
      PROVE  /\ b \in AgentOf(Node) /\ AgentInv(log, ref, now, n, b, landed[n])
             /\ FlightKept(a, b, landed[n])
  <2>1. CASE b = a
    BY <1>2, <2>1 DEF FlightKept
  <2>2. CASE b = dropBelief(a)
    <3>1. /\ dropBelief(a) \in AgentOf(Node)
          /\ AgentInv(log, ref, now, n, dropBelief(a), landed[n])
      BY <1>2, DropInv
    <3>2. /\ dropBelief(a).epoch = a.epoch /\ dropBelief(a).inflight = a.inflight
          /\ dropBelief(a).lastSend = a.lastSend
      BY <1>2, Zenon DEF dropBelief, AgentOf
    <3>3. FlightKept(a, dropBelief(a), landed[n])
      BY <3>2 DEF FlightKept
    <3> QED
      BY <2>2, <3>1, <3>3
  <2> QED
    BY <2>1, <2>2
<1>6. CASE t.out = {} /\ t.agent \in {a, dropBelief(a)}
  <2>1. wire' = wire
    BY <1>4, <1>6
  <2>2. landed' = [landed EXCEPT ![n] = landed[n]]
    BY <1>4, <1>6, Unchanged, Zenon
  <2>3. OnlyNode(n, "poll", t.agent, status(t.agent, now), landed[n])
    BY <1>4, <2>2, Zenon DEF OnlyNode
  <2>4. /\ t.agent \in AgentOf(Node) /\ AgentInv(log, ref, now, n, t.agent, landed[n])
        /\ FlightKept(a, t.agent, landed[n])
    BY <1>5, <1>6
  <2> QED
    BY <1>1, <2>1, <2>3, <2>4, QuietStep
<1>7. ASSUME NEW k \in {Claim, Renew}, NEW b \in {a, dropBelief(a)},
             b.inflight = Idle, t = send(b, now, k)
      PROVE  Inv'
  <2>1. send(b, now, k).out # {}
    <3>1. send(b, now, k).out = {newRecord(b, k, b.epoch)}
      BY Zenon DEF send
    <3> QED
      BY <3>1
  <2>2. OnlyNode(n, "poll", t.agent, status(t.agent, now), NoOffset)
    BY <1>4, <1>7, <2>1, Zenon DEF OnlyNode
  <2>3. Produce(t.out)
    BY <1>4, Zenon DEF Produce
  <2> QED
    BY <1>1, <1>5, <1>7, <2>2, <2>3, SendStep
<1> QED
  BY <1>3, <1>6, <1>7

(* shutdown: the belief is dropped and published.                          *)
LEMMA StopInv ==
  ASSUME Inv, NEW n \in Node, Stop(n)
  PROVE  Inv'
<1>1. Running(n)
  BY DEF Stop
<1> DEFINE a == agent[n]
           l == landed[n]
           t == release(a, now)
           b == t.agent
           p == status(b, now)
           ph == IF t.out = {} THEN "stopped" ELSE "releasing"
<1>2. /\ AgentInv(log, ref, now, n, a, l) /\ a \in AgentOf(Node)
      /\ now \in Nat /\ now \in Int /\ l \in Int
      /\ log \in Seq(Entry) /\ ref \in Seq(ViewOf(Node)) /\ HistoryInv(log, ref, now)
      /\ NodeInv(log, ref, now, n, phase[n], a, pub[n], l)
      /\ wire \subseteq Request
      /\ \A m \in wire : m.value.holder = n => RequestInv(now, phase[n], a, l, m)
  BY <1>1, RunningAgent, AtNode
<1>3. /\ UNCHANGED <<now, lead, log, first, ref>>
      /\ agent' = [agent EXCEPT ![n] = b]
      /\ landed' = landed /\ wire' = wire
      /\ pub' = [pub EXCEPT ![n] = p]
      /\ phase' = [phase EXCEPT ![n] = ph]
  BY Zenon DEF Stop, publish, broker
<1>4. OnlyNode(n, ph, b, p, l)
  <2>1. landed' = [landed EXCEPT ![n] = l]
    BY <1>3, Unchanged, Zenon
  <2> QED
    BY <1>3, <2>1, Zenon DEF OnlyNode
<1>5. /\ b \in AgentOf(Node) /\ AgentInv(log, ref, now, n, b, l) /\ FlightKept(a, b, l)
      /\ b.deadline <= now /\ b.inflight = a.inflight
  <2>1. CASE ~believing(a, now)
    <3>1. b = a
      BY <2>1 DEF release
    <3>2. a.deadline <= now
      BY <1>2, <2>1, AgentFields DEF believing
    <3> HIDE DEF b
    <3> QED
      BY <1>2, <3>1, <3>2 DEF FlightKept
  <2>2. CASE believing(a, now)
    <3>1. b = dropBelief(a)
      BY <2>2 DEF release
    <3>2. dropBelief(a) \in AgentOf(Node) /\ AgentInv(log, ref, now, n, dropBelief(a), l)
      BY <1>2, DropInv
    <3>3. /\ dropBelief(a).epoch = a.epoch /\ dropBelief(a).inflight = a.inflight
          /\ dropBelief(a).lastSend = a.lastSend /\ dropBelief(a).deadline = ZeroTime
      BY <1>2, Zenon DEF dropBelief, AgentOf
    <3> HIDE DEF b
    <3> QED
      BY <1>2, <3>1, <3>2, <3>3 DEF FlightKept, ZeroTime
  <2> QED
    BY <2>1, <2>2
<1>6. a.inflight = Idle \/ "stopInFlight" \in Faults
  BY DEF Stop
<1>7. ph \in {"releasing", "stopped"} /\ phase[n] \in {"poll", "drain"}
  BY <1>1 DEF Running
<1> HIDE DEF t, b, ph
<1>8. p \in [deadline : Int, epoch : Int] /\ PubInv(ref, n, p)
  BY <1>2, <1>5, PublishInv
<1>9. p.deadline = ZeroTime
  BY <1>2, <1>5, AgentFields DEF status, believing
<1> HIDE DEF p
<1>10. NodeInv(log, ref, now, n, ph, b, p, l)
  BY <1>2, <1>5, <1>6, <1>7, <1>8, <1>9 DEF NodeInv
<1>11. WireInv(n, ph, b, l)
  <2>1. ASSUME NEW m \in wire, m.value.holder = n
        PROVE  RequestInv(now, ph, b, l, m)
    BY <1>2, <1>5, <1>7, <2>1, RequestKept
  <2> QED
    BY <1>2, <1>3, <2>1 DEF WireInv
<1>12. ph \in {"new", "poll", "drain", "releasing", "stopped"}
  BY <1>7
<1> HIDE DEF l
<1> QED
  BY <1>2, <1>4, <1>5, <1>8, <1>10, <1>11, <1>12, NodeStep

(* shutdown: the release is written, long after the belief was dropped if  *)
(* the process is frozen in between.                                       *)
LEMMA WriteReleaseInv ==
  ASSUME Inv, NEW n \in Node, WriteRelease(n)
  PROVE  Inv'
<1> DEFINE a == agent[n]
           p == pub[n]
           l == landed[n]
           x == EncodeValue(newRecord(a, Release, a.epoch))
           q == [value |-> x, sentAt |-> now]
<1>1. /\ phase[n] = "releasing" /\ now \in Nat /\ now \in Int
      /\ NodeInv(log, ref, now, n, phase[n], a, p, l)
      /\ a \in AgentOf(Node) /\ l \in Int /\ p \in [deadline : Int, epoch : Int]
      /\ wire \subseteq Request
      /\ \A m \in wire : m.value.holder = n => RequestInv(now, phase[n], a, l, m)
  BY AtNode DEF WriteRelease
<1>2. a.holder = n /\ a.epoch \in Int /\ Release \in Kind
  BY <1>1, AgentFields DEF NodeInv, AgentInv, ReaderInv, Kind
<1>3. x \in OwnValue /\ x.kind = Release /\ x.holder = n
  BY <1>2, EncodeOwn
<1>4. wire' = wire \cup {q}
  BY DEF WriteRelease, Produce
<1>5. OnlyNode(n, "stopped", a, p, l)
  <2>1. /\ UNCHANGED <<now, lead, log, first, ref>> /\ agent' = agent /\ pub' = pub
        /\ landed' = landed /\ phase' = [phase EXCEPT ![n] = "stopped"]
    BY DEF WriteRelease, broker
  <2>2. /\ agent' = [agent EXCEPT ![n] = a] /\ pub' = [pub EXCEPT ![n] = p]
        /\ landed' = [landed EXCEPT ![n] = l]
    BY <2>1, Unchanged, Zenon
  <2> QED
    BY <2>1, <2>2, Zenon DEF OnlyNode
<1> HIDE DEF x
<1>6. q \in Request /\ q.value = x /\ q.sentAt = now
  BY <1>1, <1>3 DEF Request
<1> HIDE DEF q
<1>7. NodeInv(log, ref, now, n, "stopped", a, p, l)
  BY <1>1 DEF NodeInv
<1>8. ASSUME NEW m \in wire', m.value.holder = n
      PROVE  RequestInv(now, "stopped", a, l, m)
  <2>1. CASE m = q
    BY <1>1, <1>3, <1>6, <2>1 DEF RequestInv
  <2>2. CASE m \in wire
    BY <1>1, <1>8, <2>2 DEF RequestInv
  <2> QED
    BY <1>4, <2>1, <2>2
<1>9. WireInv(n, "stopped", a, l)
  <2>1. wire' \subseteq Request
    BY <1>1, <1>4, <1>6
  <2>2. ASSUME NEW m \in wire', m.value.holder # n
        PROVE  m \in wire
    BY <1>3, <1>4, <1>6, <2>2
  <2> QED
    BY <1>8, <2>1, <2>2 DEF WireInv
<1>10. "stopped" \in {"new", "poll", "drain", "releasing", "stopped"}
  OBVIOUS
<1> HIDE DEF a, p, l
<1> QED
  BY <1>1, <1>5, <1>7, <1>9, <1>10, NodeStep

(* An agent at the beginning of a log.                                     *)
LEMMA NewAgent ==
  ASSUME NEW h \in Node \cup {NoHolder}, NEW e \in Nat, NEW t \in Int
  PROVE  LET a == newAgent(h, 0, e, t)
         IN  /\ a \in AgentOf(Node) /\ a.holder = h /\ a.view = NewViewFromStart
             /\ a.nextOffset = 0 /\ a.ownOutcomes = {} /\ a.epoch = NoOffset
             /\ a.deadline = ZeroTime /\ a.inflight = Idle /\ a.lastSend = ZeroTime
             /\ a.lastRecordAt = ZeroTime
<1> DEFINE a == newAgent(h, 0, e, t)
<1>1. NewViewFromStart \in ViewOf(Node) /\ Idle \in InFlight
  BY NewViewFromStartType, IdleType
<1>2. a = [holder |-> h, view |-> NewViewFromStart, nextOffset |-> 0, highWater |-> e,
           ownOutcomes |-> {}, epoch |-> NoOffset, deadline |-> ZeroTime, inflight |-> Idle,
           lastSend |-> ZeroTime, nextClaimAt |-> ZeroTime, connected |-> TRUE,
           caughtUpAt |-> t, lastRecordAt |-> ZeroTime, lastRecordBroker |-> ZeroTime]
  BY DEF newAgent
<1>3. /\ ZeroTime \in Int /\ NoOffset \in Int /\ 0 \in Nat
      /\ TRUE \in BOOLEAN /\ {} \in SUBSET (Nat \X Outcome)
  BY DEF ZeroTime, NoOffset
<1> HIDE DEF a
<1>4. a \in AgentOf(Node)
  BY <1>1, <1>2, <1>3, ZenonT(60) DEF AgentOf
<1> QED
  BY <1>2, <1>4 DEF a

(* bootstrap: a new agent, from the beginning of the log.                  *)
LEMMA JoinInv ==
  ASSUME Inv, NEW n \in Node, Join(n)
  PROVE  Inv'
<1> DEFINE a == newAgent(n, 0, End, now)
           l == landed[n]
           p == status(a, now)
<1>1. /\ now \in Nat /\ l \in Int
      /\ log \in Seq(Entry) /\ ref \in Seq(ViewOf(Node)) /\ HistoryInv(log, ref, now)
      /\ NodeInv(log, ref, now, n, phase[n], agent[n], pub[n], l)
      /\ wire \subseteq Request
      /\ \A m \in wire : m.value.holder = n => RequestInv(now, phase[n], agent[n], l, m)
  BY AtNode
<1>2. phase[n] = "new" /\ first = 0
  BY DEF Join, Inv
<1>3. /\ agent' = [agent EXCEPT ![n] = a] /\ pub' = [pub EXCEPT ![n] = p]
      /\ phase' = [phase EXCEPT ![n] = "poll"]
      /\ UNCHANGED <<now, lead, log, first, ref, wire, landed>>
  BY <1>2 DEF Join, publish, broker
<1>4. OnlyNode(n, "poll", a, p, l)
  BY <1>3, Unchanged DEF OnlyNode
<1>5. End \in Nat
  BY <1>1 DEF End
<1>6. /\ a \in AgentOf(Node) /\ a.holder = n /\ a.view = NewViewFromStart
      /\ a.nextOffset = 0 /\ a.ownOutcomes = {} /\ a.epoch = NoOffset /\ a.deadline = ZeroTime
      /\ a.inflight = Idle /\ a.lastSend = ZeroTime
  BY <1>1, <1>5, NewAgent
<1> HIDE DEF a
<1>7. ref[1] = NewViewFromStart /\ NewViewFromStart.state.epoch = NoOffset
  <2>1. NewViewFromStart.state = FreeState(NoOffset)
    BY DEF NewViewFromStart, NewView
  <2> QED
    BY <1>1, <2>1 DEF HistoryInv, FoldInv, FreeState
<1>8. AgentInv(log, ref, now, n, a, l)
  <2>1. 0 + 1 = 1 /\ 0 <= Len(log) /\ ZeroTime <= now /\ NoOffset <= NoOffset
    BY <1>1 DEF ZeroTime, NoOffset
  <2>2. ReaderInv(log, ref, a) /\ BeliefInv(ref, n, a)
    BY <1>6, <1>7, <2>1 DEF ReaderInv, BeliefInv
  <2>3. FlightInv(log, now, n, a, l) /\ AheadInv(a, l)
    BY <1>6, <2>1 DEF FlightInv, AheadInv
  <2> QED
    BY <1>6, <2>2, <2>3 DEF AgentInv
<1>9. p \in [deadline : Int, epoch : Int] /\ PubInv(ref, n, p)
  BY <1>1, <1>6, <1>8, PublishInv
<1> HIDE DEF p
<1>10. NodeInv(log, ref, now, n, "poll", a, p, l)
  BY <1>1, <1>2, <1>8, <1>9 DEF NodeInv
<1>11. WireInv(n, "poll", a, l)
  BY <1>1, <1>2, <1>3 DEF WireInv, RequestInv
<1>12. "poll" \in {"new", "poll", "drain", "releasing", "stopped"}
  OBVIOUS
<1> HIDE DEF l
<1> QED
  BY <1>1, <1>4, <1>6, <1>9, <1>10, <1>11, <1>12, NodeStep

-----------------------------------------------------------------------------
(* A record is appended: the history stays sound and no node is disturbed. *)
LEMMA AppendInv ==
  ASSUME Inv, NEW x \in OwnValue \cup ForeignValues, append(x),
         \A n \in Node : x.kind = Release /\ x.holder = n => phase[n] = "stopped"
  PROVE  /\ log' \in Seq(Entry) /\ ref' \in Seq(ViewOf(Node)) /\ HistoryInv(log', ref', now)
         /\ lead' = lead /\ first' = first
         /\ Len(log') = Len(log) + 1
         /\ log'[Len(log) + 1].ts = now + lead /\ log'[Len(log) + 1].value = x
         /\ \A n \in Node : NodeInv(log', ref', now, n, phase[n], agent[n], pub[n], landed[n])
<1>1. /\ now \in Nat /\ lead \in 0..MaxSkew /\ log \in Seq(Entry) /\ ref \in Seq(ViewOf(Node))
      /\ HistoryInv(log, ref, now)
  BY DEF Inv, TypeOK
<1> DEFINE ts == now + lead
<1>2. ts \in Int /\ ts <= now + MaxSkew
  BY <1>1, ProtocolAssumption
<1>3. Appended(log, ref, now, ts, x, log', ref') /\ lead' = lead /\ first' = first
  BY DEF append, End, Appended
<1> HIDE DEF ts
<1>4. /\ log' \in Seq(Entry) /\ ref' \in Seq(ViewOf(Node)) /\ HistoryInv(log', ref', now)
      /\ Longer(log, ref, log', ref') /\ Len(log') = Len(log) + 1
      /\ log'[Len(log) + 1].ts = ts /\ log'[Len(log) + 1].value = x
  BY <1>1, <1>2, <1>3, HistoryAppend
<1>5. Len(log) \in Nat /\ Len(ref) = Len(log) + 1 /\ Len(ref) >= 1 /\ now \in Int /\ now <= now
  BY <1>1 DEF HistoryInv, FoldInv
<1>6. ASSUME NEW n \in Node
      PROVE  NodeInv(log', ref', now, n, phase[n], agent[n], pub[n], landed[n])
  <2>1. /\ NodeInv(log, ref, now, n, phase[n], agent[n], pub[n], landed[n])
        /\ agent[n] \in AgentOf(Node) /\ landed[n] \in Int
        /\ pub[n] \in [deadline : Int, epoch : Int]
    BY AtNode
  <2>2. phase[n] # "new" => AgentInv(log', ref', now, n, agent[n], landed[n])
    <3>1. SUFFICES ASSUME AgentInv(log, ref, now, n, agent[n], landed[n])
                   PROVE  AgentInv(log', ref', now, n, agent[n], landed[n])
      BY <2>1 DEF NodeInv
    <3> QED
      BY <1>1, <1>4, <1>5, <2>1, <3>1, AgentLonger
  <2>3. PubInv(ref', n, pub[n])
    <3>1. PubInv(ref, n, pub[n]) /\ TermInv(log', ref')
      BY <1>4, <2>1 DEF NodeInv, HistoryInv
    <3> QED
      BY <1>1, <1>4, <1>5, <2>1, <3>1, PubLonger
  <2>4. ReleasedBy(log', n) => phase[n] = "stopped"
    <3>1. SUFFICES ASSUME NEW k \in 1..Len(log'),
                          log'[k].value.kind = Release, log'[k].value.holder = n
                   PROVE  phase[n] = "stopped"
      BY DEF ReleasedBy
    <3>2. CASE k = Len(log) + 1
      BY <1>4, <3>1, <3>2
    <3>3. CASE k # Len(log) + 1
      <4>1. k \in 1..Len(log)
        BY <1>4, <1>5, <3>3
      <4>2. log'[k] = log[k]
        BY <1>4, <4>1 DEF Longer
      <4>3. ReleasedBy(log, n)
        BY <3>1, <4>1, <4>2 DEF ReleasedBy
      <4> QED
        BY <2>1, <4>3 DEF NodeInv
    <3> QED
      BY <3>2, <3>3
  <2> QED
    BY <2>1, <2>2, <2>3, <2>4 DEF NodeInv
<1> QED
  BY <1>3, <1>4, <1>6 DEF ts

(* The request an agent has in flight lands beyond what it has read.       *)
LEMMA LandedInv ==
  ASSUME NEW lg, NEW rf, NEW t, NEW n, NEW a \in AgentOf(Node), NEW o \in Nat,
         AgentInv(lg, rf, t, n, a, NoOffset), Own(lg, n, a, o), a.nextOffset <= o
  PROVE  AgentInv(lg, rf, t, n, a, o)
<1>1. a.nextOffset \in Nat
  BY AgentFields
<1>2. a.inflight # Idle => a.inflight.offset = NoOffset
  BY DEF AgentInv, FlightInv
<1>3. FlightInv(lg, t, n, a, o)
  BY <1>2 DEF AgentInv, FlightInv
<1>4. AheadInv(a, o)
  BY <1>1, <1>2 DEF AheadInv
<1> QED
  BY <1>3, <1>4 DEF AgentInv

(* At most one request on the wire is pursued.                             *)
LEMMA PursuedUnique ==
  ASSUME NEW p \in Request, NEW q \in Request, p.value.holder = q.value.holder,
         NEW a, NEW l, Pursued(a, l, p), Pursued(a, l, q)
  PROVE  p = q
<1>1. p.value = q.value
  BY DEF Pursued, Request, OwnValue
<1>2. p.sentAt = q.sentAt
  BY DEF Pursued
<1> QED
  BY <1>1, <1>2 DEF Request

(* A request that looks like the one in flight is that one: it is pursued. *)
LEMMA CurrentPursued ==
  ASSUME Inv, NEW m \in wire, Current(m)
  PROVE  LET h == m.value.holder
             a == agent[h]
         IN  /\ a.inflight # Idle /\ m.value.kind # Release
             /\ phase[h] # "new" /\ AgentInv(log, ref, now, h, a, landed[h])
             /\ a.lastSend = m.sentAt /\ Pursued(a, landed[h], m)
<1> DEFINE h == m.value.holder
           a == agent[h]
<1>1. h \in Node /\ m.value.kind \in Kind /\ m.sentAt \in Int
  BY DEF Inv, TypeOK, Request, OwnValue
<1>2. /\ a \in AgentOf(Node)
      /\ NodeInv(log, ref, now, h, phase[h], a, pub[h], landed[h])
      /\ RequestInv(now, phase[h], a, landed[h], m)
  BY <1>1, AtNode
<1>3. m.value.kind = a.inflight.kind /\ m.sentAt = a.inflight.sentAt
  BY DEF Current
<1>4. a.inflight # Idle /\ m.value.kind # Release
  <2>1. a.inflight.kind \in {"none", Claim, Renew}
    BY <1>2, AgentFields DEF InFlight
  <2>2. Idle.kind = "none"
    BY DEF Idle
  <2> QED
    BY <1>1, <1>3, <2>1, <2>2 DEF Kind, Claim, Renew, Release
<1>5. phase[h] # "new" /\ AgentInv(log, ref, now, h, a, landed[h])
  BY <1>2 DEF RequestInv, NodeInv
<1>6. a.lastSend = m.sentAt
  BY <1>3, <1>4, <1>5 DEF AgentInv, FlightInv
<1>7. Pursued(a, landed[h], m)
  BY <1>1, <1>2, <1>4, <1>6 DEF RequestInv, GivenUp
<1> QED
  BY <1>4, <1>5, <1>6, <1>7

(* A request lands, the one in flight or one given up on.                  *)
LEMMA LandInv ==
  ASSUME Inv, NEW m \in wire, Land(m)
  PROVE  Inv'
<1> DEFINE h == m.value.holder
           a == agent[h]
           o == Len(log)
<1>1. m \in Request /\ m.value \in OwnValue /\ h \in Node /\ m.value.kind \in Kind /\ m.sentAt \in Int
  BY DEF Inv, TypeOK, Request, OwnValue
<1>2. /\ now \in Nat /\ lead \in Nat /\ log \in Seq(Entry) /\ o \in Nat
      /\ a \in AgentOf(Node) /\ landed[h] \in Int
      /\ NodeInv(log, ref, now, h, phase[h], a, pub[h], landed[h])
      /\ RequestInv(now, phase[h], a, landed[h], m)
      /\ wire \subseteq Request
      /\ \A p \in wire : p.value.holder = h => RequestInv(now, phase[h], a, landed[h], p)
  BY <1>1, AtNode, ProtocolAssumption DEF Inv, TypeOK
<1>3. /\ append(m.value) /\ wire' = wire \ {m}
      /\ landed' = IF Current(m) THEN [landed EXCEPT ![h] = o] ELSE landed
      /\ now' = now /\ agent' = agent /\ phase' = phase /\ pub' = pub
  BY DEF Land, End
<1>4. /\ log' \in Seq(Entry) /\ ref' \in Seq(ViewOf(Node)) /\ HistoryInv(log', ref', now)
      /\ lead' = lead /\ first' = first
      /\ Len(log') = o + 1
      /\ log'[o + 1].ts = now + lead /\ log'[o + 1].value = m.value
      /\ \A n \in Node : NodeInv(log', ref', now, n, phase[n], agent[n], pub[n], landed[n])
  <2>1. \A n \in Node : m.value.kind = Release /\ m.value.holder = n => phase[n] = "stopped"
    BY <1>2 DEF RequestInv
  <2> QED
    BY <1>1, <1>3, <2>1, AppendInv
<1>5. CASE ~Current(m)
  <2>1. landed' = landed
    BY <1>3, <1>5
  <2> QED
    BY <1>3, <1>4, <2>1 DEF Inv, TypeOK
<1>6. CASE Current(m)
  <2>1. m.value.kind = a.inflight.kind /\ m.sentAt = a.inflight.sentAt
    BY <1>6 DEF Current
  <2>2. a.inflight # Idle /\ m.value.kind # Release
    BY <1>6, CurrentPursued
  <2>3. phase[h] # "new" /\ AgentInv(log, ref, now, h, a, landed[h])
    BY <1>6, CurrentPursued
  <2>4. a.lastSend = m.sentAt /\ a.nextOffset \in Nat /\ a.nextOffset <= o
    BY <1>2, <1>6, <2>3, AgentFields, CurrentPursued DEF AgentInv, ReaderInv
  <2>5. Pursued(a, landed[h], m)
    BY <1>6, CurrentPursued
  <2>6. landed[h] = NoOffset
    BY <2>5 DEF Pursued
  <2>7. Own(log', h, a, o)
    <3>1. o \in 0..Len(log') - 1
      BY <1>2, <1>4
    <3>2. a.inflight.kind = Renew => m.value.epoch = a.epoch
      BY <2>1, <2>5 DEF Pursued, Claim, Renew
    <3>3. now + lead >= a.inflight.sentAt
      BY <1>1, <1>2, <2>1 DEF RequestInv
    <3> QED
      BY <1>1, <1>4, <2>1, <3>1, <3>2, <3>3 DEF Own
  <2>8. AgentInv(log', ref', now, h, a, o)
    <3>1. AgentInv(log', ref', now, h, a, NoOffset)
      BY <1>1, <1>4, <2>3, <2>6 DEF NodeInv
    <3> HIDE DEF a, o
    <3> QED
      BY <1>2, <2>4, <2>7, <3>1, LandedInv
  <2>9. landed' = [landed EXCEPT ![h] = o]
    BY <1>3, <1>6
  <2>10. /\ landed' \in [Node -> Int] /\ landed'[h] = o
         /\ \A n \in Node \ {h} : landed'[n] = landed[n]
    BY <1>1, <1>2, <2>9 DEF Inv, TypeOK
  <2>11. ASSUME NEW n \in Node
         PROVE  NodeInv(log', ref', now, n, phase[n], agent[n], pub[n], landed'[n])
    <3>1. CASE n # h
      BY <1>4, <2>10, <3>1
    <3>2. CASE n = h
      <4>1. NodeInv(log', ref', now, h, phase[h], a, pub[h], landed[h])
        BY <1>1, <1>4
      <4>2. NodeInv(log', ref', now, h, phase[h], a, pub[h], o)
        BY <2>3, <2>8, <4>1 DEF NodeInv
      <4> QED
        BY <2>10, <3>2, <4>2
    <3> QED
      BY <3>1, <3>2
  <2>12. ASSUME NEW p \in wire, p # m, NEW n, n = p.value.holder
         PROVE  RequestInv(now, phase[n], agent[n], landed'[n], p)
    <3>1. n \in Node /\ p \in Request /\ RequestInv(now, phase[n], agent[n], landed[n], p)
      BY <2>12 DEF Inv, TypeOK, Request, OwnValue
    <3>2. CASE n # h
      BY <2>10, <3>1, <3>2
    <3>3. CASE n = h
      <4>1. ~Pursued(a, landed[h], p)
        BY <1>1, <2>5, <2>12, <3>1, <3>3, PursuedUnique
      <4>2. RequestInv(now, phase[h], a, o, p)
        BY <3>1, <3>3, <4>1 DEF RequestInv
      <4> QED
        BY <2>10, <3>3, <4>2
    <3> QED
      BY <3>2, <3>3
  <2>13. TypeOK'
    BY <1>3, <1>4, <2>10 DEF Inv, TypeOK
  <2> QED
    BY <1>3, <1>4, <2>11, <2>12, <2>13 DEF Inv
<1> QED
  BY <1>5, <1>6

(* A foreign value is appended.                                            *)
LEMMA ForeignInv ==
  ASSUME Inv, NEW x \in ForeignValues, Foreign(x)
  PROVE  Inv'
<1>1. append(x) /\ UNCHANGED <<now, wire, agent, phase, pub, landed>>
  BY DEF Foreign
<1>2. \A n \in Node : x.holder # n
  BY ForeignAssumption
<1>3. /\ log' \in Seq(Entry) /\ ref' \in Seq(ViewOf(Node)) /\ HistoryInv(log', ref', now)
      /\ lead' = lead /\ first' = first
      /\ \A n \in Node : NodeInv(log', ref', now, n, phase[n], agent[n], pub[n], landed[n])
  BY <1>1, <1>2, AppendInv
<1> QED
  BY <1>1, <1>3 DEF Inv, TypeOK

(* Time passes.                                                            *)
LEMMA AdvanceInv ==
  ASSUME Inv, Advance
  PROVE  Inv'
<1> DEFINE t == now + 1
<1>1. /\ now' = t
      /\ UNCHANGED <<lead, log, first, ref, wire, agent, phase, pub, landed>>
  BY DEF Advance, broker
<1>2. /\ now \in Nat /\ t \in Nat /\ t \in Int /\ now \in Int /\ now <= t
      /\ log \in Seq(Entry) /\ ref \in Seq(ViewOf(Node))
      /\ HistoryInv(log, ref, now) /\ Len(ref) = Len(log) + 1
  BY DEF Inv, TypeOK, HistoryInv, FoldInv
<1> HIDE DEF t
<1>3. HistoryInv(log, ref, t)
  <2>1. ASSUME NEW k \in 1..Len(ref) PROVE ref[k].clock <= t + MaxSkew
    <3>1. ref[k] \in ViewOf(Node)
      BY <1>2
    <3>2. ref[k].clock \in Int /\ ref[k].clock <= now + MaxSkew
      BY <1>2, <3>1, ViewFields DEF HistoryInv, ViewInv
    <3> QED
      BY <1>2, <3>2, ProtocolAssumption
  <2> QED
    BY <1>2, <2>1 DEF HistoryInv, ViewInv
<1>4. ASSUME NEW n \in Node
      PROVE  NodeInv(log, ref, t, n, phase[n], agent[n], pub[n], landed[n])
  <2>1. /\ NodeInv(log, ref, now, n, phase[n], agent[n], pub[n], landed[n])
        /\ agent[n] \in AgentOf(Node) /\ landed[n] \in Int /\ agent[n].deadline \in Int
    BY AtNode, AgentFields
  <2>2. AgentInv(log, ref, now, n, agent[n], landed[n]) =>
          AgentInv(log, ref, t, n, agent[n], landed[n])
    <3>1. Longer(log, ref, log, ref)
      BY <1>2 DEF Longer
    <3> QED
      BY <1>2, <2>1, <3>1, AgentLonger
  <2>3. agent[n].deadline <= now => agent[n].deadline <= t
    BY <1>2, <2>1
  <2> QED
    BY <2>1, <2>2, <2>3 DEF NodeInv
<1>5. ASSUME NEW m \in wire, NEW h, h = m.value.holder
      PROVE  RequestInv(t, phase[h], agent[h], landed[h], m)
  <2>1. RequestInv(now, phase[h], agent[h], landed[h], m) /\ m.sentAt \in Int
    BY <1>5 DEF Inv, TypeOK, Request
  <2>2. m.sentAt <= t /\ (now >= m.sentAt + TTL => t >= m.sentAt + TTL)
    BY <1>2, <2>1, TTLAssumption DEF RequestInv
  <2> QED
    BY <2>1, <2>2 DEF RequestInv, GivenUp
<1> QED
  BY <1>1, <1>2, <1>3, <1>4, <1>5 DEF Inv, TypeOK

(* The first state.                                                        *)
LEMMA InitInv ==
  ASSUME Init
  PROVE  Inv
<1>1. NoAgent \in AgentOf(Node) /\ NoAgent.deadline = ZeroTime
  <2>1. NoHolder \in Node \cup {NoHolder} /\ 0 \in Nat /\ 0 \in Int
    OBVIOUS
  <2> QED
    BY <2>1, NewAgent DEF NoAgent
<1>2. /\ NewViewFromStart \in ViewOf(Node) /\ NewViewFromStart.certain
      /\ NewViewFromStart.clock = -1 /\ NewViewFromStart.lastOffset = -1
      /\ NewViewFromStart.state.epoch = -1 /\ NewViewFromStart.state.holder = NoHolder
  <2>1. NewViewFromStart \in ViewOf(Node) /\ NewViewFromStart.certain
    BY NewViewFromStartType
  <2>2. /\ NewViewFromStart.clock = ZeroTime /\ NewViewFromStart.lastOffset = NoOffset
        /\ NewViewFromStart.state = FreeState(NoOffset)
    BY Zenon DEF NewViewFromStart, NewView
  <2> QED
    BY <2>1, <2>2 DEF FreeState, ZeroTime, NoOffset
<1>3. /\ now = 0 /\ log = << >> /\ ref = <<NewViewFromStart>> /\ first = 0 /\ wire = {}
      /\ agent = [n \in Node |-> NoAgent] /\ phase = [n \in Node |-> "new"]
      /\ pub = [n \in Node |-> [deadline |-> ZeroTime, epoch |-> 0]]
      /\ landed = [n \in Node |-> NoOffset] /\ lead \in 0..MaxSkew
  BY DEF Init
<1> HIDE DEF NoAgent, NewViewFromStart
<1>4. TypeOK
  <2>1. agent \in [Node -> AgentOf(Node)]
    BY <1>1, <1>3
  <2>2. ref \in Seq(ViewOf(Node)) /\ log \in Seq(Entry)
    BY <1>2, <1>3
  <2>3. pub \in [Node -> [deadline : Int, epoch : Int]] /\ landed \in [Node -> Int]
    BY <1>3 DEF ZeroTime, NoOffset
  <2>4. phase \in [Node -> {"new", "poll", "drain", "releasing", "stopped"}]
    BY <1>3
  <2> QED
    BY <1>3, <2>1, <2>2, <2>3, <2>4 DEF TypeOK
<1>5. Len(log) = 0 /\ Len(ref) = 1 /\ ref[1] = NewViewFromStart
  BY <1>3
<1>6. HistoryInv(log, ref, now)
  <2>1. FoldInv(log, ref)
    BY <1>5 DEF FoldInv
  <2>2. ViewInv(ref, now)
    BY <1>2, <1>3, <1>5, ProtocolAssumption DEF ViewInv
  <2>3. TermInv(log, ref)
    <3>1. \A j \in 1..Len(ref) : \A i \in 1..j : i = 1 /\ j = 1
      BY <1>5
    <3> QED
      BY <1>2, <1>5, <3>1 DEF TermInv
  <2> QED
    BY <2>1, <2>2, <2>3 DEF HistoryInv
<1>7. ASSUME NEW n \in Node
      PROVE  NodeInv(log, ref, now, n, phase[n], agent[n], pub[n], landed[n])
  <2>1. /\ phase[n] = "new" /\ agent[n] = NoAgent
        /\ pub[n].deadline = ZeroTime /\ pub[n].epoch = 0
    BY <1>3
  <2>2. ~ReleasedBy(log, n)
    BY <1>5 DEF ReleasedBy
  <2>3. PubInv(ref, n, pub[n])
    BY <2>1 DEF PubInv
  <2>4. agent[n].deadline <= now
    BY <1>1, <1>3, <2>1 DEF ZeroTime
  <2> QED
    BY <2>1, <2>2, <2>3, <2>4 DEF NodeInv
<1> QED
  BY <1>3, <1>4, <1>6, <1>7 DEF Inv

-----------------------------------------------------------------------------
(* Every step keeps the invariant.                                         *)
LEMMA NextInv ==
  ASSUME "compaction" \notin Faults, Inv, [Next]_vars
  PROVE  Inv'
<1>1. CASE Advance
  BY <1>1, AdvanceInv
<1>2. CASE LeaderChange
  <2>1. lead' \in 0..MaxSkew /\ UNCHANGED <<now, log, first, ref, wire, agent, phase, pub, landed>>
    BY <1>2 DEF LeaderChange
  <2> QED
    BY <2>1 DEF Inv, TypeOK
<1>3. ASSUME NEW m \in wire, Land(m) PROVE Inv'
  BY <1>3, LandInv
<1>4. ASSUME NEW v \in ForeignValues, Foreign(v) PROVE Inv'
  BY <1>4, ForeignInv
<1>5. CASE Compact
  BY <1>5 DEF Compact
<1>6. ASSUME NEW n \in Node, Join(n) PROVE Inv'
  BY <1>6, JoinInv
<1>7. ASSUME NEW n \in Node, Consume(n) PROVE Inv'
  BY <1>7, ConsumeInv
<1>8. ASSUME NEW n \in Node, PollEnds(n) PROVE Inv'
  BY <1>8, PollEndsInv
<1>9. ASSUME NEW n \in Node, AckArrives(n) PROVE Inv'
  BY <1>9, AckArrivesInv
<1>10. ASSUME NEW n \in Node, AckFails(n) PROVE Inv'
  BY <1>10, AckFailsInv
<1>11. ASSUME NEW n \in Node, Tick(n) PROVE Inv'
  BY <1>11, TickInv
<1>12. ASSUME NEW n \in Node, Stop(n) PROVE Inv'
  BY <1>12, StopInv
<1>13. ASSUME NEW n \in Node, WriteRelease(n) PROVE Inv'
  BY <1>13, WriteReleaseInv
<1>14. CASE UNCHANGED vars
  <2>1. UNCHANGED <<now, lead, log, first, ref, wire, agent, phase, pub, landed>>
    BY <1>14 DEF vars, broker
  <2> QED
    BY <2>1 DEF Inv, TypeOK
<1> QED
  BY <1>1, <1>2, <1>3, <1>4, <1>5, <1>6, <1>7, <1>8, <1>9, <1>10, <1>11, <1>12, <1>13, <1>14,
     Zenon DEF Next

(* The invariant holds in every reachable state.                           *)
THEOREM Invariance ==
  ASSUME "compaction" \notin Faults
  PROVE  Spec => []Inv
<1>1. Init => Inv
  BY InitInv
<1>2. Inv /\ [Next]_vars => Inv'
  BY NextInv
<1> QED
  BY <1>1, <1>2, PTL DEF Spec

(* Every variable keeps its type: the loops of candidate.go never put an   *)
(* agent, a request or a record of another shape anywhere.                 *)
THEOREM TypeCorrect ==
  ASSUME "compaction" \notin Faults
  PROVE  Spec => []TypeOK
<1>1. Inv => TypeOK
  BY DEF Inv
<1> QED
  BY <1>1, Invariance, PTL

-----------------------------------------------------------------------------
(* The clocks of the partition's leaders differ by no more than the margin *)
(* leaves when the wire has taken its part of the TTL.                     *)
SkewWithinMargin == MaxSkew + TTL - WireTTL(TTL) <= Margin

(* A clock within the skew is before the end of a term that backs d > t.   *)
LEMMA SkewArithmetic ==
  ASSUME SkewWithinMargin, NEW c \in Int, NEW x \in Int, NEW t \in Int, NEW d \in Int,
         c <= t + MaxSkew, t < d, x >= d + Margin + W - TTL
  PROVE  c < x
<1>1. W \in Int /\ TTL \in Int /\ Margin \in Int /\ MaxSkew \in Int
  BY WireInt, TTLAssumption, ConfigAssumption, ProtocolAssumption
<1>2. MaxSkew + TTL - W <= Margin
  BY DEF SkewWithinMargin, W
<1> QED
  BY <1>1, <1>2

(* A belief that has not ended is in the log, with a term that has not     *)
(* ended by any clock.                                                     *)
LEMMA BackedTerm ==
  ASSUME SkewWithinMargin, Inv, NEW n \in Node, ~ReleasedBy(log, n),
         NEW k \in 1..Len(ref), NEW d \in Int, NEW e, now < d, Backed(ref, k, n, d, e)
  PROVE  /\ ref[k].state.holder = n /\ ref[k].state.epoch = e
         /\ ref[k].state.expires >= d + Margin + W - TTL
         /\ ref[k].clock < ref[k].state.expires
<1>1. PICK i \in 1..k : /\ ref[i].state.holder = n /\ ref[i].state.epoch = e
                        /\ ref[i].state.expires >= d + Margin + W - TTL
  BY DEF Backed
<1>2. /\ now \in Nat /\ ref \in Seq(ViewOf(Node)) /\ HistoryInv(log, ref, now)
      /\ i \in 1..Len(ref) /\ k \in Nat /\ n # NoHolder
  BY ProtocolAssumption DEF Inv, TypeOK
<1>3. ref[k] \in ViewOf(Node) /\ ref[i] \in ViewOf(Node)
  BY <1>2
<1>4. ref[k].clock \in Int /\ ref[k].state.expires \in Int /\ ref[i].state.expires \in Int
  BY <1>3, ViewFields
<1>5. ref[k].clock <= now + MaxSkew /\ Persists(log, ref[i], ref[k])
  BY <1>1, <1>2 DEF HistoryInv, ViewInv, TermInv
<1>6. ref[k].clock < ref[i].state.expires
  <2>1. now \in Int
    BY <1>2
  <2> QED
    BY <1>1, <1>4, <1>5, <2>1, SkewArithmetic
<1>7. /\ ref[k].state.holder = n /\ ref[k].state.epoch = e
      /\ ref[k].state.expires >= ref[i].state.expires
  BY <1>1, <1>4, <1>5, <1>6 DEF Persists
<1>8. d + Margin + W - TTL \in Int
  BY WireInt, TTLAssumption, ConfigAssumption
<1>9. ref[k].state.expires >= d + Margin + W - TTL
  BY <1>1, <1>4, <1>7, <1>8, Transitive
<1>10. ref[k].clock < ref[k].state.expires
  BY <1>4, <1>6, <1>7
<1> QED
  BY <1>7, <1>9, <1>10

(* What a candidate reports is in the log.                                 *)
LEMMA HoldingTerm ==
  ASSUME SkewWithinMargin, Inv, NEW n \in Node, Holding(n)
  PROVE  /\ LogState.holder = n /\ LogState.epoch = pub[n].epoch
         /\ LogState.expires >= pub[n].deadline + Margin + W - TTL
<1>1. /\ now \in Nat /\ pub[n] \in [deadline : Int, epoch : Int]
      /\ NodeInv(log, ref, now, n, phase[n], agent[n], pub[n], landed[n])
      /\ log \in Seq(Entry) /\ HistoryInv(log, ref, now)
  BY AtNode
<1>2. now < pub[n].deadline /\ pub[n].deadline \in Int /\ pub[n].deadline # ZeroTime
  BY <1>1 DEF Holding, ZeroTime
<1>3. Backed(ref, Len(ref), n, pub[n].deadline, pub[n].epoch) /\ ~ReleasedBy(log, n)
  BY <1>1, <1>2 DEF NodeInv, PubInv
<1>4. Len(log) \in Nat /\ Len(ref) = Len(log) + 1 /\ Len(ref) \in 1..Len(ref)
  BY <1>1 DEF HistoryInv, FoldInv
<1>5. LogState = ref[Len(ref)].state
  BY <1>4 DEF LogState, End
<1> QED
  BY <1>2, <1>3, <1>4, <1>5, BackedTerm

(* No two candidates report Holding at the same instant, frozen and        *)
(* stopped ones included (Candidate.Status): both would have the one term  *)
(* that the log shows.                                                     *)
THEOREM Exclusion ==
  ASSUME "compaction" \notin Faults, SkewWithinMargin
  PROVE  Spec => []MutualExclusion
<1>1. Inv => MutualExclusion
  <2> SUFFICES ASSUME Inv, NEW m \in Node, NEW n \in Node, Holding(m), Holding(n)
               PROVE  m = n
    BY DEF MutualExclusion
  <2> QED
    BY HoldingTerm
<1> QED
  BY <1>1, Invariance, PTL

(* While a candidate reports Holding no candidate has been given an epoch  *)
(* above its own (agent.settle): the epoch can fence off older holders.    *)
THEOREM Fencing ==
  ASSUME "compaction" \notin Faults, SkewWithinMargin
  PROVE  Spec => []FencingToken
<1>1. Inv => FencingToken
  <2> SUFFICES ASSUME Inv, NEW m \in Node, NEW n \in Node, Holding(n)
               PROVE  pub[m].epoch <= pub[n].epoch
    BY DEF FencingToken
  <2>1. LogState.holder = n /\ LogState.epoch = pub[n].epoch
    BY HoldingTerm
  <2>2. /\ log \in Seq(Entry) /\ ref \in Seq(ViewOf(Node)) /\ HistoryInv(log, ref, now)
        /\ PubInv(ref, m, pub[m]) /\ pub[m] \in [deadline : Int, epoch : Int]
    BY AtNode DEF NodeInv
  <2>3. Len(log) \in Nat /\ Len(ref) = Len(log) + 1 /\ Len(ref) \in 1..Len(ref)
    BY <2>2 DEF HistoryInv, FoldInv
  <2>4. LogState = ref[Len(ref)].state
    BY <2>3 DEF LogState, End
  <2>5. LogState.epoch >= 0 /\ LogState.epoch \in Int
    <3>1. n # NoHolder /\ ref[Len(ref)] \in ViewOf(Node)
      BY <2>2, <2>3, ProtocolAssumption
    <3> QED
      BY <2>1, <2>2, <2>3, <2>4, <3>1, ViewFields DEF HistoryInv, ViewInv
  <2>6. pub[m].epoch \in Int
    BY <2>2
  <2> QED
    BY <2>1, <2>2, <2>4, <2>5, <2>6 DEF PubInv
<1> QED
  BY <1>1, Invariance, PTL

(* A published belief is backed by the term in the log, which outlives it  *)
(* by the margin, less what the wire truncates of the TTL                  *)
(* (agent.extendBelief).                                                   *)
THEOREM Backing ==
  ASSUME "compaction" \notin Faults, SkewWithinMargin
  PROVE  Spec => []BeliefBackedByLog
<1>1. Inv => BeliefBackedByLog
  <2> SUFFICES ASSUME Inv, NEW n \in Node, Holding(n)
               PROVE  /\ LogState.holder = n
                      /\ LogState.epoch = pub[n].epoch
                      /\ LogState.expires >= pub[n].deadline + Margin - (TTL - WireTTL(TTL))
    BY DEF BeliefBackedByLog
  <2>1. /\ LogState.holder = n /\ LogState.epoch = pub[n].epoch
        /\ LogState.expires >= pub[n].deadline + Margin + W - TTL
    BY HoldingTerm
  <2>2. pub[n].deadline \in Int /\ W \in Int /\ W = WireTTL(TTL)
    BY AtNode, WireInt DEF W
  <2>3. pub[n].deadline + Margin + W - TTL = pub[n].deadline + Margin - (TTL - W)
    BY <2>2, TTLAssumption, ConfigAssumption
  <2> QED
    BY <2>1, <2>2, <2>3
<1> QED
  BY <1>1, Invariance, PTL

(* Nobody reports Holding whose release is under way or in the log         *)
(* (run.shutdown).                                                         *)
THEOREM ReleaseIsLast ==
  ASSUME "compaction" \notin Faults
  PROVE  Spec => []ReleasedNotHolding
<1>1. Inv => ReleasedNotHolding
  <2> SUFFICES ASSUME Inv, NEW n \in Node,
                      \/ \E m \in wire : m.value.kind = Release /\ m.value.holder = n
                      \/ \E k \in 1..End : log[k].value.kind = Release /\ log[k].value.holder = n
               PROVE  ~Holding(n)
    BY DEF ReleasedNotHolding
  <2>1. /\ NodeInv(log, ref, now, n, phase[n], agent[n], pub[n], landed[n]) /\ now \in Nat
        /\ \A m \in wire : m.value.holder = n => RequestInv(now, phase[n], agent[n], landed[n], m)
    BY AtNode
  <2>2. phase[n] = "stopped"
    BY <2>1 DEF NodeInv, RequestInv, ReleasedBy, End
  <2> QED
    BY <2>1, <2>2 DEF NodeInv, Holding, ZeroTime
<1> QED
  BY <1>1, Invariance, PTL

(* An acknowledged request is ahead of the reader and so will be settled   *)
(* (agent.acked, agent.ownRecord).                                         *)
THEOREM Settling ==
  ASSUME "compaction" \notin Faults
  PROVE  Spec => []InFlightAhead
<1>1. Inv => InFlightAhead
  <2> SUFFICES ASSUME Inv, NEW n \in Node, agent[n].inflight.offset # NoOffset
               PROVE  agent[n].inflight.offset >= agent[n].nextOffset
    BY DEF InFlightAhead
  <2>1. agent[n].inflight # Idle
    BY DEF Idle
  <2>2. phase[n] # "new"
    <3>1. NoAgent.inflight = Idle
      BY DEF NoAgent, newAgent
    <3> QED
      BY <2>1, <3>1, AtNode DEF NodeInv
  <2> QED
    BY <2>1, <2>2, AtNode DEF NodeInv, AgentInv, AheadInv
<1> QED
  BY <1>1, Invariance, PTL

(* The agent of a node that has joined has the view of the whole log.      *)
LEMMA AgentView ==
  ASSUME Inv, NEW n \in Node, phase[n] # "new"
  PROVE  /\ agent[n].nextOffset \in Nat /\ agent[n].nextOffset + 1 \in 1..Len(ref)
         /\ agent[n].view = ref[agent[n].nextOffset + 1]
         /\ ref[agent[n].nextOffset + 1] \in ViewOf(Node)
<1>1. /\ agent[n] \in AgentOf(Node) /\ HistoryInv(log, ref, now)
      /\ log \in Seq(Entry) /\ ref \in Seq(ViewOf(Node))
      /\ AgentInv(log, ref, now, n, agent[n], landed[n])
  BY AtNode DEF NodeInv
<1>2. agent[n].nextOffset \in Nat /\ Len(log) \in Nat /\ Len(ref) = Len(log) + 1
  BY <1>1, AgentFields DEF HistoryInv, FoldInv
<1>3. agent[n].nextOffset + 1 \in 1..Len(ref) /\ agent[n].view = ref[agent[n].nextOffset + 1]
  BY <1>1, <1>2 DEF AgentInv, ReaderInv
<1> QED
  BY <1>1, <1>2, <1>3

(* View.Apply never returns an error to the client's loop.                 *)
THEOREM InOrder ==
  ASSUME "compaction" \notin Faults
  PROVE  Spec => []ApplyInOrder
<1>1. Inv => ApplyInOrder
  <2> SUFFICES ASSUME Inv, NEW n \in Node
               PROVE  agent[n].view.lastOffset < agent[n].nextOffset
    BY DEF ApplyInOrder
  <2>1. CASE phase[n] = "new"
    <3>1. agent[n] = NoAgent
      BY <2>1, AtNode DEF NodeInv
    <3>2. NoAgent.nextOffset = 0 /\ NoAgent.view = NewViewFromStart
      BY DEF NoAgent, newAgent
    <3>3. NewViewFromStart.lastOffset = NoOffset
      BY Zenon DEF NewViewFromStart, NewView
    <3> QED
      BY <3>1, <3>2, <3>3 DEF NoOffset
  <2>2. CASE phase[n] # "new"
    <3> DEFINE k == agent[n].nextOffset + 1
    <3>1. /\ agent[n].nextOffset \in Nat /\ k \in 1..Len(ref) /\ agent[n].view = ref[k]
          /\ ref[k].lastOffset \in Int
      BY <2>2, AgentView, ViewFields
    <3>2. ref[k].lastOffset <= k - 2
      BY <3>1 DEF Inv, HistoryInv, ViewInv
    <3> QED
      BY <3>1, <3>2
  <2> QED
    BY <2>1, <2>2
<1> QED
  BY <1>1, Invariance, PTL

(* An agent that believes sees its own live term in its view, wherever in  *)
(* the log it is (agent.settle, agent.record).                             *)
THEOREM Consistency ==
  ASSUME "compaction" \notin Faults, SkewWithinMargin
  PROVE  Spec => []BeliefMatchesView
<1>1. Inv => BeliefMatchesView
  <2> SUFFICES ASSUME Inv, NEW n \in Node, believing(agent[n], now)
               PROVE  /\ agent[n].view.state.holder = n
                      /\ agent[n].view.state.epoch = agent[n].epoch
                      /\ HeldAt(agent[n].view.state, agent[n].view.clock)
    BY DEF BeliefMatchesView
  <2> DEFINE a == agent[n]
             k == a.nextOffset + 1
  <2>1. /\ now \in Nat /\ a \in AgentOf(Node) /\ a.deadline \in Int
        /\ NodeInv(log, ref, now, n, phase[n], a, pub[n], landed[n])
        /\ phase[n] \in {"new", "poll", "drain", "releasing", "stopped"}
    BY AtNode, AgentFields
  <2>2. now < a.deadline /\ a.deadline # ZeroTime
    BY <2>1 DEF believing, ZeroTime
  <2>3. phase[n] \notin {"new", "releasing", "stopped"}
    BY <2>1, <2>2 DEF NodeInv
  <2>4. Backed(ref, k, n, a.deadline, a.epoch) /\ ~ReleasedBy(log, n)
    BY <2>1, <2>2, <2>3 DEF NodeInv, AgentInv, BeliefInv
  <2>5. k \in 1..Len(ref) /\ a.view = ref[k] /\ n # NoHolder
    BY <2>3, AgentView, ProtocolAssumption
  <2>6. /\ ref[k].state.holder = n /\ ref[k].state.epoch = a.epoch
        /\ ref[k].clock < ref[k].state.expires
    BY <2>1, <2>2, <2>4, <2>5, BackedTerm
  <2> QED
    BY <2>5, <2>6 DEF HeldAt
<1> QED
  BY <1>1, Invariance, PTL

-----------------------------------------------------------------------------
(* A step that appends takes the view v of the log before to the view w of *)
(* the log after, and changes neither the time nor what is published.      *)
LogStep(v, w, x) ==
  /\ v \in ViewOf(Node)
  /\ v.state.holder # NoHolder => v.state.expires <= v.clock + W
  /\ v.state.epoch < Len(log)
  /\ \E ts : Stepped(v, Len(log), ts, x, w)
  /\ LogState = v.state /\ LogState' = w.state
  /\ ref'[Len(log') + 1].clock = w.clock
  /\ log'[Len(log')].value = x
  /\ now' = now /\ pub' = pub

(* A step that changes the log appends one record, and no belief changes.  *)
LEMMA LogSteps ==
  ASSUME Inv, Next, log' # log
  PROVE  \E v, w, x : LogStep(v, w, x)
<1> DEFINE L == Len(log)
           v == ref[L + 1]
           ts == now + lead
<1>1. PICK x \in OwnValue \cup ForeignValues : append(x) /\ now' = now /\ pub' = pub
  <2>1. \A m \in wire : m.value \in OwnValue
    BY DEF Inv, TypeOK, Request
  <2>2. \/ \E m \in wire : Land(m)
        \/ \E y \in ForeignValues : Foreign(y)
    BY DEF Next, Advance, LeaderChange, Compact, Join, Consume, PollEnds, AckArrives, AckFails,
           Tick, Stop, WriteRelease, broker
  <2> QED
    BY <2>1, <2>2 DEF Land, Foreign
<1>2. /\ now \in Nat /\ ts \in Int /\ log \in Seq(Entry) /\ ref \in Seq(ViewOf(Node))
      /\ L \in Nat /\ Len(ref) = L + 1 /\ HistoryInv(log, ref, now) /\ ts <= now + MaxSkew
  BY ProtocolAssumption DEF Inv, TypeOK, HistoryInv, FoldInv
<1>3. Appended(log, ref, now, ts, x, log', ref')
  BY <1>1 DEF append, Appended, End
<1> HIDE DEF ts
<1> DEFINE w == ref'[L + 2]
<1>4. /\ Len(log') = L + 1 /\ log'[L + 1].value = x
      /\ w = viewAfter(v, L, ts, x)
  BY <1>2, <1>3, HistoryAppend
<1> HIDE DEF w
<1>5. /\ L + 1 \in 1..Len(ref) /\ v \in ViewOf(Node) /\ v.certain
      /\ v.state.holder # NoHolder => v.state.expires <= v.clock + W
      /\ v.state.epoch <= L - 1
  <2>1. L + 1 \in 1..Len(ref)
    BY <1>2
  <2>2. v \in ViewOf(Node)
    BY <1>2, <2>1
  <2> QED
    BY <1>2, <2>1, <2>2 DEF HistoryInv, ViewInv
<1>6. Stepped(v, L, ts, x, w)
  BY <1>2, <1>4, <1>5, StepFacts
<1>7. /\ LogState = v.state /\ LogState' = w.state
      /\ ref'[Len(log') + 1].clock = w.clock
  <2>1. Len(log') + 1 = L + 2
    BY <1>2, <1>4
  <2> QED
    BY <2>1 DEF LogState, End, w
<1> HIDE DEF v
<1>8. v.state.epoch < L
  BY <1>2, <1>5, ViewFields
<1>9. LogStep(v, w, x)
  BY <1>1, <1>4, <1>5, <1>6, <1>7, <1>8 DEF LogStep
<1> QED
  BY <1>9

(* A term in the log ends by its holder's release or by expiry, and every  *)
(* term has a higher epoch than those before it (View.fold).               *)
THEOREM TermsEnd ==
  ASSUME "compaction" \notin Faults
  PROVE  Spec => TermsEndRightly
<1>1. Inv /\ [Next]_vars => [TermStep]_log
  <2> SUFFICES ASSUME Inv, Next, log' # log
               PROVE  TermStep
    <3>1. UNCHANGED vars => log' = log
      BY DEF vars, broker
    <3> QED
      BY <3>1
  <2>1. PICK v, w, x : LogStep(v, w, x)
    BY LogSteps
  <2>2. PICK ts : Stepped(v, Len(log), ts, x, w)
    BY <2>1 DEF LogStep
  <2>3. /\ v \in ViewOf(Node) /\ w \in ViewOf(Node) /\ w.clock >= v.clock
        /\ Len(log) \in Nat /\ v.state.epoch < Len(log)
    BY <2>1, <2>2 DEF LogStep, Stepped, Inv, TypeOK
  <2>4. /\ v.clock \in Int /\ v.state.expires \in Int /\ v.state.epoch \in Int
        /\ w.clock \in Int /\ w.state.expires \in Int /\ w.state.epoch \in Int
    BY <2>3, ViewFields
  <2>5. HeldAt(v.state, w.clock) =>
           \/ /\ w.state.holder = v.state.holder /\ w.state.epoch = v.state.epoch
              /\ w.state.expires >= v.state.expires
           \/ x.kind = Release /\ x.holder = v.state.holder
    <3>1. SUFFICES ASSUME HeldAt(v.state, w.clock)
                   PROVE  \/ /\ w.state.holder = v.state.holder /\ w.state.epoch = v.state.epoch
                             /\ w.state.expires >= v.state.expires
                          \/ x.kind = Release /\ x.holder = v.state.holder
      OBVIOUS
    <3>2. v.state.expires <= v.clock + W
      BY <2>1, <3>1 DEF HeldAt, LogStep
    <3>3. w.clock + W >= v.state.expires
      BY <2>3, <2>4, <3>2, WireInt
    <3>4. \/ w.state = v.state
          \/ /\ w.state.holder = v.state.holder /\ w.state.epoch = v.state.epoch
             /\ w.state.expires = w.clock + W
          \/ x.kind = Release /\ x.holder = v.state.holder
      BY <2>2, <3>1 DEF Stepped
    <3>5. CASE w.state = v.state
      BY <2>4, <3>5
    <3>6. CASE /\ w.state.holder = v.state.holder /\ w.state.epoch = v.state.epoch
               /\ w.state.expires = w.clock + W
      BY <3>3, <3>6
    <3> QED
      BY <3>4, <3>5, <3>6
  <2>6. /\ w.state.epoch >= v.state.epoch
        /\ w.state.holder # v.state.holder /\ w.state.holder # NoHolder =>
             w.state.epoch > v.state.epoch
    BY <2>2, <2>3, <2>4 DEF Stepped
  <2> QED
    BY <2>1, <2>5, <2>6 DEF TermStep, LogStep
<1> QED
  BY <1>1, Invariance, PTL DEF Spec, TermsEndRightly

-----------------------------------------------------------------------------
(* A node that has nothing in flight and wrote no release yet has given up *)
(* on every request of its own that is still on the wire.                  *)
LEMMA IdleWire ==
  ASSUME Inv, NEW n \in Node, phase[n] # "stopped", agent[n].inflight = Idle,
         NEW m \in wire, m.value.holder = n
  PROVE  now - m.sentAt >= TTL
<1>1. /\ RequestInv(now, phase[n], agent[n], landed[n], m)
      /\ m.value.kind \in Kind /\ m.sentAt \in Int /\ now \in Int
  BY AtNode DEF Request, OwnValue
<1>2. ~Pursued(agent[n], landed[n], m)
  BY <1>1 DEF Pursued, Idle, Kind, Claim, Renew, Release
<1>3. now >= m.sentAt + TTL
  BY <1>1, <1>2 DEF RequestInv, GivenUp
<1> QED
  BY <1>1, <1>3, TTLAssumption

(* What a step puts on the wire, if anything, is the only request that its *)
(* sender has not given up on.                                             *)
LEMMA WireStep ==
  ASSUME "stopInFlight" \notin Faults, Inv, [Next]_vars
  PROVE  /\ now' >= now
         /\ \/ wire' \subseteq wire
            \/ \E q : /\ wire' \subseteq wire \cup {q}
                      /\ \A m \in wire : m.value.holder = q.value.holder => now - m.sentAt >= TTL
<1>0. now \in Nat
  BY DEF Inv, TypeOK
<1>1. ASSUME NEW n \in Node, NEW out, NEW r, out \subseteq {r}, Produce(out), now' = now,
             r.holder = n, phase[n] # "stopped", out # {} => agent[n].inflight = Idle
      PROVE  /\ now' >= now
             /\ \/ wire' \subseteq wire
                \/ \E q : /\ wire' \subseteq wire \cup {q}
                          /\ \A m \in wire : m.value.holder = q.value.holder =>
                                               now - m.sentAt >= TTL
  <2>1. CASE out = {}
    BY <1>0, <1>1, <2>1 DEF Produce
  <2>2. CASE out # {}
    <3> DEFINE q == [value |-> EncodeValue(r), sentAt |-> now]
    <3>1. q.value.holder = n
      BY <1>1 DEF EncodeValue
    <3>2. wire' \subseteq wire \cup {q}
      BY <1>1 DEF Produce
    <3> HIDE DEF q
    <3>3. \A m \in wire : m.value.holder = q.value.holder => now - m.sentAt >= TTL
      BY <1>1, <2>2, <3>1, IdleWire
    <3> QED
      BY <1>0, <1>1, <3>2, <3>3
  <2> QED
    BY <2>1, <2>2
<1>2. ASSUME NEW n \in Node, Tick(n)
      PROVE  \E out, r : /\ out \subseteq {r} /\ Produce(out) /\ now' = now /\ r.holder = n
                         /\ phase[n] # "stopped" /\ (out # {} => agent[n].inflight = Idle)
  <2> DEFINE a == agent[n]
             t == tick(a, now)
  <2>1. /\ a \in AgentOf(Node) /\ a.view.certain /\ a.holder = n /\ now \in Int
        /\ phase[n] # "stopped" /\ Produce(t.out) /\ now' = now
    BY <1>2, RunningAgent, AtNode DEF Tick, Running
  <2>2. \/ t.out = {}
        \/ \E k \in {Claim, Renew} : \E b \in {a, dropBelief(a)} :
             b.inflight = Idle /\ t = send(b, now, k)
    BY <2>1, TickFacts
  <2>3. dropBelief(a).holder = a.holder /\ dropBelief(a).inflight = a.inflight
    BY <2>1, Zenon DEF dropBelief, AgentOf
  <2>4. CASE t.out = {}
    <3>1. t.out \subseteq {a}
      BY <2>4
    <3> HIDE DEF t
    <3> QED
      BY <2>1, <2>4, <3>1
  <2>5. ASSUME NEW k \in {Claim, Renew}, NEW b \in {a, dropBelief(a)},
               b.inflight = Idle, t = send(b, now, k)
        PROVE  /\ t.out \subseteq {newRecord(b, k, b.epoch)}
               /\ newRecord(b, k, b.epoch).holder = n /\ a.inflight = Idle
    <3>1. b.holder = n /\ a.inflight = Idle
      BY <2>1, <2>3, <2>5
    <3> HIDE DEF t
    <3> QED
      BY <2>5, <3>1 DEF send, newRecord
  <2> HIDE DEF t
  <2> QED
    BY <2>1, <2>2, <2>4, <2>5
<1>3. ASSUME NEW n \in Node, WriteRelease(n)
      PROVE  \E out, r : /\ out \subseteq {r} /\ Produce(out) /\ now' = now /\ r.holder = n
                         /\ phase[n] # "stopped" /\ (out # {} => agent[n].inflight = Idle)
  <2> DEFINE r == newRecord(agent[n], Release, agent[n].epoch)
  <2>1. phase[n] = "releasing" /\ Produce({r}) /\ now' = now
    BY <1>3 DEF WriteRelease
  <2>2. NodeInv(log, ref, now, n, phase[n], agent[n], pub[n], landed[n])
    BY AtNode
  <2>3. agent[n].inflight = Idle /\ agent[n].holder = n
    BY <2>1, <2>2 DEF NodeInv, AgentInv, ReaderInv
  <2>4. r.holder = n
    BY <2>3 DEF newRecord
  <2> HIDE DEF r
  <2> QED
    BY <2>1, <2>3, <2>4
<1>4. CASE \E n \in Node : Tick(n) \/ WriteRelease(n)
  BY <1>1, <1>2, <1>3, <1>4
<1>5. CASE ~ \E n \in Node : Tick(n) \/ WriteRelease(n)
  <2>1. wire' \subseteq wire /\ (now' = now \/ now' = now + 1)
    BY <1>5 DEF Next, Advance, LeaderChange, Land, Foreign, Compact, Join, Consume, PollEnds,
                AckArrives, AckFails, Stop, vars
  <2> QED
    BY <1>0, <2>1
<1> QED
  BY <1>4, <1>5

(* A participant that is not stopped with a request in flight has at most  *)
(* one request under way that it has not given up on (agent.tick).         *)
THEOREM OneInFlight ==
  ASSUME "compaction" \notin Faults, "stopInFlight" \notin Faults
  PROVE  Spec => []OneRequestInFlight
<1>1. Init => OneRequestInFlight
  BY DEF Init, OneRequestInFlight
<1>2. Inv /\ Inv' /\ OneRequestInFlight /\ [Next]_vars => OneRequestInFlight'
  <2> SUFFICES ASSUME Inv, Inv', OneRequestInFlight, [Next]_vars,
                      NEW p \in wire', NEW q \in wire', p.value.holder = q.value.holder,
                      now' - p.sentAt < TTL, now' - q.sentAt < TTL
               PROVE  p = q
    BY DEF OneRequestInFlight
  <2>1. now \in Int /\ now' \in Int /\ p.sentAt \in Int /\ q.sentAt \in Int /\ TTL \in Int
    BY TTLAssumption DEF Inv, TypeOK, Request
  <2>2. /\ now' >= now
        /\ \/ wire' \subseteq wire
           \/ \E r : /\ wire' \subseteq wire \cup {r}
                     /\ \A m \in wire : m.value.holder = r.value.holder => now - m.sentAt >= TTL
    BY WireStep
  <2>3. ~(now - p.sentAt >= TTL) /\ ~(now - q.sentAt >= TTL)
        /\ now - p.sentAt < TTL /\ now - q.sentAt < TTL
    BY <2>1, <2>2
  <2>4. CASE wire' \subseteq wire
    BY <2>3, <2>4 DEF OneRequestInFlight
  <2>5. ASSUME NEW r, wire' \subseteq wire \cup {r},
               \A m \in wire : m.value.holder = r.value.holder => now - m.sentAt >= TTL
        PROVE  p = q
    <3>1. CASE p \in wire /\ q \in wire
      BY <2>3, <3>1 DEF OneRequestInFlight
    <3>2. CASE p = r \/ q = r
      BY <2>3, <2>5, <3>2
    <3> QED
      BY <2>5, <3>1, <3>2
  <2> QED
    BY <2>2, <2>4, <2>5
<1> QED
  BY <1>1, <1>2, Invariance, PTL DEF Spec

-----------------------------------------------------------------------------
(* The reference reader's clock is never ahead of the next record: with    *)
(* clocks that agree nothing is clamped.                                   *)
Stamped(lg, rf) == \A k \in 1..Len(lg) : rf[k].clock <= lg[k].ts

(* With clocks that agree, a new record has the latest timestamp.          *)
LEMMA StampedStep ==
  ASSUME MaxSkew = 0, Inv, Stamped(log, ref), [Next]_vars
  PROVE  Stamped(log, ref)'
<1>1. /\ now \in Nat /\ lead = 0 /\ log \in Seq(Entry) /\ ref \in Seq(ViewOf(Node))
      /\ Len(log) \in Nat /\ Len(ref) = Len(log) + 1 /\ HistoryInv(log, ref, now)
  BY DEF Inv, TypeOK, HistoryInv, FoldInv
<1>2. CASE log' = log /\ ref' = ref
  BY <1>2 DEF Stamped
<1>3. ASSUME NEW x, append(x) PROVE Stamped(log, ref)'
  <2> DEFINE e == [ts |-> now, at |-> now, value |-> x]
  <2>1. log' = Append(log, e) /\ \E w : ref' = Append(ref, w)
    BY <1>1, <1>3 DEF append
  <2>2. /\ Len(log') = Len(log) + 1 /\ log'[Len(log) + 1] = e
        /\ \A k \in 1..Len(log) : log'[k] = log[k]
        /\ \A k \in 1..Len(log) + 1 : ref'[k] = ref[k]
    BY <1>1, <2>1
  <2>3. ref[Len(log) + 1].clock <= now
    <3>1. Len(log) + 1 \in 1..Len(ref)
      BY <1>1
    <3> QED
      BY <1>1, <3>1 DEF HistoryInv, ViewInv
  <2> QED
    BY <1>1, <2>2, <2>3 DEF Stamped
<1> QED
  BY <1>2, <1>3 DEF Next, Advance, LeaderChange, Land, Foreign, Compact, Join, Consume, PollEnds,
                    AckArrives, AckFails, Tick, Stop, WriteRelease, vars, broker

(* Two certain views of the same state, neither ahead of the record.       *)
LEMMA SameStep ==
  ASSUME NEW u \in ViewOf(Node), u.certain, NEW v \in ViewOf(Node), v.certain,
         NEW o \in Int, NEW ts \in Int, NEW x \in OwnValue,
         u.state = v.state, u.clock <= ts, v.clock <= ts
  PROVE  viewAfter(u, o, ts, x).state = viewAfter(v, o, ts, x).state
<1> DEFINE r == DecodeValue(x, o, ts)
<1>1. r \in RecordOf(Node) /\ Decodes(x) /\ r.ts = ts
  BY DecodeOwn
<1>2. Apply(u, r).view.state = folded(u.state, r) /\ Apply(v, r).view.state = folded(v.state, r)
  BY <1>1, ApplyState
<1> QED
  BY <1>1, <1>2 DEF viewAfter

(* With such timestamps the fold without the foreign values has the same   *)
(* state at every position of the log.                                     *)
LEMMA ForeignInert ==
  ASSUME MaxSkew = 0, Inv, Stamped(log, ref)
  PROVE  ForeignIgnored
<1> DEFINE view[k \in 0..End] ==
        IF k = 0 THEN NewViewFromStart
        ELSE IF log[k].value \in ForeignValues THEN view[k - 1]
        ELSE viewAfter(view[k - 1], k - 1, log[k].ts, log[k].value)
<1>1. SUFFICES LogState = view[End].state
  BY DEF ForeignIgnored
<1>2. /\ log \in Seq(Entry) /\ ref \in Seq(ViewOf(Node)) /\ End \in Nat /\ End = Len(log)
      /\ Len(ref) = End + 1 /\ FoldInv(log, ref) /\ TermInv(log, ref)
      /\ \A k \in 1..End + 1 : ref[k] \in ViewOf(Node) /\ ref[k].certain
  BY DEF Inv, TypeOK, HistoryInv, FoldInv, ViewInv, End
<1>3. \A k \in 1..End : /\ log[k].ts \in Int /\ log[k].value \in OwnValue \cup ForeignValues
                         /\ k - 1 \in Int /\ k \in 1..End + 1 /\ k - 1 \in 0..End
  <2>1. \A k \in 1..End : log[k] \in Entry
    BY <1>2
  <2>2. \A e \in Entry : e.ts \in Int /\ e.value \in OwnValue \cup ForeignValues
    BY DEF Entry
  <2>3. \A k \in 1..End : k - 1 \in Int /\ k \in 1..End + 1 /\ k - 1 \in 0..End
    BY <1>2
  <2> QED
    BY <2>1, <2>2, <2>3
<1> DEFINE S == {v \in ViewOf(Node) : v.certain}
           next(k, v) == IF log[k].value \in ForeignValues THEN v
                         ELSE viewAfter(v, k - 1, log[k].ts, log[k].value)
           step == [k \in 1..End |-> [v \in S |-> next(k, v)]]
<1>4. view = [k \in 0..End |-> IF k = 0 THEN NewViewFromStart ELSE next(k, view[k - 1])]
  <2>1. \A k \in 1..End : \A v \in S : next(k, v) \in S
    BY <1>3, StepFacts DEF Stepped
  <2> HIDE DEF next
  <2>2. step \in [1..End -> [S -> S]]
    BY <2>1
  <2>3. NewViewFromStart \in S
    BY NewViewFromStartType
  <2>4. PICK f : Recursion(f, S, End, NewViewFromStart, step)
    <3> HIDE DEF S, step
    <3> QED
      BY <1>2, <2>2, <2>3, RecursionExists
  <2>5. f = [k \in 0..End |-> IF k = 0 THEN NewViewFromStart ELSE next(k, f[k - 1])]
    <3>1. f \in [0..End -> S] /\ f[0] = NewViewFromStart
          /\ \A k \in 1..End : f[k] = step[k][f[k - 1]]
      BY <2>4 DEF Recursion
    <3>2. \A k \in 1..End : f[k] = next(k, f[k - 1])
      BY <1>3, <3>1
    <3>3. \A k \in 0..End : k # 0 => k \in 1..End
      BY <1>2
    <3> QED
      BY <3>1, <3>2, <3>3
  <2> USE DEF next
  <2> QED
    BY <2>5
<1> HIDE DEF view
<1> DEFINE same(k) == /\ view[k] \in S /\ view[k].state = ref[k + 1].state
                      /\ view[k].clock <= ref[k + 1].clock
           T == {k \in 0..End : ~same(k)}
<1>5. T = {}
  <2>1. SUFFICES ASSUME T # {} PROVE FALSE
    OBVIOUS
  <2>2. PICK k \in T : \A j \in T : k <= j
    <3>1. T \in SUBSET Nat
      OBVIOUS
    <3> HIDE DEF T
    <3> QED
      BY <2>1, <3>1, LeastElement
  <2>3. k # 0
    <3>1. view[0] = NewViewFromStart /\ ref[0 + 1] = NewViewFromStart
      BY <1>2, <1>4 DEF FoldInv
    <3>2. NewViewFromStart \in S /\ NewViewFromStart.clock \in Int
      BY NewViewFromStartType DEF ViewOf
    <3>3. same(0)
      BY <3>1, <3>2
    <3> QED
      BY <3>3
  <2> DEFINE x == log[k].value
             ts == log[k].ts
             u == view[k - 1]
             v == ref[k]
             w == ref[k + 1]
  <2>4. k \in 1..End /\ k - 1 \in 0..End /\ ~(k <= k - 1) /\ (k - 1) + 1 = k
        /\ k \in 1..End + 1 /\ k + 1 \in 1..End + 1
    BY <1>2, <2>3
  <2>5. u \in ViewOf(Node) /\ u.certain /\ u.state = v.state /\ u.clock <= v.clock
    BY <2>2, <2>4
  <2>6. /\ v \in ViewOf(Node) /\ v.certain /\ w \in ViewOf(Node) /\ v.clock <= w.clock
        /\ w = viewAfter(v, k - 1, ts, x) /\ v.clock <= ts
    BY <1>2, <2>4 DEF FoldInv, TermInv, Stamped
  <2>7. view[k] = next(k, u)
    BY <1>4, <2>3, <2>4
  <2>8. ts \in Int /\ x \in OwnValue \cup ForeignValues /\ k - 1 \in Int
    BY <1>3, <2>4
  <2> HIDE DEF u, v, w, x, ts
  <2>9. u.clock \in Int /\ v.clock \in Int /\ w.clock \in Int
    BY <2>5, <2>6, ViewFields
  <2>10. CASE x \in ForeignValues
    <3>1. view[k] = u
      BY <2>7, <2>10 DEF x
    <3>2. w.state = v.state
      BY <2>6, <2>8, <2>10, ForeignStep
    <3>3. same(k)
      BY <2>5, <2>6, <2>9, <3>1, <3>2 DEF w
    <3> QED
      BY <3>3
  <2>11. CASE x \notin ForeignValues
    <3>1. view[k] = viewAfter(u, k - 1, ts, x)
      BY <2>7, <2>11 DEF x, ts
    <3>2. u.clock <= ts
      BY <2>5, <2>6, <2>8, <2>9
    <3>3. view[k].state = w.state
      BY <2>5, <2>6, <2>8, <2>11, <3>1, <3>2, SameStep
    <3>4. Stepped(u, k - 1, ts, x, view[k])
      BY <2>5, <2>8, <3>1, StepFacts
    <3>5. Stepped(v, k - 1, ts, x, w) /\ w.clock = ts
      <4>1. DecodeValue(x, k - 1, ts) \in RecordOf(Node) /\ Decodes(x)
            /\ DecodeValue(x, k - 1, ts).ts = ts
        BY <2>8, <2>11, DecodeOwn
      <4>2. Stepped(v, k - 1, ts, x, w)
        BY <2>6, <2>8, StepFacts
      <4>3. DecodeValue(x, k - 1, ts).holder \in Node
        BY <4>1 DEF RecordOf
      <4>4. Applied(Node, v, DecodeValue(x, k - 1, ts), Apply(v, DecodeValue(x, k - 1, ts)))
        BY <2>6, <4>1, <4>3, ApplyFacts
      <4> QED
        BY <2>6, <2>8, <2>9, <4>1, <4>2, <4>4 DEF Applied, clockAfter, viewAfter
    <3>6. view[k] \in S /\ view[k].clock <= w.clock
      BY <2>5, <2>6, <2>8, <2>9, <3>2, <3>4, <3>5 DEF Stepped
    <3>7. same(k)
      BY <3>3, <3>6 DEF w
    <3> QED
      BY <3>7
  <2> QED
    BY <2>10, <2>11
<1>6. same(End)
  BY <1>2, <1>5
<1> QED
  BY <1>6 DEF LogState

(* Values that are not understood, or ask for too much, change nothing     *)
(* (DecodeValue, validTTL, agent.record).                                  *)
THEOREM ForeignValuesInert ==
  ASSUME "compaction" \notin Faults
  PROVE  Spec => []ForeignIgnored
<1>1. CASE MaxSkew # 0
  <2>1. ForeignIgnored
    BY <1>1 DEF ForeignIgnored
  <2> QED
    BY <2>1, PTL
<1>2. CASE MaxSkew = 0
  <2>1. Init => Stamped(log, ref)
    BY DEF Init, Stamped
  <2>2. Inv /\ Stamped(log, ref) /\ [Next]_vars => Stamped(log, ref)'
    BY <1>2, StampedStep
  <2>3. Inv /\ Stamped(log, ref) => ForeignIgnored
    BY <1>2, ForeignInert
  <2> QED
    BY <2>1, <2>2, <2>3, Invariance, PTL DEF Spec
<1> QED
  BY <1>1, <1>2

-----------------------------------------------------------------------------
(* LeaseProtocol implements Lease: the initial states map to the initial   *)
(* state, and every step to a step of Lease or to none.                    *)

(* Who holds, as the refinement mapping of LeaseProtocol has it.           *)
Holders == {n \in Node : Holding(n)}

(* Whoever holds owns the term in the log, with the epoch it reports, so   *)
(* it is the only one.                                                     *)
HoldersOwn ==
  \A n \in Node :
    Holding(n) => Holders = {n} /\ LogState.holder = n /\ LogState.epoch = pub[n].epoch

(* Whoever holds owns the term that the log shows.                         *)
LEMMA HoldersOwnTerm ==
  ASSUME SkewWithinMargin, Inv
  PROVE  HoldersOwn
  BY HoldingTerm DEF Holders, HoldersOwn

(* Nobody holds, or the owner of the term alone does.                      *)
LEMMA HoldersCases ==
  ASSUME HoldersOwn
  PROVE  Holders = {} \/ \E n \in Node : Holders = {n} /\ LogState.holder = n
  BY DEF Holders, HoldersOwn

(* The same after a step.                                                  *)
LEMMA HoldersCasesNext ==
  ASSUME HoldersOwn'
  PROVE  Holders' = {} \/ \E n \in Node : Holders' = {n} /\ LogState'.holder = n
  BY DEF Holders, HoldersOwn

(* A step that leaves the term alone: its owner starts or stops holding,   *)
(* or nothing happens.                                                     *)
LEMMA HoldingStep ==
  ASSUME HoldersOwn, HoldersOwn', LogState' = LogState
  PROVE  [Abstract!Next]_(Abstract!leaseVars)
<1>1. CASE Holders' = Holders
  BY <1>1 DEF Abstract!leaseVars, Holders
<1>2. CASE Holders' # Holders
  <2>1. PICK n \in Node : /\ LogState.holder = n
                          /\ \/ Holders = {} /\ Holders' = {n}
                             \/ Holders = {n} /\ Holders' = {}
    BY <1>2, HoldersCases, HoldersCasesNext
  <2>2. Abstract!Start(n) \/ Abstract!Quit(n)
    BY <2>1 DEF Abstract!Start, Abstract!Quit, Holders
  <2> QED
    BY <2>2 DEF Abstract!Next
<1> QED
  BY <1>1, <1>2

(* A step that appends to the log: a record that starts a term or takes    *)
(* one back comes while nobody holds.  Were somebody to hold, it would     *)
(* hold after the step, too, and own the term before and after.            *)
LEMMA TermChange ==
  ASSUME HoldersOwn, HoldersOwn', NEW v, NEW w, NEW x, LogStep(v, w, x), TypeOK
  PROVE  [Abstract!Next]_(Abstract!leaseVars)
<1>1. PICK ts : Stepped(v, Len(log), ts, x, w)
  BY DEF LogStep
<1>2. /\ v \in ViewOf(Node) /\ w \in ViewOf(Node) /\ Len(log) \in Nat /\ v.state.epoch < Len(log)
      /\ LogState = v.state /\ LogState' = w.state
  BY <1>1 DEF LogStep, Stepped, TypeOK
<1>3. /\ v.state.epoch \in Int /\ w.state.epoch \in Int
      /\ w.state.holder \in Node \cup {NoHolder}
  BY <1>2 DEF ViewOf, StateOf
<1>4. Holders' = Holders
  BY DEF LogStep, Holders, Holding
<1>5. \/ /\ w.state.holder = v.state.holder /\ w.state.epoch = v.state.epoch
      \/ /\ w.state.holder \in Node /\ w.state.epoch > v.state.epoch
      \/ /\ w.state.holder = NoHolder /\ w.state.epoch = v.state.epoch
  BY <1>1, <1>2, <1>3 DEF Stepped
<1>6. CASE w.state.holder = v.state.holder /\ w.state.epoch = v.state.epoch
  BY <1>2, <1>4, <1>6 DEF Abstract!leaseVars, Holders
<1>7. CASE Holders = {} /\ w.state.holder \in Node /\ w.state.epoch > v.state.epoch
  <2>1. Abstract!Grant(w.state.holder)
    BY <1>2, <1>4, <1>7 DEF Abstract!Grant, Holders
  <2> QED
    BY <1>7, <2>1 DEF Abstract!Next
<1>8. CASE Holders = {} /\ w.state.holder = NoHolder /\ w.state.epoch = v.state.epoch
  <2>1. Abstract!Free
    BY <1>2, <1>4, <1>8 DEF Abstract!Free, Holders
  <2> QED
    BY <2>1 DEF Abstract!Next
<1>9. CASE Holders # {}
  <2>1. PICK n \in Node : Holding(n)
    BY <1>9 DEF Holders
  <2>2. Holding(n)' /\ pub'[n] = pub[n]
    BY <2>1 DEF LogStep, Holding
  <2>3. w.state.holder = v.state.holder /\ w.state.epoch = v.state.epoch
    BY <1>2, <2>1, <2>2 DEF HoldersOwn
  <2> QED
    BY <1>6, <2>3
<1> QED
  BY <1>5, <1>6, <1>7, <1>8, <1>9

-----------------------------------------------------------------------------
(* The candidates implement a lease (LeaseProtocol.ImplementsLease), for   *)
(* any number of them, any TTL, margin and intervals, whatever is delayed, *)
(* lost, frozen or stopped, as long as the leaders' clocks differ by no    *)
(* more than the margin allows and nothing is compacted away.              *)
THEOREM Refinement ==
  ASSUME "compaction" \notin Faults, SkewWithinMargin
  PROVE  Spec => ImplementsLease
<1>1. Init => Abstract!Init
  <2> SUFFICES ASSUME Init
               PROVE  Abstract!Init
    OBVIOUS
  <2>1. LogState = FreeState(NoOffset)
    <3>1. End + 1 = 1
      BY DEF Init, End
    <3>2. ref[1] = NewViewFromStart
      BY DEF Init
    <3>3. NewViewFromStart.state = FreeState(NoOffset)
      BY DEF NewViewFromStart, NewView
    <3> QED
      BY <3>1, <3>2, <3>3 DEF LogState
  <2>2. Holders = {}
    BY DEF Init, Holders, Holding, ZeroTime
  <2> QED
    BY <2>1, <2>2 DEF Abstract!Init, Holders, FreeState, NoOffset
<1>2. Inv => HoldersOwn
  BY HoldersOwnTerm
<1>3. Inv /\ HoldersOwn /\ HoldersOwn' /\ [Next]_vars => [Abstract!Next]_(Abstract!leaseVars)
  <2> SUFFICES ASSUME Inv, HoldersOwn, HoldersOwn', [Next]_vars
               PROVE  [Abstract!Next]_(Abstract!leaseVars)
    OBVIOUS
  <2>1. CASE Next /\ log' # log
    <3>1. PICK v, w, x : LogStep(v, w, x)
      BY <2>1, LogSteps
    <3> QED
      BY <3>1, TermChange DEF Inv
  <2>2. CASE log' = log /\ ref' = ref
    BY <2>2, HoldingStep DEF LogState, End
  <2>3. (Next /\ log' # log) \/ (log' = log /\ ref' = ref)
    <3>1. ASSUME NEW x, append(x)
          PROVE  log' # log
      <4>1. log \in Seq(Entry)
        BY DEF Inv, TypeOK
      <4>2. Len(log') = Len(log) + 1 /\ Len(log) \in Nat
        BY <3>1, <4>1 DEF append
      <4> QED
        BY <4>2
    <3>2. CASE \/ \E m \in wire : Land(m)
               \/ \E y \in ForeignValues : Foreign(y)
      BY <3>1, <3>2 DEF Next, Land, Foreign
    <3>3. CASE ~(\/ \E m \in wire : Land(m)
                 \/ \E y \in ForeignValues : Foreign(y))
      BY <3>3 DEF Next, vars, broker, Advance, LeaderChange, Compact, Join, Consume,
                  PollEnds, AckArrives, AckFails, Tick, Stop, WriteRelease
    <3> QED
      BY <3>2, <3>3
  <2> QED
    BY <2>1, <2>2, <2>3
<1> QED
  BY <1>1, <1>2, <1>3, Invariance, PTL DEF Spec, ImplementsLease, Abstract!Spec
=============================================================================
