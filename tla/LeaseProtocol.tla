--------------------------- MODULE LeaseProtocol ---------------------------
(***************************************************************************)
(* Candidates (lease/candidate.go), each running its agent, on one lease   *)
(* partition.                                                              *)
(*                                                                         *)
(* A node is one process incarnation: a restarted process is another node  *)
(* that joins later.  Its loop is                                          *)
(*                                                                         *)
(*     poll the log -> feed the agent -> drain acknowledgements            *)
(*          -> stop, or tick and produce -> publish                        *)
(*                                                                         *)
(* and a node that takes no step is frozen.  Real time is the variable     *)
(* now; every local clock shows it, the partition leader's clock is ahead  *)
(* of it by lead.                                                          *)
(***************************************************************************)
EXTENDS LeaseAgent

CONSTANTS
  Node,           \* process incarnations; a node is its own holder name
  ForeignValues,  \* values that something else may write to the topic
  MaxSkew,        \* leaders' clocks differ by at most this much
  FetchLag,       \* how old the high watermark known to a ticking reader may be
  CompactionLag,  \* min.compaction.lag.ms
  Faults,         \* what may go wrong, a subset of Fault
  MaxTime,        \* bound on now
  MaxLog          \* bound on the records ever written

(* compaction: old records are removed from the log                        *)
(* fetch: fetches fail                                                     *)
(* delivery: produce requests fail, after the delivery timeout or before   *)
(* stop: processes are stopped; stopInFlight: also with a request in       *)
(* flight                                                                  *)
Fault == {"compaction", "fetch", "delivery", "stop", "stopInFlight"}

ASSUME ProtocolAssumption ==
  /\ NoHolder \notin Node
  /\ MaxSkew \in Nat /\ FetchLag \in Nat /\ CompactionLag \in Nat
  /\ Faults \subseteq Fault
  /\ MaxTime \in Nat /\ MaxLog \in Nat

(* Participants follow the protocol, the same TTL included.  Anything else *)
(* on the topic is not understood, or asks for more than the lease's TTL.  *)
ASSUME ForeignAssumption ==
  \A v \in ForeignValues :
    /\ v.holder \notin Node
    /\ Decodes(v) => v.kind = Claim /\ v.ttlMs \in Nat /\ v.ttlMs * MsUnit > TTL

VARIABLES
  now,    \* real time
  lead,   \* how far the current leader's clock is ahead of real time
  log,    \* every record ever appended; log[o + 1] is the record at offset o
  first,  \* lowest offset that compaction has left
  wire,   \* produce requests on their way to the broker
  agent,  \* the agent of each node
  phase,  \* where each node's loop is
  pub,    \* the belief each node last published (Candidate.deadline, .epoch)
  landed, \* history: offset of the request in flight once it is in the log
  ref     \* history: ref[k + 1] is the view of the first k records

broker == <<lead, log, first, ref>>
vars   == <<now, broker, wire, agent, phase, pub, landed>>

Running(n) == phase[n] \in {"poll", "drain"}
End        == Len(log)

(* Candidate.Status evaluates the deadline against the clock at the call.  *)
Holding(n) == now < pub[n].deadline

(* setStatus: the belief readers of the candidate see from now on.         *)
publish(n, a) == pub' = [pub EXCEPT ![n] = status(a, now)]

NoAgent == newAgent(NoHolder, 0, 0, 0)

Init ==
  /\ now = 0
  /\ lead \in 0..MaxSkew
  /\ log = << >> /\ first = 0 /\ ref = <<NewViewFromStart>>
  /\ wire = {}
  /\ agent = [n \in Node |-> NoAgent]
  /\ phase = [n \in Node |-> "new"]
  /\ pub = [n \in Node |-> [deadline |-> ZeroTime, epoch |-> 0]]
  /\ landed = [n \in Node |-> NoOffset]

-----------------------------------------------------------------------------
(* The broker and time.                                                    *)

Advance ==
  /\ now < MaxTime
  /\ now' = now + 1
  /\ UNCHANGED <<broker, wire, agent, phase, pub, landed>>

(* The partition moves to a leader whose clock differs.                    *)
LeaderChange ==
  /\ \E l \in (0..MaxSkew) \ {lead} : lead' = l
  /\ UNCHANGED <<now, log, first, ref, wire, agent, phase, pub, landed>>

(* What a reader that has no hole behind it makes of the next value.       *)
viewAfter(v, offset, ts, value) ==
  IF Decodes(value) THEN Apply(v, DecodeValue(value, offset, ts)).view ELSE v

(* A value is appended with LogAppendTime; the reference reader follows.   *)
append(value) ==
  LET ts == now + lead
  IN  /\ log' = Append(log, [ts |-> ts, at |-> now, value |-> value])
      /\ ref' = Append(ref, viewAfter(ref[End + 1], End, ts, value))
      /\ UNCHANGED <<lead, first>>

(* m is the request n has in flight, as opposed to one it gave up on.      *)
Current(m) ==
  /\ m.value.kind = agent[m.value.holder].inflight.kind
  /\ m.sentAt = agent[m.value.holder].inflight.sentAt

(* A produce request reaches the log, after any delay.  One client keeps   *)
(* one request in flight per broker: a release waits for the request       *)
(* before it to land.  (If that one fails instead, the log is the one of a *)
(* stop after the failure.)                                                *)
Land(m) ==
  /\ m.value.kind = Release =>
       ~ \E p \in wire : p.value.holder = m.value.holder /\ Current(p)
  /\ append(m.value)
  /\ wire' = wire \ {m}
  /\ landed' = IF Current(m) THEN [landed EXCEPT ![m.value.holder] = End] ELSE landed
  /\ UNCHANGED <<now, agent, phase, pub>>

(* Something that is not a participant writes to the topic.                *)
Foreign(value) ==
  /\ End + Cardinality(wire) < MaxLog
  /\ append(value)
  /\ UNCHANGED <<now, wire, agent, phase, pub, landed>>

(* All records have the same key: compaction removes those before offset   *)
(* k, never the latest and none younger than the compaction lag.           *)
Compact ==
  /\ "compaction" \in Faults
  /\ \E k \in first + 1..End - 1 :
       /\ \A o \in first..k - 1 : now - log[o + 1].at >= CompactionLag
       /\ first' = k
  /\ UNCHANGED <<now, lead, log, ref, wire, agent, phase, pub, landed>>

-----------------------------------------------------------------------------
(* The loop of a candidate.                                                *)

(* Run, bootstrap: the partition's bounds, a new agent, a first publish.   *)
(* Compaction leaves the log start offset where it was unless whole        *)
(* segments are gone.                                                      *)
Join(n) ==
  /\ phase[n] = "new"
  /\ \E start \in {0, first} :
       LET a == newAgent(n, start, End, now)
       IN  /\ agent' = [agent EXCEPT ![n] = a]
           /\ publish(n, a)
  /\ phase' = [phase EXCEPT ![n] = "poll"]
  /\ UNCHANGED <<now, broker, wire, landed>>

(* consume: a poll returned the next record there is, with the high        *)
(* watermark at the time of the fetch.  A poll that returned several is    *)
(* several of these steps.                                                 *)
Consume(n) ==
  LET a == agent[n]
      o == IF a.nextOffset < first THEN first ELSE a.nextOffset
      b(highWater) == record(fetched(a, now, highWater), now, o, log[o + 1].ts, log[o + 1].value)
  IN  /\ phase[n] = "poll"
      /\ o < End
      /\ \E highWater \in {o + 1, End} :
           /\ agent' = [agent EXCEPT ![n] = b(highWater)]
           /\ publish(n, b(highWater))
      /\ UNCHANGED <<now, broker, wire, phase, landed>>

(* consume: the poll ended with a failed fetch, or with one that had no    *)
(* records.  A poll that merely times out changes nothing: it is part of   *)
(* the step that follows it.                                               *)
PollEnds(n) ==
  LET a == agent[n]
  IN  /\ phase[n] = "poll"
      /\ "fetch" \in Faults
      /\ \E b \in {fetchFailed(a), fetched(a, now, a.nextOffset)} \ {a} :
           /\ agent' = [agent EXCEPT ![n] = b]
           /\ publish(n, b)
      /\ phase' = [phase EXCEPT ![n] = "drain"]
      /\ UNCHANGED <<now, broker, wire, landed>>

(* drain: the acknowledgement of the request in flight has arrived.        *)
AckArrives(n) ==
  /\ Running(n)
  /\ agent[n].inflight # Idle /\ agent[n].inflight.offset = NoOffset
  /\ landed[n] # NoOffset
  /\ agent' = [agent EXCEPT ![n] = acked(agent[n], now, landed[n])]
  /\ phase' = [phase EXCEPT ![n] = "drain"]
  /\ UNCHANGED <<now, broker, wire, pub, landed>>

(* drain: the request failed.  After the delivery timeout, one TTL, it may *)
(* have landed or still land; before that the client knows it did not.     *)
AckFails(n) ==
  /\ Running(n)
  /\ "delivery" \in Faults
  /\ agent[n].inflight # Idle /\ agent[n].inflight.offset = NoOffset
  /\ \/ now - agent[n].inflight.sentAt >= TTL /\ UNCHANGED wire
     \/ /\ landed[n] = NoOffset
        /\ wire' = {m \in wire : ~(m.value.holder = n /\ Current(m))}
  /\ agent' = [agent EXCEPT ![n] = ackFailed(agent[n], now)]
  /\ landed' = [landed EXCEPT ![n] = NoOffset]
  /\ phase' = [phase EXCEPT ![n] = "drain"]
  /\ UNCHANGED <<now, broker, pub>>

(* produce: what the agent hands out goes on the wire, encoded.            *)
Produce(out) ==
  wire' = wire \cup {[value |-> EncodeValue(r), sentAt |-> now] : r \in out}

(* The high watermark that a connected reader measures silence against is  *)
(* at most FetchLag old.                                                   *)
Timely(a) ==
  a.connected /\ silent(a, now) =>
    \A o \in a.highWater..End - 1 : now - log[o + 1].at <= FetchLag

(* tick, produce, publish.                                                 *)
Tick(n) ==
  LET t == tick(agent[n], now)
  IN  /\ Running(n)
      /\ Timely(agent[n])
      /\ t.out # {} => End + Cardinality(wire) < MaxLog
      /\ agent' = [agent EXCEPT ![n] = t.agent]
      /\ landed' = IF t.out # {} THEN [landed EXCEPT ![n] = NoOffset] ELSE landed
      /\ Produce(t.out)
      /\ publish(n, t.agent)
      /\ phase' = [phase EXCEPT ![n] = "poll"]
      /\ UNCHANGED <<now, broker>>

(* Bug: the drop of the belief is not published.                           *)
BugStop(n) ==
  LET t == release(agent[n], now)
  IN  /\ Running(n)
      /\ "stop" \in Faults
      /\ agent[n].inflight # Idle => "stopInFlight" \in Faults
      /\ agent' = [agent EXCEPT ![n] = t.agent]
      /\ phase' = [phase EXCEPT ![n] = IF t.out = {} THEN "stopped" ELSE "releasing"]
      /\ UNCHANGED <<now, broker, wire, pub, landed>>

(* The context is done.  shutdown drops the belief and publishes that.     *)
Stop(n) ==
  LET t == release(agent[n], now)
  IN  /\ Running(n)
      /\ "stop" \in Faults
      /\ agent[n].inflight # Idle => "stopInFlight" \in Faults
      /\ agent' = [agent EXCEPT ![n] = t.agent]
      /\ publish(n, t.agent)
      /\ phase' = [phase EXCEPT ![n] = IF t.out = {} THEN "stopped" ELSE "releasing"]
      /\ UNCHANGED <<now, broker, wire, landed>>

(* shutdown goes on: it writes the release of the belief it dropped.       *)
WriteRelease(n) ==
  /\ phase[n] = "releasing"
  /\ End + Cardinality(wire) < MaxLog
  /\ Produce({newRecord(agent[n], Release, agent[n].epoch)})
  /\ phase' = [phase EXCEPT ![n] = "stopped"]
  /\ UNCHANGED <<now, broker, agent, pub, landed>>

Next ==
  \/ Advance
  \/ LeaderChange
  \/ \E m \in wire : Land(m)
  \/ \E v \in ForeignValues : Foreign(v)
  \/ Compact
  \/ \E n \in Node :
       \/ Join(n) \/ Consume(n) \/ PollEnds(n)
       \/ AckArrives(n) \/ AckFails(n)
       \/ Tick(n) \/ Stop(n) \/ WriteRelease(n)

Spec == Init /\ [][Next]_vars

-----------------------------------------------------------------------------
(* Properties.                                                             *)

(* A value some participant writes, or one from elsewhere.                 *)
OwnValue ==
  [version : {WireVersion}, kind : Kind, holder : Node, epoch : Int, ttlMs : {TTL \div MsUnit}]

Entry   == [ts : Int, at : Int, value : OwnValue \cup ForeignValues]
Request == [value : OwnValue, sentAt : Int]

(* Every variable has its type: the shape of candidate.go's and agent.go's *)
(* structures and of the log.                                              *)
TypeOK ==
  /\ now \in Nat /\ lead \in 0..MaxSkew
  /\ log \in Seq(Entry) /\ first \in Nat
  /\ wire \subseteq Request
  /\ agent \in [Node -> AgentOf(Node)]
  /\ phase \in [Node -> {"new", "poll", "drain", "releasing", "stopped"}]
  /\ pub \in [Node -> [deadline : Int, epoch : Int]]
  /\ landed \in [Node -> Int]
  /\ ref \in Seq(ViewOf(Node))

(* The lease as the whole log has it.                                      *)
LogState == ref[End + 1].state

(* No two candidates report Holding at the same instant: what a workload   *)
(* acts on (Candidate.Status), frozen and stopped candidates included.     *)
MutualExclusion ==
  \A m, n \in Node : Holding(m) /\ Holding(n) => m = n

(* A published belief is backed by the log: as long as it lasts the log    *)
(* shows that very term, and the term outlives the belief by the margin,   *)
(* less what the wire truncates of the TTL (agent.extendBelief).           *)
BeliefBackedByLog ==
  \A n \in Node :
    Holding(n) =>
      /\ LogState.holder = n
      /\ LogState.epoch = pub[n].epoch
      /\ LogState.expires >= pub[n].deadline + Margin - (TTL - WireTTL(TTL))

(* The epoch is a fencing token: while a candidate reports Holding, no     *)
(* candidate has been given an epoch above its own (agent.settle).         *)
FencingToken ==
  \A m, n \in Node : Holding(n) => pub[m].epoch <= pub[n].epoch

(* An agent that believes and whose view is certain sees its own live term *)
(* there, whichever of acknowledgement and read-back came first and        *)
(* whatever it read in between (agent.settle, agent.record).               *)
BeliefMatchesView ==
  \A n \in Node :
    LET a == agent[n]
    IN  believing(a, now) /\ a.view.certain =>
          /\ a.view.state.holder = n
          /\ a.view.state.epoch = a.epoch
          /\ HeldAt(a.view.state, a.view.clock)

(* s and r are the same lease from broker time t on: held alike, or not    *)
(* held.                                                                   *)
Agree(s, r, t) ==
  /\ HeldAt(s, t) <=> HeldAt(r, t)
  /\ HeldAt(r, t) => s = r

(* Once certain, an agent has the state of a reader that saw the whole log *)
(* up to where the agent is, whether it started at the beginning, found an *)
(* anchor, or concluded from silence (View.Apply, agent.tick).  Before its *)
(* first record an agent that was told the log starts at 0 may be wrong.   *)
AgentsAgree ==
  \A n \in Node :
    LET a == agent[n]
    IN  a.view.certain /\ a.lastRecordAt # ZeroTime =>
          Agree(a.view.state, ref[a.nextOffset + 1].state, now)

(* The client never gets an error from View.Apply, which would end Run:    *)
(* whatever holes and restarts there were, the next record is newer than   *)
(* the last one applied.                                                   *)
ApplyInOrder ==
  \A n \in Node : agent[n].view.lastOffset < agent[n].nextOffset

(* Writer rule 2 of docs/protocol.md, "One produce request in flight at a  *)
(* time": of the requests a participant has not given up on, which it does *)
(* no earlier than the delivery timeout, at most one is under way.         *)
OneRequestInFlight ==
  \A p, q \in wire :
    /\ p.value.holder = q.value.holder
    /\ now - p.sentAt < TTL /\ now - q.sentAt < TTL
    => p = q

(* An acknowledged request is settled when its record is read back, so it  *)
(* is still ahead of the reader: a request behind the reader would never   *)
(* be settled, and the agent would never write again (agent.tick).         *)
InFlightAhead ==
  \A n \in Node :
    agent[n].inflight.offset # NoOffset => agent[n].inflight.offset >= agent[n].nextOffset

(* A release is written only after the belief is dropped and the drop      *)
(* published (run.shutdown), so nobody who has one under way or in the log *)
(* reports Holding.                                                        *)
ReleasedNotHolding ==
  \A n \in Node :
    \/ \E m \in wire : m.value.kind = Release /\ m.value.holder = n
    \/ \E k \in 1..End : log[k].value.kind = Release /\ log[k].value.holder = n
    => ~Holding(n)

(* What is on the topic but not understood, or asks for more than the      *)
(* lease's TTL, is ignored: the lease is what the other records make it,   *)
(* wherever those values are in between (DecodeValue, validTTL,            *)
(* agent.record).  For clocks that agree: a foreign record still moves the *)
(* view's clock.                                                           *)
ForeignIgnored ==
  LET view[k \in 0..End] ==
        IF k = 0 THEN NewViewFromStart
        ELSE IF log[k].value \in ForeignValues THEN view[k - 1]
        ELSE viewAfter(view[k - 1], k - 1, log[k].ts, log[k].value)
  IN  MaxSkew = 0 => LogState = view[End].state

(* A term in the log ends by its holder's release or by expiry: the next   *)
(* record never takes a live term away, shortens it or changes its epoch,  *)
(* and a new term has a higher epoch than any before (View.fold).          *)
TermStep ==
  LET s == LogState
      r == LogState'
      t == ref'[Len(log')+1].clock
  IN  /\ HeldAt(s, t) =>
           \/ r.holder = s.holder /\ r.epoch = s.epoch /\ r.expires >= s.expires
           \/ log'[Len(log')].value.kind = Release /\ log'[Len(log')].value.holder = s.holder
      /\ r.epoch >= s.epoch
      /\ r.holder # s.holder /\ r.holder # NoHolder => r.epoch > s.epoch

TermsEndRightly == [][TermStep]_log

-----------------------------------------------------------------------------
(* The candidates implement a lease: the term is the one the log shows,    *)
(* and its epoch; who holds is who Candidate.Status says does.             *)
Abstract == INSTANCE Lease WITH
       owner   <- LogState.holder,
       epoch   <- LogState.epoch,
       holding <- {n \in Node : Holding(n)}

(* Every step of the system is a step of Lease or leaves it alone: the     *)
(* log starts a term or takes one back only while no candidate reports     *)
(* Holding, frozen ones and requests that land late included; a term's     *)
(* epoch is above those before it; and Holding starts only at the owner of *)
(* the term the log shows at that moment (View.fold, agent.settle,         *)
(* run.shutdown).                                                          *)
ImplementsLease == Abstract!Spec
=============================================================================
