----------------------------- MODULE Heartbeat -----------------------------
(***************************************************************************)
(* The example workload (examples/heartbeat/main.go) on top of a lease:    *)
(* one instance per cluster asks its scaler's /status (scaler/http.go) and *)
(* writes heartbeats while the scaler holds, and a report reads them with  *)
(* the fence a consumer would apply.                                       *)
(*                                                                         *)
(* The lease is the abstract one that LeaseProtocol implements.  Between   *)
(* the status that a workload read and the record on the topic any time    *)
(* may pass, and any number of terms.                                      *)
(***************************************************************************)
EXTENDS Integers, Sequences, FiniteSetsExt

CONSTANTS
  Node,      \* the clusters; one scaler and one workload each
  NoHolder,
  MaxEpoch,  \* bound on the epochs of the lease
  MaxTime,   \* bound on now
  MaxBeats   \* bound on the records ever produced

ASSUME HeartbeatAssumption ==
  /\ NoHolder \notin Node
  /\ MaxEpoch \in Nat /\ MaxTime \in Nat /\ MaxBeats \in Nat

VARIABLES
  owner, epoch, holding,  \* the lease
  now,                    \* the broker's clock
  answer,                 \* per workload: the status it has, or Nothing
  queue,                  \* per workload: the records its client has yet to deliver
  topic                   \* the heartbeat topic, in offset order

lease == <<owner, epoch, holding>>
vars  == <<lease, now, answer, queue, topic>>

L == INSTANCE Lease

Nothing == [holding |-> FALSE, epoch |-> 0, asked |-> FALSE]

Init ==
  /\ L!Init
  /\ now = 0
  /\ answer = [n \in Node |-> Nothing]
  /\ queue = [n \in Node |-> << >>]
  /\ topic = << >>

LeaseStep ==
  /\ \/ \E n \in Node :
          \/ epoch' \in epoch + 1..MaxEpoch /\ L!Grant(n)
          \/ L!Start(n) \/ L!Quit(n)
     \/ owner # NoHolder /\ L!Free
  /\ UNCHANGED <<now, answer, queue, topic>>

Advance ==
  /\ now < MaxTime
  /\ now' = now + 1
  /\ UNCHANGED <<lease, answer, queue, topic>>

-----------------------------------------------------------------------------
(* The workload.                                                           *)

(* Bug: the answer names no epoch.                                         *)
BugStatusOf(n) == [holding |-> n \in holding, epoch |-> 0, asked |-> TRUE]

(* GET /status: belief and epoch of one Candidate.Status; the epoch only   *)
(* while holding.                                                          *)
StatusOf(n) ==
  [holding |-> n \in holding, epoch |-> IF n \in holding THEN epoch ELSE 0, asked |-> TRUE]

Ask(n) ==
  /\ ~answer[n].asked
  /\ answer' = [answer EXCEPT ![n] = StatusOf(n)]
  /\ UNCHANGED <<lease, now, queue, topic>>

(* The request fails or times out: nothing is written until the next tick. *)
AskFails(n) ==
  /\ answer[n].asked
  /\ answer' = [answer EXCEPT ![n] = Nothing]
  /\ UNCHANGED <<lease, now, queue, topic>>

Produced == Len(topic) + FoldSet(LAMBDA n, sum : sum + Len(queue[n]), 0, Node)

(* The fence of the writer: no belief, no write.                           *)
Beat(n) ==
  /\ answer[n].asked
  /\ answer' = [answer EXCEPT ![n] = Nothing]
  /\ IF answer[n].holding
     THEN /\ Produced < MaxBeats
          /\ queue' = [queue EXCEPT ![n] = Append(@, [cluster |-> n, epoch |-> answer[n].epoch])]
     ELSE UNCHANGED queue
  /\ UNCHANGED <<lease, now, topic>>

(* The next record reaches the topic, with LogAppendTime ...               *)
Land(n) ==
  /\ queue[n] # << >>
  /\ topic' = Append(topic, [cluster |-> n, epoch |-> Head(queue[n]).epoch, ts |-> now])
  /\ queue' = [queue EXCEPT ![n] = Tail(@)]
  /\ UNCHANGED <<lease, now, answer>>

(* ... or is given up after the delivery timeout.                          *)
Expire(n) ==
  /\ queue[n] # << >>
  /\ queue' = [queue EXCEPT ![n] = Tail(@)]
  /\ UNCHANGED <<lease, now, answer, topic>>

Next ==
  \/ LeaseStep
  \/ Advance
  \/ \E n \in Node : Ask(n) \/ AskFails(n) \/ Beat(n) \/ Land(n) \/ Expire(n)

Spec == Init /\ [][Next]_vars

-----------------------------------------------------------------------------
(* The report.                                                             *)

(* What is kept while the records are read: the fence, the records it      *)
(* rejected, and when each epoch first and last wrote.                     *)
NewReport == [maxEpoch |-> -1, stale |-> 0, spans |-> << >>]

(* Bug: the span of an epoch is its latest record alone.                   *)
BugSpan(spans, r) == [first |-> r.ts, last |-> r.ts]

(* The span of r's epoch, with r in it.                                    *)
Span(spans, r) ==
  [first |-> IF r.epoch \in DOMAIN spans THEN spans[r.epoch].first ELSE r.ts, last |-> r.ts]

count(rep, r) ==
  [maxEpoch |-> IF r.epoch > rep.maxEpoch THEN r.epoch ELSE rep.maxEpoch,
   stale    |-> rep.stale + IF r.epoch < rep.maxEpoch THEN 1 ELSE 0,
   spans    |-> [e \in DOMAIN rep.spans \cup {r.epoch} |->
                   IF e = r.epoch THEN Span(rep.spans, r) ELSE rep.spans[e]]]

(* The records are counted in offset order.                                *)
counted(records) ==
  LET rep[i \in 0..Len(records)] ==
        IF i = 0 THEN NewReport ELSE count(rep[i - 1], records[i])
  IN  rep[Len(records)]

(* The pairs of epochs that are neighbours when the spans are sorted.      *)
Neighbours(spans) ==
  {p \in (DOMAIN spans) \X (DOMAIN spans) :
     p[1] < p[2] /\ \A e \in DOMAIN spans : e <= p[1] \/ p[2] <= e}

(* How long each epoch went on after the next higher one had begun; less   *)
(* than zero if it was silent before that.                                 *)
Handovers(spans) == {spans[p[1]].last - spans[p[2]].first : p \in Neighbours(spans)}

summarize(records) ==
  LET rep       == counted(records)
      handovers == Handovers(rep.spans)
  IN  [stale   |-> rep.stale,
       overlap |-> Max({0} \cup {d \in handovers : d > 0}),
       gap     |-> Max({0} \cup {-d : d \in {h \in handovers : h <= 0}})]

(* What report has read by now, of the records since a time.               *)
recordsSince(from) ==
  LET kept[i \in 0..Len(topic)] ==
        IF i = 0 THEN << >>
        ELSE IF topic[i].ts < from THEN kept[i - 1] ELSE Append(kept[i - 1], topic[i])
  IN  kept[Len(topic)]

-----------------------------------------------------------------------------
(* Properties.                                                             *)

Beats == [cluster : Node, epoch : Int]

(* Every variable has its type: a status answer, a client's queue, records *)
(* with broker timestamps.                                                 *)
TypeOK ==
  /\ owner \in Node \cup {NoHolder} /\ epoch \in Int /\ holding \subseteq Node
  /\ now \in Nat
  /\ answer \in [Node -> [holding : BOOLEAN, epoch : Int, asked : BOOLEAN]]
  /\ queue \in [Node -> Seq(Beats)]
  /\ topic \in Seq([cluster : Node, epoch : Int, ts : Nat])

(* The fence of the consumer lets record i through: no record before it    *)
(* has a higher epoch (summarize).                                         *)
Accepted(i) == \A j \in 1..i - 1 : topic[j].epoch <= topic[i].epoch

(* What the fence lets through is one cluster after the other, although    *)
(* workloads act on an answer that may be over: of two accepted records of *)
(* different clusters the later one has the higher epoch (beat, HTTP's     *)
(* status, and the epochs of the lease).                                   *)
FencedHandover ==
  \A i, j \in 1..Len(topic) :
    i < j /\ Accepted(i) /\ Accepted(j) /\ topic[i].cluster # topic[j].cluster =>
      topic[i].epoch < topic[j].epoch

(* Over any part of the topic that a report covers, summarize counts the   *)
(* records that the fence rejects.  It finds an overlap if and only if one *)
(* of them came some time after a record of a higher epoch, and the        *)
(* overlap is the longest such time between successive epochs; with no     *)
(* record rejected its gap is the longest silence between two records of   *)
(* different epochs.                                                       *)
ReportMatches ==
  \A from \in 0..now :
    LET rs  == recordsSince(from)
        rep == summarize(rs)
        late == {p \in (1..Len(rs)) \X (1..Len(rs)) :
                   p[1] < p[2] /\ rs[p[1]].epoch > rs[p[2]].epoch}
        overlaps == {rs[p[2]].ts - rs[p[1]].ts :
                       p \in {q \in late : \A m \in 1..Len(rs) :
                                \/ rs[m].epoch <= rs[q[2]].epoch
                                \/ rs[q[1]].epoch <= rs[m].epoch}}
        silences == {rs[i + 1].ts - rs[i].ts :
                       i \in {k \in 1..Len(rs) - 1 : rs[k].epoch # rs[k + 1].epoch}}
    IN  /\ rep.stale = Cardinality({p[2] : p \in late})
        /\ rep.overlap > 0 <=> \E p \in late : rs[p[1]].ts < rs[p[2]].ts
        /\ rep.overlap = Max({0} \cup overlaps)
        /\ late = {} => rep.gap = Max({0} \cup silences)
=============================================================================
