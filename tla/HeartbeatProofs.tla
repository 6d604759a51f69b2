-------------------------- MODULE HeartbeatProofs --------------------------
(***************************************************************************)
(* The fence of the heartbeat example, for any number of clusters, terms   *)
(* and records.                                                            *)
(***************************************************************************)
EXTENDS Heartbeat, Induction

(* Cluster c has the epoch e in hand, in its client's queue, or on the     *)
(* topic.                                                                  *)
Uses(c, e) ==
  \/ answer[c].holding /\ answer[c].epoch = e
  \/ \E i \in 1..Len(queue[c]) : queue[c][i].epoch = e
  \/ \E i \in 1..Len(topic) : topic[i].cluster = c /\ topic[i].epoch = e

(* The owner of the term is the only one that can hold.                    *)
OwnerHolds == holding # {} => owner \in Node /\ holding = {owner}

(* An epoch in use has been granted, to the cluster that uses it and to    *)
(* nobody else.                                                            *)
EpochsOwned ==
  \A c \in Node, e \in Int :
    Uses(c, e) =>
      /\ e <= epoch
      /\ e = epoch /\ owner # NoHolder => owner = c
      /\ \A d \in Node : Uses(d, e) => d = c

HInv == TypeOK /\ OwnerHolds /\ EpochsOwned

(* Initially no epoch is in use.                                           *)
LEMMA HInvInit == Init => HInv
<1> SUFFICES ASSUME Init PROVE HInv
  OBVIOUS
<1>1. TypeOK BY DEF Init, L!Init, TypeOK, Nothing
<1>2. OwnerHolds BY DEF Init, L!Init, OwnerHolds
<1>3. EpochsOwned BY DEF Init, EpochsOwned, Uses, Nothing
<1> QED BY <1>1, <1>2, <1>3 DEF HInv

(* A step of the lease leaves the epochs in use alone; a new term is above *)
(* them.                                                                   *)
LEMMA LeaseSteps ==
  ASSUME HInv, LeaseStep
  PROVE  HInv'
<1> USE HeartbeatAssumption DEF HInv, LeaseStep, lease
<1>0. \A c \in Node, e \in Int : Uses(c, e)' <=> Uses(c, e)
  BY DEF Uses
<1>a. UNCHANGED <<now, answer, queue, topic>>
  OBVIOUS
<1>1. ASSUME NEW n \in Node, epoch' \in epoch + 1..MaxEpoch, L!Grant(n) PROVE HInv'
  <2>1. epoch' \in Int /\ epoch' > epoch /\ owner' = n /\ holding' = {} /\ holding = {}
    BY <1>1 DEF L!Grant, TypeOK
  <2>2. TypeOK' BY <2>1, <1>a DEF TypeOK
  <2>3. OwnerHolds' BY <2>1 DEF OwnerHolds
  <2>4. EpochsOwned' BY <2>1, <1>0 DEF EpochsOwned, TypeOK
  <2> QED BY <2>2, <2>3, <2>4
<1>2. ASSUME NEW n \in Node, L!Start(n) PROVE HInv'
  <2>1. TypeOK' BY <1>2, <1>a DEF L!Start, TypeOK
  <2>2. OwnerHolds' BY <1>2 DEF L!Start, OwnerHolds
  <2>3. EpochsOwned' BY <1>2, <1>0 DEF L!Start, EpochsOwned
  <2> QED BY <2>1, <2>2, <2>3
<1>3. ASSUME NEW n \in Node, L!Quit(n) PROVE HInv'
  <2>1. TypeOK' BY <1>3, <1>a DEF L!Quit, TypeOK
  <2>2. OwnerHolds' BY <1>3 DEF L!Quit, OwnerHolds
  <2>3. EpochsOwned' BY <1>3, <1>0 DEF L!Quit, EpochsOwned
  <2> QED BY <2>1, <2>2, <2>3
<1>4. CASE L!Free
  <2>1. TypeOK' BY <1>4, <1>a DEF L!Free, TypeOK
  <2>2. OwnerHolds' BY <1>4 DEF L!Free, OwnerHolds
  <2>3. EpochsOwned' BY <1>4, <1>0 DEF L!Free, EpochsOwned
  <2> QED BY <2>1, <2>2, <2>3
<1> QED BY <1>1, <1>2, <1>3, <1>4

(* A workload's step brings no epoch into use, except that of a term whose *)
(* owner is holding.                                                       *)
NoNewEpochs ==
  \A c \in Node, e \in Int : Uses(c, e)' => Uses(c, e) \/ (c \in holding /\ e = epoch)

(* A step that brings no epoch into use keeps every epoch its owner's.     *)
LEMMA OwnedStep ==
  ASSUME HInv, UNCHANGED lease, NoNewEpochs
  PROVE  OwnerHolds' /\ EpochsOwned'
<1> USE DEF HInv, lease
<1>1. OwnerHolds' BY DEF OwnerHolds
<1>2. ASSUME NEW c \in Node, NEW e \in Int, Uses(c, e)'
      PROVE  e <= epoch /\ (e = epoch /\ owner # NoHolder => owner = c)
  BY <1>2 DEF NoNewEpochs, EpochsOwned, OwnerHolds, TypeOK
<1>3. ASSUME NEW c \in Node, NEW d \in Node, NEW e \in Int, Uses(c, e)', Uses(d, e)'
      PROVE  c = d
  <2>1. CASE Uses(c, e) /\ Uses(d, e) BY <2>1 DEF EpochsOwned
  <2>2. CASE e = epoch /\ (c \in holding \/ d \in holding)
    BY <2>2, <1>2, <1>3, HeartbeatAssumption DEF OwnerHolds
  <2> QED BY <2>1, <2>2, <1>3 DEF NoNewEpochs
<1> QED BY <1>1, <1>2, <1>3 DEF EpochsOwned

(* A workload's step keeps the types.                                      *)
LEMMA WorkloadTypes ==
  ASSUME TypeOK, NEW n \in Node, Ask(n) \/ AskFails(n) \/ Beat(n) \/ Land(n) \/ Expire(n)
  PROVE  TypeOK'
<1> USE DEF TypeOK, lease
<1>1. CASE Ask(n)
  <2> DEFINE e == IF n \in holding THEN epoch ELSE 0
  <2>1. (n \in holding) \in BOOLEAN /\ e \in Int
    OBVIOUS
  <2> HIDE DEF e
  <2>2. [holding |-> n \in holding, epoch |-> e, asked |-> TRUE]
          \in [holding : BOOLEAN, epoch : Int, asked : BOOLEAN]
    BY <2>1, Zenon
  <2>3. StatusOf(n) \in [holding : BOOLEAN, epoch : Int, asked : BOOLEAN]
    BY <2>2 DEF StatusOf, e
  <2>4. answer' \in [Node -> [holding : BOOLEAN, epoch : Int, asked : BOOLEAN]]
    <3> HIDE DEF TypeOK
    <3>1. answer' = [answer EXCEPT ![n] = StatusOf(n)] BY <1>1 DEF Ask
    <3>2. answer \in [Node -> [holding : BOOLEAN, epoch : Int, asked : BOOLEAN]] BY DEF TypeOK
    <3> QED BY <2>3, <3>1, <3>2, Zenon
  <2>5. UNCHANGED <<owner, epoch, holding, now, queue, topic>> BY <1>1 DEF Ask
  <2> QED BY <2>4, <2>5
<1>2. CASE AskFails(n) BY <1>2 DEF AskFails, Nothing
<1>3. CASE Beat(n)
  <2>1. [cluster |-> n, epoch |-> answer[n].epoch] \in Beats
    BY DEF Beats
  <2> DEFINE r == [cluster |-> n, epoch |-> answer[n].epoch]
  <2>2. queue' = queue \/ queue' = [queue EXCEPT ![n] = Append(queue[n], r)]
    BY <1>3 DEF Beat
  <2>3. r \in Beats BY <2>1
  <2> HIDE DEF r
  <2>4. Append(queue[n], r) \in Seq(Beats) BY <2>3
  <2>5. queue' \in [Node -> Seq(Beats)] BY <2>2, <2>4
  <2>6. answer' = [answer EXCEPT ![n] = Nothing] BY <1>3 DEF Beat
  <2>7. UNCHANGED <<owner, epoch, holding, now, topic>> BY <1>3 DEF Beat
  <2> QED BY <2>5, <2>6, <2>7 DEF Nothing
<1>4. CASE Land(n)
  <2>1. Head(queue[n]) \in Beats /\ Tail(queue[n]) \in Seq(Beats)
    BY <1>4 DEF Land
  <2>2. [cluster |-> n, epoch |-> Head(queue[n]).epoch, ts |-> now] \in [cluster : Node, epoch : Int, ts : Nat]
    BY <2>1 DEF Beats
  <2> QED BY <1>4, <2>1, <2>2 DEF Land
<1>5. CASE Expire(n)
  <2>1. Tail(queue[n]) \in Seq(Beats)
    BY <1>5 DEF Expire
  <2> QED BY <1>5, <2>1 DEF Expire
<1> QED BY <1>1, <1>2, <1>3, <1>4, <1>5

(* A workload takes the epoch it uses from its answer, its queue or the    *)
(* lease.                                                                  *)
LEMMA WorkloadEpochs ==
  ASSUME TypeOK, NEW n \in Node, Ask(n) \/ AskFails(n) \/ Beat(n) \/ Land(n) \/ Expire(n)
  PROVE  NoNewEpochs
<1> USE DEF lease
<1> SUFFICES ASSUME NEW c \in Node, NEW e \in Int, Uses(c, e)'
             PROVE  Uses(c, e) \/ (c \in holding /\ e = epoch)
  BY DEF NoNewEpochs
<1>1. CASE Ask(n)
  BY <1>1 DEF Ask, StatusOf, Uses, TypeOK
<1>2. CASE AskFails(n)
  BY <1>2 DEF AskFails, Nothing, Uses, TypeOK
<1>3. CASE Beat(n)
  <2>1. CASE ~answer[n].holding
    BY <1>3, <2>1 DEF Beat, Nothing, Uses, TypeOK
  <2>2. CASE answer[n].holding
    <3> DEFINE r == [cluster |-> n, epoch |-> answer[n].epoch]
    <3>1. r.epoch = answer[n].epoch /\ r \in Beats
      BY DEF Beats, TypeOK
    <3>2. queue[n] \in Seq(Beats) /\ queue' = [queue EXCEPT ![n] = Append(queue[n], r)]
      BY <1>3, <2>2 DEF Beat, TypeOK
    <3>3. topic' = topic /\ answer' = [answer EXCEPT ![n] = Nothing]
      BY <1>3 DEF Beat
    <3>4. CASE answer'[c].holding /\ answer'[c].epoch = e
      BY <3>3, <3>4 DEF Nothing, Uses, TypeOK
    <3>5. ASSUME NEW i \in 1..Len(queue'[c]), queue'[c][i].epoch = e PROVE Uses(c, e)
      <4>1. CASE c # n BY <3>2, <3>5, <4>1 DEF Uses, TypeOK
      <4>2. CASE c = n
        <5>1. queue'[c] = Append(queue[n], r) BY <3>2, <4>2 DEF TypeOK
        <5>2. CASE i = Len(queue[n]) + 1
          <6> HIDE DEF r
          <6>1. queue'[c][i] = r BY <3>1, <3>2, <5>1, <5>2
          <6> QED BY <6>1, <3>1, <3>5, <4>2, <2>2 DEF Uses
        <5>3. CASE i # Len(queue[n]) + 1
          <6> HIDE DEF r
          <6>1. i \in 1..Len(queue[n]) /\ queue'[c][i] = queue[n][i]
            BY <3>1, <3>2, <3>5, <5>1, <5>3
          <6> QED BY <6>1, <3>5, <4>2 DEF Uses
        <5> QED BY <5>2, <5>3
      <4> QED BY <4>1, <4>2
    <3> QED BY <3>3, <3>4, <3>5 DEF Uses
  <2> QED BY <2>1, <2>2
<1>4. CASE Land(n)
  <2> DEFINE q == queue[n]
             r == [cluster |-> n, epoch |-> Head(q).epoch, ts |-> now]
  <2>1. q \in Seq(Beats) /\ q # << >> /\ r.cluster = n /\ r.epoch = q[1].epoch /\ 1 \in 1..Len(q)
    BY <1>4 DEF Land, TypeOK
  <2>2. topic' = Append(topic, r) /\ topic \in Seq([cluster : Node, epoch : Int, ts : Nat])
    BY <1>4 DEF Land, TypeOK
  <2>3. answer' = answer /\ queue' = [queue EXCEPT ![n] = Tail(q)]
    BY <1>4 DEF Land
  <2>4. ASSUME NEW i \in 1..Len(queue'[c]), queue'[c][i].epoch = e PROVE Uses(c, e)
    <3>1. CASE c # n BY <2>3, <2>4, <3>1 DEF Uses, TypeOK
    <3>2. CASE c = n
      <4>1. i + 1 \in 1..Len(q) /\ queue'[c][i] = q[i + 1]
        BY <2>1, <2>3, <2>4, <3>2 DEF TypeOK
      <4> QED BY <4>1, <2>4, <3>2 DEF Uses
    <3> QED BY <3>1, <3>2
  <2>5. ASSUME NEW i \in 1..Len(topic'), topic'[i].cluster = c, topic'[i].epoch = e PROVE Uses(c, e)
    <3>1. CASE i = Len(topic) + 1
      <4>1. topic'[i] = r BY <2>2, <3>1
      <4> HIDE DEF r
      <4>2. c = n /\ e = q[1].epoch BY <4>1, <2>1, <2>5
      <4> QED BY <4>2, <2>1 DEF Uses
    <3>2. CASE i # Len(topic) + 1
      <4>1. i \in 1..Len(topic) /\ topic'[i] = topic[i] BY <2>2, <2>5, <3>2
      <4> QED BY <4>1, <2>5 DEF Uses
    <3> QED BY <3>1, <3>2
  <2> QED BY <2>3, <2>4, <2>5 DEF Uses
<1>5. CASE Expire(n)
  <2> DEFINE q == queue[n]
  <2>1. q \in Seq(Beats) /\ q # << >>
    BY <1>5 DEF Expire, TypeOK
  <2>2. answer' = answer /\ topic' = topic /\ queue' = [queue EXCEPT ![n] = Tail(q)]
    BY <1>5 DEF Expire
  <2>3. ASSUME NEW i \in 1..Len(queue'[c]), queue'[c][i].epoch = e PROVE Uses(c, e)
    <3>1. CASE c # n BY <2>2, <2>3, <3>1 DEF Uses, TypeOK
    <3>2. CASE c = n
      <4>1. i + 1 \in 1..Len(q) /\ queue'[c][i] = q[i + 1]
        BY <2>1, <2>2, <2>3, <3>2 DEF TypeOK
      <4> QED BY <4>1, <2>3, <3>2 DEF Uses
    <3> QED BY <3>1, <3>2
  <2> QED BY <2>2, <2>3 DEF Uses
<1> QED BY <1>1, <1>2, <1>3, <1>4, <1>5

(* Every step keeps the invariant.                                         *)
LEMMA HInvNext ==
  ASSUME HInv, [Next]_vars
  PROVE  HInv'
<1>1. CASE LeaseStep BY <1>1, LeaseSteps
<1>2. CASE Advance
  <2>1. TypeOK' BY <1>2 DEF Advance, lease, HInv, TypeOK
  <2>2. NoNewEpochs BY <1>2 DEF Advance, NoNewEpochs, Uses
  <2>3. UNCHANGED lease BY <1>2 DEF Advance
  <2> QED BY <2>1, <2>2, <2>3, OwnedStep DEF HInv
<1>3. ASSUME NEW n \in Node, Ask(n) \/ AskFails(n) \/ Beat(n) \/ Land(n) \/ Expire(n)
      PROVE  HInv'
  <2>1. UNCHANGED lease BY <1>3 DEF Ask, AskFails, Beat, Land, Expire
  <2> QED BY <1>3, <2>1, WorkloadTypes, WorkloadEpochs, OwnedStep DEF HInv
<1>4. CASE UNCHANGED vars
  <2>1. TypeOK' BY <1>4 DEF vars, lease, HInv, TypeOK
  <2>2. NoNewEpochs BY <1>4 DEF vars, NoNewEpochs, Uses
  <2>3. UNCHANGED lease BY <1>4 DEF vars
  <2> QED BY <2>1, <2>2, <2>3, OwnedStep DEF HInv
<1> QED BY <1>1, <1>2, <1>3, <1>4 DEF Next

(* Every variable keeps its type, only the owner holds, and an epoch in    *)
(* use anywhere is its cluster's own.                                      *)
THEOREM HeartbeatInvariant == Spec => []HInv
<1>1. HInv /\ [Next]_vars => HInv' BY HInvNext
<1> QED BY <1>1, HInvInit, PTL DEF Spec

(* The fields of a record on the topic.                                    *)
LEMMA TopicTypes ==
  ASSUME TypeOK, NEW i \in 1..Len(topic)
  PROVE  topic[i].cluster \in Node /\ topic[i].epoch \in Int
<1>1. topic \in Seq([cluster : Node, epoch : Int, ts : Nat]) BY DEF TypeOK
<1> DEFINE R == [cluster : Node, epoch : Int, ts : Nat]
<1>2. \A r \in R : r.cluster \in Node /\ r.epoch \in Int OBVIOUS
<1> HIDE DEF R
<1>3. topic \in Seq(R) BY <1>1 DEF R
<1>4. topic[i] \in R BY <1>3
<1> QED BY <1>2, <1>4

(* What a consumer's fence lets through is one cluster after the other,    *)
(* however old the status a workload acted on (beat, HTTP's status).       *)
THEOREM Handover == Spec => []FencedHandover
<1>1. HInv => FencedHandover
  <2> SUFFICES ASSUME HInv, NEW i \in 1..Len(topic), NEW j \in 1..Len(topic),
                      i < j, Accepted(j), topic[i].cluster # topic[j].cluster
               PROVE  topic[i].epoch < topic[j].epoch
    BY DEF FencedHandover
  <2>1. /\ topic[i].cluster \in Node /\ topic[i].epoch \in Int
        /\ topic[j].cluster \in Node /\ topic[j].epoch \in Int
    BY TopicTypes DEF HInv
  <2>2. Uses(topic[i].cluster, topic[i].epoch) /\ Uses(topic[j].cluster, topic[j].epoch)
    BY DEF Uses
  <2>3. topic[i].epoch # topic[j].epoch
    BY <2>1, <2>2 DEF HInv, EpochsOwned
  <2>4. topic[i].epoch <= topic[j].epoch
    <3>1. i \in 1..j - 1 OBVIOUS
    <3> QED BY <3>1 DEF Accepted
  <2> QED BY <2>1, <2>3, <2>4
<1> QED BY <1>1, HeartbeatInvariant, PTL

-----------------------------------------------------------------------------
(* The report.                                                             *)

Recs == [cluster : Node, epoch : Int, ts : Nat]

(* What summarize is given: records by broker time, none from the future,  *)
(* and no epoch below the fence's first value.                             *)
Readable(rs) ==
  /\ rs \in Seq(Recs)
  /\ \A i \in 1..Len(rs) : rs[i].epoch >= -1 /\ rs[i].ts <= now
  /\ \A i, j \in 1..Len(rs) : i <= j => rs[i].ts <= rs[j].ts

RInv ==
  /\ HInv
  /\ epoch >= -1
  /\ \A c \in Node, e \in Int : Uses(c, e) => e >= -1
  /\ Readable(topic)

(* The fields of a record of a sequence.                                   *)
LEMMA RecFields ==
  ASSUME NEW rs \in Seq(Recs)
  PROVE  /\ Len(rs) \in Nat
         /\ \A i \in 1..Len(rs) : /\ rs[i] \in Recs /\ rs[i].cluster \in Node
                                  /\ rs[i].epoch \in Int /\ rs[i].ts \in Nat
<1>1. \A r \in Recs : r.cluster \in Node /\ r.epoch \in Int /\ r.ts \in Nat
  BY DEF Recs
<1>2. Len(rs) \in Nat /\ \A i \in 1..Len(rs) : rs[i] \in Recs
  OBVIOUS
<1> QED
  BY <1>1, <1>2

(* A nonempty set of numbers up to b has a largest element.                *)
LEMMA MaxOf ==
  ASSUME NEW b \in Nat, NEW S \in SUBSET (0..b), S # {}
  PROVE  Max(S) \in S /\ \A y \in S : y <= Max(S)
<1> DEFINE T == {b - x : x \in S}
<1>1. PICK m \in T : \A k \in T : m <= k
  <2>1. \A x \in S : b - x \in Nat
    OBVIOUS
  <2>2. T \in SUBSET Nat /\ T # {}
    BY <2>1
  <2> HIDE DEF T
  <2> QED
    BY <2>2, LeastElement
<1>2. PICK x \in S : m = b - x
  OBVIOUS
<1>3. ASSUME NEW y \in S PROVE x >= y
  <2>1. b - y \in T /\ x \in 0..b /\ y \in 0..b
    OBVIOUS
  <2> QED
    BY <1>1, <1>2, <2>1
<1>4. \E z \in S : \A y \in S : z >= y
  BY <1>3
<1>5. Max(S) \in S /\ \A y \in S : Max(S) >= y
  BY <1>4, Zenon DEF Max
<1>6. \A y \in S : y \in Int
  OBVIOUS
<1> QED
  BY <1>5, <1>6

(* The record that lands is the latest.                                    *)
LEMMA AppendReadable ==
  ASSUME NEW rs, Readable(rs), NEW r \in Recs, now \in Nat, r.epoch >= -1, r.ts <= now,
         \A i \in 1..Len(rs) : rs[i].ts <= r.ts
  PROVE  Readable(Append(rs, r))
<1> DEFINE n == Len(rs)
           qs == Append(rs, r)
<1>1. rs \in Seq(Recs) /\ n \in Nat /\ \A i \in 1..n : rs[i].ts \in Nat
  BY RecFields DEF Readable
<1>2. qs \in Seq(Recs) /\ Len(qs) = n + 1 /\ qs[n + 1] = r /\ \A i \in 1..n : qs[i] = rs[i]
  BY <1>1
<1>3. \A i \in 1..n + 1 : i # n + 1 => i \in 1..n
  BY <1>1
<1>4. r.ts \in Nat
  BY DEF Recs
<1>5. ASSUME NEW i \in 1..n + 1 PROVE qs[i].epoch >= -1 /\ qs[i].ts <= now
  BY <1>2, <1>3 DEF Readable
<1>6. ASSUME NEW i \in 1..n + 1, NEW j \in 1..n + 1, i <= j PROVE qs[i].ts <= qs[j].ts
  <2>1. CASE i = n + 1
    <3>1. j = n + 1
      BY <1>1, <1>6, <2>1
    <3> QED
      BY <1>2, <1>4, <2>1, <3>1
  <2>2. CASE i # n + 1 /\ j = n + 1
    BY <1>2, <1>3, <2>2
  <2>3. CASE i # n + 1 /\ j # n + 1
    BY <1>2, <1>3, <1>6, <2>3 DEF Readable
  <2> QED
    BY <2>1, <2>2, <2>3
<1> HIDE DEF qs
<1> QED
  BY <1>2, <1>5, <1>6 DEF Readable, qs

(* The topic stays readable, and epochs rise from the initial one.         *)
LEMMA RInvNext ==
  ASSUME RInv, [Next]_vars
  PROVE  RInv'
<1> USE DEF RInv
<1>1. HInv' /\ TypeOK /\ TypeOK' /\ now \in Nat /\ epoch \in Int
  BY HInvNext DEF HInv, TypeOK
<1>2. CASE LeaseStep
  <2>1. epoch' \in Int /\ epoch' >= epoch /\ UNCHANGED <<now, answer, queue, topic>>
    BY <1>1, <1>2, HeartbeatAssumption DEF LeaseStep, L!Grant, L!Start, L!Quit, L!Free
  <2>2. \A c \in Node, e \in Int : Uses(c, e)' <=> Uses(c, e)
    BY <2>1 DEF Uses
  <2>3. Readable(topic)'
    BY <2>1 DEF Readable
  <2> QED
    BY <1>1, <2>1, <2>2, <2>3
<1>3. CASE Advance
  <2>1. UNCHANGED <<epoch, answer, queue, topic>> /\ now' = now + 1
    BY <1>3 DEF Advance, lease
  <2>2. \A c \in Node, e \in Int : Uses(c, e)' <=> Uses(c, e)
    BY <2>1 DEF Uses
  <2>3. Readable(topic)'
    <3>1. \A i \in 1..Len(topic) : topic[i].ts \in Nat
      BY RecFields DEF Readable
    <3> QED
      BY <1>1, <2>1, <3>1 DEF Readable
  <2> QED
    BY <1>1, <2>1, <2>2, <2>3
<1>4. ASSUME NEW n \in Node, Ask(n) \/ AskFails(n) \/ Beat(n) \/ Land(n) \/ Expire(n)
      PROVE  RInv'
  <2>1. UNCHANGED <<epoch, now>>
    BY <1>4 DEF Ask, AskFails, Beat, Land, Expire, lease
  <2>2. NoNewEpochs
    BY <1>1, <1>4, WorkloadEpochs
  <2>3. \A c \in Node, e \in Int : Uses(c, e)' => e >= -1
    BY <2>2 DEF NoNewEpochs
  <2>4. Readable(topic)'
    <3>1. CASE Land(n)
      <4> DEFINE r == [cluster |-> n, epoch |-> Head(queue[n]).epoch, ts |-> now]
      <4>1. topic' = Append(topic, r)
        BY <3>1 DEF Land
      <4>2. queue[n] \in Seq(Beats) /\ queue[n] # << >>
        BY <1>1, <3>1 DEF Land, TypeOK
      <4>3. Head(queue[n]) = queue[n][1] /\ 1 \in 1..Len(queue[n]) /\ queue[n][1] \in Beats
        BY <4>2
      <4>4. r.epoch \in Int /\ Uses(n, r.epoch)
        BY <4>3 DEF Beats, Uses
      <4>5. r \in Recs /\ r.epoch >= -1 /\ r.ts <= now /\ r.ts = now
        BY <1>1, <4>4 DEF Recs
      <4> HIDE DEF r
      <4>6. Readable(Append(topic, r))
        BY <1>1, <4>5, AppendReadable DEF Readable
      <4> QED
        BY <2>1, <4>1, <4>6 DEF Readable
    <3>2. CASE ~Land(n)
      <4>1. topic' = topic
        BY <1>4, <3>2 DEF Ask, AskFails, Beat, Expire
      <4> QED
        BY <2>1, <4>1 DEF Readable
    <3> QED
      BY <3>1, <3>2
  <2> QED
    BY <1>1, <2>1, <2>3, <2>4
<1>5. CASE UNCHANGED vars
  <2>1. UNCHANGED <<epoch, now, answer, queue, topic>>
    BY <1>5 DEF vars, lease
  <2>2. \A c \in Node, e \in Int : Uses(c, e)' <=> Uses(c, e)
    BY <2>1 DEF Uses
  <2>3. Readable(topic)'
    BY <2>1 DEF Readable
  <2> QED
    BY <1>1, <2>1, <2>2, <2>3
<1> QED
  BY <1>2, <1>3, <1>4, <1>5 DEF Next

(* Initially the topic is empty, so it is readable.                        *)
LEMMA RInvInit == Init => RInv
<1> SUFFICES ASSUME Init PROVE RInv
  OBVIOUS
<1>1. HInv /\ epoch = -1
  BY HInvInit DEF Init, L!Init
<1>2. \A c \in Node, e \in Int : ~Uses(c, e)
  BY DEF Init, Uses, Nothing
<1>3. Readable(topic)
  BY DEF Init, Readable
<1> QED
  BY <1>1, <1>2, <1>3 DEF RInv

(* What report reads of the topic is readable too: dropping the records    *)
(* before a time keeps the others in order.                                *)
LEMMA SinceReadable ==
  ASSUME Readable(topic), now \in Nat, NEW from \in Nat
  PROVE  Readable(recordsSince(from))
<1> DEFINE n == Len(topic)
           next(i, s) == IF topic[i].ts < from THEN s ELSE Append(s, topic[i])
           kept[i \in 0..n] == IF i = 0 THEN << >> 
             ELSE IF topic[i].ts < from THEN kept[i - 1] ELSE Append(kept[i - 1], topic[i])
           step == [i \in 1..n |-> [s \in Seq(Recs) |-> next(i, s)]]
<1>1. topic \in Seq(Recs) /\ n \in Nat /\ \A i \in 1..n : topic[i] \in Recs /\ topic[i].ts \in Nat
  BY RecFields DEF Readable
<1>2. recordsSince(from) = kept[n]
  BY DEF recordsSince
<1>3. PICK f : Recursion(f, Seq(Recs), n, << >>, step)
  <2>1. \A i \in 1..n : \A s \in Seq(Recs) : next(i, s) \in Seq(Recs)
    BY <1>1
  <2>2. << >> \in Seq(Recs)
    OBVIOUS
  <2> HIDE DEF next
  <2>3. step \in [1..n -> [Seq(Recs) -> Seq(Recs)]]
    BY <2>1
  <2> HIDE DEF step, n
  <2> QED
    BY <1>1, <2>2, <2>3, RecursionExists
<1>4. f \in [0..n -> Seq(Recs)] /\ f[0] = << >> /\ \A i \in 1..n : f[i] = next(i, f[i - 1])
  <2>1. f \in [0..n -> Seq(Recs)] /\ f[0] = << >> /\ \A i \in 1..n : f[i] = step[i][f[i - 1]]
    BY <1>3 DEF Recursion
  <2>2. \A i \in 1..n : f[i - 1] \in Seq(Recs)
    BY <1>1, <2>1
  <2> QED
    BY <2>1, <2>2
<1>5. \A i \in 0..n : i # 0 => i \in 1..n /\ i - 1 \in 0..n
  BY <1>1
<1>6. f = [i \in 0..n |-> IF i = 0 THEN << >> 
             ELSE IF topic[i].ts < from THEN f[i - 1] ELSE Append(f[i - 1], topic[i])]
  BY <1>4, <1>5
<1>7. kept = [i \in 0..n |-> IF i = 0 THEN << >> 
             ELSE IF topic[i].ts < from THEN kept[i - 1] ELSE Append(kept[i - 1], topic[i])]
  BY <1>6
<1> HIDE DEF kept
<1> DEFINE ok(i) == Readable(kept[i]) /\ \A k \in 1..Len(kept[i]) : \E j \in 1..i : kept[i][k] = topic[j]
           T == {i \in 0..n : ~ok(i)}
<1>8. T = {}
  <2>1. SUFFICES ASSUME T # {} PROVE FALSE
    OBVIOUS
  <2>2. PICK i \in T : \A j \in T : i <= j
    <3>1. T \in SUBSET Nat
      OBVIOUS
    <3> HIDE DEF T
    <3> QED
      BY <2>1, <3>1, LeastElement
  <2>3. i \in 0..n /\ ~ok(i)
    OBVIOUS
  <2>4. ok(0)
    <3>1. kept[0] = << >>
      BY <1>1, <1>7
    <3> QED
      BY <3>1 DEF Readable
  <2>5. i # 0
    BY <2>3, <2>4
  <2>6. i \in 1..n /\ i - 1 \in 0..n /\ ok(i - 1)
    <3>1. i \in 1..n /\ i - 1 \in 0..n /\ ~(i <= i - 1)
      BY <1>1, <2>3, <2>5
    <3> QED
      BY <2>2, <3>1
  <2> DEFINE s == kept[i - 1]
             r == topic[i]
  <2>7. kept[i] = IF r.ts < from THEN s ELSE Append(s, r)
    BY <1>7, <2>3, <2>5
  <2>8. s \in Seq(Recs) /\ Len(s) \in Nat
    BY <2>6 DEF Readable
  <2>9. \A k \in 1..Len(s) : \E j \in 1..i - 1 : s[k] = topic[j]
    BY <2>6
  <2>10. \A j \in 1..i - 1 : j \in 1..i /\ j \in 1..n /\ j <= i
    BY <1>1, <2>6
  <2>11. CASE r.ts < from
    <3>1. kept[i] = s
      BY <2>7, <2>11
    <3> QED
      BY <2>3, <2>6, <2>9, <2>10, <3>1
  <2>12. CASE ~(r.ts < from)
    <3>1. kept[i] = Append(s, r)
      BY <2>7, <2>12
    <3>2. \A k \in 1..Len(s) : s[k].ts <= r.ts
      BY <2>6, <2>9, <2>10 DEF Readable
    <3>3. r \in Recs /\ r.epoch >= -1 /\ r.ts <= now
      BY <1>1, <2>6 DEF Readable
    <3>4. Readable(s)
      BY <2>6
    <3> HIDE DEF r, s
    <3>5. Readable(Append(s, r))
      BY <3>2, <3>3, <3>4, AppendReadable
    <3>6. \A k \in 1..Len(Append(s, r)) : \E j \in 1..i : Append(s, r)[k] = topic[j]
      <4>1. ASSUME NEW k \in 1..Len(s) + 1
            PROVE  \E j \in 1..i : Append(s, r)[k] = topic[j]
        <5>1. CASE k = Len(s) + 1
          <6>1. Append(s, r)[k] = topic[i] /\ i \in 1..i
            BY <2>6, <2>8, <3>3, <5>1 DEF r
          <6> QED
            BY <6>1
        <5>2. CASE k # Len(s) + 1
          <6>1. k \in 1..Len(s) /\ Append(s, r)[k] = s[k]
            BY <2>8, <3>3, <5>2
          <6> QED
            BY <2>9, <2>10, <6>1
        <5> QED
          BY <5>1, <5>2
      <4>2. Len(Append(s, r)) = Len(s) + 1
        BY <2>8, <3>3
      <4> QED
        BY <4>1, <4>2
    <3> QED
      BY <2>3, <3>1, <3>5, <3>6
  <2> QED
    BY <2>11, <2>12
<1>9. n \in 0..n
  BY <1>1
<1> QED
  BY <1>2, <1>8, <1>9

Spans == UNION {[E -> [first : Nat, last : Nat]] : E \in SUBSET Int}

Reports == [maxEpoch : Int, stale : Nat, spans : Spans]

(* The records among the first k that the fence rejects.                   *)
Fenced(rs, k) == {j \in 1..k : \E i \in 1..k : i < j /\ rs[i].epoch > rs[j].epoch}

(* sp is the span of epoch e in the first k records: that of its first     *)
(* and its last record.                                                    *)
SpanOf(rs, k, e, sp) ==
  \E i, j \in 1..k :
    /\ rs[i].epoch = e /\ rs[j].epoch = e
    /\ sp = [first |-> rs[i].ts, last |-> rs[j].ts]
    /\ \A m \in 1..k : rs[m].epoch = e => i <= m /\ m <= j

(* What the report knows of the first k records.                           *)
Tally(rs, k, rep) ==
  /\ rep \in Reports
  /\ rep.maxEpoch >= -1 /\ \A i \in 1..k : rs[i].epoch <= rep.maxEpoch
  /\ rep.maxEpoch = -1 \/ \E i \in 1..k : rs[i].epoch = rep.maxEpoch
  /\ rep.stale = Cardinality(Fenced(rs, k))
  /\ DOMAIN rep.spans = {rs[i].epoch : i \in 1..k}
  /\ \A e \in DOMAIN rep.spans : SpanOf(rs, k, e, rep.spans[e])

(* The span of a record's epoch is a span.                                 *)
LEMMA CountType ==
  ASSUME NEW rep \in Reports, NEW r \in Recs
  PROVE  /\ count(rep, r) \in Reports
         /\ DOMAIN count(rep, r).spans = DOMAIN rep.spans \cup {r.epoch}
         /\ \A e \in DOMAIN rep.spans : e # r.epoch => count(rep, r).spans[e] = rep.spans[e]
         /\ count(rep, r).spans[r.epoch] = Span(rep.spans, r)
<1>1. r.epoch \in Int /\ r.ts \in Nat /\ rep.maxEpoch \in Int /\ rep.stale \in Nat
  BY DEF Recs, Reports
<1>2. PICK E \in SUBSET Int : rep.spans \in [E -> [first : Nat, last : Nat]]
  BY DEF Reports, Spans
<1> DEFINE F == E \cup {r.epoch}
           sp == [e \in F |-> IF e = r.epoch THEN Span(rep.spans, r) ELSE rep.spans[e]]
<1>3. DOMAIN rep.spans = E
  BY <1>2
<1>4. Span(rep.spans, r) \in [first : Nat, last : Nat]
  BY <1>1, <1>2 DEF Span
<1>5. sp \in [F -> [first : Nat, last : Nat]]
  BY <1>2, <1>4
<1>6. sp \in Spans
  <2>1. F \in SUBSET Int
    BY <1>1
  <2> HIDE DEF sp, F
  <2> QED
    BY <1>5, <2>1, Zenon DEF Spans
<1>7. count(rep, r).spans = sp
  BY <1>3 DEF count
<1>8. count(rep, r) \in Reports
  <2> DEFINE m == IF r.epoch > rep.maxEpoch THEN r.epoch ELSE rep.maxEpoch
             k == rep.stale + IF r.epoch < rep.maxEpoch THEN 1 ELSE 0
  <2>1. m \in Int /\ k \in Nat
    BY <1>1
  <2>2. count(rep, r) = [maxEpoch |-> m, stale |-> k, spans |-> sp]
    BY <1>3 DEF count
  <2> HIDE DEF m, k, sp
  <2> QED
    BY <1>6, <2>1, <2>2 DEF Reports
<1> QED
  BY <1>3, <1>7, <1>8

(* One more record.                                                        *)
LEMMA CountStep ==
  ASSUME NEW rs, Readable(rs), NEW k \in 1..Len(rs), NEW rep, Tally(rs, k - 1, rep)
  PROVE  Tally(rs, k, count(rep, rs[k]))
<1> DEFINE r == rs[k]
           new == count(rep, r)
<1>1. /\ rs \in Seq(Recs) /\ Len(rs) \in Nat
      /\ \A i \in 1..Len(rs) : rs[i] \in Recs /\ rs[i].epoch \in Int /\ rs[i].ts \in Nat
                               /\ rs[i].epoch >= -1
  BY RecFields DEF Readable
<1>2. /\ rep \in Reports /\ rep.maxEpoch \in Int /\ rep.stale \in Nat
      /\ r \in Recs /\ r.epoch \in Int /\ r.ts \in Nat /\ r.epoch >= -1
  BY <1>1 DEF Tally, Reports
<1>3. /\ \A i \in 1..k : i # k => i \in 1..k - 1
      /\ \A i \in 1..k - 1 : i \in 1..k /\ i # k /\ i < k /\ i \in Int /\ i \in 1..Len(rs)
      /\ k \in 1..k /\ k \in Int /\ ~(k \in 1..k - 1) /\ k - 1 \in Nat
  BY <1>1
<1>4. \A i \in 1..k - 1 : rs[i].epoch \in Int /\ rs[i].epoch <= rep.maxEpoch
  BY <1>1, <1>3 DEF Tally
<1>5. /\ new.maxEpoch >= -1 /\ (\A i \in 1..k : rs[i].epoch <= new.maxEpoch)
      /\ (new.maxEpoch = -1 \/ \E i \in 1..k : rs[i].epoch = new.maxEpoch)
  <2>1. CASE r.epoch > rep.maxEpoch
    <3>1. new.maxEpoch = r.epoch
      BY <2>1 DEF count
    <3> HIDE DEF new
    <3>2. \A i \in 1..k : rs[i].epoch <= r.epoch
      BY <1>2, <1>3, <1>4, <2>1
    <3> QED
      BY <1>2, <1>3, <3>1, <3>2
  <2>2. CASE ~(r.epoch > rep.maxEpoch)
    <3>1. new.maxEpoch = rep.maxEpoch
      BY <2>2 DEF count
    <3> HIDE DEF new
    <3>2. \A i \in 1..k : rs[i].epoch <= rep.maxEpoch
      BY <1>2, <1>3, <1>4, <2>2
    <3> QED
      BY <1>3, <3>1, <3>2 DEF Tally
  <2> QED
    BY <2>1, <2>2
<1>6. r.epoch < rep.maxEpoch <=> \E i \in 1..k - 1 : rs[i].epoch > r.epoch
  <2>1. ASSUME r.epoch < rep.maxEpoch PROVE \E i \in 1..k - 1 : rs[i].epoch > r.epoch
    <3>1. rep.maxEpoch # -1
      BY <1>2, <2>1
    <3>2. PICK i \in 1..k - 1 : rs[i].epoch = rep.maxEpoch
      BY <3>1 DEF Tally
    <3> QED
      BY <1>2, <2>1, <3>2
  <2>2. ASSUME NEW i \in 1..k - 1, rs[i].epoch > r.epoch PROVE r.epoch < rep.maxEpoch
    BY <1>2, <1>4, <2>2
  <2> QED
    BY <2>1, <2>2
<1>7. new.stale = Cardinality(Fenced(rs, k))
  <2> DEFINE F == Fenced(rs, k - 1)
  <2>1. IsFiniteSet(F) /\ k \notin F
    <3>1. F \in SUBSET (1..k - 1)
      BY DEF Fenced
    <3>2. IsFiniteSet(1..k - 1)
      BY <1>3, FS_Interval
    <3> QED
      BY <1>3, <3>1, <3>2, FS_Subset
  <2>2. \A j \in 1..k - 1 : j \in Fenced(rs, k) <=> j \in F
    <3> SUFFICES ASSUME NEW j \in 1..k - 1
                 PROVE  j \in Fenced(rs, k) <=> j \in F
      OBVIOUS
    <3>1. \A i \in 1..k : i < j => i \in 1..k - 1
      BY <1>3
    <3> QED
      BY <1>3, <3>1 DEF Fenced
  <2>3. k \in Fenced(rs, k) <=> r.epoch < rep.maxEpoch
    BY <1>3, <1>6 DEF Fenced
  <2>4. \A j \in Fenced(rs, k) : j \in 1..k
    BY DEF Fenced
  <2>5. \A j \in F : j \in 1..k - 1
    BY DEF Fenced
  <2>6. rep.stale = Cardinality(F)
    BY DEF Tally
  <2> HIDE DEF F
  <2>7. CASE r.epoch < rep.maxEpoch
    <3>1. Fenced(rs, k) = F \cup {k}
      BY <1>3, <2>2, <2>3, <2>4, <2>5, <2>7
    <3>2. Cardinality(F \cup {k}) = Cardinality(F) + 1
      BY <2>1, FS_AddElement
    <3>3. new.stale = rep.stale + 1
      BY <2>7 DEF count
    <3> QED
      BY <2>6, <3>1, <3>2, <3>3
  <2>8. CASE ~(r.epoch < rep.maxEpoch)
    <3>1. Fenced(rs, k) = F
      BY <1>3, <2>2, <2>3, <2>4, <2>5, <2>8
    <3>2. new.stale = rep.stale
      BY <1>2, <2>8 DEF count
    <3> QED
      BY <2>6, <3>1, <3>2
  <2> QED
    BY <2>7, <2>8
<1>8. /\ new \in Reports
      /\ DOMAIN new.spans = DOMAIN rep.spans \cup {r.epoch}
      /\ \A e \in DOMAIN rep.spans : e # r.epoch => new.spans[e] = rep.spans[e]
      /\ new.spans[r.epoch] = Span(rep.spans, r)
  BY <1>2, CountType
<1> HIDE DEF new
<1>9. DOMAIN rep.spans = {rs[i].epoch : i \in 1..k - 1}
  BY DEF Tally
<1>10. DOMAIN new.spans = {rs[i].epoch : i \in 1..k}
  BY <1>3, <1>8, <1>9
<1>11. ASSUME NEW e \in DOMAIN new.spans PROVE SpanOf(rs, k, e, new.spans[e])
  <2>1. CASE e # r.epoch
    <3>1. e \in DOMAIN rep.spans /\ new.spans[e] = rep.spans[e]
      BY <1>8, <1>11, <2>1
    <3>2. SpanOf(rs, k - 1, e, rep.spans[e])
      BY <3>1 DEF Tally
    <3>3. PICK i \in 1..k - 1, j \in 1..k - 1 :
            /\ rs[i].epoch = e /\ rs[j].epoch = e
            /\ rep.spans[e] = [first |-> rs[i].ts, last |-> rs[j].ts]
            /\ \A m \in 1..k - 1 : rs[m].epoch = e => i <= m /\ m <= j
      BY <3>2 DEF SpanOf
    <3> QED
      BY <1>3, <2>1, <3>1, <3>3 DEF SpanOf
  <2>2. CASE e = r.epoch /\ e \in DOMAIN rep.spans
    <3>1. SpanOf(rs, k - 1, e, rep.spans[e])
      BY <2>2 DEF Tally
    <3>2. PICK i \in 1..k - 1, j \in 1..k - 1 :
            /\ rs[i].epoch = e /\ rs[j].epoch = e
            /\ rep.spans[e] = [first |-> rs[i].ts, last |-> rs[j].ts]
            /\ \A m \in 1..k - 1 : rs[m].epoch = e => i <= m /\ m <= j
      BY <3>1 DEF SpanOf
    <3>3. new.spans[e] = [first |-> rs[i].ts, last |-> rs[k].ts]
      BY <1>8, <2>2, <3>2 DEF Span
    <3>4. \A m \in 1..k : rs[m].epoch = e => i <= m /\ m <= k
      BY <1>3, <3>2
    <3> QED
      BY <1>3, <2>2, <3>2, <3>3, <3>4 DEF SpanOf
  <2>3. CASE e = r.epoch /\ e \notin DOMAIN rep.spans
    <3>1. new.spans[e] = [first |-> rs[k].ts, last |-> rs[k].ts]
      BY <1>8, <2>3 DEF Span
    <3>2. \A m \in 1..k : rs[m].epoch = e => m = k
      BY <1>3, <1>9, <2>3
    <3>3. \A m \in 1..k : rs[m].epoch = e => k <= m /\ m <= k
      BY <1>3, <3>2
    <3> QED
      BY <1>3, <2>3, <3>1, <3>3 DEF SpanOf
  <2> QED
    BY <2>1, <2>2, <2>3
<1> QED
  BY <1>5, <1>7, <1>8, <1>10, <1>11 DEF Tally, new

(* All records.                                                            *)
LEMMA Counted ==
  ASSUME NEW rs, Readable(rs)
  PROVE  Tally(rs, Len(rs), counted(rs))
<1> DEFINE n == Len(rs)
           rep[i \in 0..n] == IF i = 0 THEN NewReport ELSE count(rep[i - 1], rs[i])
           step == [i \in 1..n |-> [s \in Reports |-> count(s, rs[i])]]
<1>1. rs \in Seq(Recs) /\ n \in Nat /\ \A i \in 1..n : rs[i] \in Recs
  BY RecFields DEF Readable
<1>2. counted(rs) = rep[n]
  BY DEF counted
<1>3. NewReport \in Reports /\ DOMAIN NewReport.spans = {}
  <2>1. << >> \in [{} -> [first : Nat, last : Nat]] /\ {} \in SUBSET Int
    OBVIOUS
  <2>2. << >> \in Spans
    BY <2>1 DEF Spans
  <2> QED
    BY <2>1, <2>2 DEF NewReport, Reports
<1>4. PICK f : Recursion(f, Reports, n, NewReport, step)
  <2>1. step \in [1..n -> [Reports -> Reports]]
    BY <1>1, CountType
  <2> HIDE DEF step, n
  <2> QED
    BY <1>1, <1>3, <2>1, RecursionExists
<1>5. f \in [0..n -> Reports] /\ f[0] = NewReport /\ \A i \in 1..n : f[i] = count(f[i - 1], rs[i])
  <2>1. f \in [0..n -> Reports] /\ f[0] = NewReport /\ \A i \in 1..n : f[i] = step[i][f[i - 1]]
    BY <1>4 DEF Recursion
  <2>2. \A i \in 1..n : f[i - 1] \in Reports
    BY <1>1, <2>1
  <2> QED
    BY <2>1, <2>2
<1>6. \A i \in 0..n : i # 0 => i \in 1..n /\ i - 1 \in 0..n
  BY <1>1
<1>7. f = [i \in 0..n |-> IF i = 0 THEN NewReport ELSE count(f[i - 1], rs[i])]
  BY <1>5, <1>6
<1>8. rep = [i \in 0..n |-> IF i = 0 THEN NewReport ELSE count(rep[i - 1], rs[i])]
  BY <1>7
<1> HIDE DEF rep
<1> DEFINE T == {i \in 0..n : ~Tally(rs, i, rep[i])}
<1>9. T = {}
  <2>1. SUFFICES ASSUME T # {} PROVE FALSE
    OBVIOUS
  <2>2. PICK i \in T : \A j \in T : i <= j
    <3>1. T \in SUBSET Nat
      OBVIOUS
    <3> HIDE DEF T
    <3> QED
      BY <2>1, <3>1, LeastElement
  <2>3. i \in 0..n /\ ~Tally(rs, i, rep[i])
    OBVIOUS
  <2>4. Tally(rs, 0, NewReport)
    <3>1. Fenced(rs, 0) = {} /\ 1..0 = {}
      BY DEF Fenced
    <3>2. Cardinality({}) = 0
      BY FS_EmptySet
    <3>3. NewReport.maxEpoch = -1 /\ NewReport.stale = 0
      BY DEF NewReport
    <3>4. {rs[k].epoch : k \in 1..0} = {} /\ -1 >= -1
      BY <3>1
    <3> HIDE DEF T
    <3> QED
      BY <1>3, <3>1, <3>2, <3>3, <3>4 DEF Tally
  <2>5. CASE i = 0
    <3>1. rep[0] = NewReport
      BY <1>1, <1>8
    <3> QED
      BY <2>3, <2>4, <2>5, <3>1
  <2>6. CASE i # 0
    <3>1. i \in 1..n /\ i - 1 \in 0..n /\ ~(i <= i - 1)
      BY <1>1, <2>3, <2>6
    <3>2. Tally(rs, i - 1, rep[i - 1])
      BY <2>2, <3>1
    <3>3. rep[i] = count(rep[i - 1], rs[i])
      BY <1>8, <2>3, <2>6
    <3> QED
      BY <2>3, <3>1, <3>2, <3>3, CountStep
  <2> QED
    BY <2>5, <2>6
<1>10. n \in 0..n
  BY <1>1
<1> QED
  BY <1>2, <1>9, <1>10

(* Below an epoch that is not the lowest there is a neighbour.             *)
LEMMA Predecessor ==
  ASSUME NEW spans, DOMAIN spans \subseteq Int,
         NEW c \in DOMAIN spans, NEW e \in DOMAIN spans, c < e
  PROVE  \E d \in DOMAIN spans : c <= d /\ <<d, e>> \in Neighbours(spans)
<1> DEFINE D == DOMAIN spans
           T == {e - x : x \in {y \in D : y < e}}
<1>1. PICK m \in T : \A k \in T : m <= k
  <2>1. \A x \in {y \in D : y < e} : e - x \in Nat
    OBVIOUS
  <2>2. T \in SUBSET Nat /\ T # {}
    BY <2>1
  <2> HIDE DEF T
  <2> QED
    BY <2>2, LeastElement
<1>2. PICK d \in D : d < e /\ m = e - d
  OBVIOUS
<1>3. ASSUME NEW x \in D PROVE x <= d \/ e <= x
  <2>1. x \in Int /\ d \in Int /\ e \in Int
    OBVIOUS
  <2>2. x < e => e - x \in T
    OBVIOUS
  <2> HIDE DEF T
  <2> QED
    BY <1>1, <1>2, <2>1, <2>2
<1>4. c <= d
  <2>1. c \in Int /\ e \in Int
    OBVIOUS
  <2> QED
    BY <1>3, <2>1
<1>5. <<d, e>> \in Neighbours(spans)
  BY <1>2, <1>3 DEF Neighbours
<1> QED
  BY <1>4, <1>5

(* The facts of a span: its two ends are records of the epoch.             *)
LEMMA SpanEnds ==
  ASSUME NEW rs, Readable(rs), NEW rep, Tally(rs, Len(rs), rep), NEW e \in DOMAIN rep.spans
  PROVE  /\ e \in Int /\ rep.spans[e].first \in Nat /\ rep.spans[e].last \in Nat
         /\ rep.spans[e].first <= rep.spans[e].last /\ rep.spans[e].last <= now
         /\ \A m \in 1..Len(rs) : rs[m].epoch = e =>
              rep.spans[e].first <= rs[m].ts /\ rs[m].ts <= rep.spans[e].last
         /\ \E i \in 1..Len(rs) :
              /\ rs[i].epoch = e /\ rs[i].ts = rep.spans[e].first
              /\ \A m \in 1..Len(rs) : rs[m].epoch = e => i <= m
         /\ \E j \in 1..Len(rs) :
              /\ rs[j].epoch = e /\ rs[j].ts = rep.spans[e].last
              /\ \A m \in 1..Len(rs) : rs[m].epoch = e => m <= j
<1>1. /\ Len(rs) \in Nat
      /\ \A i \in 1..Len(rs) : rs[i].epoch \in Int /\ rs[i].ts \in Nat
  BY RecFields DEF Readable
<1>2. SpanOf(rs, Len(rs), e, rep.spans[e])
  BY DEF Tally
<1>3. PICK i \in 1..Len(rs), j \in 1..Len(rs) :
        /\ rs[i].epoch = e /\ rs[j].epoch = e
        /\ rep.spans[e] = [first |-> rs[i].ts, last |-> rs[j].ts]
        /\ \A m \in 1..Len(rs) : rs[m].epoch = e => i <= m /\ m <= j
  BY <1>2 DEF SpanOf
<1>4. rep.spans[e].first = rs[i].ts /\ rep.spans[e].last = rs[j].ts
  BY <1>3
<1>5. \A m \in 1..Len(rs) : rs[m].epoch = e => rs[i].ts <= rs[m].ts /\ rs[m].ts <= rs[j].ts
  BY <1>3 DEF Readable
<1> QED
  BY <1>1, <1>3, <1>4, <1>5 DEF Readable

(* What summarize says of readable records.                                *)
LEMMA Summary ==
  ASSUME NEW rs, Readable(rs), now \in Nat
  PROVE  LET late == {p \in (1..Len(rs)) \X (1..Len(rs)) :
                        p[1] < p[2] /\ rs[p[1]].epoch > rs[p[2]].epoch}
             overlaps == {rs[p[2]].ts - rs[p[1]].ts :
                            p \in {q \in late : \A m \in 1..Len(rs) :
                                     \/ rs[m].epoch <= rs[q[2]].epoch
                                     \/ rs[q[1]].epoch <= rs[m].epoch}}
             silences == {rs[i + 1].ts - rs[i].ts :
                            i \in {k \in 1..Len(rs) - 1 : rs[k].epoch # rs[k + 1].epoch}}
             rep == summarize(rs)
         IN  /\ rep.stale = Cardinality({p[2] : p \in late})
             /\ rep.overlap > 0 <=> \E p \in late : rs[p[1]].ts < rs[p[2]].ts
             /\ rep.overlap = Max({0} \cup overlaps)
             /\ late = {} => rep.gap = Max({0} \cup silences)
<1> DEFINE n == Len(rs)
           late == {p \in (1..n) \X (1..n) : p[1] < p[2] /\ rs[p[1]].epoch > rs[p[2]].epoch}
           overlaps == {rs[p[2]].ts - rs[p[1]].ts :
                          p \in {q \in late : \A m \in 1..n : \/ rs[m].epoch <= rs[q[2]].epoch
                                                            \/ rs[q[1]].epoch <= rs[m].epoch}}
           silences == {rs[i + 1].ts - rs[i].ts :
                          i \in {k \in 1..n - 1 : rs[k].epoch # rs[k + 1].epoch}}
           rep == counted(rs)
           spans == rep.spans
           D == DOMAIN spans
           hs == Handovers(spans)
           over == {0} \cup {d \in hs : d > 0}
           under == {0} \cup {-d : d \in {h \in hs : h <= 0}}
<1>1. /\ n \in Nat /\ \A i \in 1..n : rs[i].epoch \in Int /\ rs[i].ts \in Nat /\ rs[i].ts <= now
      /\ \A i, j \in 1..n : i <= j => rs[i].ts <= rs[j].ts
  BY RecFields DEF Readable
<1>2. Tally(rs, n, rep)
  BY Counted
<1>3. \A i \in 1..n : rs[i].epoch \in D
  BY <1>2 DEF Tally
<1>4. summarize(rs) = [stale |-> rep.stale, overlap |-> Max(over), gap |-> Max(under)]
  BY DEF summarize
<1> HIDE DEF rep
<1>5. \A e \in D : /\ e \in Int /\ spans[e].first \in Nat /\ spans[e].last \in Nat
                   /\ spans[e].first <= spans[e].last /\ spans[e].last <= now
                   /\ \A m \in 1..n : rs[m].epoch = e =>
                        spans[e].first <= rs[m].ts /\ rs[m].ts <= spans[e].last
  BY <1>2, SpanEnds
<1>6. \A e \in D : \E i \in 1..n : /\ rs[i].epoch = e /\ rs[i].ts = spans[e].first
                                   /\ \A m \in 1..n : rs[m].epoch = e => i <= m
  BY <1>2, SpanEnds
<1>7. \A e \in D : \E j \in 1..n : /\ rs[j].epoch = e /\ rs[j].ts = spans[e].last
                                   /\ \A m \in 1..n : rs[m].epoch = e => m <= j
  BY <1>2, SpanEnds
<1>8. \A h : h \in hs <=> \E d, e \in D : /\ <<d, e>> \in Neighbours(spans)
                                          /\ h = spans[d].last - spans[e].first
  <2>1. \A p \in Neighbours(spans) : p[1] \in D /\ p[2] \in D /\ p = <<p[1], p[2]>>
    BY DEF Neighbours
  <2> QED
    BY <2>1 DEF Handovers
<1>9. \A d, e \in D : <<d, e>> \in Neighbours(spans) <=>
                        d < e /\ \A x \in D : x <= d \/ e <= x
  BY DEF Neighbours
<1>10. \A i, j : <<i, j>> \in late <=> i \in 1..n /\ j \in 1..n /\ i < j /\ rs[i].epoch > rs[j].epoch
  OBVIOUS
<1>11. \A p \in late : p[1] \in 1..n /\ p[2] \in 1..n /\ p = <<p[1], p[2]>>
  OBVIOUS
<1>12. \A s : s \in silences <=> \E k \in 1..n - 1 : rs[k].epoch # rs[k + 1].epoch
                                                     /\ s = rs[k + 1].ts - rs[k].ts
  OBVIOUS
<1>13. {p[2] : p \in late} = Fenced(rs, n)
  <2> HIDE DEF late
  <2>1. ASSUME NEW j \in Fenced(rs, n) PROVE j \in {p[2] : p \in late}
    <3>1. PICK i \in 1..n : i < j /\ rs[i].epoch > rs[j].epoch /\ j \in 1..n
      BY DEF Fenced
    <3>2. <<i, j>> \in late /\ <<i, j>>[2] = j
      BY <1>10, <3>1
    <3> QED
      BY <3>2
  <2>2. ASSUME NEW p \in late PROVE p[2] \in Fenced(rs, n)
    BY <1>10, <1>11, <2>2 DEF Fenced
  <2> QED
    BY <2>1, <2>2
<1>14. \A x : x \in overlaps <=>
                \E p \in late : /\ x = rs[p[2]].ts - rs[p[1]].ts
                                /\ \A m \in 1..n : \/ rs[m].epoch <= rs[p[2]].epoch
                                                   \/ rs[p[1]].epoch <= rs[m].epoch
  <2> HIDE DEF late
  <2> QED
    OBVIOUS
<1> HIDE DEF late, overlaps, silences, hs, D, n
<1>15. Max(over) \in over /\ \A y \in over : y <= Max(over)
  <2>1. ASSUME NEW h \in hs, h > 0 PROVE h \in 0..now
    <3>1. PICK d \in D, e \in D : h = spans[d].last - spans[e].first
      BY <1>8, <2>1
    <3>2. spans[d].last \in Nat /\ spans[d].last <= now /\ spans[e].first \in Nat
      BY <1>5
    <3> QED
      BY <2>1, <3>1, <3>2
  <2>2. over \in SUBSET (0..now) /\ over # {}
    BY <2>1
  <2> HIDE DEF over
  <2> QED
    BY <2>2, MaxOf
<1>16. Max(over) > 0 <=> \E h \in hs : h > 0
  <2>1. ASSUME NEW h \in hs PROVE h \in Int
    <3>1. PICK d \in D, e \in D : h = spans[d].last - spans[e].first
      BY <1>8, <2>1
    <3>2. spans[d].last \in Nat /\ spans[e].first \in Nat
      BY <1>5
    <3> QED
      BY <3>1, <3>2
  <2> QED
    BY <1>15, <2>1
<1>17. ASSUME NEW h \in hs, h > 0
       PROVE  \E p \in late : rs[p[1]].ts < rs[p[2]].ts
  <2>1. PICK d \in D, e \in D : <<d, e>> \in Neighbours(spans) /\ h = spans[d].last - spans[e].first
    BY <1>8, <1>17
  <2>2. PICK i \in 1..n : rs[i].epoch = e /\ rs[i].ts = spans[e].first
    BY <1>6
  <2>3. PICK j \in 1..n : rs[j].epoch = d /\ rs[j].ts = spans[d].last
    BY <1>7
  <2>4. d < e /\ d \in Int /\ e \in Int /\ spans[d].last \in Nat /\ spans[e].first \in Nat
    BY <1>5, <1>9, <2>1
  <2>5. rs[i].ts < rs[j].ts
    BY <1>17, <2>1, <2>2, <2>3, <2>4
  <2>6. i < j
    BY <1>1, <2>5
  <2>7. <<i, j>> \in late /\ <<i, j>>[1] = i /\ <<i, j>>[2] = j
    BY <1>10, <2>2, <2>3, <2>4, <2>6
  <2> QED
    BY <2>5, <2>7
<1>18. ASSUME NEW p \in late, rs[p[1]].ts < rs[p[2]].ts
       PROVE  \E h \in hs : h > 0
  <2> DEFINE i == p[1]
             j == p[2]
             c == rs[j].epoch
             T == {x - c : x \in {y \in D : y > c /\ spans[y].first < rs[j].ts}}
  <2>1. i \in 1..n /\ j \in 1..n /\ i < j /\ rs[i].epoch > c
    BY <1>10, <1>11, <1>18
  <2>2. c \in D /\ rs[i].epoch \in D /\ c \in Int /\ rs[j].ts \in Nat /\ rs[i].ts \in Nat
    BY <1>1, <1>3, <2>1
  <2>3. spans[rs[i].epoch].first < rs[j].ts
    <3>1. spans[rs[i].epoch].first <= rs[i].ts /\ spans[rs[i].epoch].first \in Nat
      BY <1>5, <2>1, <2>2
    <3> QED
      BY <1>18, <2>2, <3>1
  <2>4. PICK m \in T : \A k \in T : m <= k
    <3>1. \A x \in {y \in D : y > c /\ spans[y].first < rs[j].ts} : x - c \in Nat
      BY <1>5, <2>2
    <3>2. rs[i].epoch - c \in T
      BY <2>1, <2>2, <2>3
    <3>3. T \in SUBSET Nat /\ T # {}
      BY <3>1, <3>2
    <3> HIDE DEF T
    <3> QED
      BY <3>3, LeastElement
  <2>5. PICK e \in D : e > c /\ spans[e].first < rs[j].ts /\ m = e - c
    OBVIOUS
  <2>6. D \subseteq Int
    BY <1>5
  <2>7. PICK d \in D : c <= d /\ <<d, e>> \in Neighbours(spans)
    <3>1. c < e /\ DOMAIN spans \subseteq Int
      BY <2>2, <2>5, <2>6 DEF D
    <3> HIDE DEF c
    <3> QED
      BY <2>2, <2>5, <3>1, Predecessor DEF D
  <2>8. spans[d].last > spans[e].first
    <3>1. /\ spans[d].last \in Nat /\ spans[d].first \in Nat /\ spans[d].first <= spans[d].last
          /\ spans[e].first \in Nat /\ d \in Int /\ e \in Int
      BY <1>5
    <3>2. CASE d = c
      <4>1. rs[j].ts <= spans[d].last
        BY <1>5, <2>1, <3>2
      <4> QED
        BY <2>2, <2>5, <3>1, <4>1
    <3>3. CASE d # c
      <4>1. d > c /\ d < e
        BY <1>9, <2>2, <2>7, <3>1, <3>3
      <4>2. spans[d].first < rs[j].ts => d - c \in T
        BY <4>1
      <4> HIDE DEF T
      <4>3. ~(spans[d].first < rs[j].ts)
        BY <2>2, <2>4, <2>5, <3>1, <4>1, <4>2
      <4> QED
        BY <2>2, <2>5, <3>1, <4>3
    <3> QED
      BY <3>2, <3>3
  <2>9. spans[d].last - spans[e].first \in hs
    BY <1>8, <2>7
  <2>10. spans[d].last \in Nat /\ spans[e].first \in Nat
    BY <1>5
  <2> QED
    BY <2>8, <2>9, <2>10
<1>19. ASSUME late = {}
       PROVE  under = {0} \cup silences
  <2>1. ASSUME NEW i \in 1..n, NEW j \in 1..n, i <= j PROVE rs[i].epoch <= rs[j].epoch
    <3>1. ~(<<i, j>> \in late)
      BY <1>19
    <3>2. ~(i < j /\ rs[i].epoch > rs[j].epoch)
      BY <1>10, <3>1
    <3>3. rs[i].epoch \in Int /\ rs[j].epoch \in Int /\ (i = j \/ i < j)
      BY <1>1, <2>1
    <3> QED
      BY <3>2, <3>3
  <2>2. ASSUME NEW h \in hs PROVE -h \in silences
    <3>1. PICK d \in D, e \in D : <<d, e>> \in Neighbours(spans) /\ h = spans[d].last - spans[e].first
      BY <1>8, <2>2
    <3>2. PICK i \in 1..n : /\ rs[i].epoch = e /\ rs[i].ts = spans[e].first
                            /\ \A m \in 1..n : rs[m].epoch = e => i <= m
      BY <1>6
    <3>3. PICK j \in 1..n : /\ rs[j].epoch = d /\ rs[j].ts = spans[d].last
                            /\ \A m \in 1..n : rs[m].epoch = d => m <= j
      BY <1>7
    <3>4. d < e /\ d \in Int /\ e \in Int /\ \A x \in D : x <= d \/ e <= x
      BY <1>5, <1>9, <3>1
    <3>5. j < i
      BY <1>1, <2>1, <3>2, <3>3, <3>4
    <3>6. j + 1 \in 1..n /\ j \in 1..n - 1 /\ j <= j + 1 /\ j + 1 <= i
      BY <1>1, <3>5
    <3>7. rs[j + 1].epoch = e
      <4>1. /\ rs[j + 1].epoch \in Int /\ d <= rs[j + 1].epoch /\ rs[j + 1].epoch <= e
            /\ rs[j + 1].epoch \in D
        BY <1>1, <1>3, <2>1, <3>2, <3>3, <3>6
      <4>2. rs[j + 1].epoch # d
        BY <1>1, <3>3, <3>6
      <4> QED
        BY <3>4, <4>1, <4>2
    <3>8. j + 1 = i
      BY <1>1, <3>2, <3>6, <3>7
    <3>9. -h = rs[j + 1].ts - rs[j].ts /\ rs[j].epoch # rs[j + 1].epoch
      BY <1>1, <3>1, <3>2, <3>3, <3>4, <3>7, <3>8
    <3> QED
      BY <1>12, <3>6, <3>9
  <2>3. ASSUME NEW s \in silences PROVE \E h \in hs : h <= 0 /\ s = -h
    <3>1. PICK k \in 1..n - 1 : rs[k].epoch # rs[k + 1].epoch /\ s = rs[k + 1].ts - rs[k].ts
      BY <1>12, <2>3
    <3> DEFINE d == rs[k].epoch
               e == rs[k + 1].epoch
    <3>2. k \in 1..n /\ k + 1 \in 1..n /\ k <= k + 1
      BY <1>1
    <3>3. d \in D /\ e \in D /\ d \in Int /\ e \in Int /\ d < e
      BY <1>1, <1>3, <2>1, <3>1, <3>2
    <3>4. \A m \in 1..n : m <= k \/ k + 1 <= m
      BY <1>1, <3>2
    <3>5. \A m \in 1..n : rs[m].epoch \in Int
                          /\ ((m <= k /\ rs[m].epoch <= d) \/ (k + 1 <= m /\ e <= rs[m].epoch))
      BY <1>1, <2>1, <3>2, <3>4
    <3>6. \A x \in D : x <= d \/ e <= x
      BY <1>6, <3>5
    <3>7. <<d, e>> \in Neighbours(spans)
      BY <1>9, <3>3, <3>6
    <3>8. spans[d].last = rs[k].ts
      <4>1. PICK j \in 1..n : /\ rs[j].epoch = d /\ rs[j].ts = spans[d].last
                              /\ \A m \in 1..n : rs[m].epoch = d => m <= j
        BY <1>7, <3>3
      <4>2. k <= j /\ j <= k
        BY <3>2, <3>3, <3>5, <4>1
      <4>3. j = k
        BY <1>1, <3>2, <4>2
      <4> QED
        BY <4>1, <4>3
    <3>9. spans[e].first = rs[k + 1].ts
      <4>1. PICK i \in 1..n : /\ rs[i].epoch = e /\ rs[i].ts = spans[e].first
                              /\ \A m \in 1..n : rs[m].epoch = e => i <= m
        BY <1>6, <3>3
      <4>2. k + 1 <= i /\ i <= k + 1
        BY <3>2, <3>3, <3>5, <4>1
      <4>3. i = k + 1
        BY <1>1, <3>2, <4>2
      <4> QED
        BY <4>1, <4>3
    <3>10. spans[d].last - spans[e].first \in hs
      BY <1>8, <3>3, <3>7
    <3>11. rs[k].ts - rs[k + 1].ts \in hs
      BY <3>8, <3>9, <3>10
    <3>12. rs[k].ts <= rs[k + 1].ts /\ rs[k].ts \in Nat /\ rs[k + 1].ts \in Nat
      BY <1>1, <3>2
    <3>13. rs[k].ts - rs[k + 1].ts <= 0 /\ s = -(rs[k].ts - rs[k + 1].ts)
      BY <3>1, <3>12
    <3> QED
      BY <3>11, <3>13
  <2> QED
    BY <2>2, <2>3
<1>20. Max(over) \in {0} \cup overlaps
  <2> SUFFICES ASSUME Max(over) # 0 PROVE Max(over) \in overlaps
    OBVIOUS
  <2>1. Max(over) \in hs /\ Max(over) > 0
    BY <1>15
  <2>2. PICK d \in D, e \in D : <<d, e>> \in Neighbours(spans) /\ Max(over) = spans[d].last - spans[e].first
    BY <1>8, <2>1
  <2>3. PICK i \in 1..n : rs[i].epoch = e /\ rs[i].ts = spans[e].first
    BY <1>6
  <2>4. PICK j \in 1..n : rs[j].epoch = d /\ rs[j].ts = spans[d].last
    BY <1>7
  <2>5. /\ d < e /\ d \in Int /\ e \in Int /\ spans[d].last \in Nat /\ spans[e].first \in Nat
        /\ \A x \in D : x <= d \/ e <= x
    BY <1>5, <1>9, <2>2
  <2>6. i < j
    <3>1. rs[i].ts < rs[j].ts
      BY <2>1, <2>2, <2>3, <2>4, <2>5
    <3> QED
      BY <1>1, <3>1
  <2>7. <<i, j>> \in late /\ <<i, j>>[1] = i /\ <<i, j>>[2] = j
    BY <1>10, <2>3, <2>4, <2>5, <2>6
  <2>8. \A m \in 1..n : rs[m].epoch <= rs[j].epoch \/ rs[i].epoch <= rs[m].epoch
    BY <1>3, <2>3, <2>4, <2>5
  <2> QED
    BY <1>14, <2>2, <2>3, <2>4, <2>7, <2>8
<1>21. ASSUME NEW x \in overlaps PROVE x \in 0..now /\ x <= Max(over)
  <2>1. PICK p \in late : /\ x = rs[p[2]].ts - rs[p[1]].ts
                          /\ \A m \in 1..n : \/ rs[m].epoch <= rs[p[2]].epoch
                                             \/ rs[p[1]].epoch <= rs[m].epoch
    BY <1>14, <1>21
  <2> DEFINE i == p[1]
             j == p[2]
             d == rs[j].epoch
             e == rs[i].epoch
  <2>2. i \in 1..n /\ j \in 1..n /\ i < j /\ d < e /\ d \in D /\ e \in D /\ d \in Int /\ e \in Int
    BY <1>1, <1>3, <1>10, <1>11
  <2>3. rs[i].ts \in Nat /\ rs[j].ts \in Nat /\ rs[i].ts <= rs[j].ts /\ rs[j].ts <= now
    BY <1>1, <2>2
  <2>4. <<d, e>> \in Neighbours(spans)
    <3>1. \A y \in D : y <= d \/ e <= y
      BY <1>6, <2>1
    <3> QED
      BY <1>9, <2>2, <3>1
  <2>5. spans[d].last - spans[e].first \in hs
    BY <1>8, <2>2, <2>4
  <2>6. /\ spans[d].last \in Nat /\ spans[e].first \in Nat
        /\ rs[j].ts <= spans[d].last /\ spans[e].first <= rs[i].ts
    BY <1>5, <2>2
  <2> HIDE DEF i, j, d, e
  <2>7. x = rs[j].ts - rs[i].ts
    BY <2>1 DEF i, j
  <2>8. x \in 0..now /\ x <= spans[d].last - spans[e].first
    BY <2>3, <2>6, <2>7
  <2>9. Max(over) \in Int /\ Max(over) >= 0
    <3>1. ASSUME NEW h \in hs PROVE h \in Int
      <4>1. PICK b \in D, c \in D : h = spans[b].last - spans[c].first
        BY <1>8, <3>1
      <4>2. spans[b].last \in Nat /\ spans[c].first \in Nat
        BY <1>5
      <4> QED
        BY <4>1, <4>2
    <3> QED
      BY <1>15, <3>1
  <2>10. CASE spans[d].last - spans[e].first > 0
    BY <1>15, <2>5, <2>6, <2>8, <2>9, <2>10
  <2>11. CASE ~(spans[d].last - spans[e].first > 0)
    BY <2>6, <2>8, <2>9, <2>11
  <2> QED
    BY <2>8, <2>10, <2>11
<1>22. Max(over) = Max({0} \cup overlaps)
  <2> DEFINE S == {0} \cup overlaps
  <2>1. S \in SUBSET (0..now) /\ S # {}
    <3>1. 0 \in 0..now
      OBVIOUS
    <3>2. \A y \in S : y \in 0..now
      BY <1>21, <3>1
    <3> QED
      BY <3>2
  <2>2. Max(S) \in S /\ \A y \in S : y <= Max(S)
    <3> HIDE DEF S
    <3> QED
      BY <2>1, MaxOf
  <2>3. Max(over) \in S
    BY <1>20
  <2>4. Max(over) \in Int /\ Max(S) \in Int
    BY <2>1, <2>2, <2>3
  <2>5. Max(S) <= Max(over)
    <3>1. 0 <= Max(over)
      BY <1>15
    <3>2. \A y \in S : y <= Max(over)
      BY <1>21, <3>1
    <3> HIDE DEF S
    <3> QED
      BY <2>2, <3>2
  <2> HIDE DEF S
  <2>6. Max(over) = Max(S)
    BY <2>2, <2>3, <2>4, <2>5
  <2> QED
    BY <2>6 DEF S
<1>23. rep.stale = Cardinality({p[2] : p \in late})
  BY <1>2, <1>13 DEF Tally
<1> HIDE DEF over, under
<1>24. /\ summarize(rs).stale = rep.stale /\ summarize(rs).overlap = Max(over)
       /\ summarize(rs).gap = Max(under)
  BY <1>4
<1>25. /\ summarize(rs).stale = Cardinality({p[2] : p \in late})
       /\ summarize(rs).overlap > 0 <=> \E p \in late : rs[p[1]].ts < rs[p[2]].ts
       /\ summarize(rs).overlap = Max({0} \cup overlaps)
       /\ late = {} => summarize(rs).gap = Max({0} \cup silences)
  BY <1>16, <1>17, <1>18, <1>19, <1>23, <1>24, <1>22
<1> QED
  BY <1>25 DEF late, overlaps, silences, n

(* What a report says of the topic is what is on it: it counts the records *)
(* that a consumer's fence rejects, finds an overlap exactly when one came *)
(* after a record of a higher epoch, as long as the longest between        *)
(* successive epochs, and its gap is the longest silence (recordsSince and *)
(* summarize, any number of records and epochs).                           *)
THEOREM ReportTrue == Spec => []ReportMatches
<1>1. RInv /\ [Next]_vars => RInv'
  BY RInvNext
<1>2. RInv => ReportMatches
  <2> SUFFICES ASSUME RInv PROVE ReportMatches
    OBVIOUS
  <2>1. now \in Nat /\ Readable(topic)
    BY DEF RInv, HInv, TypeOK
  <2>2. \A from \in 0..now : Readable(recordsSince(from))
    BY <2>1, SinceReadable
  <2> QED
    BY <2>1, <2>2, Summary, Zenon DEF ReportMatches
<1> QED
  BY <1>1, <1>2, RInvInit, PTL DEF Spec
=============================================================================
