--------------------------- MODULE StartupProofs ---------------------------
(***************************************************************************)
(* Why Run ends before the loop, and on which topic it enters the loop,    *)
(* for every set of configurations.                                        *)
(***************************************************************************)
EXTENDS Startup, TLAPS

Version  == {"none", "old", "gone", "new"}
Versions == Seq(Version)

TypeOK ==
  /\ cfg \in ConfigOf
  /\ file \in [Secret -> {"old", "gone", "new"}]
  /\ revoked \in BOOLEAN /\ deleted \in BOOLEAN /\ leader \in BOOLEAN
  /\ met \subseteq {"late", "done", "denied"}
  /\ stage \in {"check", "opts", "create", "describe", "bounds", "loop", "failed", "stopped"}
  /\ conn \in {"down", "reading", "up", "broken"}
  /\ have \in Versions
  /\ topic \in {"absent", "right", "wrong"}

(* What can be wrong, and stays so.                                        *)
Reason ==
  \/ ~Acceptable \/ ~cfg.options
  \/ revoked \/ \E s \in Secret : file[s] # "old"
  \/ topic = "wrong" \/ deleted
  \/ "late" \in met \/ "done" \in met

(* Nothing is: what an attempt has read are the old secrets, and an        *)
(* attempt or Run has failed only if it was denied.                        *)
AllWell ==
  /\ stage = "failed" \/ conn = "broken" => "denied" \in met
  /\ stage = "failed" => conn = "down"
  /\ Len(have) <= Len(Reads)
  /\ \A i \in 1..Len(have) : have[i] = IF Given(Reads[i]) THEN "old" ELSE "none"
  /\ stage = "describe" => topic = "right"

(* EnsureTopic has seen to the topic.                                      *)
TopicSeen ==
  stage \in {"bounds", "loop"} /\ cfg.createTopic /\ ~deleted => topic = "right"

(* Between attempts nothing is kept.                                       *)
Forgotten == (conn # "reading" => have = << >>) /\ (stage = "check" => conn = "down")

SInv == TypeOK /\ (Reason \/ AllWell) /\ TopicSeen /\ Forgotten

(* What an attempt reads, and in which order.                              *)
LEMMA ReadsAre ==
  ASSUME TypeOK
  PROVE  /\ Reads \in Seq(Secret)
         /\ \A i \in 1..Len(Reads) :
              (cfg.tls /\ Reads[i] \in {"cert", "key"}) \/ Reads[i] \in Range(saslReads)
         /\ cfg.tls /\ Len(Reads) >= 2 => Reads[1] = "cert" /\ Reads[2] = "key"
         /\ cfg.mechanism = "plain" /\ stage # "opts" =>
              /\ Len(Reads) >= 2
              /\ Reads[Len(Reads) - 1] = "username" /\ Reads[Len(Reads)] = "password"
<1> DEFINE tr == tlsReads
           sr == saslReads
<1>1. cfg.tls \in BOOLEAN /\ cfg.mechanism \in {"none", "plain", "oauthbearer", "other"}
  BY DEF TypeOK, ConfigOf, Mechanism
<1>2. /\ cfg.tls => tr = <<"cert", "key">>
      /\ ~cfg.tls => tr = << >>
  BY DEF tlsReads
<1>3. /\ cfg.mechanism = "plain" => sr = <<"username", "password">>
      /\ cfg.mechanism = "oauthbearer" => sr = <<"token">>
      /\ cfg.mechanism \in {"none", "other"} => sr = << >>
  BY DEF saslReads
<1>4. Reads = tr \/ (stage # "opts" /\ Reads = tr \o sr)
  BY DEF Reads
<1>5. stage # "opts" => Reads = tr \o sr
  BY DEF Reads
<1>6. /\ <<"cert", "key">> \in Seq(Secret) /\ << >> \in Seq(Secret)
      /\ <<"username", "password">> \in Seq(Secret) /\ <<"token">> \in Seq(Secret)
  BY DEF Secret
<1>7. \A i \in 1..Len(sr) : sr[i] \in Range(saslReads)
  <2>1. sr \in Seq(Secret) BY <1>1, <1>3, <1>6
  <2> QED BY <2>1 DEF Range
<1> HIDE DEF tr, sr
<1>8. tr \in Seq(Secret) /\ sr \in Seq(Secret)
  BY <1>1, <1>2, <1>3, <1>6
<1>9. /\ cfg.tls => Len(tr) = 2 /\ tr[1] = "cert" /\ tr[2] = "key"
      /\ ~cfg.tls => Len(tr) = 0
  BY <1>2
<1>10. /\ cfg.mechanism = "plain" => Len(sr) = 2 /\ sr[1] = "username" /\ sr[2] = "password"
       /\ Len(sr) \in Nat
  BY <1>3, <1>8
<1>11. Reads \in Seq(Secret)
  <2>1. tr \o sr \in Seq(Secret) BY <1>8
  <2> QED BY <1>4, <1>8, <2>1, Zenon
<1>12. /\ Len(Reads) = Len(tr) \/ Len(Reads) = Len(tr) + Len(sr)
       /\ \A i \in 1..Len(tr) : Reads[i] = tr[i]
  <2>1. Len(tr \o sr) = Len(tr) + Len(sr) BY <1>8
  <2>2. \A i \in 1..Len(tr) : (tr \o sr)[i] = tr[i]
    <3>1. \A i \in 1..Len(tr) : i \in 1..Len(tr) + Len(sr) /\ i <= Len(tr) BY <1>8, <1>10
    <3> QED BY <3>1, <1>8
  <2> QED BY <1>4, <2>1, <2>2
<1>13. \A i \in 1..Len(Reads) : i > Len(tr) => i - Len(tr) \in 1..Len(sr) /\ Reads[i] = sr[i - Len(tr)]
  <2>0. Len(tr) \in Nat /\ Len(sr) \in Nat BY <1>8
  <2>1. CASE Reads = tr BY <2>0, <2>1
  <2>2. CASE Reads = tr \o sr
    <3>1. Len(Reads) = Len(tr) + Len(sr) BY <2>2, <1>8
    <3>2. \A i \in 1..Len(tr) + Len(sr) : i > Len(tr) => (tr \o sr)[i] = sr[i - Len(tr)]
      BY <1>8
    <3> QED BY <2>0, <2>2, <3>1, <3>2
  <2> QED BY <2>1, <2>2, <1>4
<1>14. \A i \in 1..Len(Reads) :
         (cfg.tls /\ Reads[i] \in {"cert", "key"}) \/ Reads[i] \in Range(saslReads)
  <2> SUFFICES ASSUME NEW i \in 1..Len(Reads)
               PROVE  (cfg.tls /\ Reads[i] \in {"cert", "key"}) \/ Reads[i] \in Range(saslReads)
    OBVIOUS
  <2>1. CASE i > Len(tr) BY <2>1, <1>13, <1>7
  <2>2. CASE i <= Len(tr)
    <3>1. i \in 1..Len(tr) BY <2>2, <1>8
    <3>2. cfg.tls BY <3>1, <1>9
    <3>3. Len(tr) = 2 BY <3>2, <1>9, Zenon
    <3>4. i = 1 \/ i = 2 BY <3>1, <3>3
    <3> QED BY <3>1, <3>2, <3>4, <1>9, <1>12
  <2>3. i \in Nat /\ Len(tr) \in Nat BY <1>8, <1>11
  <2> QED BY <2>1, <2>2, <2>3
<1>15. cfg.tls => Reads[1] = "cert" /\ Reads[2] = "key"
  <2>1. cfg.tls => 1 \in 1..Len(tr) /\ 2 \in 1..Len(tr) BY <1>9
  <2> QED BY <2>1, <1>9, <1>12
<1>16. ASSUME cfg.mechanism = "plain", stage # "opts"
       PROVE  /\ Len(Reads) >= 2
              /\ Reads[Len(Reads) - 1] = "username" /\ Reads[Len(Reads)] = "password"
  <2>0. Len(sr) = 2 BY <1>10, <1>16, Zenon
  <2>1. Len(Reads) = Len(tr) + 2 /\ Len(tr) \in Nat
    <3>1. Len(tr \o sr) = Len(tr) + Len(sr) /\ Len(tr) \in Nat BY <1>8
    <3> QED BY <2>0, <3>1, <1>5, <1>16
  <2>2. Reads[Len(tr) + 1] = sr[1] /\ Reads[Len(tr) + 2] = sr[2]
    <3>1. Len(tr) + 1 \in 1..Len(Reads) /\ Len(tr) + 1 > Len(tr) /\ (Len(tr) + 1) - Len(tr) = 1
      BY <2>1
    <3>2. Len(tr) + 2 \in 1..Len(Reads) /\ Len(tr) + 2 > Len(tr) /\ (Len(tr) + 2) - Len(tr) = 2
      BY <2>1
    <3> QED BY <3>1, <3>2, <1>13
  <2>3. Len(Reads) - 1 = Len(tr) + 1 /\ Len(Reads) = Len(tr) + 2 BY <2>1
  <2> QED BY <2>1, <2>2, <2>3, <1>10, <1>16
<1> QED BY <1>11, <1>14, <1>15, <1>16

(* A secret is of some version, or gone because its file is.               *)
LEMMA SourceTypes ==
  ASSUME TypeOK, NEW s \in Secret
  PROVE  /\ source(s) \in {"none", "old", "gone", "new"}
         /\ source(s) = "gone" => file[s] = "gone"
<1>1. cfg.src[s] \in SUBSET {"inline", "file"} /\ file[s] \in {"old", "gone", "new"}
  BY DEF TypeOK, ConfigOf
<1>2. cfg.src[s] = {"inline"} \/ cfg.src[s] # {"inline"} OBVIOUS
<1>3. {"inline"} # {"file"} OBVIOUS
<1> QED BY <1>1, <1>2, <1>3 DEF source

(* With every file old, a secret that is given is the old one.             *)
LEMMA SourceOld ==
  ASSUME TypeOK, ~Reason, Acceptable, NEW i \in 1..Len(Reads)
  PROVE  source(Reads[i]) = IF Given(Reads[i]) THEN "old" ELSE "none"
<1> DEFINE s == Reads[i]
<1>1. s \in Secret BY ReadsAre
<1>2. file[s] = "old" BY <1>1 DEF Reason
<1>3. (cfg.tls /\ s \in {"cert", "key"}) \/ s \in Range(saslReads)
  BY ReadsAre
<1>4. OneWay(s) \/ ~Given(s)
  BY <1>3 DEF Acceptable
<1> QED BY <1>2, <1>4 DEF source, OneWay, Given

-----------------------------------------------------------------------------

(* An attempt that has read nothing is well typed.                         *)
LEMMA NothingRead == << >> \in Versions
BY DEF Versions

(* Initially all is well.                                                  *)
LEMMA SInvInit == Init => SInv
<1> SUFFICES ASSUME Init PROVE SInv
  OBVIOUS
<1>1. TypeOK BY ConfigsAssumption, NothingRead DEF Init, TypeOK
<1>2. Len(Reads) \in Nat BY <1>1, ReadsAre
<1>3. AllWell BY <1>2 DEF Init, AllWell
<1> QED BY <1>1, <1>3 DEF Init, SInv, TopicSeen, Forgotten

(* Reading a file keeps the type of what an attempt has read.              *)
LEMMA ReadNextType ==
  ASSUME TypeOK, ReadNext
  PROVE  /\ Len(have) + 1 \in 1..Len(Reads)
         /\ Append(have, source(Reads[Len(have) + 1])) \in Versions
<1> DEFINE i == Len(have) + 1
           x == source(Reads[i])
<1>1. Len(have) < Len(Reads) BY DEF ReadNext
<1>2. Len(have) \in Nat /\ Reads \in Seq(Secret) BY ReadsAre DEF TypeOK, Versions
<1>3. i \in 1..Len(Reads) BY <1>1, <1>2
<1>4. Reads[i] \in Secret BY <1>2, <1>3
<1>5. x \in Version BY <1>4, SourceTypes DEF Version
<1> HIDE DEF x
<1>6. Append(have, x) \in Versions BY <1>5 DEF TypeOK, Versions
<1> QED BY <1>3, <1>6 DEF x

(* Every step keeps the types.                                             *)
LEMMA TypeNext ==
  ASSUME TypeOK, [Next]_vars
  PROVE  TypeOK'
<1> USE NothingRead DEF TypeOK, secrets, broker
<1>1. ASSUME NEW s \in Secret, Rotate(s) PROVE TypeOK' BY <1>1 DEF Rotate
<1>2. CASE Revoke BY <1>2 DEF Revoke
<1>3. CASE Dial BY <1>3 DEF Dial
<1>4. CASE ReadNext
  <2>1. have' \in Versions
    <3> HIDE DEF TypeOK
    <3>1. have' = << >> \/ have' = Append(have, source(Reads[Len(have) + 1]))
      BY <1>4 DEF ReadNext, breaks, fails
    <3> QED BY <3>1, <1>4, ReadNextType
  <2>2. stage' \in {stage, "failed"} /\ conn' \in {conn, "down", "broken"}
    BY <1>4 DEF ReadNext, breaks, fails
  <2>3. UNCHANGED <<cfg, secrets, broker, met>> BY <1>4 DEF ReadNext
  <2> QED BY <2>1, <2>2, <2>3
<1>5. CASE Handshake BY <1>5 DEF Handshake, breaks, fails
<1>6. CASE Drop BY <1>6 DEF Drop
<1>7. CASE CheckConfig BY <1>7 DEF CheckConfig, fails
<1>8. CASE NewClient BY <1>8 DEF NewClient, fails
<1>9. CASE CreateTopic BY <1>9 DEF CreateTopic, refuses, fails
<1>10. CASE CreateLost BY <1>10 DEF CreateLost
<1>11. CASE DescribeTopic BY <1>11 DEF DescribeTopic, refuses, fails
<1>12. CASE GiveUp BY <1>12 DEF GiveUp, fails
<1>13. CASE ListBounds BY <1>13 DEF ListBounds
<1>14. CASE Deadline BY <1>14 DEF Deadline
<1>15. CASE BoundsFail BY <1>15 DEF BoundsFail, fails
<1>16. CASE RefuseRecord BY <1>16 DEF RefuseRecord, fails
<1>17. ASSUME NEW kind \in {"right", "wrong"}, Others(kind) PROVE TypeOK' BY <1>17 DEF Others
<1>18. CASE Elect BY <1>18 DEF Elect
<1>19. CASE Delete BY <1>19 DEF Delete
<1>20. CASE AttemptFails BY <1>20 DEF AttemptFails, breaks, fails
<1>21. CASE Cancel BY <1>21 DEF Cancel
<1>22. CASE LoopEnds BY <1>22 DEF LoopEnds
<1>23. CASE UNCHANGED vars BY <1>23 DEF vars
<1> QED
  BY <1>1, <1>2, <1>3, <1>4, <1>5, <1>6, <1>7, <1>8, <1>9, <1>10, <1>11, <1>12, <1>13,
     <1>14, <1>15, <1>16, <1>17, <1>18, <1>19, <1>20, <1>21, <1>22, <1>23 DEF Next

(* Every step keeps what a candidate past EnsureTopic knows of the topic.  *)
LEMMA SeenNext ==
  ASSUME SInv, [Next]_vars
  PROVE  TopicSeen' /\ Forgotten'
<1> USE DEF SInv, TopicSeen, Forgotten, secrets, broker
<1>1. ASSUME NEW s \in Secret, Rotate(s) PROVE TopicSeen' /\ Forgotten' BY <1>1 DEF Rotate
<1>2. CASE Revoke BY <1>2 DEF Revoke
<1>3. CASE Dial BY <1>3 DEF Dial
<1>4. CASE ReadNext
  <2>1. \/ have' = << >> /\ (stage' = "failed" \/ stage' = stage)
        \/ conn' = conn /\ stage' = stage
    BY <1>4 DEF ReadNext, breaks, fails
  <2>2. conn = "reading" /\ UNCHANGED <<cfg, topic, deleted>>
    BY <1>4 DEF ReadNext
  <2> QED BY <2>1, <2>2
<1>5. CASE Handshake BY <1>5 DEF Handshake, breaks, fails
<1>6. CASE Drop BY <1>6 DEF Drop
<1>7. CASE CheckConfig BY <1>7 DEF CheckConfig, fails
<1>8. CASE NewClient BY <1>8 DEF NewClient, fails
<1>9. CASE CreateTopic BY <1>9 DEF CreateTopic, refuses, fails
<1>10. CASE CreateLost BY <1>10 DEF CreateLost
<1>11. CASE DescribeTopic BY <1>11 DEF DescribeTopic, refuses, fails
<1>12. CASE GiveUp BY <1>12 DEF GiveUp, fails
<1>13. CASE ListBounds BY <1>13 DEF ListBounds
<1>14. CASE Deadline BY <1>14 DEF Deadline
<1>15. CASE BoundsFail BY <1>15 DEF BoundsFail, fails
<1>16. CASE RefuseRecord BY <1>16 DEF RefuseRecord, fails
<1>17. ASSUME NEW kind \in {"right", "wrong"}, Others(kind) PROVE TopicSeen' /\ Forgotten'
  BY <1>17 DEF Others
<1>18. CASE Elect BY <1>18 DEF Elect
<1>19. CASE Delete BY <1>19 DEF Delete
<1>20. CASE AttemptFails BY <1>20 DEF AttemptFails, breaks, fails
<1>21. CASE Cancel BY <1>21 DEF Cancel
<1>22. CASE LoopEnds BY <1>22 DEF LoopEnds
<1>23. CASE UNCHANGED vars BY <1>23 DEF vars
<1> QED
  BY <1>1, <1>2, <1>3, <1>4, <1>5, <1>6, <1>7, <1>8, <1>9, <1>10, <1>11, <1>12, <1>13,
     <1>14, <1>15, <1>16, <1>17, <1>18, <1>19, <1>20, <1>21, <1>22, <1>23 DEF Next

(* What is wrong stays wrong.                                              *)
LEMMA ReasonStays ==
  ASSUME TypeOK, [Next]_vars, Reason
  PROVE  Reason'
<1>1. cfg' = cfg
  BY DEF Next, Rotate, Revoke, Dial, ReadNext, Handshake, Drop, CheckConfig, NewClient,
         CreateTopic, CreateLost, DescribeTopic, GiveUp, ListBounds, Deadline, BoundsFail,
         RefuseRecord, AttemptFails, Cancel, LoopEnds, Others, Elect, Delete, vars
<1>2. Acceptable' = Acceptable
  BY <1>1 DEF Acceptable, Given, OneWay, saslReads
<1>3. UNCHANGED file \/ \E s \in Secret : file'[s] # "old"
  <2>1. ASSUME NEW s \in Secret, Rotate(s) PROVE file'[s] # "old"
    BY <2>1 DEF Rotate, TypeOK
  <2>2. (\A s \in Secret : ~Rotate(s)) => UNCHANGED file
    BY DEF Next, Revoke, Dial, ReadNext, Handshake, Drop, CheckConfig, NewClient,
           CreateTopic, CreateLost, DescribeTopic, GiveUp, ListBounds, Deadline, BoundsFail,
           RefuseRecord, AttemptFails, Cancel, LoopEnds, Others, Elect, Delete, vars, secrets
  <2> QED BY <2>1, <2>2
<1>4. /\ revoked => revoked'
      /\ deleted => deleted'
      /\ \A x \in {"late", "done"} : x \in met => x \in met'
  BY DEF Next, Rotate, Revoke, Dial, ReadNext, Handshake, Drop, CheckConfig, NewClient,
         CreateTopic, CreateLost, DescribeTopic, GiveUp, ListBounds, Deadline, BoundsFail,
         RefuseRecord, AttemptFails, Cancel, LoopEnds, Others, Elect, Delete, vars, secrets,
         broker, refuses
<1>5. topic = "wrong" => topic' = "wrong" \/ deleted'
  BY DEF Next, Rotate, Revoke, Dial, ReadNext, Handshake, Drop, CheckConfig, NewClient,
         CreateTopic, CreateLost, DescribeTopic, GiveUp, ListBounds, Deadline, BoundsFail,
         RefuseRecord, AttemptFails, Cancel, LoopEnds, Others, Elect, Delete, vars, broker
<1> QED BY <1>1, <1>2, <1>3, <1>4, <1>5 DEF Reason

(* A step that fails nothing and reads nothing keeps everything well.      *)
LEMMA WellKept ==
  ASSUME TypeOK, TypeOK', AllWell, cfg' = cfg,
         stage' = "failed" \/ conn' = "broken" => "denied" \in met',
         stage' = "failed" => conn' = "down",
         stage' = "describe" => topic' = "right",
         have' = << >> \/ (have' = have /\ (stage = "opts" <=> stage' = "opts"))
  PROVE  AllWell'
<1>1. CASE have' = << >>
  <2>1. Len(Reads') \in Nat BY ReadsAre, TypeOK' DEF Reads, tlsReads, saslReads, TypeOK
  <2> QED BY <1>1, <2>1 DEF AllWell
<1>2. CASE have' = have /\ (stage = "opts" <=> stage' = "opts")
  <2>1. Reads' = Reads BY <1>2 DEF Reads, tlsReads, saslReads
  <2>2. \A s : Given(s)' = Given(s) BY DEF Given
  <2> QED BY <1>2, <2>1, <2>2 DEF AllWell
<1> QED BY <1>1, <1>2

(* Reading a file while nothing has happened gives the old secret.         *)
LEMMA ReadNextWell ==
  ASSUME SInv, ~Reason, ReadNext, TypeOK'
  PROVE  AllWell'
<1> DEFINE i == Len(have) + 1
           x == source(Reads[i])
           Old(j) == IF Given(Reads[j]) THEN "old" ELSE "none"
           read == Append(have, x)
<1>1. TypeOK /\ AllWell /\ Acceptable BY DEF SInv, Reason
<1>2. i \in 1..Len(Reads) /\ read \in Versions BY <1>1, ReadNextType
<1>3. x = Old(i) BY <1>1, <1>2, SourceOld
<1>4. have \in Versions /\ Len(have) \in Nat /\ Len(Reads) \in Nat
  BY <1>1, ReadsAre DEF TypeOK, Versions
<1>5. Len(read) = i /\ \A j \in 1..i : read[j] = IF j = i THEN x ELSE have[j]
  <2> HIDE DEF x
  <2> QED BY <1>4 DEF Versions
<1>6. \A j \in 1..i : read[j] = Old(j)
  <2> HIDE DEF x, read, Old
  <2>1. \A j \in 1..Len(have) : have[j] = Old(j) BY <1>1 DEF AllWell, Old
  <2> QED BY <1>3, <1>4, <1>5, <2>1
<1>7. "gone" \notin Range(read)
  <2>1. DOMAIN read = 1..i BY <1>2, <1>5 DEF Versions
  <2> HIDE DEF read, x
  <2> QED BY <1>6, <2>1 DEF Range
<1>8. PairMatches(read)
  <2> SUFFICES ASSUME cfg.tls, Len(read) = 2 PROVE read[1] = read[2]
    BY DEF PairMatches
  <2>1. i = 2 BY <1>5
  <2>2. Len(Reads) >= 2 BY <1>2, <1>4, <2>1
  <2>3. Reads[1] = "cert" /\ Reads[2] = "key" BY <1>1, <2>2, ReadsAre
  <2>4. Given("cert") <=> Given("key") BY <1>1 DEF Acceptable
  <2>5. Old(1) = Old(2) BY <2>3, <2>4
  <2>6. read[1] = Old(1) /\ read[2] = Old(2) BY <1>6, <2>1
  <2> QED BY <2>5, <2>6
<1>9. have' = read /\ UNCHANGED <<stage, conn>>
  BY <1>7, <1>8 DEF ReadNext
<1>10. UNCHANGED <<cfg, topic, met>> BY DEF ReadNext, broker
<1>11. Reads' = Reads /\ \A s : Given(s)' = Given(s)
  BY <1>9, <1>10 DEF Reads, tlsReads, saslReads, Given
<1> HIDE DEF x, read
<1>12. Len(have') <= Len(Reads') BY <1>2, <1>4, <1>5, <1>9, <1>11
<1>13. \A j \in 1..Len(have') : (have[j] = IF Given(Reads[j]) THEN "old" ELSE "none")'
  <2>1. Reads' = Reads /\ cfg' = cfg BY <1>10, <1>11
  <2> QED BY <2>1, <1>5, <1>6, <1>9 DEF Given
<1> QED BY <1>1, <1>9, <1>10, <1>12, <1>13 DEF AllWell

(* With the old secrets, and nothing revoked, the broker lets the attempt  *)
(* in.                                                                     *)
LEMMA HandshakeWell ==
  ASSUME SInv, ~Reason, Handshake, TypeOK'
  PROVE  AllWell'
<1>1. TypeOK /\ AllWell /\ Acceptable /\ ~revoked BY DEF SInv, Reason
<1>2. stage # "opts" /\ Len(have) = Len(Reads) BY DEF Handshake
<1>3. Authentic
  <2> SUFFICES ASSUME cfg.mechanism = "plain"
               PROVE  have[Len(have) - 1] = have[Len(have)]
    BY <1>1 DEF Authentic
  <2>1. /\ Len(Reads) \in Nat /\ Len(Reads) >= 2
        /\ Reads[Len(Reads) - 1] = "username" /\ Reads[Len(Reads)] = "password"
    BY <1>1, <1>2, ReadsAre
  <2>2. saslReads = <<"username", "password">> BY DEF saslReads
  <2>3. "username" \in Range(saslReads) /\ "password" \in Range(saslReads)
    <3>1. saslReads[1] = "username" /\ saslReads[2] = "password" /\ DOMAIN saslReads = 1..2
      BY <2>2
    <3> QED BY <3>1 DEF Range
  <2>4. Given("username") /\ Given("password") BY <1>1, <2>3 DEF Acceptable, OneWay, Given
  <2>5. Len(have) - 1 \in 1..Len(have) /\ Len(have) \in 1..Len(have) BY <1>2, <2>1
  <2> QED BY <1>1, <1>2, <2>1, <2>4, <2>5 DEF AllWell
<1>4. conn = "reading" /\ conn' = "up" /\ have' = << >> /\ UNCHANGED <<stage, cfg, topic>>
  BY <1>3 DEF Handshake, broker
<1> QED BY <1>1, <1>4, WellKept DEF AllWell

(* Every step keeps all well, or one of the reasons for failing has come   *)
(* about.                                                                  *)
LEMMA WellNext ==
  ASSUME SInv, [Next]_vars
  PROVE  Reason' \/ AllWell'
<1> SUFFICES ASSUME ~Reason' PROVE AllWell'
  OBVIOUS
<1>0. TypeOK /\ TypeOK' /\ ~Reason /\ AllWell /\ Acceptable
  BY TypeNext, ReasonStays DEF SInv, Reason
<1>a. /\ stage = "failed" \/ conn = "broken" => "denied" \in met
      /\ stage = "failed" => conn = "down"
      /\ topic # "wrong" /\ "late" \notin met /\ "done" \notin met /\ ~deleted /\ cfg.options
      /\ stage = "describe" => topic = "right"
      /\ topic \in {"absent", "right", "wrong"}
      /\ \A s \in Secret : file[s] = "old"
  BY <1>0 DEF AllWell, Reason, TypeOK
<1>b. topic' # "wrong" /\ "late" \notin met' /\ "done" \notin met' /\ ~deleted' BY DEF Reason
<1> USE DEF secrets, broker
<1>1. ASSUME NEW s \in Secret, Rotate(s) PROVE AllWell' BY <1>0, <1>1, <1>a, WellKept DEF Rotate
<1>2. CASE Revoke BY <1>0, <1>2, <1>a, WellKept DEF Revoke
<1>3. CASE Dial BY <1>0, <1>3, <1>a, WellKept DEF Dial
<1>4. CASE ReadNext BY <1>0, <1>4, ReadNextWell
<1>5. CASE Handshake BY <1>0, <1>5, HandshakeWell
<1>6. CASE Drop BY <1>0, <1>6, <1>a, WellKept DEF Drop
<1>7. CASE CheckConfig
  <2>1. have = << >> BY <1>7 DEF CheckConfig, SInv, Forgotten
  <2> QED BY <1>0, <1>7, <1>a, <2>1, WellKept DEF CheckConfig
<1>8. CASE NewClient
  <2>1. \A s \in Range(saslReads) : source(s) # "gone"
    <3>1. cfg.mechanism \in {"none", "plain", "oauthbearer", "other"}
      BY <1>0 DEF TypeOK, ConfigOf, Mechanism
    <3>2. saslReads \in {<< >>, <<"token">>, <<"username", "password">>} BY <3>1 DEF saslReads
    <3>3. Range(saslReads) \subseteq Secret BY <3>2 DEF Range, Secret
    <3> QED BY <1>0, <1>a, <3>3, SourceTypes
  <2>2. stage' \in {"create", "bounds"} /\ conn' = "down" /\ have' = << >>
    BY <1>8, <1>a, <2>1 DEF NewClient
  <2> QED BY <1>0, <1>8, <1>a, <2>2, WellKept DEF NewClient
<1>9. CASE CreateTopic BY <1>0, <1>9, <1>a, WellKept DEF CreateTopic, refuses, fails
<1>10. CASE CreateLost BY <1>0, <1>10, <1>a, WellKept DEF CreateLost
<1>11. CASE DescribeTopic BY <1>0, <1>11, <1>a, WellKept DEF DescribeTopic, refuses, fails
<1>12. CASE GiveUp BY <1>0, <1>12, <1>a, WellKept DEF GiveUp, fails
<1>13. CASE ListBounds BY <1>0, <1>13, <1>a, WellKept DEF ListBounds
<1>14. CASE Deadline BY <1>14, <1>b DEF Deadline
<1>15. CASE BoundsFail BY <1>15, <1>a DEF BoundsFail
<1>16. CASE RefuseRecord BY <1>16, <1>a DEF RefuseRecord
<1>17. ASSUME NEW kind \in {"right", "wrong"}, Others(kind) PROVE AllWell'
  BY <1>0, <1>17, <1>a, WellKept DEF Others
<1>18. CASE Elect BY <1>0, <1>18, <1>a, WellKept DEF Elect
<1>19. CASE Delete BY <1>19, <1>b DEF Delete
<1>20. CASE AttemptFails BY <1>0, <1>20, <1>a, WellKept DEF AttemptFails, breaks
<1>21. CASE Cancel BY <1>21, <1>b DEF Cancel
<1>22. CASE LoopEnds BY <1>22, <1>a DEF LoopEnds
<1>23. CASE UNCHANGED vars BY <1>0, <1>23, <1>a, WellKept DEF vars
<1> QED
  BY <1>1, <1>2, <1>3, <1>4, <1>5, <1>6, <1>7, <1>8, <1>9, <1>10, <1>11, <1>12, <1>13,
     <1>14, <1>15, <1>16, <1>17, <1>18, <1>19, <1>20, <1>21, <1>22, <1>23 DEF Next

(* As long as nothing is wrong no attempt fails and Run goes on, unless    *)
(* denied; and EnsureTopic leaves no topic without LogAppendTime.          *)
THEOREM StartupInvariant == Spec => []SInv
<1>1. SInv /\ [Next]_vars => SInv'
  <2> SUFFICES ASSUME SInv, [Next]_vars PROVE SInv'
    OBVIOUS
  <2>1. TypeOK' BY TypeNext DEF SInv
  <2> QED BY <2>1, SeenNext, WellNext DEF SInv
<1> QED BY <1>1, SInvInit, PTL DEF Spec

(* Run fails only for what is wrong with the configuration, the secrets or *)
(* the topic, when denied, late or told to: others that start at the same  *)
(* time, lost answers and lost connections do not end it (clientOpts,      *)
(* EnsureTopic, partitionBounds).                                          *)
THEOREM EndsForReason == Spec => []FailsForReason
<1>1. SInv => FailsForReason
  BY DEF SInv, Reason, AllWell, FailsForReason
<1> QED BY <1>1, StartupInvariant, PTL

(* Whoever created the topic, a candidate asked to see to it joins only    *)
(* one with LogAppendTime (EnsureTopic).                                   *)
THEOREM RightTopic == Spec => []JoinsRightTopic
<1>1. SInv => JoinsRightTopic
  BY DEF SInv, TopicSeen, JoinsRightTopic
<1> QED BY <1>1, StartupInvariant, PTL
=============================================================================
