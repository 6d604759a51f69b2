------------------------------ MODULE Startup ------------------------------
(***************************************************************************)
(* How a candidate gets to the log: the connection and its secrets         *)
(* (lease/auth.go), the topic (lease/topic.go) and the steps of Run that   *)
(* come before the loop (lease/candidate.go), while somebody rotates the   *)
(* secrets file by file and others create, misconfigure or delete the      *)
(* topic.                                                                  *)
(*                                                                         *)
(* A secret has an old and a new version.  The CA is read as certificate   *)
(* and key are and is left out; the SCRAM mechanisms read what PLAIN does. *)
(* The client library tries a request again over a new connection when the *)
(* old one is lost, and gives it up some time after attempts to connect    *)
(* began to fail.                                                          *)
(***************************************************************************)
EXTENDS Naturals, Sequences, Functions

CONSTANT Configs  \* the configurations to start with

Secret    == {"cert", "key", "username", "password", "token"}
Mechanism == {"none", "plain", "oauthbearer", "other"}

(* src: for each secret, whether it is given inline, as a file, or both.   *)
(* options: whether the library accepts the other options.                 *)
ConfigOf ==
  [tls : BOOLEAN, mechanism : Mechanism, createTopic : BOOLEAN, options : BOOLEAN,
   src : [Secret -> SUBSET {"inline", "file"}]]

ASSUME ConfigsAssumption == Configs \subseteq ConfigOf

VARIABLES
  cfg,      \* the configuration
  file,     \* the files: "old", "new", or "gone" between the two
  revoked,  \* the broker has stopped to accept the old version
  stage,    \* where Run is
  conn,     \* the connection: "down", "reading" secrets, "up", "broken" (an attempt failed)
  have,     \* the secrets that this attempt has read, in order
  topic,    \* "absent", "right" (LogAppendTime) or "wrong"
  leader,   \* the partition has a leader
  deleted,  \* somebody has deleted the topic; once at most
  met       \* what may end Run: "late" once the deadline of partitionBounds
            \* has passed, "done" once the context is, "denied" since the
            \* broker could not be reached or refused something

secrets == <<file, revoked>>
broker  == <<topic, leader, deleted>>
vars    == <<cfg, secrets, stage, conn, have, broker, met>>

Init ==
  /\ cfg \in Configs
  /\ file = [s \in Secret |-> "old"] /\ revoked = FALSE
  /\ stage = "check" /\ conn = "down" /\ have = << >>
  /\ topic = "absent" /\ leader = FALSE /\ deleted = FALSE /\ met = {}

-----------------------------------------------------------------------------
(* Secrets.                                                                *)

Given(s)  == cfg.src[s] # {}
OneWay(s) == cfg.src[s] \in {{"inline"}, {"file"}}

(* The secrets that the TLS config and the SASL mechanism read, in order.  *)
tlsReads  == IF cfg.tls THEN <<"cert", "key">> ELSE << >>
saslReads ==
  CASE cfg.mechanism = "plain" -> <<"username", "password">>
    [] cfg.mechanism = "oauthbearer" -> <<"token">>
    [] OTHER -> << >>

(* The configurations that are refused whatever the files hold are those   *)
(* with TLS material but no TLS, with half a client certificate, with      *)
(* SASL secrets but no mechanism or an unknown one, without a secret the   *)
(* mechanism needs, or with one given in two ways.                         *)
Acceptable ==
  /\ IF cfg.tls
     THEN /\ Given("cert") <=> Given("key")
          /\ Given("cert") => OneWay("cert") /\ OneWay("key")
     ELSE ~Given("cert") /\ ~Given("key")
  /\ cfg.mechanism # "other"
  /\ cfg.mechanism = "none" => ~Given("username") /\ ~Given("password") /\ ~Given("token")
  /\ \A s \in Range(saslReads) : OneWay(s)

(* Bug: a secret is what it was when the process started.                  *)
BugSource(s) == IF Given(s) THEN "old" ELSE "none"

(* pemSource, and the getter that secretSource returns.                    *)
source(s) ==
  CASE cfg.src[s] = {"inline"} -> "old"
    [] cfg.src[s] = {"file"} -> file[s]
    [] OTHER -> "none"

(* Whoever renews the secrets replaces one file after the other.           *)
Rotating == stage \notin {"check", "failed", "stopped"}

Rotate(s) ==
  /\ Rotating /\ "file" \in cfg.src[s] /\ file[s] # "new"
  /\ file' = [file EXCEPT ![s] = IF @ = "old" THEN "gone" ELSE "new"]
  /\ UNCHANGED <<cfg, revoked, stage, conn, have, broker, met>>

Revoke ==
  /\ Rotating /\ ~revoked
  /\ revoked' = TRUE
  /\ UNCHANGED <<cfg, file, stage, conn, have, broker, met>>

-----------------------------------------------------------------------------
(* The connection.                                                         *)

Reads == IF stage = "opts" THEN tlsReads ELSE tlsReads \o saslReads

fails == stage' = "failed" /\ conn' = "down" /\ have' = << >>

(* An attempt fails; in clientOpts that ends Run.                          *)
breaks ==
  IF stage = "opts" THEN fails ELSE conn' = "broken" /\ have' = << >> /\ UNCHANGED stage

(* The library opens a connection when a request or a fetch needs one.     *)
Dial ==
  /\ stage \in {"create", "describe", "bounds", "loop"}
  /\ conn \in {"down", "broken"}
  /\ conn' = "reading" /\ have' = << >>
  /\ UNCHANGED <<cfg, secrets, stage, broker, met>>

(* X509KeyPair, once both are read.                                        *)
PairMatches(read) == cfg.tls /\ Len(read) = 2 => read[1] = read[2]

ReadNext ==
  /\ conn = "reading" /\ Len(have) < Len(Reads)
  /\ LET read == Append(have, source(Reads[Len(have) + 1]))
     IN  IF "gone" \in Range(read) \/ ~PairMatches(read)
         THEN breaks
         ELSE have' = read /\ UNCHANGED <<stage, conn>>
  /\ UNCHANGED <<cfg, secrets, broker, met>>

(* What the broker accepts: a user name with its own password, and nothing *)
(* that has been revoked.                                                  *)
Authentic ==
  /\ cfg.mechanism = "plain" => have[Len(have) - 1] = have[Len(have)]
  /\ revoked => "old" \notin Range(have)

(* An attempt that gets through ends a series of failed ones.              *)
Handshake ==
  /\ stage # "opts" /\ conn = "reading" /\ Len(have) = Len(Reads)
  /\ IF Authentic
     THEN conn' = "up" /\ have' = << >> /\ met' = met \ {"denied"} /\ UNCHANGED stage
     ELSE breaks /\ UNCHANGED met
  /\ UNCHANGED <<cfg, secrets, broker>>

(* The network fails DialContext, once the TLS config is read; or the      *)
(* broker turns the client away for a reason of its own.                   *)
AttemptFails ==
  /\ stage # "opts" /\ conn = "reading" /\ Len(have) \in {Len(tlsReads), Len(Reads)}
  /\ breaks
  /\ met' = met \cup {"denied"}
  /\ UNCHANGED <<cfg, secrets, broker>>

Drop ==
  /\ conn = "up"
  /\ conn' = "down"
  /\ UNCHANGED <<cfg, secrets, stage, have, broker, met>>

-----------------------------------------------------------------------------
(* Run up to the loop.                                                     *)

(* clientOpts checks the configuration, then builds a TLS config ...       *)
CheckConfig ==
  /\ stage = "check"
  /\ IF Acceptable
     THEN stage' = "opts" /\ conn' = "reading" /\ UNCHANGED have
     ELSE fails
  /\ UNCHANGED <<cfg, secrets, broker, met>>

(* ... and looks whether the files of the SASL secrets are there; then the *)
(* library checks its options.                                             *)
NewClient ==
  /\ stage = "opts" /\ Len(have) = Len(Reads)
  /\ IF ~cfg.options \/ \E s \in Range(saslReads) : source(s) = "gone"
     THEN fails
     ELSE /\ stage' = IF cfg.createTopic THEN "create" ELSE "bounds"
          /\ conn' = "down" /\ have' = << >>
  /\ UNCHANGED <<cfg, secrets, broker, met>>

(* The broker answers with an error.                                       *)
refuses == fails /\ met' = met \cup {"denied"}

(* Bug: a topic that exists is an error like any other.                    *)
BugCreateTopic ==
  /\ stage = "create" /\ conn = "up"
  /\ \/ /\ topic = "absent"
        /\ topic' = "right" /\ leader' = FALSE /\ stage' = "bounds"
        /\ UNCHANGED <<conn, have, met>>
     \/ topic # "absent" /\ fails /\ UNCHANGED <<topic, leader, met>>
     \/ refuses /\ UNCHANGED <<topic, leader>>
  /\ UNCHANGED <<cfg, secrets, deleted>>

(* The topic is created, exists already, or the broker refuses to create   *)
(* it for any other reason.                                                *)
CreateTopic ==
  /\ stage = "create" /\ conn = "up"
  /\ \/ /\ topic = "absent"
        /\ topic' = "right" /\ leader' = FALSE /\ stage' = "bounds"
        /\ UNCHANGED <<conn, have, met>>
     \/ /\ topic # "absent"
        /\ stage' = "describe" /\ UNCHANGED <<topic, leader, conn, have, met>>
     \/ refuses /\ UNCHANGED <<topic, leader>>
  /\ UNCHANGED <<cfg, secrets, deleted>>

(* The broker creates it, and the answer is lost with the connection.      *)
CreateLost ==
  /\ stage = "create" /\ conn = "up" /\ topic = "absent"
  /\ topic' = "right" /\ leader' = FALSE /\ conn' = "down"
  /\ UNCHANGED <<cfg, secrets, stage, have, deleted, met>>

(* Bug: an existing topic is taken as it is.                               *)
BugDescribeTopic ==
  /\ stage = "describe" /\ conn = "up"
  /\ stage' = "bounds"
  /\ UNCHANGED <<cfg, secrets, conn, have, broker, met>>

(* The broker reports LogAppendTime, something else, or an error: that it  *)
(* may not be asked, or nothing about the timestamps.                      *)
DescribeTopic ==
  /\ stage = "describe" /\ conn = "up"
  /\ \/ topic = "right" /\ stage' = "bounds" /\ UNCHANGED <<conn, have, met>>
     \/ topic # "right" /\ fails /\ UNCHANGED met
     \/ refuses
  /\ UNCHANGED <<cfg, secrets, broker>>

(* The library gives the request up, or the context is done, and           *)
(* EnsureTopic returns the error.                                          *)
GiveUp ==
  /\ stage \in {"create", "describe"} /\ (conn = "broken" \/ "done" \in met)
  /\ fails
  /\ UNCHANGED <<cfg, secrets, broker, met>>

Bounded == conn = "up" /\ topic # "absent" /\ leader

ListBounds ==
  /\ stage = "bounds" /\ Bounded
  /\ stage' = "loop"
  /\ UNCHANGED <<cfg, secrets, conn, have, broker, met>>

Deadline ==
  /\ stage = "bounds" /\ "late" \notin met
  /\ met' = met \cup {"late"}
  /\ UNCHANGED <<cfg, secrets, stage, conn, have, broker>>

(* Bug: it goes on trying.                                                 *)
BugBoundsFail ==
  /\ stage = "bounds" /\ conn \in {"up", "broken"} /\ ~Bounded
  /\ UNCHANGED vars

(* listBounds has no answer, or an error for one, of which there are more  *)
(* than a missing leader: again in 200 ms, unless the deadline has passed  *)
(* or the context is done.                                                 *)
BoundsFail ==
  /\ stage = "bounds"
  /\ \/ conn \in {"up", "broken"} /\ "late" \in met
     \/ "done" \in met
  /\ fails
  /\ UNCHANGED <<cfg, secrets, broker, met>>

(* Whoever runs the candidate cancels the context of Run; the loop ends    *)
(* without an error then.                                                  *)
Cancel ==
  /\ stage \notin {"failed", "stopped"} /\ "done" \notin met
  /\ met' = met \cup {"done"}
  /\ UNCHANGED <<cfg, secrets, stage, conn, have, broker>>

LoopEnds ==
  /\ stage = "loop" /\ "done" \in met
  /\ stage' = "stopped" /\ conn' = "down" /\ have' = << >>
  /\ UNCHANGED <<cfg, secrets, broker, met>>

(* consume refuses a record that has no LogAppendTime.                     *)
RefuseRecord ==
  /\ stage = "loop" /\ conn = "up" /\ topic = "wrong"
  /\ fails
  /\ UNCHANGED <<cfg, secrets, broker, met>>

-----------------------------------------------------------------------------
(* The others: another candidate, or an administrator, creates the topic;  *)
(* the controller elects a leader; the topic is deleted.                   *)

Others(kind) ==
  /\ Rotating /\ topic = "absent"
  /\ topic' = kind /\ leader' = FALSE
  /\ UNCHANGED <<cfg, secrets, stage, conn, have, deleted, met>>

Elect ==
  /\ topic # "absent" /\ ~leader
  /\ leader' = TRUE
  /\ UNCHANGED <<cfg, secrets, stage, conn, have, topic, deleted, met>>

Delete ==
  /\ Rotating /\ topic # "absent" /\ ~deleted
  /\ topic' = "absent" /\ leader' = FALSE /\ deleted' = TRUE
  /\ UNCHANGED <<cfg, secrets, stage, conn, have, met>>

Next ==
  \/ \E s \in Secret : Rotate(s)
  \/ Revoke
  \/ Dial \/ ReadNext \/ Handshake \/ AttemptFails \/ Drop
  \/ CheckConfig \/ NewClient
  \/ CreateTopic \/ CreateLost \/ DescribeTopic \/ GiveUp
  \/ ListBounds \/ Deadline \/ BoundsFail \/ RefuseRecord
  \/ Cancel \/ LoopEnds
  \/ \E kind \in {"right", "wrong"} : Others(kind)
  \/ Elect \/ Delete
  \/ stage \in {"failed", "stopped"} /\ UNCHANGED vars

(* The step of an attempt by which the network has let it through.         *)
Answered == ReadNext /\ Len(have) >= Len(tlsReads)

(* The process runs, and the library tries to connect for as long as it is *)
(* asked to.  An attempt may fail and a connection be lost at any time,    *)
(* but not every attempt at the same point, and not every connection       *)
(* before the request that it was opened for; and no request is tried for  *)
(* ever.                                                                   *)
Fairness ==
  /\ WF_vars(CheckConfig \/ NewClient)
  /\ WF_vars(Dial) /\ WF_vars(ReadNext) /\ SF_vars(Answered) /\ SF_vars(Handshake)
  /\ SF_vars(CreateTopic) /\ SF_vars(DescribeTopic) /\ SF_vars(GiveUp)
  /\ SF_vars(ListBounds) /\ WF_vars(Deadline) /\ SF_vars(BoundsFail)

Spec == Init /\ [][Next]_vars /\ Fairness

-----------------------------------------------------------------------------
(* Properties.                                                             *)

(* Run returns an error before the loop for what is wrong with the         *)
(* configuration, the secrets or the topic, because the broker refused     *)
(* something or could not be reached, because time is up or because it is  *)
(* told to: not because others start, and create the topic, at the same    *)
(* time, because the answer to the creation was lost, or because an        *)
(* established connection was (clientOpts, EnsureTopic, partitionBounds).  *)
FailsForReason ==
  stage = "failed" =>
    \/ ~Acceptable \/ ~cfg.options
    \/ revoked \/ \E s \in Secret : file[s] # "old"
    \/ topic = "wrong" \/ deleted
    \/ met # {}

(* A candidate that was asked to see to the topic joins one with           *)
(* LogAppendTime, whoever created it and when (EnsureTopic).               *)
JoinsRightTopic ==
  stage = "loop" /\ cfg.createTopic /\ ~deleted => topic = "right"

(* Run does not hang before the loop: it joins or returns an error         *)
(* (partitionBounds has a deadline, and the library's requests too).       *)
JoinsOrFails == <>(stage \in {"loop", "failed", "stopped"})

(* Renewed secrets are taken up without a restart: once every file is new, *)
(* a candidate that had joined has a connection again, even if the attempt *)
(* under way read a file of either version, and even if the old version is *)
(* revoked.  Only a topic without LogAppendTime ends it, or a stop (dial,  *)
(* config, credentials).                                                   *)
Renewed ==
  \A s \in Range(tlsReads \o saslReads) : Given(s) => cfg.src[s] = {"file"} /\ file[s] = "new"

Reconnects ==
  (stage = "loop" /\ Renewed) ~>
    (conn = "up" \/ stage = "stopped" \/ (stage = "failed" /\ (topic = "wrong" \/ deleted)))
=============================================================================
