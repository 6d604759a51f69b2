# Verification of kfklease

kfklease elects one active participant per lease through a single Kafka
partition: candidates write `claim`, `renew` and `release` records, every
reader folds the log into the same lease state, and a holder believes in its
lease until a deadline that it can keep without talking to anybody.  This
directory models that protocol, its client, the scaler process around it, how
it starts up and the example workload in TLA+; model-checks the models with TLC
on small instances; and proves their safety with TLAPS for every instance (the
protocol's: every instance without compaction).

## The system

| Part | State | Operations | Code |
|---|---|---|---|
| Record codec | none | `EncodeValue`, `DecodeValue`, `term` | `lease/record.go` |
| View | `certain`, `state`, `clock`, `lastOffset`, `seen`, `pending` | `Apply`, `Gap`, `Quiet` | `lease/view.go` |
| Agent | view, position, high watermark, request in flight, remembered verdicts, belief (deadline, epoch), timers | `fetched`, `fetchFailed`, `record`, `acked`, `tick`, `release`, `status` | `lease/agent.go` |
| Candidate | published status and deadline, Changed channel, results channel | `Run`: client, topic, `bootstrap`, then poll, drain, tick, produce, publish; `shutdown`; `Status`, `Changed` | `lease/candidate.go` |
| Broker partition | log, leader's clock, log start, requests on their way | append with LogAppendTime, compaction, leader change | external |
| KEDA server | per stream: last value sent, heartbeat ticker | `StreamIsActive`, `IsActive`, `GetMetrics` | `scaler/server.go` |
| HTTP server | `lastHolding`, transition counters | `Watch`, `note`, `GET /status`, metrics | `scaler/http.go` |
| Scaler process | context, `runErr` and `serveErr` channels, servers, health | `run`: start, select over Run, servers and signal, three ways out | `cmd/kfklease-scaler/main.go` |
| Topic setup | the topic on the broker | `EnsureTopic` | `lease/topic.go` |
| Authentication | secret files, read at every connect | `clientOpts`, `dial`, `config`, the SASL getters | `lease/auth.go` |
| Heartbeat example | status answer, records under way | `beat`, `status`, `report`, `summarize` | `examples/heartbeat/main.go` |

The candidate's goroutine owns the agent and feeds it: records and fetch
results from a poll, acknowledgements from the results channel, and the time.
What the agent hands out is produced to the partition.  After a poll and after
a tick the belief is published under a mutex and a signal is put into a channel
with room for one.  Every StreamIsActive call and `HTTP.Watch` receive from
that one channel.  Participants interact through the log only.  The process
waits for Run, for a server to fail and for a signal in one select; it stops Run
through the context and waits for it in every way out but the one that Run's
return began.  Secrets are read again for every connection.  The workload asks
its scaler over HTTP and puts the epoch it was told into its records.

What is hard here:

* a request that the client gave up on may still land, next to its successor;
* acknowledgement and read-back of a record arrive in either order, with other
  records in between;
* a process may be frozen anywhere, and its published belief stays readable;
* readers start anywhere in a compacted log and fall into holes, and must
  neither trust what they cannot know nor wait for ever;
* time comes from local clocks and from the clocks of changing leaders;
* readers of the status compete for one signal;
* a signal, a server's failure and Run's return meet in one select, and the
  graceful stop waits for clients;
* candidates start at once and create one topic; answers get lost; somebody
  else's topic has the wrong settings;
* secrets are replaced file by file while connections come and go;
* a workload checks its status and writes later.

What makes each part correct:

* **View**: a term ends by its holder's release or by expiry, epochs grow, and a
  reader that is certain has the state of the whole log wherever it started.
* **Agent and candidate**: no two candidates report Holding at the same
  instant; the epoch fences; a belief is backed by a term in the log that
  outlives it; a request is settled by its own verdict, exactly when
  acknowledgement and record are both there; a release comes after the belief.
* **The lease as a whole**: a term goes to one participant and has a higher
  epoch than those before; terms change only while nobody reports Holding.
* **Scaler**: KEDA learns every lasting change; counters count real changes.
* **Process**: no way out leaves the lease behind; a stop that meets no failure
  is a success; nothing waits for ever but for a client.
* **Startup**: Run joins or fails, fails only for a reason, joins the right kind
  of topic, and gets back to the log with renewed secrets.
* **Workload**: what a consumer that fences by epoch accepts comes from one
  cluster after the other, and the report measures the records there are.

`PROJECT.json` lists the hazards at their lines with the properties that would
notice them going wrong.

## Modules

| Module | Models | Uses |
|---|---|---|
| `Lease` | what a lease promises: the abstract specification | |
| `LeaseRecord` | records and their wire form | |
| `LeaseView` | the view, as operators from view to view | `LeaseRecord` |
| `LeaseAgent` | the agent, as operators from agent to agent | `LeaseView` |
| `LeaseProtocol` | candidates and broker: the state machine; implements `Lease` | `LeaseAgent`, `Lease` |
| `LateReaders` | `LeaseProtocol` and a reader for every offset | `LeaseProtocol` |
| `Scaler` | Changed channel, streams, HTTP counters | |
| `ScalerProcess` | a process from start to exit, with the goroutines of `Scaler` inside | `Scaler` |
| `Startup` | secrets, connection, topic, Run up to its loop | |
| `Heartbeat` | workloads and their report, on the abstract lease | `Lease` |
| `MCLeaseProtocol`, `MCLateReaders`, `MCStartup` | what TLC needs: symmetry, state view, foreign values, configurations | |
| `Induction` | a set of numbers has a least element; recursions define functions | |
| `LeaseHistoryProofs` | lemmas about one step of the fold and about the whole log | `LeaseProtocol` |
| `LeaseAgentProofs` | the agent's invariant, operation by operation | `LeaseHistoryProofs` |
| `LeaseProtocolProofs` | the inductive invariant, the theorems, the refinement of `Lease` | `LeaseAgentProofs`, `Induction` |
| `LateReadersProofs` | late readers agree with the whole log | `LeaseProtocolProofs`, `LateReaders` |
| `ScalerProcessProofs`, `HeartbeatProofs`, `StartupProofs` | safety of these modules | the module |

Definitions keep the names of the Go code.  A Go method that changes its
receiver is an operator that returns the changed value; one that may hand out
a record returns `[agent, out]`.  `map` in `PROJECT.json` names the lines of
every definition.

### LeaseProtocol

A node is one incarnation of a process; a restart is another node that joins
later, and a node that takes no step is frozen or has crashed.  Actions and
code:

| Action | Code |
|---|---|
| `Join` | `bootstrap`: partition bounds, `newAgent`, first publish |
| `Consume` | `consume` of one record: `fetched`, `record`, then `publish` |
| `PollEnds` | `consume` of a failed or an empty fetch, then `publish` |
| `AckArrives`, `AckFails` | one result drained in `loop`: `acked` |
| `Tick` | `tick`, `produce`, `publish` |
| `Stop`, `WriteRelease` | the context is done: `shutdown` drops the belief and publishes; then it produces the release |
| `Land`, `Foreign`, `Compact`, `LeaderChange`, `Advance` | the broker, other writers and time |

`now` is real time and is what every local clock shows; the leader's clock is
ahead of it by `lead`, which a leader change sets to any value within
`MaxSkew`.  A record carries its time of arrival and the leader's timestamp.
Two history variables help to state properties: `ref`, the views of a reader of
the whole log, and `landed`, the offset of a request in flight once it is in
the log.

Where the model allows more than the code:

* A poll with several records is several `Consume` steps, each publishing; the
  code reads the clock once and publishes once at the end, which is the
  behaviour in which these steps follow each other at once.  Time may pass
  between two steps, never within one: a freeze between reading the clock and
  publishing only makes what is published end earlier relative to the real time.
* A published belief is evaluated at any time, as `Candidate.Status` does.
* After the delivery timeout a request may land at any later time.  The
  simulation in the repository lets it land up to two TTLs late.

Where it allows less: client clocks run at the same rate (no drift), and
`Timely` bounds by `FetchLag` how old the high watermark of a reader is when it
concludes from silence.  With `FetchLag = 0` the reader has just fetched; the
run `frozen_silence` shows what happens otherwise.  What comes
before `Join`, and what can fail there, is in `Startup`: until then a process
never writes.

### Lease

The abstract lease has an owner, an epoch and the set of those who report that
they hold it.  `Grant` starts a term with a higher epoch, `Free` gives one back,
both only while nobody holds; `Start` and `Quit` begin and end the owner's
holding.  `LeaseProtocol` maps owner and epoch to the state that the whole log
shows, and the holders to those whose published deadline is in the future; its
property `ImplementsLease` is the abstract specification under this mapping.
An expired term whose deadline nobody believes in any more stays the owner's
until the next record, as in the code, where expiry is a matter of the reader's
clock.  `Heartbeat` is written on this specification, so what it shows does not
depend on how the lease is kept.

### Scaler

What the protocol publishes is an arbitrary sequence of beliefs here, and a
belief expires by itself.  `setStatus` is two steps, store and signal, as the
mutex is released in between; `note` is two steps, read and swap.  Fairness:
weak fairness of the steps of goroutines that can run (Go's scheduler), of the
heartbeat ticker, and of the candidate's loop, which publishes an expired
belief in its next round.  Receiving from the channel is weakly fair for each
receiver, because Go's `select` does not starve a ready case but promises
nothing about which of several receivers is served.  Nobody has to open or
close a stream, ask for the status or acquire the lease.

### ScalerProcess

| Action | Code |
|---|---|
| `SetupFails`, `Launch` | `run`: flags, listeners, `NewCandidate`; the goroutines start |
| `SelectRun`, `SelectServe`, `SelectCtx`, `Park` | the select |
| `RunCase` | `case err := <-runErr`: `gs.Stop`, an error |
| `ServeCase`, `ServeWait` | `case err := <-serveErr`: stop, wait for Run |
| `CtxCase`, `CtxWait`, `Drain` | `case <-ctx.Done()`: not serving, wait for Run, `GracefulStop` |
| `Interrupt`, `ServeFails` | a signal; a server's `Serve` returns |
| `BootFails`, `Joined`, `Publish`, `LoopEnds`, `RunEnds` | `Candidate.Run`: bootstrap, loop, `shutdown`, return |
| `WatchEnds` and the actions of `Scaler` | Watch and the streams |

A select that finds several channels ready takes any of them; one that finds
none parks and is woken by the first that becomes ready.  That is what tells a
signal to a process at rest (always a clean exit) from one that comes while main
is still on its way to the select.  Fairness: goroutines that can run do, waits
inside Run have timeouts, and strong fairness of the end of the loop, since each
of its rounds looks at the context, between one publish and the next.  Nobody
has to send a signal or to close a stream, so `Terminates` names the one case in
which the process does not end: a client that keeps its stream open.

### Startup

| Action | Code |
|---|---|
| `CheckConfig` | `clientOpts` and what it calls: every refusal |
| `ReadNext`, `NewClient` | the first TLS config; the `Stat` of the SASL files; `kgo.NewClient` |
| `Dial`, `ReadNext`, `Handshake`, `AttemptFails` | `dial`: `config` and the SASL getters, one file at a time; the broker's verdict; the network's, or a broker that turns the client away |
| `CreateTopic`, `CreateLost`, `DescribeTopic`, `GiveUp` | `EnsureTopic` with every error the broker may answer, its request sent again after a lost answer, and given up |
| `ListBounds`, `BoundsFail`, `Deadline` | `partitionBounds`: retries until its deadline, or until the context is done |
| `RefuseRecord` | `consume`: a record without LogAppendTime |
| `Cancel`, `LoopEnds` | the caller's context is done; `loop` returns nil |
| `Rotate`, `Revoke`, `Drop`, `Others`, `Elect`, `Delete` | the administrator, the network, other candidates, the controller |

A file is old, gone, then new: tools that replace files by renaming them skip
the middle, others do not.  An attempt holds the versions it has read so far, so
it may have an old certificate and a new key, which `X509KeyPair` refuses, or an
old user name and a new password, which the broker does.  In `clientOpts` that
ends Run; later the client library tries again.  Fairness: the process runs and
the library dials for as long as a request or the fetch loop needs a
connection (weak); an attempt may fail and a connection be lost at any time, but
not every attempt at the same point, nor every connection before the request it
was opened for is answered, and a request is given up some time (strong).
Without that a network that is down for good keeps a candidate from the log, as
it should.  Nobody has to rotate, create, elect or cancel anything.

`met` records what the candidate met that is neither its configuration nor its
secrets nor the topic: that it was denied something (an attempt to connect, by
the network or the broker, until one gets through; or a request), that its
deadline has passed, that its context is done.  `FailsForReason` says that Run
fails before the loop for one of all these reasons.  What it excludes is the
rest: that others start at the same time and create the topic, that an answer is
lost and the creation is sent again, that the topic has no leader yet.

### Heartbeat

| Action | Code |
|---|---|
| `LeaseStep` | the lease: any step of `Lease` |
| `Ask`, `AskFails` | `status`, and `HTTP.status` on the other side |
| `Beat` | `beat` after the answer: no belief, no write |
| `Land`, `Expire` | the client's delivery: in order, with LogAppendTime, or given up |
| `summarize` | `summarize`, over any suffix of the topic that `report` may be asked for |

The answer a workload has may be of any age when it writes, and so may its
records when they land.  Nothing in the writer prevents records of a term that
is over; the epoch in them does the fencing, and that is what is checked.

## Runs

Two candidates (symmetric) in the runs of the protocol, two clusters in
`heartbeat`, one process in the others; times and log lengths are bounded by
`MaxTime` and `MaxLog`.

| Run | Question | Result |
|---|---|---|
| `takeover` | requests that fail, land late or overlap a successor; stops; takeovers; no margin, perfect clocks | all ten properties hold, the refinement of `Lease` among them |
| `compaction` | joining a truncated log, holes, failing fetches | exclusion, agreement with the whole log, order of `Apply` hold |
| `skew` | leaders' clocks that differ, and a TTL that the wire truncates, by as much as the margin in sum | exclusion and backing hold |
| `foreign` | values of another version or another TTL | they are ignored |
| `late_readers` | a reader at every offset | agrees as soon as it is certain |
| `process` | signals, failing servers, Run ending, at any time; a stream and Watch on one channel | the lease is given up before any wait or exit; exit status; it ends; the stream catches up |
| `startup` | every kind of configuration; rotation, revocation, failing attempts, refusals, lost answers, other creators, deletion, a stop | Run joins or fails, for a reason, on the right topic, and reconnects with new secrets |
| `heartbeat` | answers and records of any age over several terms | fencing by epoch works; the report is right |
| `stop_in_flight` | a stop while a renew is in flight | a late reader disagrees |
| `frozen_silence` | a reader that ticks on an old high watermark | two candidates hold |
| `in_flight_hole` | the record in flight is compacted away | it is never settled |
| `concurrent_notes` | Watch and `GET /status` | transitions that never happened |

Bounds.  A TTL of 2 with `RenewEvery = 1` and no margin is the smallest in
which a holder renews before its term ends; with a margin the TTL is 3.
`MaxTime = 3` or `4` is more than a TTL after the first record, so terms
expire, another candidate claims, and a request that was given up on after a
TTL lands in the new term.  Three records make a claim, a record that races it
and one that depends on both; four where an anchor needs a predecessor.
`MaxChanges = 2` in `process` is a term that is gained and lost, with anything
else in between.
`heartbeat` has three epochs (0 to 2) for two clusters, so a cluster may hold
twice with the other in between, three instants, and four records: two of one
epoch around one of another, and one more.  `skew` has a TTL of 4 of which 3 are
left in the log, a skew of 1, and a margin of 2, which both together use up: with
a margin of 1 TLC finds two holders.  `startup` has the configurations that are
refused, for one reason at a time; those without secrets; and one for each way in
which secrets are read: inline, two files that must match in one config, two
that the broker compares, and one that is read after TLS has got through.  There
is one rotation of each file, one revocation and one deletion, at any time.  The
safety theorems are about all configurations.
Deadlock is not checked where time, log or records just end (the runs of
`LeaseProtocol` and `Heartbeat`); the others are checked for it.

`StateView` in `MCLeaseProtocol` identifies states with the same future: past
deadlines, due timers and broker times past the end of the term are all alike;
what measures silence is dropped for agents that are certain, `landed` and the
verdicts remembered once no request waits for them, and `ref`, which is a
function of `log`.  Without compaction the view of an agent is a function of
the log and its position, which is also part of what is proved.
`TermsEndRightly` and `ImplementsLease` look at `log`, `ref` and the live
deadlines only.

Every property of a passing run is also checked to fail when the code it is
about has a plausible bug: the operators named `Bug...` in the modules.

## What the runs found

* `stop_in_flight`: `shutdown` writes the release although a renew may be in
  flight.  If that renew was rejected, a reader that starts there takes the
  release for a proof of the term.  Writer rule 2 of `docs/protocol.md` ("One
  produce request in flight at a time") is not kept on this path.
* `frozen_silence`: after a freeze the loop ticks with the high watermark and
  the connected flag of the last fetch; an uncertain reader can conclude that
  the lease is free and claim it.
* `in_flight_hole`: when a hole swallows the record in flight, nothing clears
  the request, and the candidate never writes again.
* `concurrent_notes`: `note` is not atomic, and counts transitions twice.

Also met, without a run of their own:

* Timestamps are clamped to what the reader itself has seen, so a reader that
  starts after the clock stepped back judges a record by an earlier time.
  "Readers that started at different points agree as soon as they are certain"
  holds for clocks that do not step back: with `MaxSkew = 1` in
  `MCLateReaders.cfg` TLC finds two that disagree.
* "Never none" (`Candidate.Changed`) is not true of two receivers: a stream may
  take the last signal.  Streams recover with their heartbeat (`StreamFollows`);
  Watch only with the next signal or status request, so
  `<>[](Holding = h) => <>[](lastHolding = h)` fails in `Scaler` with a stream.
* A signal during bootstrap ends with an error, since bootstrap returns the
  context's; `Candidate.Run` is said to return nil after a clean stop.  Likewise
  a signal before main has parked in its select may be reported as
  `candidate stopped`.  `CleanExit` is therefore about a process that is up.
* A rotation that happens during `clientOpts` fails the start, while the same
  mismatch is retried later.  The comment of `clientOpts` says that a bad file fails at
  startup; of the SASL files only the existence is checked.
* Without `CreateTopic` a topic without LogAppendTime is noticed at the first
  record only, so `JoinsRightTopic` is about candidates that see to the topic.
* `Report.Epochs` is documented "in order of first appearance" and is sorted by
  epoch.  `ReportMatches` does not depend on it.

## Proofs

`LeaseProtocolProofs` proves, for every set of candidates, every TTL, margin,
skew, bound, and set of foreign values that satisfies the assumptions in the
modules, and for every set of faults without compaction:

| Theorem | Property | Further assumption |
|---|---|---|
| `TypeCorrect` | `TypeOK` | |
| `Exclusion` | `MutualExclusion` | `SkewWithinMargin` |
| `Fencing` | `FencingToken` | `SkewWithinMargin` |
| `Consistency` | `BeliefMatchesView` | `SkewWithinMargin` |
| `Backing` | `BeliefBackedByLog` | `SkewWithinMargin` |
| `ReleaseIsLast` | `ReleasedNotHolding` | |
| `Settling` | `InFlightAhead` | |
| `InOrder` | `ApplyInOrder` | |
| `TermsEnd` | `TermsEndRightly` | |
| `OneInFlight` | `OneRequestInFlight` | no stop with a request in flight |
| `ForeignValuesInert` | `ForeignIgnored` | |
| `Refinement` | `ImplementsLease` | `SkewWithinMargin` |

and `LateReadersProofs`, also without compaction:

| Theorem | Property | Further assumption |
|---|---|---|
| `LateReaders_Agree` | `LateReadersAgree` | clocks that agree (`MaxSkew = 0`), no stop with a request in flight |

`SkewWithinMargin` is `MaxSkew + TTL - WireTTL(TTL) <= Margin`: the margin has
to cover the difference between leaders' clocks and what the wire's whole
milliseconds cut off the TTL.  The assumptions on the constants are those that
`Config.withDefaults` enforces, that holder names are not empty, and that what
foreigners write is not understood or asks for a longer TTL.

The argument.  None of the properties is inductive: that two candidates do not
hold says nothing about how their beliefs came about.  The invariant `Inv` has
four parts, each an operator of just the values it is about.

1. `HistoryInv` (log): the reference views fold the log; each is certain, its
   clock is within the skew of real time and its term ends within a wire TTL of
   that clock; and from any view to any later one a term is still there with
   the same epoch and no earlier end, or the later clock is past its end, or
   its holder has released (`Persists`).  Appending a record keeps this
   (`HistoryAppend`), by what the fold does with one record (`StepFacts`).
2. `AgentInv` (agents): the view is the reference view at the agent's position;
   remembered verdicts are the log's; the record at `landed` is the request in
   flight, stamped no earlier than it was sent; an acknowledged request is
   ahead, one that was read first has its verdict remembered; and some view up
   to the position shows the believed term, ending no earlier than the belief
   with its margin (`Backed`).  There is one lemma for each agent operation.
3. `NodeInv` (candidates): the same for the published belief; a new or stopped
   candidate, or one that is about to write its release, has none; only a
   stopped one has a release under way or in the log.
4. `RequestInv` (the wire): a request is the one its sender has in flight, or
   was given up on at least a TTL ago and is older than the sender's last one.
   So the request in flight is known by kind and send time, which is what
   `Land` needs.

Then a candidate that reports Holding has a `Backed` deadline in the future;
by `Persists` the log's current state is that very term, since no clock is past
its end and it was not released; and the log has one state.

### Refinement

`Refinement` is `Spec => ImplementsLease`.  By `Inv` whoever holds owns the
term in the log, with the epoch it reports, and is alone (`HoldersOwn`).  A step
that leaves the log alone then starts or ends the owner's holding or changes
nothing (`HoldingStep`).  A step that appends a record cannot change who holds;
if somebody holds before, it holds after, with the same epoch, and owns the
term before and after, so that is the same term: a change of terms comes while
nobody holds, and the epoch of a new one is above the last (`TermChange`).

### Induction over a log

The library's induction theorems take an operator as a parameter, which none of
the provers can instantiate.  The proofs about recursive definitions therefore
go by the least counterexample: `Induction!LeastElement` says that a nonempty
set of natural numbers has a least element (from the library's fact that strict
inclusion of finite sets is well-founded, applied to the intervals `0..m`), and
`RecursionExists` that a recursion over positions defines a function.  A proof
takes the positions at which a claim fails, picks the least, and shows that it
does not fail there.

`ForeignValuesInert`: with clocks that agree, timestamps never decrease
(`Stamped`), so no record is clamped; the fold that skips foreign values then
has the same state as the one that does not at every position, its clock being
the older one at most (`ForeignInert`).  With a skew the property itself says
nothing, since a foreign record still moves the view's clock.

### Late readers

A reader that starts in the middle of the log cannot know who holds.  It keeps
the records that could be of a term, and when a renew or a release names the
term of one of them, takes that one as proven and replays what followed.  This
is sound only because of what writers do, so `LateReadersProofs` has two
invariants.

* Writers (`Terms`): nobody has written a renew or a release of an epoch above
  its own; of any term at most one of them is under way, and while it is,
  everything the log has of that term was accepted (`Clean`); and while an agent
  believes, that is true of its term but for the request in flight, with nothing
  else of the term under way.  A candidate between dropping its belief and
  writing the release has a term that is clean, with nothing under way (`Due`).
  So when a renew or a release lands, every earlier record of its term was
  accepted.  It holds because a participant has one
  request in flight: after a rejected renew it learns the verdict, drops the
  belief and never names the term again, and a request it gives up on has been
  under way for a TTL, so that the belief is over.  The one way around this is a
  stop with a request in flight, whose release follows a renew with an unknown
  verdict: the run `stop_in_flight` shows that the assumption is needed.
* Readers (`ReaderView`): a certain reader's state agrees with the reference
  view at its position; an uncertain one has as pending the latest records that
  could be accepted, in order and without a hole (`PendingInv`); and once it has
  seen a record its clock is the reference's.

For the step (`ReaderStep`): if the next record names the term of a pending
record, that record was accepted by `Terms`, so the state after it is the
reference's, and replaying the pending records follows the reference views
(`Replay`, by the least position at which it would not).  If there was a TTL of
silence, the reference's term has expired.  A certain reader folds the record as
the reference does (`AgreeFolded`).  The clocks must agree because a timestamp
is clamped to what the reader itself has seen.

### Process, workload, startup

| Theorem | Property | For |
|---|---|---|
| `ScalerProcessProofs!Released` | `LeavesReleased` | any number of streams, requests and changes |
| `ScalerProcessProofs!ExitsCleanly` | `CleanExit` | the same |
| `HeartbeatProofs!Handover` | `FencedHandover` | any clusters, epochs, times and records |
| `HeartbeatProofs!ReportTrue` | `ReportMatches` | the same, and any start of the report |
| `StartupProofs!EndsForReason` | `FailsForReason` | any set of configurations |
| `StartupProofs!RightTopic` | `JoinsRightTopic` | the same |

* `ProcInv`: main waits for clients or has exited only after Run is done, an
  error in `runErr` means that it is, and a Run that is not in its loop has
  dropped the belief (`RunInv`); a process that has met no trouble is on one of
  two paths, not told to stop or told while it was parked (`TroubleInv`).  The
  latter is needed because an exit status says nothing about how it came about.
* `HInv`: an epoch that an answer, a queue or the topic uses has been granted,
  and to one cluster only; if it is the current one, to the owner
  (`EpochsOwned`).  An answer may be older than any number of terms, so this has
  to cover what is under way and not just the topic.
* `RInv`: `HInv`, and the topic is in the order of the broker's clock, with no
  epoch below the fence's first value (`Readable`).  What is left of such a topic
  after `since` is like that too (`SinceReadable`), and counting it record by
  record gives each epoch the span from its first to its last record and the
  number of fenced records (`Tally`, `Counted`).  That there is an overlap: take
  the lowest epoch that began before the late record; its neighbour below is the
  late record's epoch or began after it, so the two overlap.  How long it is:
  the first record of the one and the last of the other are such a pair, and no
  pair of records of the two epochs is further apart.  For the gap, without
  late records the epochs are sorted, and neighbouring epochs meet in two
  consecutive records.
* `SInv`: something that `FailsForReason` names, other than a denial, has
  happened, or all is well: what the attempt under way has read are the old
  secrets, one by one, and an attempt or Run has failed only if it was denied
  (`AllWell`); and once past `EnsureTopic` the topic is the right one unless
  somebody deleted it (`TopicSeen`).

### Only model-checked

* Candidates on a log with compaction (`compaction`): `AgentsAgree`, and the
  other properties of that run as far as compaction goes.  That an uncertain view is
  right once it is certain is proved for late readers, who only read; candidates
  that are uncertain in between also write, and conclude from silence by their
  own clocks.
* Liveness: `StreamFollows`, `Terminates`, `JoinsOrFails`, `Reconnects`;
  fairness is out of the prover's reach.

## Not modelled

* Client clocks that drift: all local clocks run at the rate of real time.
* The CA file, which is read as certificate and key are; the differences between
  the SCRAM mechanisms and PLAIN.
* IsActive, GetMetrics, GetMetricSpec and the gauges: they read the status and
  keep no state.
* The scaler without its HTTP server (an option); a killed process is one that
  takes no more steps, in `LeaseProtocol`.
* JSON text, log messages, command line and environment parsing, the printed
  report.
* Generated gRPC code, charts and end-to-end scripts.

## Plan

1. Done: records, view, agent, protocol, late readers, Changed channel, streams
   and counters; safety without compaction proved.
2. Done: the abstract lease and its refinement; the scaler process; startup with
   topic and secrets; the heartbeat workload; their safety proved.
3. Client clocks that drift, with the margin formula of `docs/protocol.md`.
4. Liveness of the protocol: a free lease is claimed, a request is settled.
5. Done: every invariant but `AgentsAgree` has a theorem; anchors and silence
   proved for readers that start anywhere.
6. Proofs with compaction, `AgentsAgree` first: candidates whose views are uncertain in between, with
   `FetchLag` within the margin.
