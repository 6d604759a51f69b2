--------------------------- MODULE ScalerProcess ---------------------------
(***************************************************************************)
(* One kfklease-scaler process from its start to its exit                  *)
(* (cmd/kfklease-scaler/main.go): the main goroutine with its select, the  *)
(* candidate's Run (lease/candidate.go), the two servers, and the streams  *)
(* and readers of Scaler inside it.                                        *)
(*                                                                         *)
(* A select that finds channels ready takes any of them.  One that finds   *)
(* none parks, and then takes the first that becomes ready.  The lease     *)
(* itself is an input, as in Scaler.  A killed process is one that takes   *)
(* no more steps: LeaseProtocol has those.                                 *)
(***************************************************************************)
EXTENDS Scaler

VARIABLES
  main,      \* where the main goroutine is
  ctxDone,   \* the context of signal.NotifyContext is done
  run,       \* where Candidate.Run is
  result,    \* what Run returns, or has returned: "nil" or "err"
  runErr,    \* the channel of that name: Empty when it is
  serveErr,  \* likewise
  servers,   \* the servers that are up
  health,    \* the gRPC health status
  exit,      \* the process's exit status
  trouble    \* history: something failed, or the signal came before all was up

process  == <<main, ctxDone, run, result, runErr, serveErr, servers, health, exit, trouble>>
procVars == <<vars, process>>

Empty     == "empty"
Streaming == \E s \in Stream : stream[s].at \notin {"closed", "done"}

ProcInit ==
  /\ Init
  /\ main = "setup" /\ ctxDone = FALSE /\ run = "none" /\ result = "nil"
  /\ runErr = Empty /\ serveErr = Empty /\ servers = {} /\ health = "unknown"
  /\ exit = "none" /\ trouble = FALSE

-----------------------------------------------------------------------------
(* The main goroutine.                                                     *)

(* The process ends; its connections and goroutines end with it.           *)
exits(status) ==
  /\ main' = "exited" /\ exit' = status
  /\ servers' = {}
  /\ stream' = [s \in Stream |-> [stream[s] EXCEPT !.at = "done"]]
  /\ UNCHANGED <<belief, storing, changed, ticker, note, lastHolding, transitions, flips>>

(* Bad flags, a configuration NewCandidate refuses, a port in use.         *)
SetupFails ==
  /\ main = "setup"
  /\ exits("error")
  /\ UNCHANGED <<ctxDone, run, result, runErr, serveErr, health, trouble>>

(* The servers, Watch and Run are started.                                 *)
Launch ==
  /\ main = "setup"
  /\ main' = "select" /\ run' = "boot" /\ servers' = {"grpc", "http"} /\ health' = "serving"
  /\ UNCHANGED <<vars, ctxDone, result, runErr, serveErr, exit, trouble>>

(* The three cases of the select.                                          *)
SelectRun ==
  /\ main = "select" /\ runErr # Empty
  /\ main' = "run" /\ runErr' = Empty
  /\ UNCHANGED <<vars, ctxDone, run, result, serveErr, servers, health, exit, trouble>>

SelectServe ==
  /\ main = "select" /\ serveErr # Empty
  /\ main' = "serve" /\ serveErr' = Empty
  /\ UNCHANGED <<vars, ctxDone, run, result, runErr, servers, health, exit, trouble>>

SelectCtx ==
  /\ main = "select" /\ ctxDone
  /\ main' = "ctx"
  /\ UNCHANGED <<vars, ctxDone, run, result, runErr, serveErr, servers, health, exit, trouble>>

Park ==
  /\ main = "select" /\ runErr = Empty /\ serveErr = Empty /\ ~ctxDone
  /\ main' = "parked"
  /\ UNCHANGED <<vars, ctxDone, run, result, runErr, serveErr, servers, health, exit, trouble>>

(* What becomes ready wakes a parked main.                                 *)
wake(case) == main' = IF main = "parked" THEN case ELSE main

(* Run has returned: gs.Stop, and an error even if Run had none.           *)
RunCase ==
  /\ main = "run"
  /\ exits("error")
  /\ UNCHANGED <<ctxDone, run, result, runErr, serveErr, health, trouble>>

(* Bug: Run is not told to stop.                                           *)
BugNoStop ==
  /\ main = "serve"
  /\ main' = "serveWait"
  /\ UNCHANGED <<vars, ctxDone, run, result, runErr, serveErr, servers, health, exit, trouble>>

(* A server has failed: stop, then wait for Run.                           *)
ServeCase ==
  /\ main = "serve"
  /\ main' = "serveWait" /\ ctxDone' = TRUE
  /\ UNCHANGED <<vars, run, result, runErr, serveErr, servers, health, exit, trouble>>

(* Bug: nobody waits for Run to release the lease.                         *)
BugNoWait ==
  /\ main = "serveWait"
  /\ exits("error")
  /\ UNCHANGED <<ctxDone, run, result, runErr, serveErr, health, trouble>>

ServeWait ==
  /\ main = "serveWait" /\ runErr # Empty
  /\ runErr' = Empty
  /\ exits("error")
  /\ UNCHANGED <<ctxDone, run, result, serveErr, health, trouble>>

(* A signal: not serving any more, and wait for Run.                       *)
CtxCase ==
  /\ main = "ctx"
  /\ main' = "ctxWait" /\ health' = "notServing"
  /\ UNCHANGED <<vars, ctxDone, run, result, runErr, serveErr, servers, exit, trouble>>

CtxWait ==
  /\ main = "ctxWait" /\ runErr # Empty
  /\ main' = "drain" /\ runErr' = Empty /\ servers' = servers \ {"grpc"}
  /\ UNCHANGED <<vars, ctxDone, run, result, serveErr, health, exit, trouble>>

(* GracefulStop returns when the last stream has ended.                    *)
Drain ==
  /\ main = "drain" /\ ~Streaming
  /\ exits(IF result = "nil" THEN "ok" ELSE "error")
  /\ UNCHANGED <<ctxDone, run, result, runErr, serveErr, health, trouble>>

-----------------------------------------------------------------------------
(* What happens to the process.                                            *)

Up == main \notin {"setup", "exited"}

(* SIGINT or SIGTERM; a second one does nothing.                           *)
Interrupt ==
  /\ Up /\ ~ctxDone
  /\ ctxDone' = TRUE
  /\ wake("ctx")
  /\ trouble' = (trouble \/ main # "parked" \/ run # "loop")
  /\ UNCHANGED <<vars, run, result, runErr, serveErr, servers, health, exit>>

(* Serve or ListenAndServe returns an error.                               *)
ServeFails ==
  /\ Up /\ serveErr = Empty
  /\ \E s \in servers : servers' = servers \ {s}
  /\ wake("serve")
  /\ serveErr' = IF main = "parked" THEN Empty ELSE "err"
  /\ trouble' = TRUE
  /\ UNCHANGED <<vars, ctxDone, run, result, runErr, health, exit>>

-----------------------------------------------------------------------------
(* Run.                                                                    *)

returns(r) ==
  /\ run' = "done" /\ result' = r
  /\ wake("run")
  /\ runErr' = IF main = "parked" THEN Empty ELSE r

(* No client, no topic, no partition, or the context is done before there  *)
(* is one.                                                                 *)
BootFails ==
  /\ Up /\ run = "boot"
  /\ returns("err")
  /\ trouble' = TRUE
  /\ UNCHANGED <<vars, ctxDone, serveErr, servers, health, exit>>

(* bootstrap publishes a first status, then the loop begins.               *)
Joined ==
  /\ Up /\ run = "boot"
  /\ run' = "loop"
  /\ SetStatus("none")
  /\ UNCHANGED <<main, ctxDone, result, runErr, serveErr, servers, health, exit, trouble>>

Publish(b) ==
  /\ Up /\ run = "loop"
  /\ SetStatus(b)
  /\ UNCHANGED process

(* Bug: the loop returns the context's error.                              *)
BugLoopEnds(r) ==
  /\ Up /\ run = "loop" /\ ~storing
  /\ r = "nil" => ctxDone
  /\ run' = "shutdown" /\ result' = "err"
  /\ becomes("none")
  /\ storing' = (belief # "none")
  /\ trouble' = (trouble \/ r = "err")
  /\ UNCHANGED <<changed, stream, ticker, note, lastHolding, transitions>>
  /\ UNCHANGED <<main, ctxDone, runErr, serveErr, servers, health, exit>>

(* The loop sees the context done, or meets an error; either way shutdown  *)
(* drops the belief and publishes that.                                    *)
LoopEnds(r) ==
  /\ Up /\ run = "loop" /\ ~storing
  /\ r = "nil" => ctxDone
  /\ run' = "shutdown" /\ result' = r
  /\ becomes("none")
  /\ storing' = (belief # "none")
  /\ trouble' = (trouble \/ r = "err")
  /\ UNCHANGED <<changed, stream, ticker, note, lastHolding, transitions>>
  /\ UNCHANGED <<main, ctxDone, runErr, serveErr, servers, health, exit>>

(* shutdown has written the release, or failed to for a TTL.               *)
RunEnds ==
  /\ Up /\ run = "shutdown" /\ ~storing
  /\ returns(result)
  /\ UNCHANGED <<vars, ctxDone, serveErr, servers, health, exit, trouble>>

-----------------------------------------------------------------------------
(* Watch ends with the context, if that is what its select takes.          *)
WatchEnds ==
  /\ Up /\ ctxDone /\ note["watch"].at = "idle"
  /\ noteAt("watch", "ended", FALSE)
  /\ UNCHANGED <<belief, storing, changed, stream, ticker, lastHolding, transitions, flips, process>>

(* The goroutines of Scaler, in a process that is up.  GET /status takes   *)
(* part in nothing here and is left to Scaler.                             *)
Inside(A) == Up /\ A /\ UNCHANGED process

StreamStep(s) ==
  \/ Send(s) \/ TakeSignal(s) \/ ReadStatus(s) \/ Heartbeat(s) \/ TakeTick(s)

WatchNote == NoteRead("watch") \/ NoteSwap("watch")

MainStep ==
  \/ SelectRun \/ SelectServe \/ SelectCtx \/ Park
  \/ RunCase \/ ServeCase \/ ServeWait \/ CtxCase \/ CtxWait \/ Drain

ProcNext ==
  \/ SetupFails \/ Launch
  \/ MainStep
  \/ Interrupt \/ ServeFails
  \/ BootFails \/ Joined \/ RunEnds
  \/ \E b \in {"none", "held"} : Publish(b)
  \/ \E r \in {"nil", "err"} : LoopEnds(r)
  \/ Inside(Signal) \/ Inside(Expire)
  \/ \E s \in Stream :
       \/ "grpc" \in servers /\ Inside(Open(s))
       \/ Inside(StreamStep(s)) \/ Inside(Close(s))
  \/ WatchEnds \/ Inside(WatchSignal)
  \/ Inside(WatchNote)
  \/ main = "exited" /\ UNCHANGED procVars

(* Goroutines that can run do, the calls of Run that wait have timeouts,   *)
(* and every round of its loop looks at the context, between one publish   *)
(* and the next.  No signal has to come, no client to open or close a      *)
(* stream.                                                                 *)
ProcFairness ==
  /\ WF_procVars(MainStep)
  /\ WF_procVars(BootFails \/ Joined)
  /\ SF_procVars(LoopEnds("nil"))
  /\ WF_procVars(RunEnds)
  /\ WF_procVars(belief = "expired" /\ Publish("none"))
  /\ WF_procVars(Inside(Signal))
  /\ \A s \in Stream :
       /\ WF_procVars(Inside(Send(s))) /\ WF_procVars(Inside(TakeSignal(s)))
       /\ WF_procVars(Inside(ReadStatus(s)))
       /\ WF_procVars(Inside(Heartbeat(s))) /\ WF_procVars(Inside(TakeTick(s)))
  /\ WF_procVars(Inside(WatchNote))

ProcSpec == ProcInit /\ [][ProcNext]_procVars /\ ProcFairness

-----------------------------------------------------------------------------
(* Properties.                                                             *)

(* No way out of run() leaves the lease behind: whichever of the servers,  *)
(* the signal and Run ended it, in whichever order, the belief is dropped  *)
(* and the release tried before the process waits for clients or exits.    *)
LeavesReleased ==
  main \in {"drain", "exited"} => run \in {"none", "done"} /\ ~Holding /\ ~storing

(* A signal to a process that is up, in which nothing fails, ends in exit  *)
(* status 0.  (One that comes earlier may find Run's return and the        *)
(* context ready in the same select, or bootstrap returning the context's  *)
(* error.)                                                                 *)
CleanExit == main = "exited" /\ exit = "error" /\ run = "done" => trouble

(* Once the context is done, Run has returned or a server has failed, the  *)
(* process exits; the one thing that can keep it is a client that never    *)
(* closes its stream, which GracefulStop waits for.                        *)
Ending == Up /\ (ctxDone \/ run = "done" \/ servers # {"grpc", "http"})

Terminates ==
  Ending ~> (main = "exited" \/ [](main = "drain" /\ Streaming))
=============================================================================
