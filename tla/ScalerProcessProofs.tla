------------------------ MODULE ScalerProcessProofs ------------------------
(***************************************************************************)
(* What ScalerProcess promises about the end of a process, for any number  *)
(* of streams, requests and changes of the belief.                         *)
(***************************************************************************)
EXTENDS ScalerProcess, TLAPS

(* What is known of Run and of the belief from where main is: a return of  *)
(* Run is in the channel or has been received only after Run is done, and  *)
(* outside the loop nothing is believed.                                   *)
RunInv ==
  /\ runErr # Empty => run = "done"
  /\ main \in {"run", "drain"} => run = "done"
  /\ main = "exited" => run \in {"none", "done"}
  /\ main = "setup" => run = "none"
  /\ run \in {"none", "boot", "shutdown", "done"} => ~Holding
  /\ run \in {"none", "boot", "done"} => ~storing

(* A process that has met no trouble is on one of two paths: not told to   *)
(* stop, or told so while it was up and parked.                            *)
Undisturbed ==
  /\ serveErr = Empty /\ result = "nil"
  /\ ~ctxDone => /\ main \in {"setup", "select", "parked", "exited"}
                 /\ run \in {"none", "boot", "loop"}
  /\ ctxDone => /\ main \in {"ctx", "ctxWait", "drain", "exited"}
                /\ run \in {"loop", "shutdown", "done"}
                /\ main = "exited" => exit = "ok"

TroubleInv == trouble \in BOOLEAN /\ (~trouble => Undisturbed)

ProcInv == RunInv /\ TroubleInv

(* The steps that neither main nor Run takes part in change the belief at  *)
(* most by its expiry, and storing at most by the signal.                  *)
Elsewhere ==
  /\ Up
  /\ UNCHANGED process
  /\ Holding' => Holding
  /\ storing' => storing

(* Signals, expiry and Watch touch nothing of main or Run.                 *)
LEMMA WatchElsewhere ==
  ASSUME \/ Inside(Signal) \/ Inside(Expire)
         \/ WatchEnds \/ Inside(WatchSignal) \/ Inside(WatchNote)
  PROVE  Elsewhere
<1>1. CASE Inside(Signal) BY <1>1 DEF Inside, Signal, Elsewhere, Holding
<1>2. CASE Inside(Expire) BY <1>2 DEF Inside, Expire, becomes, Elsewhere, Holding
<1>3. CASE WatchEnds BY <1>3 DEF WatchEnds, process, Elsewhere, Holding
<1>4. CASE Inside(WatchSignal) BY <1>4 DEF Inside, WatchSignal, Elsewhere, Holding
<1>5. CASE Inside(WatchNote)
  <2>1. WatchNote => UNCHANGED <<belief, storing>>
    <3>1. NoteRead("watch") => UNCHANGED <<belief, storing>> BY DEF NoteRead
    <3>2. NoteSwap("watch") => belief' = belief /\ storing' = storing BY Zenon DEF NoteSwap
    <3> QED BY <3>1, <3>2 DEF WatchNote
  <2> QED BY <1>5, <2>1 DEF Inside, Elsewhere, Holding
<1> QED BY <1>1, <1>2, <1>3, <1>4, <1>5

(* Nor do steps of a stream.                                               *)
LEMMA StreamElsewhere ==
  ASSUME NEW s \in Stream,
         Inside(Open(s)) \/ Inside(StreamStep(s)) \/ Inside(Close(s))
  PROVE  Elsewhere
<1>1. CASE Inside(Open(s)) BY <1>1 DEF Inside, Open, Elsewhere, Holding
<1>2. CASE Inside(StreamStep(s))
  BY <1>2 DEF Inside, StreamStep, Send, TakeSignal, ReadStatus, Heartbeat, TakeTick, Elsewhere, Holding
<1>3. CASE Inside(Close(s)) BY <1>3 DEF Inside, Close, Elsewhere, Holding
<1> QED BY <1>1, <1>2, <1>3

(* Initially main is starting and there is no belief.                      *)
LEMMA ProcInvInit == ProcInit => ProcInv
BY DEF ProcInit, Init, ProcInv, RunInv, TroubleInv, Undisturbed, Holding, Empty

(* Every step keeps that a Run out of its loop has dropped the belief.     *)
LEMMA RunInvNext ==
  ASSUME ProcInv, [ProcNext]_procVars
  PROVE  RunInv'
<1> USE DEF ProcInv, RunInv
<1>1. CASE SetupFails BY <1>1 DEF SetupFails, exits, Holding
<1>2. CASE Launch BY <1>2 DEF Launch, vars, Holding
<1>3. CASE MainStep
  <2>1. CASE SelectRun BY <2>1 DEF SelectRun, vars, Holding
  <2>2. CASE SelectServe BY <2>2 DEF SelectServe, vars, Holding
  <2>3. CASE SelectCtx BY <2>3 DEF SelectCtx, vars, Holding
  <2>4. CASE Park BY <2>4 DEF Park, vars, Holding
  <2>5. CASE RunCase BY <2>5 DEF RunCase, exits, Holding
  <2>6. CASE ServeCase BY <2>6 DEF ServeCase, vars, Holding
  <2>7. CASE ServeWait BY <2>7 DEF ServeWait, exits, Holding
  <2>8. CASE CtxCase BY <2>8 DEF CtxCase, vars, Holding
  <2>9. CASE CtxWait BY <2>9 DEF CtxWait, vars, Holding
  <2>10. CASE Drain BY <2>10 DEF Drain, exits, Holding
  <2> QED BY <1>3, <2>1, <2>2, <2>3, <2>4, <2>5, <2>6, <2>7, <2>8, <2>9, <2>10 DEF MainStep
<1>4. CASE Interrupt BY <1>4 DEF Interrupt, wake, Up, vars, Holding
<1>5. CASE ServeFails BY <1>5 DEF ServeFails, wake, Up, vars, Holding
<1>6. CASE BootFails BY <1>6 DEF BootFails, returns, wake, Up, vars, Holding
<1>7. CASE Joined BY <1>7 DEF Joined, SetStatus, becomes, Up, Holding
<1>8. CASE RunEnds BY <1>8 DEF RunEnds, returns, wake, Up, vars, Holding
<1>9. ASSUME NEW b \in {"none", "held"}, Publish(b) PROVE RunInv'
  BY <1>9 DEF Publish, SetStatus, becomes, process, Up, Holding
<1>10. ASSUME NEW r \in {"nil", "err"}, LoopEnds(r) PROVE RunInv'
  BY <1>10 DEF LoopEnds, becomes, Up, Holding
<1>11. CASE Elsewhere BY <1>11 DEF Elsewhere, process
<1>12. CASE UNCHANGED procVars BY <1>12 DEF procVars, vars, process, Holding
<1> QED
  BY <1>1, <1>2, <1>3, <1>4, <1>5, <1>6, <1>7, <1>8, <1>9, <1>10, <1>11, <1>12,
     StreamElsewhere, WatchElsewhere DEF ProcNext

(* Every step keeps a process without trouble on one of its two paths.     *)
LEMMA TroubleInvNext ==
  ASSUME ProcInv, [ProcNext]_procVars
  PROVE  TroubleInv'
<1> USE DEF ProcInv, TroubleInv, Undisturbed
<1>1. CASE SetupFails BY <1>1 DEF SetupFails, exits
<1>2. CASE Launch BY <1>2 DEF Launch
<1>3. CASE MainStep
  <2>1. CASE SelectRun BY <2>1 DEF SelectRun, RunInv
  <2>2. CASE SelectServe BY <2>2 DEF SelectServe
  <2>3. CASE SelectCtx BY <2>3 DEF SelectCtx
  <2>4. CASE Park BY <2>4 DEF Park
  <2>5. CASE RunCase BY <2>5 DEF RunCase, exits
  <2>6. CASE ServeCase BY <2>6 DEF ServeCase
  <2>7. CASE ServeWait BY <2>7 DEF ServeWait, exits
  <2>8. CASE CtxCase BY <2>8 DEF CtxCase
  <2>9. CASE CtxWait BY <2>9 DEF CtxWait
  <2>10. CASE Drain BY <2>10 DEF Drain, exits
  <2> QED BY <1>3, <2>1, <2>2, <2>3, <2>4, <2>5, <2>6, <2>7, <2>8, <2>9, <2>10 DEF MainStep
<1>4. CASE Interrupt BY <1>4 DEF Interrupt, wake, Up
<1>5. CASE ServeFails BY <1>5 DEF ServeFails
<1>6. CASE BootFails BY <1>6 DEF BootFails
<1>7. CASE Joined BY <1>7 DEF Joined
<1>8. CASE RunEnds BY <1>8 DEF RunEnds, returns, wake, Up
<1>9. ASSUME NEW b \in {"none", "held"}, Publish(b) PROVE TroubleInv'
  BY <1>9 DEF Publish, process
<1>10. ASSUME NEW r \in {"nil", "err"}, LoopEnds(r) PROVE TroubleInv'
  BY <1>10 DEF LoopEnds
<1>11. CASE Elsewhere BY <1>11 DEF Elsewhere, process
<1>12. CASE UNCHANGED procVars BY <1>12 DEF procVars, process
<1> QED
  BY <1>1, <1>2, <1>3, <1>4, <1>5, <1>6, <1>7, <1>8, <1>9, <1>10, <1>11, <1>12,
     StreamElsewhere, WatchElsewhere DEF ProcNext

(* Main, Run and the belief are never out of step, and without trouble the *)
(* process is on one of its two paths.                                     *)
THEOREM ProcInvariant == ProcSpec => []ProcInv
<1>1. ProcInv /\ [ProcNext]_procVars => ProcInv'
  BY RunInvNext, TroubleInvNext DEF ProcInv
<1> QED BY <1>1, ProcInvInit, PTL DEF ProcSpec

(* No process leaves the lease behind, whichever of the servers, the       *)
(* signal and Run ended it (run() of cmd/kfklease-scaler/main.go).         *)
THEOREM Released == ProcSpec => []LeavesReleased
<1>1. ProcInv => LeavesReleased
  BY DEF ProcInv, RunInv, LeavesReleased
<1> QED BY <1>1, ProcInvariant, PTL

(* A process that was told to stop while it was up, and in which nothing   *)
(* failed, exits with status 0 (the select of run()).                      *)
THEOREM ExitsCleanly == ProcSpec => []CleanExit
<1>1. ProcInv => CleanExit
  BY DEF ProcInv, TroubleInv, Undisturbed, CleanExit
<1> QED BY <1>1, ProcInvariant, PTL
=============================================================================
