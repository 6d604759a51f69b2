------------------------------- MODULE Scaler -------------------------------
(***************************************************************************)
(* How a candidate's belief reaches its readers: Candidate.setStatus and   *)
(* the Changed channel (lease/candidate.go), the streams of the KEDA       *)
(* scaler (scaler/server.go), and the transition counters of the HTTP      *)
(* server (scaler/http.go).                                                *)
(*                                                                         *)
(* What the lease protocol publishes is an input here: any sequence of     *)
(* beliefs.  A belief also expires by itself, without a signal, because    *)
(* Candidate.Status evaluates the deadline.  Every receiver of Changed     *)
(* shares one channel with room for one signal.                            *)
(***************************************************************************)
EXTENDS Integers, FiniteSets

CONSTANTS
  Stream,     \* StreamIsActive calls
  Request,    \* GET /status requests, each of which calls note
  MaxChanges  \* bound on how often the belief changes

ASSUME ScalerAssumption == MaxChanges \in Nat /\ "watch" \notin Request

VARIABLES
  belief,       \* what setStatus stored, or "expired"
  storing,      \* setStatus has stored a change and not yet signalled it
  changed,      \* the Changed channel holds a signal
  stream,       \* per stream: where it is, its last value, and what KEDA got
  ticker,       \* the heartbeat tickers that have fired
  note,         \* per caller of note: where it is and what it read
  lastHolding,  \* HTTP.lastHolding
  transitions,  \* kfklease_transitions_total, both labels
  flips         \* history: how often Holding has really changed

vars == <<belief, storing, changed, stream, ticker, note, lastHolding, transitions, flips>>

Noter   == Request \cup {"watch"}
Holding == belief = "held"

Init ==
  /\ belief = "none" /\ storing = FALSE /\ changed = FALSE
  /\ stream = [s \in Stream |-> [at |-> "closed", last |-> FALSE, sent |-> FALSE]]
  /\ ticker = {}
  /\ note = [c \in Noter |-> [at |-> "idle", holding |-> FALSE]]
  /\ lastHolding = Holding
  /\ transitions = 0 /\ flips = 0

-----------------------------------------------------------------------------
(* The candidate.                                                          *)

becomes(b) ==
  /\ belief' = b
  /\ flips' = IF Holding = (b = "held") THEN flips ELSE flips + 1

(* setStatus, under the mutex, with a status that differs: in the belief,  *)
(* or only in its deadline or in what the log shows.  An equal status      *)
(* changes nothing and is not signalled.                                   *)
SetStatus(b) ==
  /\ ~storing
  /\ b = "held" /\ ~Holding => flips < MaxChanges
  /\ becomes(b)
  /\ storing' = TRUE
  /\ UNCHANGED <<changed, stream, ticker, note, lastHolding, transitions>>

(* setStatus, after the mutex: a signal, unless there is one already.      *)
Signal ==
  /\ storing
  /\ storing' = FALSE
  /\ changed' = TRUE
  /\ UNCHANGED <<belief, stream, ticker, note, lastHolding, transitions, flips>>

(* The deadline passes.                                                    *)
Expire ==
  /\ Holding
  /\ becomes("expired")
  /\ UNCHANGED <<storing, changed, stream, ticker, note, lastHolding, transitions>>

-----------------------------------------------------------------------------
(* StreamIsActive.                                                         *)

moves(s, at, last) == stream' = [stream EXCEPT ![s].at = at, ![s].last = last]

(* The call passes check; the value at that moment is sent first.          *)
Open(s) ==
  /\ stream[s].at = "closed"
  /\ moves(s, "sending", Holding)
  /\ UNCHANGED <<belief, storing, changed, ticker, note, lastHolding, transitions, flips>>

(* stream.Send: KEDA has the value, or the stream is broken.               *)
Send(s) ==
  /\ stream[s].at = "sending"
  /\ \/ stream' = [stream EXCEPT ![s].at = "select", ![s].sent = stream[s].last]
     \/ moves(s, "done", stream[s].last)
  /\ UNCHANGED <<belief, storing, changed, ticker, note, lastHolding, transitions, flips>>

(* The stream takes the signal, and reads the status in a step of its own. *)
TakeSignal(s) ==
  /\ stream[s].at = "select" /\ changed
  /\ changed' = FALSE
  /\ moves(s, "read", stream[s].last)
  /\ UNCHANGED <<belief, storing, ticker, note, lastHolding, transitions, flips>>

ReadStatus(s) ==
  /\ stream[s].at = "read"
  /\ moves(s, IF Holding = stream[s].last THEN "select" ELSE "sending", Holding)
  /\ UNCHANGED <<belief, storing, changed, ticker, note, lastHolding, transitions, flips>>

(* The ticker fires; its channel has room for one tick.                    *)
Heartbeat(s) ==
  /\ stream[s].at \notin {"closed", "done"} /\ s \notin ticker
  /\ ticker' = ticker \cup {s}
  /\ UNCHANGED <<belief, storing, changed, stream, note, lastHolding, transitions, flips>>

(* Bug: the heartbeat repeats the last value instead of the current one.   *)
BugTakeTick(s) ==
  /\ stream[s].at = "select" /\ s \in ticker
  /\ ticker' = ticker \ {s}
  /\ moves(s, "sending", stream[s].last)
  /\ UNCHANGED <<belief, storing, changed, note, lastHolding, transitions, flips>>

TakeTick(s) ==
  /\ stream[s].at = "select" /\ s \in ticker
  /\ ticker' = ticker \ {s}
  /\ moves(s, "sending", Holding)
  /\ UNCHANGED <<belief, storing, changed, note, lastHolding, transitions, flips>>

(* The stream's context is done.                                           *)
Close(s) ==
  /\ stream[s].at = "select"
  /\ moves(s, "done", stream[s].last)
  /\ ticker' = ticker \ {s}
  /\ UNCHANGED <<belief, storing, changed, note, lastHolding, transitions, flips>>

-----------------------------------------------------------------------------
(* HTTP.note, called by Watch on a signal and by every GET /status.        *)

noteAt(c, at, holding) == note' = [note EXCEPT ![c] = [at |-> at, holding |-> holding]]

WatchSignal ==
  /\ note["watch"].at = "idle" /\ changed
  /\ changed' = FALSE
  /\ noteAt("watch", "read", FALSE)
  /\ UNCHANGED <<belief, storing, stream, ticker, lastHolding, transitions, flips>>

GetStatus(c) ==
  /\ note[c].at = "idle"
  /\ noteAt(c, "read", FALSE)
  /\ UNCHANGED <<belief, storing, changed, stream, ticker, lastHolding, transitions, flips>>

(* note reads the status ...                                               *)
NoteRead(c) ==
  /\ note[c].at = "read"
  /\ noteAt(c, "swap", Holding)
  /\ UNCHANGED <<belief, storing, changed, stream, ticker, lastHolding, transitions, flips>>

(* ... and then swaps it in, counting a difference as a transition.        *)
NoteSwap(c) ==
  /\ note[c].at = "swap"
  /\ noteAt(c, "idle", FALSE)
  /\ lastHolding' = note[c].holding
  /\ transitions' = transitions + IF lastHolding = note[c].holding THEN 0 ELSE 1
  /\ UNCHANGED <<belief, storing, changed, stream, ticker, flips>>

Next ==
  \/ \E b \in {"none", "held"} : SetStatus(b)
  \/ Signal \/ Expire
  \/ \E s \in Stream :
       Open(s) \/ Send(s) \/ TakeSignal(s) \/ ReadStatus(s) \/ Heartbeat(s) \/ TakeTick(s) \/ Close(s)
  \/ WatchSignal
  \/ \E c \in Request : GetStatus(c)
  \/ \E c \in Noter : NoteRead(c) \/ NoteSwap(c)

(* The loop of a candidate whose belief expired publishes that in its next *)
(* round, and goroutines that can run do.  Nobody has to open or close a   *)
(* stream, to ask for the status, or to acquire the lease.                 *)
Fairness ==
  /\ WF_vars(belief = "expired" /\ SetStatus("none"))
  /\ WF_vars(Signal)
  /\ \A s \in Stream :
       WF_vars(Send(s)) /\ WF_vars(TakeSignal(s)) /\ WF_vars(ReadStatus(s))
         /\ WF_vars(Heartbeat(s)) /\ WF_vars(TakeTick(s))
  /\ WF_vars(WatchSignal)
  /\ \A c \in Noter : WF_vars(NoteRead(c)) /\ WF_vars(NoteSwap(c))

Spec == Init /\ [][Next]_vars /\ Fairness

-----------------------------------------------------------------------------
(* Properties.                                                             *)

(* Once the belief stays as it is, KEDA knows it on every stream that      *)
(* stays open, even if other receivers take all the signals: the heartbeat *)
(* makes up for them (Server.StreamIsActive).                              *)
StreamFollows ==
  \A s \in Stream : \A h \in BOOLEAN :
    <>[](Holding = h) => <>[](stream[s].at \in {"select", "sending", "read"} => stream[s].sent = h)

(* kfklease_transitions_total, "Times this participant started or stopped  *)
(* holding the lease", never counts more than there were.                  *)
TransitionsReal == transitions <= flips
=============================================================================
