----------------------------- MODULE SyncBridge -----------------------------
(***************************************************************************)
(* The blocking facade of sync.py: threads that call the asynchronous      *)
(* client and one of its sessions through _ClientBridge and _LoopThread,   *)
(* threads that close the session or the client, the loop thread, and      *)
(* KeyboardInterrupt, which Python raises in the main thread.              *)
(*                                                                         *)
(* An operation is one call of a public method.  Blocks under a condition  *)
(* or a lock are one step.  Every change that a waiter looks for is        *)
(* followed by notify_all(), so a wait is over when its condition holds.   *)
(***************************************************************************)
EXTENDS Naturals, FiniteSets

CONSTANTS
  ClientCalls,     \* Penampakan.ask, inspect, open_image
  SessionCalls,    \* VisionSession.ask, inspect and the properties
  SessionClosers,  \* VisionSession.close
  ClientClosers,   \* Penampakan.close
  Main             \* the operations made in the main thread

Operations == ClientCalls \cup SessionCalls \cup SessionClosers \cup ClientClosers

ASSUME OperationAssumption ==
  /\ IsFiniteSet(Operations) /\ Main \subseteq Operations
  /\ ClientCalls \cap SessionCalls = {}
  /\ (ClientCalls \cup SessionCalls) \cap (SessionClosers \cup ClientClosers) = {}
  /\ SessionClosers \cap ClientClosers = {}

VARIABLES
  bridge,    \* _state of _ClientBridge and the calls it admitted
  facade,    \* the same of VisionSession
  pc,        \* where each operation stands
  result,    \* what it got, or will raise
  task,      \* its coroutine on the loop
  thread,    \* the loop thread
  stopped,   \* _stopped of _LoopThread
  halt,      \* loop.stop has been scheduled
  aclient,   \* the asynchronous client is closed
  asession,  \* the asynchronous session is closed
  abandoned  \* an interrupt broke a close off (history)

bridgeVars == <<bridge, facade, pc, result, task, thread, stopped, halt, aclient,
                asession, abandoned>>

\* A _state with its _active_calls and _close_error.
Gate == [state: {"open", "closing", "closed"}, active: SUBSET Operations,
         error: {"none", "refused", "failed", "interrupted"}]
Fresh == [state |-> "open", active |-> {}, error |-> "none"]

BridgeInit ==
  /\ bridge = Fresh /\ facade = Fresh
  /\ pc = [o \in Operations |-> "idle"]
  /\ result = [o \in Operations |-> "none"]
  /\ task = [o \in Operations |-> "none"]
  /\ thread = "none" /\ stopped = FALSE /\ halt = FALSE
  /\ aclient = FALSE /\ asession = FALSE /\ abandoned = FALSE

At(o, place) == pc[o] = place
Goto(o, place) == pc' = [pc EXCEPT ![o] = place]
Finish(o, outcome) ==
  /\ Goto(o, "over")
  /\ result' = [result EXCEPT ![o] = outcome]
\* The main thread is in one operation at a time.
CanStart(o) ==
  /\ At(o, "idle")
  /\ o \in Main => \A p \in Main : pc[p] \in {"idle", "over"}

loopVars  == <<task, thread, stopped, halt, aclient, asession>>

-----------------------------------------------------------------------------
\* Calls: VisionSession._run around _ClientBridge.run around _LoopThread.run.

EnterSession(o) ==
  /\ o \in SessionCalls /\ CanStart(o)
  /\ \/ /\ facade.state = "open"
        /\ facade' = [facade EXCEPT !.active = @ \cup {o}]
        /\ Goto(o, "admission")
        /\ UNCHANGED result
     \/ /\ facade.state # "open"
        /\ Finish(o, "refused")
        /\ UNCHANGED facade
  /\ UNCHANGED <<bridge, loopVars, abandoned>>

\* What an operation does with an exception or a value of _ClientBridge.run:
\* a session call leaves the session, a session's close asks whether the
\* client was closing, a client's close stops the loop thread.
AfterRun(o, outcome) ==
  CASE o \in SessionCalls -> "leaving"
    [] o \in SessionClosers -> IF outcome = "refused" THEN "asking" ELSE "settling"
    [] o \in ClientClosers -> "stopping"
    [] OTHER -> "over"

Admit(o) ==
  /\ \/ o \in ClientCalls /\ CanStart(o)
     \/ At(o, "admission")
  /\ \/ /\ bridge.state = "open"
        /\ bridge' = [bridge EXCEPT !.active = @ \cup {o}]
        /\ Goto(o, "starting")
        /\ UNCHANGED result
     \/ /\ bridge.state # "open"
        /\ result' = [result EXCEPT ![o] = "refused"]
        /\ Goto(o, AfterRun(o, "refused"))
        /\ UNCHANGED bridge
  /\ UNCHANGED <<facade, loopVars, abandoned>>

\* The finally of _ClientBridge.run; close() calls the runner directly.
LeaveRun(o, outcome) ==
  /\ result' = [result EXCEPT ![o] = outcome]
  /\ Goto(o, IF o \in ClientClosers THEN AfterRun(o, outcome) ELSE "unlisting")
  /\ UNCHANGED bridge

\* Mutant: an interrupted call is not counted off.
UnlistReturned(o) ==
  /\ At(o, "unlisting")
  /\ bridge' = [bridge EXCEPT !.active = IF result[o] = "interrupted" THEN @ ELSE @ \ {o}]
  /\ Goto(o, AfterRun(o, result[o]))
  /\ UNCHANGED <<facade, result, loopVars, abandoned>>

Unlist(o) ==
  /\ At(o, "unlisting")
  /\ bridge' = [bridge EXCEPT !.active = @ \ {o}]
  /\ Goto(o, AfterRun(o, result[o]))
  /\ UNCHANGED <<facade, result, loopVars, abandoned>>

LeaveSession(o) ==
  /\ At(o, "leaving")
  /\ facade' = [facade EXCEPT !.active = @ \ {o}]
  /\ Goto(o, "over")
  /\ UNCHANGED <<bridge, result, loopVars, abandoned>>

\* _start, the block under the lock; thread.start() may fail.
StartLoop(o) ==
  /\ At(o, "starting")
  /\ \/ /\ stopped
        /\ LeaveRun(o, "refused")
        /\ UNCHANGED <<thread, stopped>>
     \/ /\ ~stopped
        /\ thread' = IF thread = "none" THEN "starting" ELSE thread
        /\ Goto(o, "ready")
        /\ UNCHANGED <<bridge, result, stopped>>
     \/ /\ ~stopped /\ thread = "none"
        /\ thread' = "broken" /\ stopped' = TRUE
        /\ LeaveRun(o, "failed")
  /\ UNCHANGED <<facade, task, halt, aclient, asession, abandoned>>

\* ready.wait(), then run_coroutine_threadsafe.
Submit(o) ==
  /\ At(o, "ready") /\ thread \notin {"none", "starting"}
  /\ IF thread = "broken"
     THEN LeaveRun(o, "failed") /\ UNCHANGED task
     ELSE /\ task' = [task EXCEPT ![o] = "running"]
          /\ Goto(o, "waiting")
          /\ UNCHANGED <<bridge, result>>
  /\ UNCHANGED <<facade, thread, stopped, halt, aclient, asession, abandoned>>

Ended == {"value", "failed", "cancelled"}

\* future.result().
Resume(o) ==
  /\ At(o, "waiting") /\ task[o] \in Ended
  /\ LeaveRun(o, task[o])
  /\ UNCHANGED <<facade, loopVars, abandoned>>

-----------------------------------------------------------------------------
\* The loop thread and the coroutines on it.

\* _serve: the loop is made and announced, or the start-up fails.
Announce ==
  /\ thread = "starting"
  /\ thread' \in {"announced", "broken"}
  /\ UNCHANGED <<bridge, facade, pc, result, task, stopped, halt, aclient,
                 asession, abandoned>>

RunForever ==
  /\ thread = "announced"
  /\ thread' = "running"
  /\ UNCHANGED <<bridge, facade, pc, result, task, stopped, halt, aclient,
                 asession, abandoned>>

\* A coroutine ends.  The client's aclose() waits for the operations in
\* flight and closes the sessions; a session's waits for the session's.  One
\* that fails or is cancelled, perhaps before its first step, need not close.
Pending(o) == task[o] \in {"running", "cancelling"}
WaitsFor(o) ==
  CASE o \in ClientClosers -> Operations \ ClientClosers
    [] o \in SessionClosers -> SessionCalls
    [] OTHER -> {}
TaskEnds(o) ==
  /\ thread = "running" /\ Pending(o)
  /\ \A p \in WaitsFor(o) : ~Pending(p)
  /\ \E outcome \in IF task[o] = "running" THEN {"value", "failed"}
                    ELSE {"cancelled"} :
       /\ o \in ClientCalls \cup SessionCalls /\ aclient => outcome # "value"
       /\ task' = [task EXCEPT ![o] = outcome]
  /\ aclient' \in
       {aclient \/ o \in ClientClosers} \cup (IF task'[o] = "value" THEN {} ELSE {aclient})
  /\ asession' \in
       {asession \/ aclient' \/ o \in SessionClosers}
         \cup (IF task'[o] = "value" THEN {} ELSE {asession})
  /\ UNCHANGED <<bridge, facade, pc, result, thread, stopped, halt, abandoned>>

\* The finally of _serve: every task is cancelled and awaited.
Unwind ==
  /\ thread = "running" /\ halt
  /\ thread' = "finished"
  /\ task' = [o \in Operations |-> IF Pending(o) THEN "cancelled" ELSE task[o]]
  /\ aclient' \in {aclient, aclient \/ \E o \in ClientClosers : Pending(o)}
  /\ asession' \in
       {asession, asession \/ \E o \in ClientClosers \cup SessionClosers : Pending(o)}
  /\ UNCHANGED <<bridge, facade, pc, result, stopped, halt, abandoned>>

-----------------------------------------------------------------------------
\* Closing.

\* VisionSession.close and _ClientBridge.close, the first block.  `gate` is the
\* state of the object, `await` and `drain` where the thread waits.
CloseGate(o, gate, await, drain) ==
  /\ CanStart(o)
  /\ CASE gate.state = "closed" ->
            Finish(o, IF gate.error = "none" THEN "value" ELSE gate.error)
       [] gate.state = "closing" -> Goto(o, await) /\ UNCHANGED result
       [] gate.state = "open" -> Goto(o, drain) /\ UNCHANGED result

CloseSession(o) ==
  /\ o \in SessionClosers
  /\ CloseGate(o, facade, "awaiting", "draining")
  /\ facade' = [facade EXCEPT !.state = IF @ = "open" THEN "closing" ELSE @]
  /\ UNCHANGED <<bridge, loopVars, abandoned>>

CloseClient(o) ==
  /\ o \in ClientClosers
  /\ CloseGate(o, bridge, "awaiting", "draining")
  /\ bridge' = [bridge EXCEPT !.state = IF @ = "open" THEN "closing" ELSE @]
  /\ UNCHANGED <<facade, loopVars, abandoned>>

GateOf(o) == IF o \in ClientClosers THEN bridge ELSE facade

\* Mutant: the close does not wait for the calls in flight.
DrainedAtOnce(o) ==
  /\ At(o, "draining")
  /\ Goto(o, IF o \in ClientClosers THEN "starting" ELSE "admission")
  /\ UNCHANGED <<bridge, facade, result, loopVars, abandoned>>

\* `while self._active_calls: wait()`.
Drained(o) ==
  /\ At(o, "draining") /\ GateOf(o).active = {}
  /\ Goto(o, IF o \in ClientClosers THEN "starting" ELSE "admission")
  /\ UNCHANGED <<bridge, facade, result, loopVars, abandoned>>

\* `while self._state != "closed": wait()`, then _raise_close_error().
Awaited(o) ==
  /\ At(o, "awaiting") /\ GateOf(o).state = "closed"
  /\ Finish(o, IF GateOf(o).error = "none" THEN "value" ELSE GateOf(o).error)
  /\ UNCHANGED <<bridge, facade, loopVars, abandoned>>

\* Mutant: a refused session takes a client that is closing for a closed one.
AskBridgeOnce(o) ==
  /\ At(o, "asking")
  /\ Goto(o, "settling")
  /\ result' = [result EXCEPT ![o] = IF bridge.state = "open" THEN @ ELSE "value"]
  /\ UNCHANGED <<bridge, facade, loopVars, abandoned>>

\* _ClientBridge.wait_for_close by a session's close that was refused.
AskBridge(o) ==
  /\ At(o, "asking")
  /\ Goto(o, IF bridge.state = "open" THEN "settling" ELSE "following")
  /\ UNCHANGED <<bridge, facade, result, loopVars, abandoned>>

Follow(o) ==
  /\ At(o, "following") /\ bridge.state = "closed"
  /\ Goto(o, "settling")
  /\ result' = [result EXCEPT ![o] =
                  IF bridge.error = "none" THEN "value" ELSE bridge.error]
  /\ UNCHANGED <<bridge, facade, loopVars, abandoned>>

\* _LoopThread.stop, the block under the lock: only a running loop is stopped.
Stop(o) ==
  /\ At(o, "stopping")
  /\ stopped' = TRUE
  /\ halt' = (halt \/ (~stopped /\ thread = "running"))
  /\ Goto(o, IF thread = "none" THEN "settling" ELSE "joining")
  /\ UNCHANGED <<bridge, facade, result, task, thread, aclient, asession, abandoned>>

\* self._finished.wait() and thread.join().
Join(o) ==
  /\ At(o, "joining") /\ thread \in {"finished", "broken"}
  /\ Goto(o, "settling")
  /\ UNCHANGED <<bridge, facade, result, loopVars, abandoned>>

ErrorOf(outcome) ==
  CASE outcome = "value" -> "none"
    [] outcome = "cancelled" -> "failed"
    [] OTHER -> outcome

Settle(o) ==
  /\ At(o, "settling")
  /\ Goto(o, "over")
  /\ IF o \in ClientClosers
     THEN /\ bridge' = [bridge EXCEPT !.state = "closed", !.error = ErrorOf(result[o])]
          /\ UNCHANGED facade
     ELSE /\ facade' = [facade EXCEPT !.state = "closed", !.error = ErrorOf(result[o])]
          /\ UNCHANGED bridge
  /\ UNCHANGED <<result, loopVars, abandoned>>

-----------------------------------------------------------------------------
\* KeyboardInterrupt at one of the main thread's waits.

\* A close that has not drained is taken back, its followers left waiting.
InterruptDrain(o) ==
  /\ o \in Main /\ At(o, "draining")
  /\ IF o \in ClientClosers
     THEN bridge' = [bridge EXCEPT !.state = "open"] /\ UNCHANGED facade
     ELSE facade' = [facade EXCEPT !.state = "open"] /\ UNCHANGED bridge
  /\ Finish(o, "interrupted")
  /\ abandoned' = TRUE
  /\ UNCHANGED loopVars

InterruptAwait(o) ==
  /\ o \in Main
  /\ \/ At(o, "awaiting") /\ Finish(o, "interrupted")
     \/ /\ At(o, "following")
        /\ Goto(o, "settling")
        /\ result' = [result EXCEPT ![o] = "interrupted"]
  /\ UNCHANGED <<bridge, facade, loopVars, abandoned>>

\* In _start's ready.wait(): a close goes on to stop the thread, which may not
\* run its loop yet.
InterruptStart(o) ==
  /\ o \in Main /\ At(o, "ready")
  /\ LeaveRun(o, "interrupted")
  /\ abandoned' = (abandoned \/ o \in ClientClosers)
  /\ UNCHANGED <<facade, loopVars>>

\* In future.result(): the future, and so the task, is cancelled.  As above, the
\* loop may not run yet.
InterruptWait(o) ==
  /\ o \in Main /\ At(o, "waiting")
  /\ LeaveRun(o, "interrupted")
  /\ task' = [task EXCEPT ![o] = IF @ = "running" THEN "cancelling" ELSE @]
  /\ abandoned' = (abandoned \/ (o \in ClientClosers /\ thread # "running"))
  /\ UNCHANGED <<facade, thread, stopped, halt, aclient, asession>>

InterruptJoin(o) ==
  /\ o \in Main /\ At(o, "joining")
  /\ Goto(o, "settling")
  /\ result' = [result EXCEPT ![o] = IF @ = "value" THEN "interrupted" ELSE @]
  /\ UNCHANGED <<bridge, facade, loopVars, abandoned>>

-----------------------------------------------------------------------------
Progress(o) ==
  \/ o \in SessionClosers \cup SessionCalls /\ At(o, "admission") /\ Admit(o)
  \/ Unlist(o) \/ LeaveSession(o) \/ StartLoop(o) \/ Submit(o) \/ Resume(o)
  \/ Drained(o) \/ Awaited(o) \/ AskBridge(o) \/ Follow(o)
  \/ Stop(o) \/ Join(o) \/ Settle(o)

Interrupt(o) ==
  \/ InterruptDrain(o) \/ InterruptAwait(o) \/ InterruptStart(o)
  \/ InterruptWait(o) \/ InterruptJoin(o)

BridgeNext ==
  \/ \E o \in Operations :
       \/ EnterSession(o) \/ Admit(o) \/ CloseSession(o) \/ CloseClient(o)
       \/ Unlist(o) \/ LeaveSession(o) \/ StartLoop(o) \/ Submit(o) \/ Resume(o)
       \/ Drained(o) \/ Awaited(o) \/ AskBridge(o) \/ Follow(o)
       \/ Stop(o) \/ Join(o) \/ Settle(o)
       \/ TaskEnds(o)
       \/ Interrupt(o)
  \/ Announce \/ RunForever \/ Unwind

\* Threads run, the loop runs what is ready, and coroutines end, because the
\* operations of the client do (AskLoop, Lifecycle).  Calls and interrupts are
\* the user's.
BridgeFairness ==
  /\ \A o \in Operations : WF_bridgeVars(Progress(o)) /\ WF_bridgeVars(TaskEnds(o))
  /\ WF_bridgeVars(Announce) /\ WF_bridgeVars(RunForever) /\ WF_bridgeVars(Unwind)

BridgeSpec == BridgeInit /\ [][BridgeNext]_bridgeVars /\ BridgeFairness

-----------------------------------------------------------------------------
\* The variables stay in their types.
BridgeTypeOK ==
  /\ bridge \in Gate /\ facade \in Gate
  /\ pc \in [Operations ->
       {"idle", "admission", "starting", "ready", "waiting", "unlisting", "leaving",
        "draining", "awaiting", "asking", "following", "stopping", "joining",
        "settling", "over"}]
  /\ result \in [Operations ->
       {"none", "value", "refused", "failed", "cancelled", "interrupted"}]
  /\ task \in [Operations -> {"none", "running", "cancelling"} \cup Ended]
  /\ thread \in {"none", "starting", "announced", "running", "finished", "broken"}
  /\ {stopped, halt, aclient, asession, abandoned} \subseteq BOOLEAN

\* No call that was admitted is cut off by a close: the loop is stopped only
\* when no thread but an interrupted one has a coroutine on it or is about to
\* submit one (active calls are counted through every exit, the drain waits
\* for them, and a taken-back close re-admits).
CallsAreNotCutOff ==
  /\ \A o \in Operations : result[o] = "cancelled" => o \in ClientClosers \cup Main
  /\ halt => \A o \in Operations \ ClientClosers : pc[o] \notin {"starting", "ready", "waiting"}

\* A close() that returns normally has closed: the asynchronous client is
\* closed and the loop thread has ended; for a session, its asynchronous
\* session is closed, be it by this close, a concurrent one, or the client's.
NormalCloseIsComplete ==
  /\ \A o \in ClientClosers : At(o, "over") /\ result[o] = "value" =>
       aclient /\ thread = "finished"
  /\ \A o \in SessionClosers : At(o, "over") /\ result[o] = "value" => asession

\* Unless an interrupt breaks a close off, every operation returns: no thread
\* waits for a count, a state, a future or the loop thread for ever.
OperationsReturn ==
  \A o \in Operations : ~At(o, "idle") ~> (At(o, "over") \/ abandoned)

\* "Close the asynchronous client and join its private loop thread": a close()
\* of the client that is not itself interrupted comes to an end.
CloseReturns ==
  \A o \in ClientClosers \ Main : ~At(o, "idle") ~> At(o, "over")
=============================================================================
