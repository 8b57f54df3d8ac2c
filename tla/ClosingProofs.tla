---------------------------- MODULE ClosingProofs ----------------------------
(***************************************************************************)
(* Proofs about how the package closes.  SyncBridge, for every finite set  *)
(* of operations in any threads: no admitted call is cut off, and a close  *)
(* that returns normally has closed.  Lifecycle, for every finite set of   *)
(* operations, any calls of the sessions they open and any closers: the    *)
(* asynchronous client closes in order.                                    *)
(***************************************************************************)
EXTENDS SyncBridge, Lifecycle, FiniteSetTheorems, TLAPS

-------------------------------------------------------------------------------
\* The blocking facade.

\* Each kind of operation passes through the places of its method only.
PlacesOf(o) ==
  {"idle", "starting", "ready", "waiting", "over"} \cup
  (IF o \in ClientClosers THEN {"draining", "awaiting", "stopping", "joining", "settling"}
                          ELSE {"unlisting"}) \cup
  (IF o \in SessionCalls \cup SessionClosers THEN {"admission"} ELSE {}) \cup
  (IF o \in SessionCalls THEN {"leaving"} ELSE {}) \cup
  (IF o \in SessionClosers
   THEN {"draining", "awaiting", "asking", "following", "settling"} ELSE {})
Placed == \A o \in Operations : pc[o] \in PlacesOf(o)

\* The bridge counts the operations between their admission and their finally clause.
Admitted == {"starting", "ready", "waiting", "unlisting"}
CallsCounted == bridge.active = {o \in Operations \ ClientClosers : pc[o] \in Admitted}

\* One close of the client does the work, and no call is left once it has drained.
PastDrain == {"starting", "ready", "waiting", "stopping", "joining", "settling"}
Working == {"draining"} \cup PastDrain
OneCloserWorks ==
  /\ \A o \in ClientClosers : pc[o] \in Working => bridge.state = "closing"
  /\ \A o, p \in ClientClosers : pc[o] \in Working /\ pc[p] \in Working => o = p
  /\ \A o \in ClientClosers : pc[o] \in PastDrain => bridge.active = {}
  /\ bridge.state = "closed" => bridge.active = {}

\* The loop is stopped by a close that has drained.
Stopping == {"joining", "settling"}
HaltFollowsDrain ==
  halt => bridge.state = "closed" \/ \E o \in ClientClosers : pc[o] \in Stopping

\* Only the main thread cancels what it waits for; the stopped loop, what a close waits for.
CancellationIsMain ==
  \A o \in Operations :
    /\ task[o] = "cancelling" => o \in Main
    /\ pc[o] = "waiting" /\ task[o] = "cancelled" => o \in ClientClosers \cup Main
    /\ result[o] = "cancelled" => o \in ClientClosers \cup Main

\* What a close that ended well has brought about.
Served == thread \in {"running", "finished"}
ValuesAreEarned ==
  /\ \A o \in Operations : task[o] = "value" => Served
  /\ \A o \in ClientClosers :
       /\ task[o] = "value" \/ result[o] = "value" => aclient /\ asession /\ Served
       /\ result[o] = "value" /\ pc[o] \in {"settling", "over"} => thread = "finished"
  /\ \A o \in SessionClosers : task[o] = "value" \/ result[o] = "value" => asession
  /\ bridge.state = "closed" /\ bridge.error = "none" =>
       aclient /\ asession /\ thread = "finished"
  /\ facade.state = "closed" /\ facade.error = "none" => asession

\* An operation that is about to settle knows what it got.
Informed == {"unlisting", "leaving", "asking", "following", "stopping", "joining", "settling"}
ResultsKnown == \A o \in Operations : pc[o] \in Informed => result[o] # "none"

BridgeInv ==
  /\ BridgeTypeOK /\ Placed
  /\ CallsCounted /\ OneCloserWorks /\ HaltFollowsDrain
  /\ CancellationIsMain /\ ValuesAreEarned /\ ResultsKnown

-------------------------------------------------------------------------------

\* The four kinds of operation are distinct.
LEMMA KindsDiffer ==
  ASSUME OperationAssumption, NEW o \in Operations
  PROVE  /\ o \in ClientCalls \cup SessionCalls \cup SessionClosers \cup ClientClosers
         /\ o \in ClientCalls => o \notin SessionCalls \cup SessionClosers \cup ClientClosers
         /\ o \in SessionCalls => o \notin SessionClosers \cup ClientClosers
         /\ o \in SessionClosers => o \notin ClientClosers
BY DEF Operations, OperationAssumption

\* What a step of one operation owes to the others, when it leaves the bridge alone.
MovesSoundly(c) ==
  /\ UNCHANGED <<bridge, halt, aclient, asession>>
  /\ \A o \in Operations \ {c} : pc'[o] = pc[o] /\ result'[o] = result[o] /\ task'[o] = task[o]
  /\ pc'[c] \in PlacesOf(c)
  /\ c \notin ClientClosers => (pc'[c] \in Admitted <=> pc[c] \in Admitted)
  /\ c \in ClientClosers =>
       /\ pc'[c] \in Working => pc[c] \in Working
       /\ pc'[c] \in PastDrain => pc[c] \in PastDrain \/ bridge.active = {}
       /\ pc[c] \in Stopping => bridge.state = "closed" \/ pc'[c] \in Stopping
  /\ task'[c] = "cancelling" => c \in Main
  /\ pc'[c] = "waiting" => task'[c] # "cancelled"
  /\ task'[c] = "value" => task[c] = "value"
  /\ result'[c] = "cancelled" => c \in ClientClosers \cup Main
  /\ Served => thread' = thread
  /\ result'[c] = "value" /\ c \in ClientClosers =>
       aclient /\ asession /\ Served /\ (pc'[c] \in {"settling", "over"} => thread = "finished")
  /\ result'[c] = "value" /\ c \in SessionClosers => asession
  /\ facade'.state = "closed" /\ facade'.error = "none" => asession
  /\ pc'[c] \in Informed => result'[c] # "none"

\* A sound move keeps the invariant.
LEMMA MoveKeepsBridgeInv ==
  ASSUME OperationAssumption, BridgeInv, NEW c \in Operations, MovesSoundly(c), BridgeTypeOK'
  PROVE  BridgeInv'
<1> USE DEF BridgeInv, MovesSoundly
<1>0. ClientClosers \subseteq Operations /\ SessionClosers \subseteq Operations
  BY DEF Operations
<1>1. Placed'
  BY DEF Placed, PlacesOf
<1>2. CallsCounted'
  BY DEF CallsCounted
<1>3. OneCloserWorks'
  BY <1>0 DEF OneCloserWorks
<1>4. HaltFollowsDrain'
  BY <1>0 DEF HaltFollowsDrain
<1>5. CancellationIsMain'
  BY DEF CancellationIsMain
<1>6. ValuesAreEarned'
  BY <1>0 DEF ValuesAreEarned, Served
<1>7. ResultsKnown'
  BY DEF ResultsKnown
<1>8. QED
  BY <1>1, <1>2, <1>3, <1>4, <1>5, <1>6, <1>7

\* _LoopThread._start keeps the invariant.
LEMMA StartLoopInv ==
  ASSUME OperationAssumption, BridgeInv, NEW c \in Operations, StartLoop(c)
  PROVE  BridgeInv'
<1> USE KindsDiffer DEF BridgeInv
<1>0. /\ pc[c] = "starting"
      /\ UNCHANGED <<bridge, facade, task, halt, aclient, asession, abandoned>>
      /\ thread' \in {thread, "starting", "broken"} /\ (thread' # thread => thread = "none")
      /\ stopped' \in BOOLEAN
      /\ \/ pc' = [pc EXCEPT ![c] = "ready"] /\ result' = result
         \/ /\ pc' = [pc EXCEPT ![c] = IF c \in ClientClosers THEN "stopping" ELSE "unlisting"]
            /\ \E e \in {"refused", "failed"} : result' = [result EXCEPT ![c] = e]
  BY DEF StartLoop, LeaveRun, AfterRun, At, Goto, BridgeTypeOK
<1>1. BridgeTypeOK'
  BY <1>0 DEF BridgeTypeOK, Ended
<1>2. MovesSoundly(c)
  BY <1>0 DEF MovesSoundly, Placed, PlacesOf, Admitted, PastDrain, Working, Stopping,
     OneCloserWorks, CancellationIsMain, ValuesAreEarned, Served, Informed, ResultsKnown,
     BridgeTypeOK, Gate
<1>3. QED
  BY <1>1, <1>2, MoveKeepsBridgeInv

\* The first block of VisionSession.close keeps the invariant.
LEMMA CloseSessionInv ==
  ASSUME OperationAssumption, BridgeInv, NEW c \in Operations, CloseSession(c)
  PROVE  BridgeInv'
<1> USE KindsDiffer DEF BridgeInv
<1>0. /\ c \in SessionClosers /\ pc[c] = "idle" /\ UNCHANGED <<bridge, loopVars, abandoned>>
      /\ facade' \in Gate
      /\ \/ /\ facade.state = "closed" /\ facade' = facade /\ pc' = [pc EXCEPT ![c] = "over"]
            /\ result' = [result EXCEPT ![c] = IF facade.error = "none" THEN "value"
                                                                      ELSE facade.error]
         \/ /\ facade'.state = "closing" /\ result' = result
            /\ \E w \in {"awaiting", "draining"} : pc' = [pc EXCEPT ![c] = w]
  <2>1. facade.state \in {"open", "closing", "closed"} /\ facade \in Gate
    BY DEF BridgeTypeOK, Gate
  <2>2. facade' = [facade EXCEPT !.state = IF @ = "open" THEN "closing" ELSE @]
    BY DEF CloseSession
  <2>3. /\ facade' \in Gate
        /\ facade.state = "closed" => facade' = facade
        /\ facade.state # "closed" => facade'.state = "closing"
    BY <2>1, <2>2 DEF Gate
  <2>4. c \in SessionClosers /\ pc[c] = "idle" /\ UNCHANGED <<bridge, loopVars, abandoned>>
    BY DEF CloseSession, CloseGate, CanStart, At
  <2>5. CASE facade.state = "closed"
    <3>1. /\ pc' = [pc EXCEPT ![c] = "over"]
          /\ result' = [result EXCEPT ![c] = IF facade.error = "none" THEN "value"
                                                                    ELSE facade.error]
      BY <2>5 DEF CloseSession, CloseGate, Finish, Goto
    <3>2. facade' = facade /\ facade.state = "closed"
      BY <2>3, <2>5
    <3>3. QED
      BY ZenonT(40), <2>3, <2>4, <3>1, <3>2
  <2>6. CASE facade.state # "closed"
    <3>1. result' = result /\ \E w \in {"awaiting", "draining"} : pc' = [pc EXCEPT ![c] = w]
      BY <2>1, <2>6 DEF CloseSession, CloseGate, Goto
    <3>2. facade'.state = "closing"
      BY <2>3, <2>6
    <3>3. QED
      BY ZenonT(40), <2>3, <2>4, <3>1, <3>2
  <2>7. QED
    BY <2>5, <2>6
<1>1. BridgeTypeOK'
  BY <1>0 DEF BridgeTypeOK, Gate, Ended, loopVars
<1>2. MovesSoundly(c)
  BY <1>0 DEF MovesSoundly, Placed, PlacesOf, Admitted, PastDrain, Working, Stopping,
     OneCloserWorks, CancellationIsMain, ValuesAreEarned, Served, Informed, ResultsKnown,
     BridgeTypeOK, Gate, loopVars
<1>3. QED
  BY <1>1, <1>2, MoveKeepsBridgeInv

\* The admission of a call by _ClientBridge.run keeps the invariant.
LEMMA AdmitInv ==
  ASSUME OperationAssumption, BridgeInv, NEW c \in Operations, Admit(c)
  PROVE  BridgeInv'
<1> USE KindsDiffer DEF BridgeInv
<1>0. /\ c \notin ClientClosers /\ pc[c] \in {"idle", "admission"}
      /\ UNCHANGED <<facade, loopVars, abandoned>>
  BY DEF Admit, CanStart, At, Placed, PlacesOf
<1>1. CASE bridge.state # "open"
  <2>1. /\ bridge' = bridge /\ result' = [result EXCEPT ![c] = "refused"]
        /\ \E w \in {"leaving", "asking", "over"} :
             /\ pc' = [pc EXCEPT ![c] = w]
             /\ w = "leaving" => c \in SessionCalls
             /\ w = "asking" => c \in SessionClosers
    BY <1>0, <1>1 DEF Admit, AfterRun, Goto
  <2>2. BridgeTypeOK'
    BY <1>0, <2>1 DEF BridgeTypeOK, Ended, loopVars
  <2>3. MovesSoundly(c)
    BY <1>0, <2>1 DEF MovesSoundly, Placed, PlacesOf, Admitted, PastDrain, Working, Stopping,
       OneCloserWorks, CancellationIsMain, ValuesAreEarned, Served, Informed, ResultsKnown,
       BridgeTypeOK, Gate, loopVars
  <2>4. QED
    BY <2>2, <2>3, MoveKeepsBridgeInv
<1>2. CASE bridge.state = "open"
  <2>1. /\ bridge' \in Gate /\ bridge'.state = "open" /\ bridge'.error = bridge.error
        /\ bridge'.active = bridge.active \cup {c}
        /\ pc' = [pc EXCEPT ![c] = "starting"] /\ result' = result
    BY <1>0, <1>2 DEF Admit, Goto, BridgeTypeOK, Gate
  <2> USE <1>0, <1>2, <2>1 DEF loopVars
  <2>2. BridgeTypeOK' /\ Placed'
    BY DEF BridgeTypeOK, Placed, PlacesOf
  <2>3. CallsCounted'
    BY DEF CallsCounted, Admitted, BridgeTypeOK
  <2>4. OneCloserWorks' /\ HaltFollowsDrain'
    BY DEF OneCloserWorks, HaltFollowsDrain, Working, PastDrain, Stopping, BridgeTypeOK
  <2>5. CancellationIsMain'
    BY DEF CancellationIsMain, BridgeTypeOK
  <2>6. ValuesAreEarned' /\ ResultsKnown'
    BY DEF ValuesAreEarned, Served, ResultsKnown, Informed, BridgeTypeOK
  <2>7. QED
    BY <2>2, <2>3, <2>4, <2>5, <2>6
<1>3. QED
  BY <1>1, <1>2

\* The finally clause of _ClientBridge.run keeps the invariant.
LEMMA UnlistInv ==
  ASSUME OperationAssumption, BridgeInv, NEW c \in Operations, Unlist(c)
  PROVE  BridgeInv'
<1> USE KindsDiffer DEF BridgeInv
<1>1. /\ c \notin ClientClosers /\ pc[c] = "unlisting"
      /\ UNCHANGED <<facade, result, loopVars, abandoned>>
      /\ bridge' \in Gate /\ bridge'.state = bridge.state /\ bridge'.error = bridge.error
      /\ bridge'.active = bridge.active \ {c}
      /\ \E w \in {"leaving", "asking", "settling", "over"} :
             /\ pc' = [pc EXCEPT ![c] = w]
             /\ w = "leaving" => c \in SessionCalls
             /\ w \in {"asking", "settling"} => c \in SessionClosers
  BY DEF Unlist, AfterRun, At, Goto, Placed, PlacesOf, BridgeTypeOK, Gate
<1> USE <1>1 DEF loopVars
<1>2. BridgeTypeOK' /\ Placed'
  BY DEF BridgeTypeOK, Placed, PlacesOf, Ended
<1>3. CallsCounted'
  BY DEF CallsCounted, Admitted, BridgeTypeOK
<1>4. OneCloserWorks' /\ HaltFollowsDrain'
  BY DEF OneCloserWorks, HaltFollowsDrain, Working, PastDrain, Stopping, BridgeTypeOK
<1>5. CancellationIsMain'
  BY DEF CancellationIsMain, BridgeTypeOK
<1>6. ValuesAreEarned' /\ ResultsKnown'
  BY DEF ValuesAreEarned, Served, ResultsKnown, Informed, BridgeTypeOK
<1>7. QED
  BY <1>2, <1>3, <1>4, <1>5, <1>6

\* _LoopThread.stop keeps the invariant: the close that stops the loop has drained.
LEMMA StopInv ==
  ASSUME OperationAssumption, BridgeInv, NEW c \in Operations, Stop(c)
  PROVE  BridgeInv'
<1> USE KindsDiffer DEF BridgeInv
<1>1. /\ c \in ClientClosers /\ pc[c] = "stopping"
      /\ UNCHANGED <<bridge, facade, result, task, thread, aclient, asession, abandoned>>
      /\ stopped' = TRUE /\ halt' \in BOOLEAN
      /\ pc' = [pc EXCEPT ![c] = IF thread = "none" THEN "settling" ELSE "joining"]
  BY DEF Stop, At, Goto, Placed, PlacesOf, BridgeTypeOK
<1> USE <1>1
<1>2. BridgeTypeOK' /\ Placed'
  BY DEF BridgeTypeOK, Placed, PlacesOf, Ended
<1>3. CallsCounted'
  BY DEF CallsCounted, Admitted, BridgeTypeOK
<1>4. OneCloserWorks' /\ HaltFollowsDrain'
  BY DEF OneCloserWorks, HaltFollowsDrain, Working, PastDrain, Stopping, BridgeTypeOK
<1>5. CancellationIsMain'
  BY DEF CancellationIsMain, BridgeTypeOK
<1>6. ValuesAreEarned' /\ ResultsKnown'
  BY DEF ValuesAreEarned, Served, ResultsKnown, Informed, BridgeTypeOK
<1>7. QED
  BY <1>2, <1>3, <1>4, <1>5, <1>6

\* A plain move is a step of one operation that leaves the bridge and the client alone.
PlainMove(c) ==
  \/ EnterSession(c) \/ LeaveSession(c) \/ Submit(c) \/ Resume(c)
  \/ Drained(c) \/ Awaited(c) \/ AskBridge(c) \/ Follow(c) \/ Join(c)
  \/ InterruptAwait(c) \/ InterruptStart(c) \/ InterruptWait(c) \/ InterruptJoin(c)

\* A plain move keeps the types.
LEMMA PlainMoveTypes ==
  ASSUME OperationAssumption, BridgeInv, NEW c \in Operations, PlainMove(c)
  PROVE  BridgeTypeOK'
<1> USE KindsDiffer DEF BridgeInv, At, Goto, Finish, LeaveRun, AfterRun, CloseGate, GateOf,
        loopVars, Ended, CanStart, PlainMove, BridgeTypeOK, Gate
<1>1. CASE EnterSession(c)
  BY <1>1 DEF EnterSession
<1>2. CASE LeaveSession(c)
  BY <1>2 DEF LeaveSession
<1>3. CASE Submit(c)
  BY <1>3 DEF Submit
<1>4. CASE Resume(c)
  BY <1>4 DEF Resume
<1>5. CASE Drained(c)
  BY <1>5 DEF Drained
<1>6. CASE Awaited(c)
  BY <1>6 DEF Awaited
<1>7. CASE AskBridge(c)
  BY <1>7 DEF AskBridge
<1>8. CASE Follow(c)
  BY <1>8 DEF Follow
<1>9. CASE Join(c)
  BY <1>9 DEF Join
<1>10. CASE InterruptAwait(c)
  BY <1>10 DEF InterruptAwait
<1>11. CASE InterruptStart(c)
  BY <1>11 DEF InterruptStart
<1>12. CASE InterruptWait(c)
  BY <1>12 DEF InterruptWait
<1>13. CASE InterruptJoin(c)
  BY <1>13 DEF InterruptJoin
<1>14. QED
  BY <1>1, <1>2, <1>3, <1>4, <1>5, <1>6, <1>7, <1>8, <1>9, <1>10, <1>11, <1>12, <1>13

\* A plain move owes the other operations nothing.
LEMMA PlainMoveSound ==
  ASSUME OperationAssumption, BridgeInv, NEW c \in Operations, PlainMove(c)
  PROVE  MovesSoundly(c)
<1> USE KindsDiffer DEF BridgeInv, At, Goto, Finish, LeaveRun, AfterRun, CloseGate, GateOf,
        loopVars, Ended, CanStart, PlainMove, MovesSoundly, Placed, PlacesOf, Admitted,
        PastDrain, Working, Stopping, OneCloserWorks, CancellationIsMain, ValuesAreEarned,
        Served, Informed, ResultsKnown, BridgeTypeOK, Gate
<1>1. CASE EnterSession(c)
  BY <1>1 DEF EnterSession
<1>2. CASE LeaveSession(c)
  BY <1>2 DEF LeaveSession
<1>3. CASE Submit(c)
  BY <1>3 DEF Submit
<1>4. CASE Resume(c)
  BY <1>4 DEF Resume
<1>5. CASE Drained(c)
  BY <1>5 DEF Drained
<1>6. CASE Awaited(c)
  BY <1>6 DEF Awaited
<1>7. CASE AskBridge(c)
  BY <1>7 DEF AskBridge
<1>8. CASE Follow(c)
  BY <1>8 DEF Follow
<1>9. CASE Join(c)
  BY <1>9 DEF Join
<1>10. CASE InterruptAwait(c)
  BY <1>10 DEF InterruptAwait
<1>11. CASE InterruptStart(c)
  BY <1>11 DEF InterruptStart
<1>12. CASE InterruptWait(c)
  BY <1>12 DEF InterruptWait
<1>13. CASE InterruptJoin(c)
  BY <1>13 DEF InterruptJoin
<1>14. QED
  BY <1>1, <1>2, <1>3, <1>4, <1>5, <1>6, <1>7, <1>8, <1>9, <1>10, <1>11, <1>12, <1>13

\* So a plain move keeps the invariant.
LEMMA PlainMoveInv ==
  ASSUME OperationAssumption, BridgeInv, NEW c \in Operations, PlainMove(c)
  PROVE  BridgeInv'
BY PlainMoveTypes, PlainMoveSound, MoveKeepsBridgeInv

\* The first block of _ClientBridge.close keeps the invariant.
LEMMA CloseClientInv ==
  ASSUME OperationAssumption, BridgeInv, NEW c \in Operations, CloseClient(c)
  PROVE  BridgeInv'
<1> USE KindsDiffer DEF BridgeInv
<1>0. /\ c \in ClientClosers /\ pc[c] = "idle" /\ UNCHANGED <<facade, loopVars, abandoned>>
      /\ bridge \in Gate /\ bridge.state \in {"open", "closing", "closed"}
  BY DEF CloseClient, CloseGate, CanStart, At, BridgeTypeOK, Gate
<1>1. CASE bridge.state # "open"
  <2>1. bridge' = bridge
    BY <1>0, <1>1 DEF CloseClient, Gate
  <2>2. \/ /\ bridge.state = "closed" /\ pc' = [pc EXCEPT ![c] = "over"]
           /\ result' = [result EXCEPT ![c] = IF bridge.error = "none" THEN "value"
                                                                     ELSE bridge.error]
        \/ pc' = [pc EXCEPT ![c] = "awaiting"] /\ result' = result
    BY <1>0, <1>1 DEF CloseClient, CloseGate, Goto, Finish
  <2>3. BridgeTypeOK'
    BY <1>0, <2>1, <2>2 DEF BridgeTypeOK, Gate, Ended, loopVars
  <2>4. MovesSoundly(c)
    BY <1>0, <2>1, <2>2 DEF MovesSoundly, Placed, PlacesOf, Admitted, PastDrain, Working,
       Stopping, OneCloserWorks, CancellationIsMain, ValuesAreEarned, Served, Informed,
       ResultsKnown, BridgeTypeOK, Gate, loopVars
  <2>5. QED
    BY <2>3, <2>4, MoveKeepsBridgeInv
<1>2. CASE bridge.state = "open"
  <2>1. /\ bridge' \in Gate /\ bridge'.state = "closing" /\ bridge'.active = bridge.active
        /\ pc' = [pc EXCEPT ![c] = "draining"] /\ result' = result
    BY <1>0, <1>2 DEF CloseClient, CloseGate, Goto, Gate
  <2> USE <1>0, <1>2, <2>1 DEF loopVars
  <2>2. BridgeTypeOK' /\ Placed'
    BY DEF BridgeTypeOK, Placed, PlacesOf
  <2>3. CallsCounted'
    BY DEF CallsCounted, Admitted, BridgeTypeOK
  <2>4. OneCloserWorks' /\ HaltFollowsDrain'
    BY DEF OneCloserWorks, HaltFollowsDrain, Working, PastDrain, Stopping, BridgeTypeOK
  <2>5. CancellationIsMain'
    BY DEF CancellationIsMain, BridgeTypeOK
  <2>6. ValuesAreEarned' /\ ResultsKnown'
    BY DEF ValuesAreEarned, Served, ResultsKnown, Informed, BridgeTypeOK
  <2>7. QED
    BY <2>2, <2>3, <2>4, <2>5, <2>6
<1>3. QED
  BY <1>1, <1>2

\* The end of a close, which publishes its state and error, keeps the invariant.
LEMMA SettleInv ==
  ASSUME OperationAssumption, BridgeInv, NEW c \in Operations, Settle(c)
  PROVE  BridgeInv'
<1> DEFINE e == ErrorOf(result[c])
<1> USE KindsDiffer DEF BridgeInv
<1>0. /\ pc[c] = "settling" /\ pc' = [pc EXCEPT ![c] = "over"]
      /\ UNCHANGED <<result, loopVars, abandoned>> /\ c \in ClientClosers \cup SessionClosers
      /\ result[c] # "none"
      /\ e \in {"none", "refused", "failed", "interrupted"}
      /\ e = "none" => result[c] = "value"
  BY DEF Settle, At, Goto, Placed, PlacesOf, ErrorOf, BridgeTypeOK, ResultsKnown, Informed,
     Ended
<1> HIDE DEF e
<1>1. CASE c \notin ClientClosers
  <2>1. /\ bridge' = bridge /\ facade' \in Gate
        /\ facade'.state = "closed" /\ facade'.error = e
    <3>1. bridge' = bridge /\ facade' = [facade EXCEPT !.state = "closed", !.error = e]
      BY <1>1 DEF Settle, e
    <3>2. QED
      BY <1>0, <3>1 DEF BridgeTypeOK, Gate
  <2>2. BridgeTypeOK'
    BY <1>0, <2>1 DEF BridgeTypeOK, loopVars
  <2>3. MovesSoundly(c)
    BY <1>0, <1>1, <2>1 DEF MovesSoundly, Placed, PlacesOf, Admitted, PastDrain, Working,
       Stopping, OneCloserWorks, CancellationIsMain, ValuesAreEarned, Served, Informed,
       ResultsKnown, BridgeTypeOK, Gate, loopVars
  <2>4. QED
    BY <2>2, <2>3, MoveKeepsBridgeInv
<1>2. CASE c \in ClientClosers
  <2>1. /\ facade' = facade /\ bridge' \in Gate /\ bridge'.active = bridge.active
        /\ bridge'.state = "closed" /\ bridge'.error = e
    <3>1. facade' = facade /\ bridge' = [bridge EXCEPT !.state = "closed", !.error = e]
      BY <1>2 DEF Settle, e
    <3>2. QED
      BY <1>0, <3>1 DEF BridgeTypeOK, Gate
  <2> USE <1>0, <1>2, <2>1 DEF loopVars
  <2>2. BridgeTypeOK' /\ Placed'
    BY DEF BridgeTypeOK, Placed, PlacesOf
  <2>3. CallsCounted'
    BY DEF CallsCounted, Admitted, BridgeTypeOK
  <2>4. OneCloserWorks' /\ HaltFollowsDrain'
    BY DEF OneCloserWorks, HaltFollowsDrain, Working, PastDrain, Stopping, BridgeTypeOK
  <2>5. CancellationIsMain'
    BY DEF CancellationIsMain, BridgeTypeOK
  <2>6. ValuesAreEarned' /\ ResultsKnown'
    BY DEF ValuesAreEarned, Served, ResultsKnown, Informed, BridgeTypeOK
  <2>7. QED
    BY <2>2, <2>3, <2>4, <2>5, <2>6
<1>3. QED
  BY <1>1, <1>2

\* A close that is taken back while it drains keeps the invariant.
LEMMA InterruptDrainInv ==
  ASSUME OperationAssumption, BridgeInv, NEW c \in Operations, InterruptDrain(c)
  PROVE  BridgeInv'
<1> USE KindsDiffer DEF BridgeInv
<1>0. /\ pc[c] = "draining" /\ pc' = [pc EXCEPT ![c] = "over"]
      /\ result' = [result EXCEPT ![c] = "interrupted"]
      /\ UNCHANGED loopVars /\ abandoned' = TRUE /\ c \in ClientClosers \cup SessionClosers
  BY DEF InterruptDrain, At, Goto, Finish, Placed, PlacesOf
<1>1. CASE c \notin ClientClosers
  <2>1. bridge' = bridge /\ facade' \in Gate /\ facade'.state = "open"
    BY <1>0, <1>1 DEF InterruptDrain, BridgeTypeOK, Gate
  <2>2. BridgeTypeOK'
    BY <1>0, <2>1 DEF BridgeTypeOK, loopVars
  <2>3. MovesSoundly(c)
    BY <1>0, <1>1, <2>1 DEF MovesSoundly, Placed, PlacesOf, Admitted, PastDrain, Working,
       Stopping, OneCloserWorks, CancellationIsMain, ValuesAreEarned, Served, Informed,
       ResultsKnown, BridgeTypeOK, Gate, loopVars
  <2>4. QED
    BY <2>2, <2>3, MoveKeepsBridgeInv
<1>2. CASE c \in ClientClosers
  <2>1. /\ facade' = facade
        /\ bridge' \in Gate /\ bridge'.active = bridge.active /\ bridge'.state = "open"
    BY <1>0, <1>2 DEF InterruptDrain, BridgeTypeOK, Gate
  <2> USE <1>0, <1>2, <2>1 DEF loopVars
  <2>2. BridgeTypeOK' /\ Placed'
    BY DEF BridgeTypeOK, Placed, PlacesOf
  <2>3. CallsCounted'
    BY DEF CallsCounted, Admitted, BridgeTypeOK
  <2>4. OneCloserWorks' /\ HaltFollowsDrain'
    BY DEF OneCloserWorks, HaltFollowsDrain, Working, PastDrain, Stopping, BridgeTypeOK
  <2>5. CancellationIsMain'
    BY DEF CancellationIsMain, BridgeTypeOK
  <2>6. ValuesAreEarned' /\ ResultsKnown'
    BY DEF ValuesAreEarned, Served, ResultsKnown, Informed, BridgeTypeOK
  <2>7. QED
    BY <2>2, <2>3, <2>4, <2>5, <2>6
<1>3. QED
  BY <1>1, <1>2

\* The end of a coroutine keeps the invariant: a close that ended well has closed.
LEMMA TaskEndsInv ==
  ASSUME OperationAssumption, BridgeInv, NEW c \in Operations, TaskEnds(c)
  PROVE  BridgeInv'
<1> USE KindsDiffer DEF BridgeInv
<1>1. /\ thread = "running" /\ task[c] \in {"running", "cancelling"}
      /\ UNCHANGED <<bridge, facade, pc, result, thread, stopped, halt, abandoned>>
  BY DEF TaskEnds, Pending
<1>2. /\ task' \in [Operations -> {"none", "running", "cancelling"} \cup Ended]
      /\ \A d \in Operations \ {c} : task'[d] = task[d]
      /\ task'[c] \in Ended /\ (task'[c] = "cancelled" => task[c] = "cancelling")
  <2>1. PICK outcome \in IF task[c] = "running" THEN {"value", "failed"} ELSE {"cancelled"} :
          task' = [task EXCEPT ![c] = outcome]
    BY DEF TaskEnds
  <2>2. /\ outcome \in Ended /\ (outcome = "cancelled" => task[c] = "cancelling")
        /\ task \in [Operations -> {"none", "running", "cancelling"} \cup Ended]
    BY <1>1, <2>1 DEF BridgeTypeOK, Ended
  <2>3. QED
    BY <2>1, <2>2
<1>3. /\ aclient' \in BOOLEAN /\ asession' \in BOOLEAN
      /\ (aclient => aclient') /\ (asession => asession')
      /\ task'[c] = "value" /\ c \in ClientClosers => aclient' /\ asession'
      /\ task'[c] = "value" /\ c \in SessionClosers => asession'
  <2>1. /\ aclient' \in {aclient \/ c \in ClientClosers}
                         \cup (IF task'[c] = "value" THEN {} ELSE {aclient})
        /\ asession' \in {asession \/ aclient' \/ c \in SessionClosers}
                         \cup (IF task'[c] = "value" THEN {} ELSE {asession})
    BY DEF TaskEnds
  <2>2. aclient \in BOOLEAN /\ asession \in BOOLEAN
    BY DEF BridgeTypeOK
  <2>3. QED
    BY <2>1, <2>2
<1>4. BridgeTypeOK'
  BY <1>1, <1>2, <1>3 DEF BridgeTypeOK, Ended
<1>5. Placed' /\ CallsCounted'
  BY <1>1 DEF BridgeTypeOK, Placed, PlacesOf, CallsCounted, Admitted
<1>6. OneCloserWorks' /\ HaltFollowsDrain' /\ ResultsKnown'
  BY <1>1 DEF OneCloserWorks, HaltFollowsDrain, Working, PastDrain, Stopping, ResultsKnown
<1>7. CancellationIsMain'
  BY <1>1, <1>2 DEF CancellationIsMain, Ended
<1>8. ValuesAreEarned'
  <2>1. /\ \A o \in Operations : task'[o] = "value" => Served'
        /\ \A o \in ClientClosers : result'[o] = "value" => Served'
        /\ \A o \in ClientClosers :
             result'[o] = "value" /\ pc'[o] \in {"settling", "over"} => thread' = "finished"
        /\ result' = result /\ bridge' = bridge /\ facade' = facade /\ thread' = thread
    BY <1>1 DEF ValuesAreEarned, Served
  <2>2. ASSUME NEW o \in ClientClosers, task'[o] = "value" \/ result'[o] = "value"
        PROVE  aclient' /\ asession' /\ Served'
    <3>1. CASE task[o] = "value" \/ result[o] = "value"
      <4>1. aclient /\ asession
        BY ONLY <3>1, ValuesAreEarned, Zenon DEF ValuesAreEarned
      <4>2. Served'
        BY <1>1 DEF Served
      <4>3. QED
        BY ONLY <4>1, <4>2, <1>3, Zenon
    <3>2. CASE ~(task[o] = "value" \/ result[o] = "value")
      <4>1. o = c /\ task'[c] = "value"
        BY <1>1, <1>2, <2>2, <3>2 DEF Operations
      <4>2. Served'
        BY <1>1 DEF Served
      <4>3. QED
        BY ONLY <4>1, <4>2, <1>3, Zenon
    <3>3. QED
      BY <3>1, <3>2
  <2>3. ASSUME NEW o \in SessionClosers, task'[o] = "value" \/ result'[o] = "value"
        PROVE  asession'
    <3>1. CASE task[o] = "value" \/ result[o] = "value"
      <4>1. asession
        BY ONLY <3>1, ValuesAreEarned, Zenon DEF ValuesAreEarned
      <4>2. QED
        BY ONLY <4>1, <1>3, Zenon
    <3>2. CASE ~(task[o] = "value" \/ result[o] = "value")
      <4>1. o = c /\ task'[c] = "value"
        BY <1>1, <1>2, <2>3, <3>2 DEF Operations
      <4>2. QED
        BY ONLY <4>1, <1>3, Zenon
    <3>3. QED
      BY <3>1, <3>2
  <2>4. /\ bridge'.state = "closed" /\ bridge'.error = "none" =>
             aclient' /\ asession' /\ thread' = "finished"
        /\ facade'.state = "closed" /\ facade'.error = "none" => asession'
    BY Zenon, <1>3, <2>1 DEF ValuesAreEarned
  <2>5. QED
    BY Zenon, <2>1, <2>2, <2>3, <2>4 DEF ValuesAreEarned
<1>9. QED
  BY <1>4, <1>5, <1>6, <1>7, <1>8

\* The start of the loop thread keeps the invariant.
LEMMA LoopInv ==
  ASSUME OperationAssumption, BridgeInv, Announce \/ RunForever
  PROVE  BridgeInv'
<1>1. /\ UNCHANGED <<bridge, facade, pc, result, task, stopped, halt, aclient, asession,
                      abandoned>>
      /\ thread \in {"starting", "announced"} /\ thread' \in {"announced", "broken", "running"}
  BY DEF Announce, RunForever
<1> USE <1>1 DEF BridgeInv
<1>2. BridgeTypeOK' /\ Placed' /\ CallsCounted'
  BY DEF BridgeTypeOK, Placed, PlacesOf, CallsCounted
<1>3. OneCloserWorks' /\ HaltFollowsDrain' /\ CancellationIsMain'
  BY DEF OneCloserWorks, HaltFollowsDrain, CancellationIsMain
<1>4. ValuesAreEarned' /\ ResultsKnown'
  BY DEF ValuesAreEarned, Served, ResultsKnown
<1>5. QED
  BY <1>2, <1>3, <1>4

\* The loop is stopped only when no call waits for a coroutine on it.
LEMMA NoCallOnStoppedLoop ==
  ASSUME OperationAssumption, BridgeInv, halt, NEW o \in Operations \ ClientClosers
  PROVE  pc[o] \notin Admitted
<1>1. bridge.active = {}
  BY DEF BridgeInv, HaltFollowsDrain, OneCloserWorks, Stopping, PastDrain, Operations
<1>2. QED
  BY <1>1 DEF BridgeInv, CallsCounted

\* The end of the loop, which cancels what is left on it, keeps the invariant.
LEMMA UnwindInv ==
  ASSUME OperationAssumption, BridgeInv, Unwind
  PROVE  BridgeInv'
<1> USE KindsDiffer DEF BridgeInv
<1>1. /\ thread = "running" /\ halt /\ thread' = "finished"
      /\ task' \in [Operations -> {"none", "running", "cancelling"} \cup Ended]
      /\ \A o \in Operations : task'[o] \in {task[o], "cancelled"} \ {"cancelling"}
      /\ aclient' \in BOOLEAN /\ asession' \in BOOLEAN
      /\ (aclient => aclient') /\ (asession => asession')
      /\ UNCHANGED <<bridge, facade, pc, result, stopped, halt, abandoned>>
  <2>1. /\ aclient' \in {aclient, aclient \/ \E o \in ClientClosers : Pending(o)}
        /\ asession' \in
             {asession, asession \/ \E o \in ClientClosers \cup SessionClosers : Pending(o)}
        /\ aclient \in BOOLEAN /\ asession \in BOOLEAN
    BY DEF Unwind, BridgeTypeOK
  <2>2. /\ aclient' \in BOOLEAN /\ asession' \in BOOLEAN
        /\ (aclient => aclient') /\ (asession => asession')
    BY <2>1
  <2>3. QED
    BY <2>2 DEF Unwind, Pending, BridgeTypeOK, Ended
<1> USE <1>1
<1>2. BridgeTypeOK' /\ Placed'
  BY DEF BridgeTypeOK, Placed, PlacesOf
<1>3. CallsCounted' /\ OneCloserWorks' /\ HaltFollowsDrain' /\ ResultsKnown'
  BY DEF CallsCounted, OneCloserWorks, HaltFollowsDrain, ResultsKnown
<1>4. CancellationIsMain'
  BY NoCallOnStoppedLoop DEF CancellationIsMain, Admitted
<1>5. ValuesAreEarned'
  <2>1. \A o \in Operations : task'[o] = "value" => task[o] = "value"
    OBVIOUS
  <2>2. /\ \A o \in ClientClosers : task'[o] = "value" => task[o] = "value"
        /\ \A o \in SessionClosers : task'[o] = "value" => task[o] = "value"
    BY <2>1 DEF Operations
  <2>3. Served' /\ thread' = "finished" /\ UNCHANGED <<bridge, facade, result>>
    BY DEF Served
  <2>4. (aclient => aclient') /\ (asession => asession')
    OBVIOUS
  <2>5. ASSUME NEW o \in ClientClosers, task'[o] = "value" \/ result'[o] = "value"
        PROVE  aclient' /\ asession'
    BY ONLY <2>2, <2>3, <2>4, <2>5, ValuesAreEarned, Zenon DEF ValuesAreEarned
  <2>6. ASSUME NEW o \in SessionClosers, task'[o] = "value" \/ result'[o] = "value"
        PROVE  asession'
    BY ONLY <2>2, <2>3, <2>4, <2>6, ValuesAreEarned, Zenon DEF ValuesAreEarned
  <2>7. /\ bridge'.state = "closed" /\ bridge'.error = "none" =>
             aclient' /\ asession' /\ thread' = "finished"
        /\ facade'.state = "closed" /\ facade'.error = "none" => asession'
    BY ONLY <2>3, <2>4, ValuesAreEarned, Zenon DEF ValuesAreEarned
  <2>8. QED
    BY ONLY <2>3, <2>5, <2>6, <2>7, Zenon DEF ValuesAreEarned
<1>6. QED
  BY <1>2, <1>3, <1>4, <1>5

\* The bridge starts in the invariant.
LEMMA BridgeInitInv == OperationAssumption /\ BridgeInit => BridgeInv
<1> SUFFICES ASSUME OperationAssumption, BridgeInit PROVE BridgeInv
  OBVIOUS
<1>1. BridgeTypeOK
  BY DEF BridgeInit, Fresh, BridgeTypeOK, Gate
<1>2. QED
  BY <1>1 DEF BridgeInit, Fresh, BridgeInv, Placed, PlacesOf, CallsCounted, Admitted,
     OneCloserWorks, Working, PastDrain, HaltFollowsDrain, CancellationIsMain,
     ValuesAreEarned, Served, ResultsKnown, Informed, Operations

\* Every step keeps the invariant.
LEMMA BridgeNextInv == OperationAssumption /\ BridgeInv /\ [BridgeNext]_bridgeVars => BridgeInv'
<1> SUFFICES ASSUME OperationAssumption, BridgeInv, [BridgeNext]_bridgeVars PROVE BridgeInv'
  OBVIOUS
<1>1. ASSUME NEW o \in Operations,
             \/ EnterSession(o) \/ Admit(o) \/ CloseSession(o) \/ CloseClient(o)
             \/ Unlist(o) \/ LeaveSession(o) \/ StartLoop(o) \/ Submit(o) \/ Resume(o)
             \/ Drained(o) \/ Awaited(o) \/ AskBridge(o) \/ Follow(o)
             \/ Stop(o) \/ Join(o) \/ Settle(o) \/ TaskEnds(o)
      PROVE  BridgeInv'
  BY <1>1, PlainMoveInv, AdmitInv, CloseSessionInv, CloseClientInv, UnlistInv, StartLoopInv,
     StopInv, SettleInv, TaskEndsInv DEF PlainMove
<1>2. ASSUME NEW o \in Operations, Interrupt(o)
      PROVE  BridgeInv'
  BY <1>2, PlainMoveInv, InterruptDrainInv DEF PlainMove, Interrupt
<1>3. CASE Announce \/ RunForever \/ Unwind
  BY <1>3, LoopInv, UnwindInv
<1>4. CASE UNCHANGED bridgeVars
  BY <1>4 DEF bridgeVars, BridgeInv, BridgeTypeOK, Placed, CallsCounted, OneCloserWorks,
     HaltFollowsDrain, CancellationIsMain, ValuesAreEarned, Served, ResultsKnown
<1>5. QED
  BY <1>1, <1>2, <1>3, <1>4 DEF BridgeNext

\* The invariant holds throughout, for any operations in any threads and any of them in
\* the main thread.
THEOREM BridgeInductive == BridgeSpec => []BridgeInv
<1>1. QED
  BY BridgeInitInv, BridgeNextInv, OperationAssumption, PTL DEF BridgeSpec

\* No call that _ClientBridge.run admitted is cut off by a close of the client: the loop
\* is stopped only once the count of the calls is back to zero, whichever way each left.
THEOREM AdmittedCallsEnd == BridgeSpec => []CallsAreNotCutOff
<1>1. OperationAssumption /\ BridgeInv => CallsAreNotCutOff
  BY NoCallOnStoppedLoop DEF BridgeInv, CancellationIsMain, CallsAreNotCutOff, Admitted
<1>2. QED
  BY <1>1, BridgeInductive, OperationAssumption, PTL

\* A close() that returns without an error has closed what it names, whether it did the
\* work, joined a concurrent close or found the client closing.
THEOREM ReturnedCloseHasClosed == BridgeSpec => []NormalCloseIsComplete
<1>1. BridgeInv => NormalCloseIsComplete
  BY DEF BridgeInv, ValuesAreEarned, NormalCloseIsComplete, At
<1>2. QED
  BY <1>1, BridgeInductive, PTL

-------------------------------------------------------------------------------
\* The asynchronous client.

\* How far an operation has come determines what there is of its session.
OperationsConsistent ==
  \A o \in Ops :
    /\ load[o] \in {"none", "running", "loaded", "broken"} => sess[o] = "none"
    /\ load[o] = "loaded" => store[o] = "open"
    /\ op[o] = "idle" => load[o] = "none"
    /\ op[o] = "loading" => load[o] \in {"running", "loaded", "broken"} /\ ~orphan[o]
    /\ orphan[o] => op[o] = "failed" /\ sess[o] = "none"
    /\ op[o] = "rejecting" => sess[o] \in {"closing", "closed"}
    /\ op[o] \in {"opened", "serving", "closing", "insisting"} => o \in OneShot
    /\ op[o] \in (OpActive \cup {"returned"}) \ {"loading"} => load[o] = "over"

\* A session that is open or in use is filed and has its store; the holder of its lock is
\* at work in it, and whoever is at work in it holds the lock.
LocksConsistent ==
  /\ \A s \in Ops :
       /\ lock[s] # Nobody => sess[s] \in {"open", "closing"}
       /\ lock[s] # Nobody \/ sess[s] = "open" => filed[s] /\ store[s] = "open"
       /\ op[s] = "serving" <=> lock[s] = s
       /\ lock[s] \in Calls => On[lock[s]] = s
       /\ lock[s] \in Ops => lock[s] = s
  /\ \A c \in Calls :
       /\ call[c] = "running" <=> lock[On[c]] = c
       /\ call[c] # "idle" => op[On[c]] = "returned"

\* Once the client has drained, every session that is open or in use waits to be closed;
\* and after that there is none.
StagesConsistent ==
  /\ closing <=> stage > 0
  /\ closed <=> stage = 8
  /\ \A s \in Ops : sess[s] = "open" \/ lock[s] # Nobody =>
       /\ stage = 2 => s \in snapshot
       /\ stage <= 2

IInv == /\ TypeOK
        /\ ActiveAccounted
        /\ OperationsConsistent
        /\ LocksConsistent
        /\ StagesConsistent
        /\ ClosersSeeWholeClose

-------------------------------------------------------------------------------
USE ParticipantAssumption

LEMMA Participants ==
  /\ Nobody \notin Ops /\ Nobody \notin Calls
  /\ \A s \in Ops : s \notin Calls
  /\ \A c \in Calls : On[c] \in Opens /\ On[c] \in Ops /\ On[c] \notin OneShot
BY DEF Ops

LEMMA SevenStages == Len(Stages) = 7 /\ Resources = 3 .. 7
BY DEF Stages, Resources

\* The counter stays right when no operation starts or ends, when one starts
\* and when one ends.
LEMMA CountKept ==
  ASSUME ActiveAccounted, UNCHANGED active,
         \A o \in Ops : op'[o] \in OpActive <=> op[o] \in OpActive
  PROVE  ActiveAccounted'
<1>1. {o \in Ops : op'[o] \in OpActive} = {o \in Ops : op[o] \in OpActive}
  OBVIOUS
<1>2. QED
  BY <1>1 DEF ActiveAccounted

LEMMA CountStarts ==
  ASSUME TypeOK, ActiveAccounted, NEW o \in Ops, NEW h \in OpActive, op[o] \notin OpActive,
         op' = [op EXCEPT ![o] = h], active' = active + 1
  PROVE  ActiveAccounted'
<1> DEFINE A == {p \in Ops : op[p] \in OpActive}
<1>1. IsFiniteSet(A) /\ o \notin A
  BY FS_Subset
<1>2. {p \in Ops : op'[p] \in OpActive} = A \cup {o}
  BY DEF TypeOK
<1>3. Cardinality(A \cup {o}) = Cardinality(A) + 1
  BY <1>1, FS_AddElement
<1>4. QED
  BY <1>2, <1>3 DEF ActiveAccounted

LEMMA CountEnds ==
  ASSUME TypeOK, ActiveAccounted, NEW o \in Ops, NEW h \in OpOver, op[o] \in OpActive, End(o, h)
  PROVE  ActiveAccounted' /\ active' \in Nat
<1> DEFINE A == {p \in Ops : op[p] \in OpActive}
<1>1. IsFiniteSet(A) /\ o \in A
  BY FS_Subset
<1>2. {p \in Ops : op'[p] \in OpActive} = A \ {o}
  BY DEF TypeOK, End, OpActive, OpOver
<1>3. Cardinality(A \ {o}) = Cardinality(A) - 1 /\ Cardinality(A \ {o}) \in Nat
  BY <1>1, FS_RemoveElement, FS_Subset, FS_CardinalityType
<1>4. QED
  BY <1>2, <1>3 DEF ActiveAccounted, End

LEMMA InitIInv == Init => IInv
<1> SUFFICES ASSUME Init PROVE IInv
  OBVIOUS
<1> USE DEF Init
<1>1. TypeOK
  <2>1. orphan \in [Ops -> BOOLEAN] /\ filed \in [Ops -> BOOLEAN]
    OBVIOUS
  <2>2. stage \in 0 .. Len(Stages) + 1 /\ lock \in [Ops -> Ops \cup Calls \cup {Nobody}]
    BY SevenStages
  <2>3. /\ op \in [Ops -> {"idle"} \cup OpActive \cup OpOver]
        /\ closer \in [Closers -> {"idle", "waiting", "draining", "returned", "raised"}]
    OBVIOUS
  <2>4. QED
    BY <2>1, <2>2, <2>3 DEF TypeOK
<1>2. ActiveAccounted
  <2>1. {o \in Ops : op[o] \in OpActive} = {}
    BY DEF OpActive
  <2>2. QED
    BY <2>1, FS_EmptySet DEF ActiveAccounted
<1>3. OperationsConsistent
  BY DEF OperationsConsistent, OpActive
<1>4. LocksConsistent
  BY Participants DEF LocksConsistent
<1>5. StagesConsistent
  BY DEF StagesConsistent
<1>6. ClosersSeeWholeClose
  BY DEF ClosersSeeWholeClose
<1>7. QED
  BY <1>1, <1>2, <1>3, <1>4, <1>5, <1>6 DEF IInv

-------------------------------------------------------------------------------
\* A client operation.

LEMMA BeginIInv ==
  ASSUME IInv, NEW o \in Ops, Begin(o)
  PROVE  IInv'
<1> USE DEF IInv, Begin, sessions, loading, shutdown
<1>1. TypeOK'
  BY SevenStages DEF TypeOK, OpActive, OpOver
<1>2. ActiveAccounted'
  <2>1. CASE closing
    BY <2>1, CountKept DEF TypeOK, OpActive
  <2>2. CASE ~closing
    BY <2>2, CountStarts DEF OpActive
  <2>3. QED
    BY <2>1, <2>2
<1>3. OperationsConsistent'
  BY DEF TypeOK, OperationsConsistent, LocksConsistent, OpActive, OpOver
<1>4. LocksConsistent'
  BY Participants DEF TypeOK, OperationsConsistent, LocksConsistent
<1>5. StagesConsistent'
  BY SevenStages DEF TypeOK, OperationsConsistent, LocksConsistent, StagesConsistent
<1>6. ClosersSeeWholeClose'
  BY DEF TypeOK, StagesConsistent, ClosersSeeWholeClose
<1>7. QED
  BY <1>1, <1>2, <1>3, <1>4, <1>5, <1>6

LEMMA LoadEndsIInv ==
  ASSUME IInv, NEW o \in Ops, NEW fine \in BOOLEAN, LoadEnds(o, fine)
  PROVE  IInv'
<1> USE DEF IInv, LoadEnds, sessions, loading, shutdown
<1>1. TypeOK'
  BY SevenStages DEF TypeOK, OpActive, OpOver
<1>2. ActiveAccounted'
  BY CountKept DEF TypeOK, OpActive
<1>3. OperationsConsistent'
  BY DEF TypeOK, OperationsConsistent, LocksConsistent, OpActive, OpOver
<1>4. LocksConsistent'
  BY Participants DEF TypeOK, OperationsConsistent, LocksConsistent
<1>5. StagesConsistent'
  BY SevenStages DEF TypeOK, OperationsConsistent, LocksConsistent, StagesConsistent
<1>6. ClosersSeeWholeClose'
  BY DEF TypeOK, StagesConsistent, ClosersSeeWholeClose
<1>7. QED
  BY <1>1, <1>2, <1>3, <1>4, <1>5, <1>6

LEMMA CreateSessionIInv ==
  ASSUME IInv, NEW o \in Ops, CreateSession(o)
  PROVE  IInv'
<1> USE DEF IInv, CreateSession, Rejected, End, sessions, loading, shutdown
<1>1. ActiveAccounted' /\ active' \in Nat
  <2>1. CASE closing \/ o \in OneShot
    BY <2>1, CountKept DEF TypeOK, OpActive
  <2>2. CASE ~closing /\ o \notin OneShot
    BY <2>2, CountEnds DEF OpActive, OpOver
  <2>3. QED
    BY <2>1, <2>2
<1>2. TypeOK'
  <2>1. filed' \in [Ops -> BOOLEAN] /\ sess' \in [Ops -> {"none", "open", "closing", "closed"}]
    BY DEF TypeOK
  <2>2. op' \in [Ops -> {"idle"} \cup OpActive \cup OpOver]
    BY DEF TypeOK, OpActive, OpOver
  <2>3. QED
    BY <1>1, <2>1, <2>2 DEF TypeOK
<1>3. OperationsConsistent'
  BY DEF TypeOK, OperationsConsistent, LocksConsistent, OpActive, OpOver
<1>4. LocksConsistent'
  BY Participants DEF TypeOK, OperationsConsistent, LocksConsistent
<1>5. StagesConsistent'
  BY SevenStages DEF TypeOK, OperationsConsistent, LocksConsistent, StagesConsistent
<1>6. ClosersSeeWholeClose'
  BY DEF TypeOK, StagesConsistent, ClosersSeeWholeClose
<1>7. QED
  BY <1>1, <1>2, <1>3, <1>4, <1>5, <1>6

LEMMA LoadFailedIInv ==
  ASSUME IInv, NEW o \in Ops, LoadFailed(o)
  PROVE  IInv'
<1> USE DEF IInv, LoadFailed, End, sessions, loading, shutdown
<1>1. ActiveAccounted' /\ active' \in Nat
  BY CountEnds DEF OpActive, OpOver
<1>2. TypeOK'
  BY <1>1, SevenStages DEF TypeOK, OpActive, OpOver
<1>3. OperationsConsistent'
  BY DEF TypeOK, OperationsConsistent, LocksConsistent, OpActive, OpOver
<1>4. LocksConsistent'
  BY Participants DEF TypeOK, OperationsConsistent, LocksConsistent
<1>5. StagesConsistent'
  BY SevenStages DEF TypeOK, OperationsConsistent, LocksConsistent, StagesConsistent
<1>6. ClosersSeeWholeClose'
  BY DEF TypeOK, StagesConsistent, ClosersSeeWholeClose
<1>7. QED
  BY <1>1, <1>2, <1>3, <1>4, <1>5, <1>6

LEMMA CancelLoadingIInv ==
  ASSUME IInv, NEW o \in Ops, CancelLoading(o)
  PROVE  IInv'
<1> USE DEF IInv, CancelLoading, LeaveStoreToCallback, End, sessions, loading, shutdown
<1>1. ActiveAccounted' /\ active' \in Nat
  BY CountEnds DEF OpActive, OpOver
<1>2. TypeOK'
  BY <1>1, SevenStages DEF TypeOK, OpActive, OpOver
<1>3. OperationsConsistent'
  BY DEF TypeOK, OperationsConsistent, LocksConsistent, OpActive, OpOver
<1>4. LocksConsistent'
  BY Participants DEF TypeOK, OperationsConsistent, LocksConsistent
<1>5. StagesConsistent'
  BY SevenStages DEF TypeOK, OperationsConsistent, LocksConsistent, StagesConsistent
<1>6. ClosersSeeWholeClose'
  BY DEF TypeOK, StagesConsistent, ClosersSeeWholeClose
<1>7. QED
  BY <1>1, <1>2, <1>3, <1>4, <1>5, <1>6

LEMMA CloseLateStoreIInv ==
  ASSUME IInv, NEW o \in Ops, CloseLateStore(o)
  PROVE  IInv'
<1> USE DEF IInv, CloseLateStore, sessions, loading, shutdown
<1>1. TypeOK'
  BY SevenStages DEF TypeOK, OpActive, OpOver
<1>2. ActiveAccounted'
  BY CountKept DEF TypeOK, OpActive
<1>3. OperationsConsistent'
  BY DEF TypeOK, OperationsConsistent, LocksConsistent, OpActive, OpOver
<1>4. LocksConsistent'
  BY Participants DEF TypeOK, OperationsConsistent, LocksConsistent
<1>5. StagesConsistent'
  BY SevenStages DEF TypeOK, OperationsConsistent, LocksConsistent, StagesConsistent
<1>6. ClosersSeeWholeClose'
  BY DEF TypeOK, StagesConsistent, ClosersSeeWholeClose
<1>7. QED
  BY <1>1, <1>2, <1>3, <1>4, <1>5, <1>6

LEMMA RejectIInv ==
  ASSUME IInv, NEW o \in Ops, Reject(o)
  PROVE  IInv'
<1> USE DEF IInv, Reject, End, sessions, loading, shutdown
<1>1. ActiveAccounted' /\ active' \in Nat
  BY CountEnds DEF OpActive, OpOver
<1>2. TypeOK'
  BY <1>1, SevenStages DEF TypeOK, OpActive, OpOver
<1>3. OperationsConsistent'
  BY DEF TypeOK, OperationsConsistent, LocksConsistent, OpActive, OpOver
<1>4. LocksConsistent'
  BY Participants DEF TypeOK, OperationsConsistent, LocksConsistent
<1>5. StagesConsistent'
  BY SevenStages DEF TypeOK, OperationsConsistent, LocksConsistent, StagesConsistent
<1>6. ClosersSeeWholeClose'
  BY DEF TypeOK, StagesConsistent, ClosersSeeWholeClose
<1>7. QED
  BY <1>1, <1>2, <1>3, <1>4, <1>5, <1>6

LEMMA ServeIInv ==
  ASSUME IInv, NEW o \in Ops, NEW late \in BOOLEAN, Serve(o, late)
  PROVE  IInv'
<1> USE DEF IInv, Serve, BeginSessionClose, sessions, loading, shutdown
<1>1. TypeOK'
  BY SevenStages DEF TypeOK, OpActive, OpOver
<1>2. ActiveAccounted'
  BY CountKept DEF TypeOK, OpActive
<1>3. OperationsConsistent'
  BY DEF TypeOK, OperationsConsistent, LocksConsistent, OpActive, OpOver
<1>4. LocksConsistent'
  BY Participants DEF TypeOK, OperationsConsistent, LocksConsistent
<1>5. StagesConsistent'
  BY SevenStages DEF TypeOK, OperationsConsistent, LocksConsistent, StagesConsistent
<1>6. ClosersSeeWholeClose'
  BY DEF TypeOK, StagesConsistent, ClosersSeeWholeClose
<1>7. QED
  BY <1>1, <1>2, <1>3, <1>4, <1>5, <1>6

LEMMA ServeEndsIInv ==
  ASSUME IInv, NEW o \in Ops, ServeEnds(o)
  PROVE  IInv'
<1> USE DEF IInv, ServeEnds, BeginSessionClose, sessions, loading, shutdown
<1>1. TypeOK'
  BY SevenStages DEF TypeOK, OpActive, OpOver
<1>2. ActiveAccounted'
  BY CountKept DEF TypeOK, OpActive
<1>3. OperationsConsistent'
  BY DEF TypeOK, OperationsConsistent, LocksConsistent, OpActive, OpOver
<1>4. LocksConsistent'
  BY Participants DEF TypeOK, OperationsConsistent, LocksConsistent
<1>5. StagesConsistent'
  BY SevenStages DEF TypeOK, OperationsConsistent, LocksConsistent, StagesConsistent
<1>6. ClosersSeeWholeClose'
  BY DEF TypeOK, StagesConsistent, ClosersSeeWholeClose
<1>7. QED
  BY <1>1, <1>2, <1>3, <1>4, <1>5, <1>6

LEMMA PrivateSessionClosedIInv ==
  ASSUME IInv, NEW o \in Ops, PrivateSessionClosed(o)
  PROVE  IInv'
<1> USE DEF IInv, PrivateSessionClosed, End, sessions, loading, shutdown
<1>1. ActiveAccounted' /\ active' \in Nat
  BY CountEnds DEF OpActive, OpOver
<1>2. TypeOK'
  BY <1>1, SevenStages DEF TypeOK, OpActive, OpOver
<1>3. OperationsConsistent'
  BY DEF TypeOK, OperationsConsistent, LocksConsistent, OpActive, OpOver
<1>4. LocksConsistent'
  BY Participants DEF TypeOK, OperationsConsistent, LocksConsistent, OpOver
<1>5. StagesConsistent'
  BY SevenStages DEF TypeOK, OperationsConsistent, LocksConsistent, StagesConsistent
<1>6. ClosersSeeWholeClose'
  BY DEF TypeOK, StagesConsistent, ClosersSeeWholeClose
<1>7. QED
  BY <1>1, <1>2, <1>3, <1>4, <1>5, <1>6

LEMMA CancelClosingIInv ==
  ASSUME IInv, NEW o \in Ops, CancelClosing(o)
  PROVE  IInv'
<1> USE DEF IInv, CancelClosing, End, sessions, loading, shutdown
<1>1. ActiveAccounted' /\ active' \in Nat
  <2>1. CASE op[o] = "closing"
    BY <2>1, CountKept DEF TypeOK, OpActive
  <2>2. CASE op[o] = "insisting"
    BY <2>2, CountEnds DEF OpActive, OpOver
  <2>3. QED
    BY <2>1, <2>2
<1>2. TypeOK'
  BY <1>1, SevenStages DEF TypeOK, OpActive, OpOver
<1>3. OperationsConsistent'
  BY DEF TypeOK, OperationsConsistent, LocksConsistent, OpActive, OpOver
<1>4. LocksConsistent'
  BY Participants DEF TypeOK, OperationsConsistent, LocksConsistent
<1>5. StagesConsistent'
  BY SevenStages DEF TypeOK, OperationsConsistent, LocksConsistent, StagesConsistent
<1>6. ClosersSeeWholeClose'
  BY DEF TypeOK, StagesConsistent, ClosersSeeWholeClose
<1>7. QED
  BY <1>1, <1>2, <1>3, <1>4, <1>5, <1>6

-------------------------------------------------------------------------------
\* The calls of a session, and its close.

LEMMA CallIInv ==
  ASSUME IInv, NEW c \in Calls, Call(c)
  PROVE  IInv'
<1> USE DEF IInv, Call, sessions, loading, shutdown
<1>1. TypeOK'
  BY SevenStages DEF TypeOK, OpActive, OpOver
<1>2. ActiveAccounted'
  BY CountKept DEF TypeOK, OpActive
<1>3. OperationsConsistent'
  BY DEF TypeOK, OperationsConsistent, LocksConsistent, OpActive, OpOver
<1>4. LocksConsistent'
  BY Participants DEF TypeOK, OperationsConsistent, LocksConsistent
<1>5. StagesConsistent'
  BY SevenStages DEF TypeOK, OperationsConsistent, LocksConsistent, StagesConsistent
<1>6. ClosersSeeWholeClose'
  BY DEF TypeOK, StagesConsistent, ClosersSeeWholeClose
<1>7. QED
  BY <1>1, <1>2, <1>3, <1>4, <1>5, <1>6

LEMMA EnterCallIInv ==
  ASSUME IInv, NEW c \in Calls, EnterCall(c)
  PROVE  IInv'
<1> USE DEF IInv, EnterCall, sessions, loading, shutdown
<1>1. TypeOK'
  BY SevenStages DEF TypeOK, OpActive, OpOver
<1>2. ActiveAccounted'
  BY CountKept DEF TypeOK, OpActive
<1>3. OperationsConsistent'
  BY DEF TypeOK, OperationsConsistent, LocksConsistent, OpActive, OpOver
<1>4. LocksConsistent'
  BY Participants DEF TypeOK, OperationsConsistent, LocksConsistent
<1>5. StagesConsistent'
  BY SevenStages DEF TypeOK, OperationsConsistent, LocksConsistent, StagesConsistent
<1>6. ClosersSeeWholeClose'
  BY DEF TypeOK, StagesConsistent, ClosersSeeWholeClose
<1>7. QED
  BY <1>1, <1>2, <1>3, <1>4, <1>5, <1>6

LEMMA CallEndsIInv ==
  ASSUME IInv, NEW c \in Calls, CallEnds(c)
  PROVE  IInv'
<1> USE DEF IInv, CallEnds, sessions, loading, shutdown
<1>1. TypeOK'
  BY SevenStages DEF TypeOK, OpActive, OpOver
<1>2. ActiveAccounted'
  BY CountKept DEF TypeOK, OpActive
<1>3. OperationsConsistent'
  BY DEF TypeOK, OperationsConsistent, LocksConsistent, OpActive, OpOver
<1>4. LocksConsistent'
  BY Participants DEF TypeOK, OperationsConsistent, LocksConsistent
<1>5. StagesConsistent'
  BY SevenStages DEF TypeOK, OperationsConsistent, LocksConsistent, StagesConsistent
<1>6. ClosersSeeWholeClose'
  BY DEF TypeOK, StagesConsistent, ClosersSeeWholeClose
<1>7. QED
  BY <1>1, <1>2, <1>3, <1>4, <1>5, <1>6

LEMMA CancelQueuedIInv ==
  ASSUME IInv, NEW c \in Calls, CancelQueued(c)
  PROVE  IInv'
<1> USE DEF IInv, CancelQueued, sessions, loading, shutdown
<1>1. TypeOK'
  BY SevenStages DEF TypeOK, OpActive, OpOver
<1>2. ActiveAccounted'
  BY CountKept DEF TypeOK, OpActive
<1>3. OperationsConsistent'
  BY DEF TypeOK, OperationsConsistent, LocksConsistent, OpActive, OpOver
<1>4. LocksConsistent'
  BY Participants DEF TypeOK, OperationsConsistent, LocksConsistent
<1>5. StagesConsistent'
  BY SevenStages DEF TypeOK, OperationsConsistent, LocksConsistent, StagesConsistent
<1>6. ClosersSeeWholeClose'
  BY DEF TypeOK, StagesConsistent, ClosersSeeWholeClose
<1>7. QED
  BY <1>1, <1>2, <1>3, <1>4, <1>5, <1>6

LEMMA UserClosesSessionIInv ==
  ASSUME IInv, NEW o \in Ops, UserClosesSession(o)
  PROVE  IInv'
<1> USE DEF IInv, UserClosesSession, BeginSessionClose, sessions, loading, shutdown
<1>1. TypeOK'
  BY SevenStages DEF TypeOK, OpActive, OpOver
<1>2. ActiveAccounted'
  BY CountKept DEF TypeOK, OpActive
<1>3. OperationsConsistent'
  BY DEF TypeOK, OperationsConsistent, LocksConsistent, OpActive, OpOver
<1>4. LocksConsistent'
  BY Participants DEF TypeOK, OperationsConsistent, LocksConsistent
<1>5. StagesConsistent'
  BY SevenStages DEF TypeOK, OperationsConsistent, LocksConsistent, StagesConsistent
<1>6. ClosersSeeWholeClose'
  BY DEF TypeOK, StagesConsistent, ClosersSeeWholeClose
<1>7. QED
  BY <1>1, <1>2, <1>3, <1>4, <1>5, <1>6

LEMMA SessionClosesIInv ==
  ASSUME IInv, NEW o \in Ops, SessionCloses(o)
  PROVE  IInv'
<1> USE DEF IInv, SessionCloses, LockAcquired, sessions, loading, shutdown
<1>1. TypeOK'
  BY SevenStages DEF TypeOK, OpActive, OpOver
<1>2. ActiveAccounted'
  BY CountKept DEF TypeOK, OpActive
<1>3. OperationsConsistent'
  BY DEF TypeOK, OperationsConsistent, LocksConsistent, OpActive, OpOver
<1>4. LocksConsistent'
  BY Participants DEF TypeOK, OperationsConsistent, LocksConsistent
<1>5. StagesConsistent'
  BY SevenStages DEF TypeOK, OperationsConsistent, LocksConsistent, StagesConsistent
<1>6. ClosersSeeWholeClose'
  BY DEF TypeOK, StagesConsistent, ClosersSeeWholeClose
<1>7. QED
  BY <1>1, <1>2, <1>3, <1>4, <1>5, <1>6

-------------------------------------------------------------------------------
\* The client's close.

LEMMA CloseIInv ==
  ASSUME IInv, NEW x \in Closers, Close(x)
  PROVE  IInv'
<1> USE DEF IInv, Close, sessions, loading, shutdown
<1>1. TypeOK'
  BY SevenStages DEF TypeOK, OpActive, OpOver
<1>2. ActiveAccounted'
  BY CountKept DEF TypeOK, OpActive
<1>3. OperationsConsistent'
  BY DEF TypeOK, OperationsConsistent, LocksConsistent, OpActive, OpOver
<1>4. LocksConsistent'
  BY Participants DEF TypeOK, OperationsConsistent, LocksConsistent
<1>5. StagesConsistent'
  BY SevenStages DEF TypeOK, OperationsConsistent, LocksConsistent, StagesConsistent
<1>6. ClosersSeeWholeClose'
  BY DEF TypeOK, StagesConsistent, ClosersSeeWholeClose
<1>7. QED
  BY <1>1, <1>2, <1>3, <1>4, <1>5, <1>6

LEMMA DrainIInv ==
  ASSUME IInv, NEW e \in {"fine", "base"}, Drain(e)
  PROVE  IInv'
<1> USE DEF IInv, Drain, Advance, Keep, sessions, loading, shutdown
<1>1. TypeOK'
  BY SevenStages DEF TypeOK, OpActive, OpOver
<1>2. ActiveAccounted'
  BY CountKept DEF TypeOK, OpActive
<1>3. OperationsConsistent'
  BY DEF TypeOK, OperationsConsistent, LocksConsistent, OpActive, OpOver
<1>4. LocksConsistent'
  BY Participants DEF TypeOK, OperationsConsistent, LocksConsistent
<1>5. StagesConsistent'
  BY SevenStages DEF TypeOK, OperationsConsistent, LocksConsistent, StagesConsistent
<1>6. ClosersSeeWholeClose'
  BY DEF TypeOK, StagesConsistent, ClosersSeeWholeClose
<1>7. QED
  BY <1>1, <1>2, <1>3, <1>4, <1>5, <1>6

LEMMA CloseOneSessionIInv ==
  ASSUME IInv, NEW o \in Ops, CloseOneSession(o)
  PROVE  IInv'
<1> USE DEF IInv, CloseOneSession, BeginSessionClose, sessions, loading, shutdown
<1>1. TypeOK'
  BY SevenStages DEF TypeOK, OpActive, OpOver
<1>2. ActiveAccounted'
  BY CountKept DEF TypeOK, OpActive
<1>3. OperationsConsistent'
  BY DEF TypeOK, OperationsConsistent, LocksConsistent, OpActive, OpOver
<1>4. LocksConsistent'
  BY Participants DEF TypeOK, OperationsConsistent, LocksConsistent
<1>5. StagesConsistent'
  BY SevenStages DEF TypeOK, OperationsConsistent, LocksConsistent, StagesConsistent
<1>6. ClosersSeeWholeClose'
  BY DEF TypeOK, StagesConsistent, ClosersSeeWholeClose
<1>7. QED
  BY <1>1, <1>2, <1>3, <1>4, <1>5, <1>6

LEMMA CancelCloseSessionsIInv ==
  ASSUME IInv, CancelCloseSessions
  PROVE  IInv'
<1> USE DEF IInv, CancelCloseSessions, sessions, loading, shutdown
<1>1. TypeOK'
  BY SevenStages DEF TypeOK, OpActive, OpOver
<1>2. ActiveAccounted'
  BY CountKept DEF TypeOK, OpActive
<1>3. OperationsConsistent'
  BY DEF TypeOK, OperationsConsistent, LocksConsistent, OpActive, OpOver
<1>4. LocksConsistent'
  BY Participants DEF TypeOK, OperationsConsistent, LocksConsistent
<1>5. StagesConsistent'
  BY SevenStages DEF TypeOK, OperationsConsistent, LocksConsistent, StagesConsistent
<1>6. ClosersSeeWholeClose'
  BY DEF TypeOK, StagesConsistent, ClosersSeeWholeClose
<1>7. QED
  BY <1>1, <1>2, <1>3, <1>4, <1>5, <1>6

LEMMA CloseSessionsIInv ==
  ASSUME IInv, CloseSessions
  PROVE  IInv'
<1> USE DEF IInv, CloseSessions, SessionsClosed, Advance, Keep, sessions, loading, shutdown
<1>1. TypeOK'
  <2>1. failure' \in {"none", "base"} /\ closed' \in BOOLEAN
    BY DEF TypeOK
  <2>2. stage' \in 0 .. Len(Stages) + 1
    BY SevenStages
  <2>3. QED
    BY <2>1, <2>2 DEF TypeOK
<1>2. ActiveAccounted'
  BY CountKept DEF TypeOK, OpActive
<1>3. OperationsConsistent'
  BY DEF TypeOK, OperationsConsistent, LocksConsistent, OpActive, OpOver
<1>4. LocksConsistent'
  BY Participants DEF TypeOK, OperationsConsistent, LocksConsistent
<1>5. StagesConsistent'
  BY SevenStages DEF TypeOK, OperationsConsistent, LocksConsistent, StagesConsistent
<1>6. ClosersSeeWholeClose'
  BY DEF TypeOK, StagesConsistent, ClosersSeeWholeClose
<1>7. QED
  BY <1>1, <1>2, <1>3, <1>4, <1>5, <1>6

LEMMA CloseResourceIInv ==
  ASSUME IInv, NEW e \in Outcomes, CloseResource(e)
  PROVE  IInv'
<1> USE DEF IInv, CloseResource, Advance, Keep, Outcomes, sessions, loading, shutdown
<1>1. TypeOK'
  BY SevenStages DEF TypeOK, OpActive, OpOver
<1>2. ActiveAccounted'
  BY CountKept DEF TypeOK, OpActive
<1>3. OperationsConsistent'
  BY DEF TypeOK, OperationsConsistent, LocksConsistent, OpActive, OpOver
<1>4. LocksConsistent'
  BY Participants DEF TypeOK, OperationsConsistent, LocksConsistent
<1>5. StagesConsistent'
  BY SevenStages DEF TypeOK, OperationsConsistent, LocksConsistent, StagesConsistent
<1>6. ClosersSeeWholeClose'
  BY DEF TypeOK, StagesConsistent, ClosersSeeWholeClose
<1>7. QED
  BY <1>1, <1>2, <1>3, <1>4, <1>5, <1>6

LEMMA ReturnIInv ==
  ASSUME IInv, NEW x \in Closers, Return(x)
  PROVE  IInv'
<1> USE DEF IInv, Return, sessions, loading, shutdown
<1>1. TypeOK'
  BY SevenStages DEF TypeOK, OpActive, OpOver
<1>2. ActiveAccounted'
  BY CountKept DEF TypeOK, OpActive
<1>3. OperationsConsistent'
  BY DEF TypeOK, OperationsConsistent, LocksConsistent, OpActive, OpOver
<1>4. LocksConsistent'
  BY Participants DEF TypeOK, OperationsConsistent, LocksConsistent
<1>5. StagesConsistent'
  BY SevenStages DEF TypeOK, OperationsConsistent, LocksConsistent, StagesConsistent
<1>6. ClosersSeeWholeClose'
  BY DEF TypeOK, StagesConsistent, ClosersSeeWholeClose
<1>7. QED
  BY <1>1, <1>2, <1>3, <1>4, <1>5, <1>6

LEMMA CancelCloserIInv ==
  ASSUME IInv, NEW x \in Closers, CancelCloser(x)
  PROVE  IInv'
<1> USE DEF IInv, CancelCloser, AfterCancel, sessions, loading, shutdown
<1>1. TypeOK'
  BY SevenStages DEF TypeOK, OpActive, OpOver
<1>2. ActiveAccounted'
  BY CountKept DEF TypeOK, OpActive
<1>3. OperationsConsistent'
  BY DEF TypeOK, OperationsConsistent, LocksConsistent, OpActive, OpOver
<1>4. LocksConsistent'
  BY Participants DEF TypeOK, OperationsConsistent, LocksConsistent
<1>5. StagesConsistent'
  BY SevenStages DEF TypeOK, OperationsConsistent, LocksConsistent, StagesConsistent
<1>6. ClosersSeeWholeClose'
  BY DEF TypeOK, StagesConsistent, ClosersSeeWholeClose
<1>7. QED
  BY <1>1, <1>2, <1>3, <1>4, <1>5, <1>6

-------------------------------------------------------------------------------

LEMMA OpStepIInv ==
  ASSUME IInv, NEW o \in Ops, OpStep(o)
  PROVE  IInv'
<1>1. CASE \E fine \in BOOLEAN : LoadEnds(o, fine)
  BY <1>1, LoadEndsIInv
<1>2. CASE CreateSession(o) \/ LoadFailed(o) \/ CloseLateStore(o) \/ Reject(o)
  BY <1>2, CreateSessionIInv, LoadFailedIInv, CloseLateStoreIInv, RejectIInv
<1>3. CASE \E late \in BOOLEAN : Serve(o, late)
  BY <1>3, ServeIInv
<1>4. CASE ServeEnds(o) \/ PrivateSessionClosed(o)
  BY <1>4, ServeEndsIInv, PrivateSessionClosedIInv
<1>5. QED
  BY <1>1, <1>2, <1>3, <1>4 DEF OpStep

LEMMA CloseStepIInv ==
  ASSUME IInv, CloseStep
  PROVE  IInv'
BY CloseResourceIInv, DrainIInv, CloseSessionsIInv DEF CloseStep

LEMMA NextIInv == IInv /\ [Next]_vars => IInv'
<1> SUFFICES ASSUME IInv, [Next]_vars PROVE IInv'
  OBVIOUS
<1>1. ASSUME NEW o \in Ops,
             \/ Begin(o) \/ OpStep(o) \/ CancelLoading(o) \/ Reject(o) \/ CancelClosing(o)
             \/ UserClosesSession(o) \/ CloseOneSession(o) \/ SessionCloses(o)
      PROVE  IInv'
  BY <1>1, BeginIInv, OpStepIInv, CancelLoadingIInv, RejectIInv, CancelClosingIInv,
     UserClosesSessionIInv, CloseOneSessionIInv, SessionClosesIInv
<1>2. ASSUME NEW c \in Calls, Call(c) \/ EnterCall(c) \/ CallEnds(c) \/ CancelQueued(c)
      PROVE  IInv'
  BY <1>2, CallIInv, EnterCallIInv, CallEndsIInv, CancelQueuedIInv
<1>3. ASSUME NEW x \in Closers, Close(x) \/ Return(x) \/ CancelCloser(x)
      PROVE  IInv'
  BY <1>3, CloseIInv, ReturnIInv, CancelCloserIInv
<1>4. CASE CloseStep \/ Drain("base") \/ CancelCloseSessions
  BY <1>4, CloseStepIInv, DrainIInv, CancelCloseSessionsIInv
<1>5. CASE UNCHANGED vars
  BY <1>5 DEF vars, IInv, TypeOK, ActiveAccounted, OperationsConsistent, LocksConsistent,
              StagesConsistent, ClosersSeeWholeClose
<1>6. QED
  BY <1>1, <1>2, <1>3, <1>4, <1>5 DEF Next

\* Whoever is busy in a session holds its lock.
LEMMA BusyHoldsLock ==
  ASSUME TypeOK, LocksConsistent, NEW s \in Ops, Busy(s)
  PROVE  lock[s] # Nobody
BY Participants DEF LocksConsistent, Busy

LEMMA IInvIsOrderly == IInv => ClosingIsOrderly
<1> SUFFICES ASSUME IInv PROVE ClosingIsOrderly
  OBVIOUS
<1> USE DEF IInv
<1>1. SessionsCloseQuietly
  BY BusyHoldsLock DEF LocksConsistent, SessionsCloseQuietly
<1>2. ResourcesLast
  BY BusyHoldsLock, SevenStages DEF TypeOK, StagesConsistent, ResourcesLast
<1>3. QED
  BY <1>1, <1>2 DEF ClosingIsOrderly

\* The inductive invariant holds in every reachable state.
THEOREM Inductive == Spec => []IInv
<1>1. QED
  BY InitIInv, NextIInv, PTL DEF Spec

\* The client closes in order (client.py _close_sequence, session.py _close_owned): the
\* counter it waits for is the operations under way, no session closes underneath its
\* users, nothing runs in a session while the resources close, and no closer is told early.
THEOREM ClientClosesInOrder == Spec => []ClosingIsOrderly
<1>1. QED
  BY Inductive, IInvIsOrderly, PTL

\* Every variable keeps its type.
THEOREM TypeCorrect == Spec => []TypeOK
<1>1. QED
  BY Inductive, PTL DEF IInv
==============================================================================
