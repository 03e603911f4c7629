------------------------ MODULE GameModeShutdownProofs ------------------------
(***************************************************************************)
(* A signal that finds the daemon at rest leaves the system as it was       *)
(* before game mode, for every set of games.  The handler reads and writes  *)
(* without the lock, so the argument is about what the reaper cannot do     *)
(* meanwhile: as long as it has not taken the write lock, neither the       *)
(* refcount nor the mode has changed under the handler's hands.             *)
(***************************************************************************)
EXTENDS GameModeShutdown, GameModeContextProofs

\* The places of the handler after its way out of game mode.
LeftLocs == {"free", "stop", "stop_signal", "join", "exited"}

\* A clean shutdown: the main thread rests, nobody has the write lock, and
\* the mode is what the refcount asks for until the handler has looked at it.
CleanInv ==
  clean =>
    /\ handler # "none"
    /\ pc["main"] = "idle"
    /\ writer = NoThread
    /\ handler = "destroy" => ModeFits
    /\ handler \in LeftLocs => mode = "off"

ShutdownInv ==
  /\ ListInv
  /\ handler \in HandlerLocs
  /\ handler = "none" => ModeInv
  /\ CleanInv

-----------------------------------------------------------------------------
\* The handler's own steps change neither the list nor a place that holds the
\* lock: at most they wake the reaper.
LEMMA HandlerKeepsList == ListInv /\ Handler => ListInv'
<1> SUFFICES ASSUME ListInv, Handler PROVE ListInv'
  OBVIOUS
<1>1. /\ UNCHANGED <<alive, clients, refcount, optimised, writer, readers, op, arg,
                     reply, announced, restarted, misread>>
      /\ mode' \in {mode, "leaving", "off"} /\ running' \in {running, FALSE}
      /\ found' \in {found, NoPid}
      /\ \/ pc' = pc
         \/ pc["reaper"] = "wait" /\ pc' = [pc EXCEPT !["reaper"] = "woken"]
  <2>1. CASE DestroySignal
    <3>1. pc["reaper"] # "wait" => pc' = pc
      BY <2>1 DEF DestroySignal, ListInv, TypeOK
    <3>2. QED BY <2>1, <3>1 DEF DestroySignal, expiryVars
  <2>2. CASE DestroyBegin \/ DestroyLeft \/ DestroyFree \/ DestroyStop \/ DestroyJoin
    BY <2>2 DEF DestroyBegin, DestroyLeft, DestroyFree, DestroyStop, DestroyJoin,
        expiryVars, vars
  <2>3. QED BY <2>1, <2>2 DEF Handler
<1>2. TypeOK'
  BY <1>1 DEF ListInv, TypeOK, Locs, ReaperLocs
<1>3. LockInv'
  BY <1>1 DEF ListInv, TypeOK, LockInv, HoldsWrite, HoldsRead, WriteLocs, ReadLocs,
      SwitchLocs, Threads
<1>4. PlaceInv'
  BY <1>1 DEF ListInv, TypeOK, PlaceInv, Threads, AfterJoinLocs, RegisterLocs,
      UnregisterLocs, ReloadLocs, SwitchLocs, MainLocs, ReaperLocs
<1>5. CountInv'
  BY <1>1 DEF ListInv, TypeOK, CountInv, Threads
<1>6. UniqueInv'
  BY <1>1 DEF ListInv, TypeOK, UniqueInv, IsInjective, Threads
<1>7. QED BY <1>2, <1>3, <1>4, <1>5, <1>6 DEF ListInv

\* A reaper that starts without the write lock and does not take it changes
\* neither the refcount nor the mode.
LEMMA ReaperKeepsMode ==
  ASSUME ListInv, writer = NoThread, Reaper, writer' # "reaper"
  PROVE  /\ writer' = NoThread
         /\ UNCHANGED <<refcount, mode, restarted>>
         /\ pc'["main"] = pc["main"]
<1> USE DEF Threads, NoThread, Goto, listVars, lockVars, callVars, expiryVars
<1>1. ~HoldsWrite("reaper") /\ op["reaper"] # "restart" /\ pc \in [Threads -> Locs]
  BY DEF ListInv, TypeOK, LockInv, PlaceInv
<1>2. CASE Wait
  BY <1>1, <1>2 DEF Wait, ReaperTop, ReaperWait, ReaperTimeout, ReaperWoken, ReaperMoves
<1>3. CASE Expire
  BY <1>1, <1>3 DEF Expire, ReaperFindsDead, ReaperFindsNone, ReaperReadsPid,
      ReaperUnregister, ReaperMoves
<1>4. CASE Housekeep
  BY <1>1, <1>4 DEF Housekeep, ReaperIgpu, ReaperRepin, ReaperReload, ReaperNoReload,
      ReaperMoves
<1>5. CASE Unregister("reaper")
  BY <1>1, <1>5 DEF Unregister, Unlink, UnlinkUnknown, UnregisterCount,
      UnregisterUnlock, UnregisterEmit, HoldsWrite, WriteLocs
<1>6. CASE Switch("reaper")
  BY <1>1, <1>6 DEF Switch, FinishEnter, FinishLeave, HoldsWrite, SwitchLocs
<1>7. CASE Reload("reaper")
  BY <1>1, <1>7 DEF Reload, ReloadBegin, ReloadConfig, ReloadApply, HoldsWrite,
      WriteLocs
<1>8. QED
  BY <1>2, <1>3, <1>4, <1>5, <1>6, <1>7 DEF Reaper, Shared

\* With the main thread at rest and the write lock free, nothing is half done.
LEMMA RestIsSettled ==
  ASSUME ListInv, ModeInv, pc["main"] = "idle", writer = NoThread PROVE ModeFits
<1>1. readers = {}
  BY DEF ListInv, LockInv, HoldsRead, ReadLocs, SwitchLocs
<1>2. QED BY <1>1 DEF ModeInv, Settled, Restarting

\* The steps of the daemon before the signal, of the reaper after it, and of
\* the handler keep the invariant.
LEMMA ShutdownStep ==
  ASSUME ~Restarts
  PROVE  ShutdownInv /\ ShutdownNext => ShutdownInv'
<1> SUFFICES ASSUME ShutdownInv, ShutdownNext PROVE ShutdownInv'
  OBVIOUS
<1>0. /\ ListInv /\ handler \in HandlerLocs /\ (handler = "none" => ModeInv) /\ CleanInv
      /\ refcount \in Nat /\ ~restarted
  BY DEF ShutdownInv, ListInv, TypeOK, PlaceInv
<1>1. ASSUME Next, handler' = handler, CleanInv' PROVE ShutdownInv'
  <2>1. ListInv'
    BY <1>0, <1>1, ListStep
  <2>2. handler' = "none" => ModeInv'
    BY <1>0, <1>1, ModeStep DEF IInv
  <2>3. QED BY <1>0, <1>1, <2>1, <2>2 DEF ShutdownInv
<1>2. CASE handler = "none" /\ Calls /\ UNCHANGED handlerVars
  <2>1. CleanInv'
    BY <1>0, <1>2 DEF CleanInv, handlerVars
  <2>2. QED BY <1>1, <1>2, <2>1 DEF Next, handlerVars
<1>3. CASE InterruptedMain
  <2>1. CleanInv'
    BY <1>0, <1>3 DEF CleanInv, InterruptedMain, handlerVars
  <2>2. QED BY <1>1, <1>3, <2>1 DEF Next, InterruptedMain, handlerVars
<1>4. CASE ReaperRuns
  <2>1. CleanInv'
    <3>1. SUFFICES ASSUME clean' PROVE CleanInv'
      BY DEF CleanInv
    <3>2. clean /\ writer' # "reaper" /\ Reaper /\ handler' = handler
      BY <1>4, <3>1 DEF ReaperRuns
    <3>3. QED BY <1>0, <3>2, ReaperKeepsMode DEF CleanInv, ModeFits
  <2>2. QED BY <1>1, <1>4, <2>1 DEF Next, ReaperRuns
<1>5. CASE handler # "exited" /\ Processes /\ UNCHANGED handlerVars
  <2>1. CleanInv'
    BY <1>0, <1>5 DEF CleanInv, ModeFits, Processes, Die, Reuse, handlerVars
  <2>2. QED BY <1>1, <1>5, <2>1 DEF Next, handlerVars
<1>6. CASE Signal
  <2>1. ListInv'
    <3>1. UNCHANGED vars
      BY <1>6 DEF Signal
    <3>2. QED BY <1>0, <3>1, ListStep
  <2>2. CleanInv'
    BY <1>0, <1>6, RestIsSettled DEF Signal, CleanInv, ModeFits, LeftLocs, vars
  <2>3. QED BY <1>6, <2>1, <2>2 DEF Signal, ShutdownInv, HandlerLocs
<1>7. CASE Handler
  <2>1. ListInv'
    BY <1>0, <1>7, HandlerKeepsList
  <2>2. handler' \in HandlerLocs \ {"none"}
    BY <1>7 DEF Handler, DestroyBegin, DestroyLeft, DestroyFree, DestroyStop,
        DestroySignal, DestroyJoin, HandlerLocs
  <2>3. CleanInv'
    <3>1. CASE DestroyBegin
      BY <1>0, <3>1 DEF DestroyBegin, CleanInv, ModeFits, LeftLocs
    <3>2. CASE DestroyLeft \/ DestroyFree \/ DestroyStop \/ DestroyJoin
      BY <1>0, <3>2 DEF DestroyLeft, DestroyFree, DestroyStop, DestroyJoin,
          CleanInv, LeftLocs, vars
    <3>3. CASE DestroySignal
      BY <1>0, <3>3 DEF DestroySignal, CleanInv, LeftLocs, ListInv, TypeOK, Threads
    <3>4. QED BY <1>7, <3>1, <3>2, <3>3 DEF Handler
  <2>4. QED BY <2>1, <2>2, <2>3 DEF ShutdownInv
<1>8. QED BY <1>2, <1>3, <1>4, <1>5, <1>6, <1>7 DEF ShutdownNext

\* A signal that finds the main thread at rest, and a reaper that keeps off
\* the write lock while the handler runs, leave the system out of game mode.
THEOREM CleanExit ==
  ASSUME ~Restarts PROVE ShutdownSpec => []CleanExitRestoresDefault
<1>1. ShutdownInit => ShutdownInv
  BY InitInv DEF ShutdownInit, ShutdownInv, IInv, CleanInv, HandlerLocs
<1>2. ShutdownInv /\ [ShutdownNext]_shutdownVars => ShutdownInv'
  <2>1. ShutdownInv /\ ShutdownNext => ShutdownInv'
    BY ShutdownStep
  <2>2. ASSUME ShutdownInv, UNCHANGED shutdownVars PROVE ShutdownInv'
    <3>1. UNCHANGED vars /\ UNCHANGED handlerVars
      BY <2>2 DEF shutdownVars
    <3>2. ListInv'
      BY <2>2, <3>1, ListStep DEF ShutdownInv
    <3>3. ModeInv => ModeInv'
      BY <3>1 DEF vars, ModeInv, ModeAt, ModeFits, Settled, Restarting
    <3>4. CleanInv'
      BY <2>2, <3>1 DEF vars, handlerVars, ShutdownInv, CleanInv, ModeFits
    <3>5. QED BY <2>2, <3>1, <3>2, <3>3, <3>4 DEF ShutdownInv, handlerVars
  <2>3. QED BY <2>1, <2>2
<1>3. ShutdownInv => CleanExitRestoresDefault
  BY DEF ShutdownInv, CleanInv, CleanExitRestoresDefault, LeftLocs
<1>4. QED BY <1>1, <1>2, <1>3, PTL DEF ShutdownSpec

=============================================================================
