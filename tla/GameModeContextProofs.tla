------------------------ MODULE GameModeContextProofs ------------------------
(***************************************************************************)
(* What holds of the context for every set of games, supervisors and       *)
(* settings: the list and its refcount agree whenever the write lock is    *)
(* free, one thread at a time switches game mode, and game mode follows    *)
(* the list.                                                               *)
(***************************************************************************)
EXTENDS GameModeContext, SequenceTheorems, TLAPS

(* The inductive invariant. *)

\* TypeOK without the places of the code.
DataOK ==
  /\ alive \subseteq Pids
  /\ clients \in Seq(Games)
  /\ refcount \in Nat
  /\ mode \in {"off", "entering", "on", "leaving"}
  /\ optimised \subseteq Games
  /\ writer \in Threads \cup {NoThread}
  /\ readers \subseteq Threads
  /\ running \in BOOLEAN
  /\ op \in [Threads -> Ops]
  /\ arg \in [Threads -> Games \cup {NoPid}]
  /\ reply \in Int
  /\ announced \in [Games -> {"none", "registered", "unregistered"}]
  /\ restarted \in BOOLEAN
  /\ found \in Games \cup {NoPid}
  /\ misread \in BOOLEAN

WriteLocs == {"reg_count", "reg_apply", "unreg_count", "unreg_unlock",
              "reload_config", "reload_apply"}
ReadLocs == {"reg_has", "restart_enter", "restart_unlock"}
AfterJoinLocs == {"reload_wrlock", "reload_config", "reload_apply", "start"}

HoldsWrite(t) ==
  pc[t] \in WriteLocs \/ (pc[t] \in SwitchLocs /\ op[t] # "restart")

\* Only register and restart keep a read lock over a step.
HoldsRead ==
  pc["main"] \in ReadLocs \/ (pc["main"] \in SwitchLocs /\ op["main"] = "restart")

\* The lock is held exactly where the code holds it.
LockInv ==
  /\ writer = "main" <=> HoldsWrite("main")
  /\ writer = "reaper" <=> HoldsWrite("reaper")
  /\ readers = IF HoldsRead THEN {"main"} ELSE {}
  /\ writer # NoThread => readers = {}

\* A place of the code tells the operation, its client and its thread.
PlaceInv ==
  /\ \A t \in Threads :
       /\ pc[t] \in RegisterLocs
            => t = "main" /\ op[t] = "register" /\ arg[t] \in Games
       /\ pc[t] \in UnregisterLocs \cup {"found", "unreg_check"}
            => op[t] = "unregister"
       /\ pc[t] \in UnregisterLocs \ {"unreg_wrlock"} => arg[t] \in Games
       /\ pc[t] \in ReloadLocs => op[t] = "refresh"
       /\ pc[t] \in MainLocs => t = "main"
       /\ pc[t] \in ReaperLocs => t = "reaper"
       /\ pc[t] \in SwitchLocs =>
            /\ op[t] \in {"register", "unregister", "restart", "refresh"}
            /\ op[t] \in {"register", "restart"} => t = "main"
            /\ op[t] \in {"register", "unregister"} => arg[t] \in Games
            /\ op[t] = "register" => pc[t] = "entering"
            /\ op[t] = "unregister" => pc[t] = "leaving"
  /\ pc["main"] \in {"restart_load", "restart_rdlock", "restart_enter",
                     "restart_unlock"} => op["main"] = "restart"
  /\ op["reaper"] # "restart"
  /\ op["main"] = "restart" => restarted
  /\ restarted => Restarts
  /\ pc["main"] \in {"query_load", "query_list"} => op["main"] = "query"
  /\ pc["main"] = "list" => op["main"] = "list"
  /\ pc["main"] \in {"stop", "stop_signal", "join", "start"} => op["main"] = "refresh"
  /\ (\/ pc["main"] \in AfterJoinLocs
      \/ pc["main"] \in SwitchLocs /\ op["main"] = "refresh")
       => pc["reaper"] = "exited"

\* The refcount is off by one between the change of the list and the count.
CountInv ==
  refcount = IF pc["main"] = "reg_count" THEN Len(clients) - 1
             ELSE IF \E t \in Threads : pc[t] = "unreg_count" THEN Len(clients) + 1
             ELSE Len(clients)

\* What register found under the read lock is still true when it inserts.
UniqueInv ==
  /\ IsInjective(clients)
  /\ pc["main"] \in {"reg_exe", "reg_wrlock"}
       => \A i \in 1..Len(clients) : clients[i] # arg["main"]

\* The mode that the refcount asks for.
ModeFits ==
  /\ mode \in {"on", "off"}
  /\ refcount > 0 => mode = "on"
  /\ refcount = 0 /\ ~restarted => mode = "off"

ModeAt(t) ==
  /\ pc[t] \in WriteLocs \ {"reload_config"} => ModeFits
  /\ pc[t] = "entering" => mode = "entering"
  /\ pc[t] = "leaving" => mode = "leaving"
  /\ pc[t] = "reload_config" =>
       /\ mode \in {"on", "off"}
       /\ refcount > 0 \/ ~restarted => mode = "off"
  /\ pc[t] = "restart_enter" => mode = "off"
  /\ pc[t] = "restart_unlock" => mode = "on"
  /\ pc[t] \in SwitchLocs =>
       /\ op[t] = "unregister" => refcount = 0
       /\ op[t] \in {"register", "refresh"} => refcount > 0

ModeInv == (Settled => ModeFits) /\ ModeAt("main") /\ ModeAt("reaper")

\* What holds of the list and the lock, whoever else changes the mode.
ListInv == TypeOK /\ LockInv /\ PlaceInv /\ CountInv /\ UniqueInv

IInv == ListInv /\ ModeInv

-----------------------------------------------------------------------------
(* Sequences. *)

\* Unlinking the entry at i leaves the others, those after it moved up by one.
LEMMA RemoveAtFacts ==
  ASSUME NEW S, NEW s \in Seq(S), NEW i \in 1..Len(s)
  PROVE  /\ RemoveAt(s, i) \in Seq(S)
         /\ Len(RemoveAt(s, i)) = Len(s) - 1
         /\ \A j \in 1..(Len(s) - 1) :
              RemoveAt(s, i)[j] = IF j < i THEN s[j] ELSE s[j + 1]
<1> DEFINE before == SubSeq(s, 1, i - 1)
           after == SubSeq(s, i + 1, Len(s))
<1>1. /\ before \in Seq(S) /\ Len(before) = i - 1
      /\ \A j \in 1..(i - 1) : before[j] = s[j]
  <2>1. \A j \in 1..(i - 1) : s[j] \in S
    OBVIOUS
  <2>2. QED BY <2>1, SubSeqProperties
<1>2. /\ after \in Seq(S) /\ Len(after) = Len(s) - i
      /\ \A j \in 1..(Len(s) - i) : after[j] = s[i + j]
  <2>1. \A j \in (i + 1)..Len(s) : s[j] \in S
    OBVIOUS
  <2>2. QED BY <2>1, SubSeqProperties
<1>3. RemoveAt(s, i) = before \o after
  BY DEF RemoveAt
<1> HIDE DEF before, after
<1>4. /\ before \o after \in Seq(S)
      /\ Len(before \o after) = Len(before) + Len(after)
      /\ \A j \in 1..(Len(before) + Len(after)) :
           (before \o after)[j] = IF j <= Len(before) THEN before[j]
                                  ELSE after[j - Len(before)]
  BY <1>1, <1>2, ConcatProperties
<1>5. Len(before) + Len(after) = Len(s) - 1
  BY <1>1, <1>2
<1>6. ASSUME NEW j \in 1..(Len(s) - 1)
      PROVE  (before \o after)[j] = IF j < i THEN s[j] ELSE s[j + 1]
  <2>1. CASE j < i
    BY <1>1, <1>4, <1>5, <2>1
  <2>2. CASE j >= i
    <3>1. j - (i - 1) \in 1..(Len(s) - i) /\ i + (j - (i - 1)) = j + 1
      BY <2>2
    <3>2. (before \o after)[j] = after[j - (i - 1)]
      BY <1>1, <1>4, <1>5, <2>2
    <3>3. QED BY <1>2, <2>2, <3>1, <3>2
  <2>3. j < i \/ j >= i
    OBVIOUS
  <2>4. QED BY <2>1, <2>2, <2>3, Zenon
<1>7. QED BY <1>3, <1>4, <1>5, <1>6

\* Inserting at the head moves every entry down by one.
LEMMA PrependFacts ==
  ASSUME NEW S, NEW s \in Seq(S), NEW p \in S
  PROVE  /\ <<p>> \o s \in Seq(S)
         /\ Len(<<p>> \o s) = Len(s) + 1
         /\ (<<p>> \o s)[1] = p
         /\ \A j \in 2..(Len(s) + 1) : (<<p>> \o s)[j] = s[j - 1]
  OBVIOUS

\* A process is registered iff some entry of the list is its own.
LEMMA RegisteredFacts ==
  ASSUME clients \in Seq(Games)
  PROVE  /\ Registered \subseteq Games
         /\ \A p : p \in Registered <=> \E i \in 1..Len(clients) : clients[i] = p
  BY DEF Registered, ToSet

-----------------------------------------------------------------------------
(* The steps. *)

\* A thread that has the lock for a switch, or may take it to write, is the
\* only one at a place that changes the list or the mode.
LEMMA Alone ==
  ASSUME LockInv, PlaceInv, NEW t \in Threads, NEW u \in Threads, u # t,
         \/ writer = t
         \/ CanWrite
         \/ writer = NoThread /\ t = "main"
  PROVE  pc[u] \notin WriteLocs \cup SwitchLocs \cup {"restart_enter", "restart_unlock"}
<1> USE DEF LockInv, HoldsWrite, HoldsRead, Threads, NoThread, CanWrite
<1>1. ~HoldsWrite(u)
  OBVIOUS
<1>2. op[u] # "restart" \/ pc[u] \notin SwitchLocs
  BY DEF PlaceInv
<1>3. pc[u] \notin {"restart_enter", "restart_unlock"}
  BY DEF PlaceInv, MainLocs, ReadLocs
<1>4. QED BY <1>1, <1>2, <1>3

\* Every step leads to a place of the code.
LEMMA PcStep == ListInv /\ Next => (pc \in [Threads -> Locs])'
<1> SUFFICES ASSUME pc \in [Threads -> Locs], Next PROVE (pc \in [Threads -> Locs])'
  BY DEF ListInv, TypeOK
<1> USE DEF Locs, SwitchLocs, Threads, NoThread, Goto, BeginEnter,
        BeginLeave, Reply, CanRead, CanWrite, listVars, lockVars, callVars, expiryVars,
        RegisterLocs, UnregisterLocs, ReloadLocs, MainLocs, ReaperLocs
<1>1. ASSUME NEW o \in {"register", "unregister", "query", "restart"},
             NEW client \in Games, NEW requester \in Pids,
             Receive(o, client, requester)
      PROVE  (pc \in [Threads -> Locs])'
  <2>1. PICK l \in {"idle", FirstLoc(o)} : pc' = [pc EXCEPT !["main"] = l]
    BY <1>1 DEF Receive
  <2>2. l \in Locs
    BY DEF FirstLoc
  <2>3. QED BY <2>1, <2>2
<1>2. ASSUME NEW o \in {"list", "refresh"}, ReceiveUnchecked(o)
      PROVE  (pc \in [Threads -> Locs])'
  BY <1>2 DEF ReceiveUnchecked
<1>3. CASE Register
  BY <1>3 DEF Register, RegisterReadLock, RegisterHasClient, RegisterFindExe,
        RegisterInsert, RegisterCount, RegisterApply, RegisterEmit
<1>4. CASE Query
  BY <1>4 DEF Query, QueryLoad, QueryList, ListClients
<1>5. CASE Restart
  BY <1>5 DEF Restart, RestartLoad, RestartReadLock, RestartEnter,
        RestartUnlock
<1>6. CASE Refresh
  BY <1>6 DEF Refresh, StopReaper, SignalReaper, JoinReaper, StartReaper
<1>7. ASSUME NEW t \in Threads, Unregister(t)
      PROVE  (pc \in [Threads -> Locs])'
  BY <1>7 DEF Unregister, Unlink, UnlinkUnknown, UnregisterCount,
        UnregisterUnlock, UnregisterEmit
<1>8. ASSUME NEW t \in Threads, Switch(t)
      PROVE  (pc \in [Threads -> Locs])'
  BY <1>8 DEF Switch, FinishEnter, FinishLeave, Return
<1>9. ASSUME NEW t \in Threads, Reload(t)
      PROVE  (pc \in [Threads -> Locs])'
  BY <1>9 DEF Reload, ReloadBegin, ReloadConfig, ReloadApply
<1>10. CASE Wait
  BY <1>10 DEF Wait, ReaperTop, ReaperWait, ReaperTimeout, ReaperWoken, ReaperMoves
<1>11. CASE Expire
  BY <1>11 DEF Expire, ReaperFindsDead, ReaperFindsNone, ReaperReadsPid,
        ReaperUnregister, ReaperMoves
<1>12. CASE Housekeep
  BY <1>12 DEF Housekeep, ReaperIgpu, ReaperRepin, ReaperReload,
        ReaperNoReload, ReaperMoves
<1>13. ASSUME NEW p \in Games, Die(p) \/ Reuse(p)
      PROVE  (pc \in [Threads -> Locs])'
  BY <1>13 DEF Die, Reuse
<1>14. QED
  BY <1>1, <1>2, <1>3, <1>4, <1>5, <1>6, <1>7,
     <1>8, <1>9, <1>10, <1>11, <1>12, <1>13
     DEF Next, Calls, Main, Reaper, Shared, Processes

\* A step keeps the other types; the refcount is decremented only after an
\* entry was unlinked, so it is positive then.
LEMMA DataStep == ListInv /\ Next => DataOK'
<1> SUFFICES ASSUME pc \in [Threads -> Locs], DataOK, LockInv, PlaceInv,
                    CountInv, Next PROVE DataOK'
  BY DEF ListInv, TypeOK, DataOK
<1> USE DEF DataOK, Ops, Threads, NoThread, Goto, BeginEnter, BeginLeave,
        Reply, CanRead, CanWrite, listVars, lockVars, callVars, expiryVars
<1>1. ASSUME NEW o \in {"register", "unregister", "query", "restart"},
             NEW client \in Games, NEW requester \in Pids,
             Receive(o, client, requester)
      PROVE  DataOK'
  <2>1. op' \in [Threads -> Ops] /\ arg' \in [Threads -> Games \cup {NoPid}]
    BY <1>1 DEF Receive
  <2>2. reply' \in Int
    BY <1>1 DEF Receive, NoReply
  <2>3. restarted' \in BOOLEAN
    BY <1>1 DEF Receive
  <2>4. QED BY <1>1, <2>1, <2>2, <2>3 DEF Receive
<1>2. ASSUME NEW o \in {"list", "refresh"}, ReceiveUnchecked(o)
      PROVE  DataOK'
  <2>1. op' \in [Threads -> Ops] /\ arg' \in [Threads -> Games \cup {NoPid}]
    BY <1>2 DEF ReceiveUnchecked
  <2>2. reply' \in Int
    BY <1>2 DEF ReceiveUnchecked, NoReply
  <2>3. QED BY <1>2, <2>1, <2>2 DEF ReceiveUnchecked
<1>3. CASE Register
  <2>1. CASE RegisterReadLock
    BY <2>1 DEF RegisterReadLock
  <2>2. CASE RegisterHasClient
    BY <2>2 DEF RegisterHasClient
  <2>3. CASE RegisterFindExe
    BY <2>3 DEF RegisterFindExe
  <2>4. CASE RegisterInsert
    BY <2>4, PrependFacts DEF RegisterInsert, PlaceInv, RegisterLocs
  <2>5. CASE RegisterCount
    BY <2>5 DEF RegisterCount
  <2>6. CASE RegisterApply
    BY <2>6, RegisteredFacts DEF RegisterApply, PlaceInv, RegisterLocs
  <2>7. CASE RegisterEmit
    BY <2>7 DEF RegisterEmit, PlaceInv, RegisterLocs
  <2>8. QED
    BY <1>3, <2>1, <2>2, <2>3, <2>4, <2>5, <2>6, <2>7 DEF Register
<1>4. CASE Query
  <2>1. CASE QueryLoad
    BY <2>1 DEF QueryLoad
  <2>2. CASE QueryList
    BY <2>2 DEF QueryList
  <2>3. CASE ListClients
    BY <2>3 DEF ListClients
  <2>4. QED
    BY <1>4, <2>1, <2>2, <2>3 DEF Query
<1>5. CASE Restart
  <2>1. CASE RestartLoad
    BY <2>1 DEF RestartLoad
  <2>2. CASE RestartReadLock
    BY <2>2 DEF RestartReadLock
  <2>3. CASE RestartEnter
    BY <2>3 DEF RestartEnter
  <2>4. CASE RestartUnlock
    BY <2>4 DEF RestartUnlock
  <2>5. QED
    BY <1>5, <2>1, <2>2, <2>3, <2>4 DEF Restart
<1>6. CASE Refresh
  <2>1. CASE StopReaper
    BY <2>1 DEF StopReaper
  <2>2. CASE SignalReaper
    BY <2>2 DEF SignalReaper
  <2>3. CASE JoinReaper
    BY <2>3 DEF JoinReaper
  <2>4. CASE StartReaper
    BY <2>4 DEF StartReaper
  <2>5. QED
    BY <1>6, <2>1, <2>2, <2>3, <2>4 DEF Refresh
<1>7. ASSUME NEW t \in Threads, Unregister(t)
      PROVE  DataOK'
  <2>1. CASE Unlink(t)
    BY <2>1, RemoveAtFacts DEF Unlink
  <2>2. CASE UnlinkUnknown(t)
    BY <2>2 DEF UnlinkUnknown
  <2>3. CASE UnregisterCount(t)
    <3>1. refcount = Len(clients) + 1
      <4>1. pc["main"] # "reg_count"
        BY <2>3 DEF UnregisterCount, LockInv, HoldsWrite, WriteLocs
      <4>2. QED BY <2>3, <4>1 DEF UnregisterCount, CountInv
    <3>2. refcount' \in Nat
      BY <2>3, <3>1 DEF UnregisterCount
    <3>3. QED BY <2>3, <3>2 DEF UnregisterCount
  <2>4. CASE UnregisterUnlock(t)
    BY <2>4 DEF UnregisterUnlock
  <2>5. CASE UnregisterEmit(t)
    BY <2>5 DEF UnregisterEmit, PlaceInv, UnregisterLocs
  <2>6. QED
    BY <1>7, <2>1, <2>2, <2>3, <2>4, <2>5 DEF Unregister
<1>8. ASSUME NEW t \in Threads, Switch(t)
      PROVE  DataOK'
  BY <1>8 DEF Switch, FinishEnter, FinishLeave, Return
<1>9. ASSUME NEW t \in Threads, Reload(t)
      PROVE  DataOK'
  BY <1>9, RegisteredFacts DEF Reload, ReloadBegin, ReloadConfig, ReloadApply
<1>10. CASE Wait
  <2>1. CASE ReaperTop
    BY <2>1 DEF ReaperTop, ReaperMoves
  <2>2. CASE ReaperWait
    BY <2>2 DEF ReaperWait, ReaperMoves
  <2>3. CASE ReaperTimeout
    BY <2>3 DEF ReaperTimeout, ReaperMoves
  <2>4. CASE ReaperWoken
    BY <2>4 DEF ReaperWoken, ReaperMoves
  <2>5. QED
    BY <1>10, <2>1, <2>2, <2>3, <2>4 DEF Wait
<1>11. CASE Expire
  <2>1. CASE ReaperFindsDead
    BY <2>1, RegisteredFacts DEF ReaperFindsDead, ReaperMoves
  <2>2. CASE ReaperFindsNone
    BY <2>2 DEF ReaperFindsNone, ReaperMoves
  <2>3. CASE ReaperReadsPid
    BY <2>3 DEF ReaperReadsPid, FoundPid, ReaperMoves
  <2>4. CASE ReaperUnregister
    BY <2>4 DEF ReaperUnregister, ReaperMoves
  <2>5. QED
    BY <1>11, <2>1, <2>2, <2>3, <2>4 DEF Expire
<1>12. CASE Housekeep
  <2>1. CASE ReaperIgpu
    BY <2>1 DEF ReaperIgpu, ReaperMoves
  <2>2. CASE ReaperRepin
    BY <2>2 DEF ReaperRepin, ReaperMoves
  <2>3. CASE ReaperReload
    BY <2>3 DEF ReaperReload, ReaperMoves
  <2>4. CASE ReaperNoReload
    BY <2>4 DEF ReaperNoReload, ReaperMoves
  <2>5. QED
    BY <1>12, <2>1, <2>2, <2>3, <2>4 DEF Housekeep
<1>13. ASSUME NEW p \in Games, Die(p) \/ Reuse(p)
      PROVE  DataOK'
  BY <1>13 DEF Die, Reuse, Die, Reuse, Pids
<1>14. QED
  BY <1>1, <1>2, <1>3, <1>4, <1>5, <1>6, <1>7,
     <1>8, <1>9, <1>10, <1>11, <1>12, <1>13
     DEF Next, Calls, Main, Reaper, Shared, Processes

\* A step takes or releases the lock exactly where it moves into or out of
\* a place that holds it.
LEMMA LockStep == ListInv /\ Next => LockInv'
<1> SUFFICES ASSUME pc \in [Threads -> Locs], LockInv, PlaceInv, Next PROVE LockInv'
  BY DEF ListInv, TypeOK
<1> USE DEF LockInv, HoldsWrite, HoldsRead, SwitchLocs, WriteLocs, ReadLocs,
        Threads, NoThread, Goto, BeginEnter, BeginLeave, Reply, CanRead,
        CanWrite, listVars, lockVars, callVars, expiryVars
<1>1. ASSUME NEW o \in {"register", "unregister", "query", "restart"},
             NEW client \in Games, NEW requester \in Pids,
             Receive(o, client, requester)
      PROVE  LockInv'
  BY <1>1 DEF Receive, FirstLoc
<1>2. ASSUME NEW o \in {"list", "refresh"}, ReceiveUnchecked(o)
      PROVE  LockInv'
  BY <1>2 DEF ReceiveUnchecked
<1>3. CASE Register
  <2>1. CASE RegisterReadLock
    BY <2>1 DEF RegisterReadLock
  <2>2. CASE RegisterHasClient
    BY <2>2 DEF RegisterHasClient
  <2>3. CASE RegisterFindExe
    BY <2>3 DEF RegisterFindExe
  <2>4. CASE RegisterInsert
    BY <2>4 DEF RegisterInsert
  <2>5. CASE RegisterCount
    BY <2>5 DEF RegisterCount, PlaceInv, RegisterLocs
  <2>6. CASE RegisterApply
    BY <2>6 DEF RegisterApply
  <2>7. CASE RegisterEmit
    BY <2>7 DEF RegisterEmit
  <2>8. QED
    BY <1>3, <2>1, <2>2, <2>3, <2>4, <2>5, <2>6, <2>7 DEF Register
<1>4. CASE Query
  BY <1>4 DEF Query, QueryLoad, QueryList, ListClients
<1>5. CASE Restart
  <2>1. CASE RestartLoad
    BY <2>1 DEF RestartLoad
  <2>2. CASE RestartReadLock
    BY <2>2 DEF RestartReadLock, PlaceInv
  <2>3. CASE RestartEnter
    BY <2>3 DEF RestartEnter, PlaceInv
  <2>4. CASE RestartUnlock
    BY <2>4 DEF RestartUnlock
  <2>5. QED
    BY <1>5, <2>1, <2>2, <2>3, <2>4 DEF Restart
<1>6. CASE Refresh
  <2>1. CASE StopReaper
    BY <2>1 DEF StopReaper
  <2>2. CASE SignalReaper
    BY <2>2 DEF SignalReaper
  <2>3. CASE JoinReaper
    BY <2>3 DEF JoinReaper
  <2>4. CASE StartReaper
    <3>1. pc'["main"] = "idle" /\ pc'["reaper"] = "top" /\ pc["reaper"] = "exited"
      BY <2>4 DEF StartReaper, PlaceInv, AfterJoinLocs
    <3>2. QED BY <2>4, <3>1 DEF StartReaper
  <2>5. QED
    BY <1>6, <2>1, <2>2, <2>3, <2>4 DEF Refresh
<1>7. ASSUME NEW t \in Threads, Unregister(t)
      PROVE  LockInv'
  <2>1. CASE Unlink(t)
    BY <2>1 DEF Unlink
  <2>2. CASE UnlinkUnknown(t)
    BY <2>2 DEF UnlinkUnknown
  <2>3. CASE UnregisterCount(t)
    BY <2>3 DEF UnregisterCount, PlaceInv, UnregisterLocs
  <2>4. CASE UnregisterUnlock(t)
    BY <2>4 DEF UnregisterUnlock
  <2>5. CASE UnregisterEmit(t)
    BY <2>5 DEF UnregisterEmit
  <2>6. QED
    BY <1>7, <2>1, <2>2, <2>3, <2>4, <2>5 DEF Unregister
<1>8. ASSUME NEW t \in Threads, Switch(t)
      PROVE  LockInv'
  <2>1. CASE FinishEnter(t)
    BY <2>1 DEF FinishEnter, Return, PlaceInv
  <2>2. CASE FinishLeave(t)
    BY <2>2 DEF FinishLeave, Return, PlaceInv
  <2>3. QED
    BY <1>8, <2>1, <2>2 DEF Switch
<1>9. ASSUME NEW t \in Threads, Reload(t)
      PROVE  LockInv'
  <2>1. CASE ReloadBegin(t)
    BY <2>1 DEF ReloadBegin, PlaceInv, ReloadLocs
  <2>2. CASE ReloadConfig(t)
    BY <2>2 DEF ReloadConfig, PlaceInv, ReloadLocs
  <2>3. CASE ReloadApply(t)
    BY <2>3 DEF ReloadApply
  <2>4. QED
    BY <1>9, <2>1, <2>2, <2>3 DEF Reload
<1>10. CASE Wait
  <2>1. CASE ReaperTop
    BY <2>1 DEF ReaperTop, ReaperMoves
  <2>2. CASE ReaperWait
    BY <2>2 DEF ReaperWait, ReaperMoves
  <2>3. CASE ReaperTimeout
    BY <2>3 DEF ReaperTimeout, ReaperMoves
  <2>4. CASE ReaperWoken
    BY <2>4 DEF ReaperWoken, ReaperMoves
  <2>5. QED
    BY <1>10, <2>1, <2>2, <2>3, <2>4 DEF Wait
<1>11. CASE Expire
  <2>1. CASE ReaperFindsDead
    BY <2>1 DEF ReaperFindsDead, ReaperMoves
  <2>2. CASE ReaperFindsNone
    BY <2>2 DEF ReaperFindsNone, ReaperMoves
  <2>3. CASE ReaperReadsPid
    BY <2>3 DEF ReaperReadsPid, ReaperMoves
  <2>4. CASE ReaperUnregister
    BY <2>4 DEF ReaperUnregister, ReaperMoves
  <2>5. QED
    BY <1>11, <2>1, <2>2, <2>3, <2>4 DEF Expire
<1>12. CASE Housekeep
  <2>1. CASE ReaperIgpu
    BY <2>1 DEF ReaperIgpu, ReaperMoves
  <2>2. CASE ReaperRepin
    BY <2>2 DEF ReaperRepin, ReaperMoves
  <2>3. CASE ReaperReload
    BY <2>3 DEF ReaperReload, ReaperMoves
  <2>4. CASE ReaperNoReload
    BY <2>4 DEF ReaperNoReload, ReaperMoves
  <2>5. QED
    BY <1>12, <2>1, <2>2, <2>3, <2>4 DEF Housekeep
<1>13. ASSUME NEW p \in Games, Die(p) \/ Reuse(p)
      PROVE  LockInv'
  BY <1>13 DEF Die, Reuse
<1>14. QED
  BY <1>1, <1>2, <1>3, <1>4, <1>5, <1>6, <1>7,
     <1>8, <1>9, <1>10, <1>11, <1>12, <1>13
     DEF Next, Calls, Main, Reaper, Shared, Processes

\* A step leaves each thread at a place that fits its operation.
LEMMA PlaceStep == ListInv /\ Next => PlaceInv'
<1> SUFFICES ASSUME pc \in [Threads -> Locs], op \in [Threads -> Ops],
                    arg \in [Threads -> Games \cup {NoPid}], clients \in Seq(Games), PlaceInv, Next PROVE PlaceInv'
  BY DEF ListInv, TypeOK
<1> USE DEF PlaceInv, AfterJoinLocs, SwitchLocs, Threads, NoThread, Goto,
        BeginEnter, BeginLeave, Reply, CanRead, CanWrite, listVars, lockVars,
        callVars, expiryVars, RegisterLocs, UnregisterLocs, ReloadLocs, MainLocs,
        ReaperLocs
<1>1. ASSUME NEW o \in {"register", "unregister", "query", "restart"},
             NEW client \in Games, NEW requester \in Pids,
             Receive(o, client, requester)
      PROVE  PlaceInv'
  <2>1. /\ pc' = [pc EXCEPT !["main"] = pc'["main"]]
        /\ op' = [op EXCEPT !["main"] = o] /\ arg' = [arg EXCEPT !["main"] = client]
        /\ pc["main"] = "idle" /\ (o = "restart" => restarted')
        /\ restarted' => Restarts
        /\ pc'["main"] \in {"idle", FirstLoc(o)}
    BY <1>1 DEF Receive
  <2>2. QED BY <2>1 DEF FirstLoc
<1>2. ASSUME NEW o \in {"list", "refresh"}, ReceiveUnchecked(o)
      PROVE  PlaceInv'
  BY <1>2 DEF ReceiveUnchecked
<1>3. CASE Register
  BY <1>3 DEF Register, RegisterReadLock, RegisterHasClient, RegisterFindExe,
        RegisterInsert, RegisterCount, RegisterApply, RegisterEmit
<1>4. CASE Query
  BY <1>4 DEF Query, QueryLoad, QueryList, ListClients
<1>5. CASE Restart
  BY <1>5 DEF Restart, RestartLoad, RestartReadLock, RestartEnter,
        RestartUnlock
<1>6. CASE Refresh
  BY <1>6 DEF Refresh, StopReaper, SignalReaper, JoinReaper, StartReaper
<1>7. ASSUME NEW t \in Threads, Unregister(t)
      PROVE  PlaceInv'
  BY <1>7 DEF Unregister, Unlink, UnlinkUnknown, UnregisterCount,
        UnregisterUnlock, UnregisterEmit
<1>8. ASSUME NEW t \in Threads, Switch(t)
      PROVE  PlaceInv'
  BY <1>8 DEF Switch, FinishEnter, FinishLeave, Return
<1>9. ASSUME NEW t \in Threads, Reload(t)
      PROVE  PlaceInv'
  <2>1. CASE ReloadBegin(t)
    <3>1. CASE t = "main"
      BY <2>1, <3>1 DEF ReloadBegin
    <3>2. CASE t = "reaper"
      BY <2>1, <3>2 DEF ReloadBegin
    <3>3. QED BY <3>1, <3>2
  <2>2. CASE ReloadConfig(t)
    <3>1. CASE t = "main"
      BY <2>2, <3>1 DEF ReloadConfig
    <3>2. CASE t = "reaper"
      BY <2>2, <3>2 DEF ReloadConfig
    <3>3. QED BY <3>1, <3>2
  <2>3. CASE ReloadApply(t)
    BY <2>3 DEF ReloadApply
  <2>4. QED
    BY <1>9, <2>1, <2>2, <2>3 DEF Reload
<1>10. CASE Wait
  BY <1>10 DEF Wait, ReaperTop, ReaperWait, ReaperTimeout, ReaperWoken, ReaperMoves
<1>11. CASE Expire
  BY <1>11, RegisteredFacts DEF Expire, ReaperFindsDead, ReaperFindsNone,
        ReaperReadsPid, ReaperUnregister, FoundPid, ReaperMoves
<1>12. CASE Housekeep
  BY <1>12 DEF Housekeep, ReaperIgpu, ReaperRepin, ReaperReload,
        ReaperNoReload, ReaperMoves
<1>13. ASSUME NEW p \in Games, Die(p) \/ Reuse(p)
      PROVE  PlaceInv'
  BY <1>13 DEF Die, Reuse
<1>14. QED
  BY <1>1, <1>2, <1>3, <1>4, <1>5, <1>6, <1>7,
     <1>8, <1>9, <1>10, <1>11, <1>12, <1>13
     DEF Next, Calls, Main, Reaper, Shared, Processes

\* The list and the refcount change one after the other, under one write
\* lock.
LEMMA CountStep == ListInv /\ Next => CountInv'
<1> SUFFICES ASSUME ListInv, Next PROVE CountInv'
  OBVIOUS
<1> USE DEF ListInv, TypeOK, CountInv, LockInv, HoldsWrite, HoldsRead,
        SwitchLocs, WriteLocs, ReadLocs, Threads, NoThread, Goto, BeginEnter,
        BeginLeave, Reply, CanRead, CanWrite, listVars, lockVars, callVars, expiryVars
<1>1. ASSUME NEW o \in {"register", "unregister", "query", "restart"},
             NEW client \in Games, NEW requester \in Pids,
             Receive(o, client, requester)
      PROVE  CountInv'
  BY <1>1 DEF Receive, FirstLoc
<1>2. ASSUME NEW o \in {"list", "refresh"}, ReceiveUnchecked(o)
      PROVE  CountInv'
  BY <1>2 DEF ReceiveUnchecked
<1>3. CASE Register
  <2>1. CASE RegisterReadLock
    BY <2>1 DEF RegisterReadLock
  <2>2. CASE RegisterHasClient
    BY <2>2 DEF RegisterHasClient
  <2>3. CASE RegisterFindExe
    BY <2>3 DEF RegisterFindExe
  <2>4. CASE RegisterInsert
    BY <2>4, PrependFacts DEF RegisterInsert
  <2>5. CASE RegisterCount
    BY <2>5 DEF RegisterCount
  <2>6. CASE RegisterApply
    BY <2>6 DEF RegisterApply
  <2>7. CASE RegisterEmit
    BY <2>7 DEF RegisterEmit
  <2>8. QED
    BY <1>3, <2>1, <2>2, <2>3, <2>4, <2>5, <2>6, <2>7 DEF Register
<1>4. CASE Query
  BY <1>4 DEF Query, QueryLoad, QueryList, ListClients
<1>5. CASE Restart
  BY <1>5 DEF Restart, RestartLoad, RestartReadLock, RestartEnter,
        RestartUnlock
<1>6. CASE Refresh
  <2>1. CASE StopReaper
    BY <2>1 DEF StopReaper
  <2>2. CASE SignalReaper
    BY <2>2 DEF SignalReaper
  <2>3. CASE JoinReaper
    BY <2>3 DEF JoinReaper
  <2>4. CASE StartReaper
    <3>1. pc'["main"] = "idle" /\ pc'["reaper"] = "top" /\ pc["reaper"] = "exited"
      BY <2>4 DEF StartReaper, PlaceInv, AfterJoinLocs
    <3>2. refcount' = refcount /\ clients' = clients
      BY <2>4 DEF StartReaper
    <3>3. QED BY <2>4, <3>1, <3>2 DEF StartReaper
  <2>5. QED
    BY <1>6, <2>1, <2>2, <2>3, <2>4 DEF Refresh
<1>7. ASSUME NEW t \in Threads, Unregister(t)
      PROVE  CountInv'
  <2>1. CASE Unlink(t)
    BY <2>1, RemoveAtFacts, RegisteredFacts DEF Unlink
  <2>2. CASE UnlinkUnknown(t)
    BY <2>2 DEF UnlinkUnknown
  <2>3. CASE UnregisterCount(t)
    BY <2>3 DEF UnregisterCount
  <2>4. CASE UnregisterUnlock(t)
    BY <2>4 DEF UnregisterUnlock
  <2>5. CASE UnregisterEmit(t)
    BY <2>5 DEF UnregisterEmit
  <2>6. QED
    BY <1>7, <2>1, <2>2, <2>3, <2>4, <2>5 DEF Unregister
<1>8. ASSUME NEW t \in Threads, Switch(t)
      PROVE  CountInv'
  BY <1>8 DEF Switch, FinishEnter, FinishLeave, Return
<1>9. ASSUME NEW t \in Threads, Reload(t)
      PROVE  CountInv'
  BY <1>9 DEF Reload, ReloadBegin, ReloadConfig, ReloadApply
<1>10. CASE Wait
  BY <1>10 DEF Wait, ReaperTop, ReaperWait, ReaperTimeout, ReaperWoken, ReaperMoves
<1>11. CASE Expire
  BY <1>11 DEF Expire, ReaperFindsDead, ReaperFindsNone, ReaperReadsPid,
        ReaperUnregister, ReaperMoves
<1>12. CASE Housekeep
  BY <1>12 DEF Housekeep, ReaperIgpu, ReaperRepin, ReaperReload,
        ReaperNoReload, ReaperMoves
<1>13. ASSUME NEW p \in Games, Die(p) \/ Reuse(p)
      PROVE  CountInv'
  BY <1>13 DEF Die, Reuse
<1>14. QED
  BY <1>1, <1>2, <1>3, <1>4, <1>5, <1>6, <1>7,
     <1>8, <1>9, <1>10, <1>11, <1>12, <1>13
     DEF Next, Calls, Main, Reaper, Shared, Processes

\* An entry is inserted only while no other has its pid: nobody else inserts
\* between the look under the read lock and the insertion.
LEMMA UniqueStep == ListInv /\ Next => UniqueInv'
<1> SUFFICES ASSUME pc \in [Threads -> Locs], clients \in Seq(Games),
                    arg \in [Threads -> Games \cup {NoPid}], PlaceInv, UniqueInv, Next PROVE UniqueInv'
  BY DEF ListInv, TypeOK
<1> USE DEF UniqueInv, IsInjective, Threads, NoThread, Goto, BeginEnter,
        BeginLeave, Reply, CanRead, CanWrite, listVars, lockVars, callVars, expiryVars
<1>1. ASSUME NEW o \in {"register", "unregister", "query", "restart"},
             NEW client \in Games, NEW requester \in Pids,
             Receive(o, client, requester)
      PROVE  UniqueInv'
  BY <1>1 DEF Receive, FirstLoc
<1>2. ASSUME NEW o \in {"list", "refresh"}, ReceiveUnchecked(o)
      PROVE  UniqueInv'
  BY <1>2 DEF ReceiveUnchecked
<1>3. CASE Register
  <2>1. CASE RegisterReadLock
    BY <2>1 DEF RegisterReadLock
  <2>2. CASE RegisterHasClient
    BY <2>2, RegisteredFacts DEF RegisterHasClient
  <2>3. CASE RegisterFindExe
    BY <2>3 DEF RegisterFindExe
  <2>4. CASE RegisterInsert
    BY <2>4, PrependFacts DEF RegisterInsert, PlaceInv, RegisterLocs
  <2>5. CASE RegisterCount
    BY <2>5 DEF RegisterCount
  <2>6. CASE RegisterApply
    BY <2>6 DEF RegisterApply
  <2>7. CASE RegisterEmit
    BY <2>7 DEF RegisterEmit
  <2>8. QED
    BY <1>3, <2>1, <2>2, <2>3, <2>4, <2>5, <2>6, <2>7 DEF Register
<1>4. CASE Query
  BY <1>4 DEF Query, QueryLoad, QueryList, ListClients
<1>5. CASE Restart
  BY <1>5 DEF Restart, RestartLoad, RestartReadLock, RestartEnter,
        RestartUnlock
<1>6. CASE Refresh
  BY <1>6 DEF Refresh, StopReaper, SignalReaper, JoinReaper, StartReaper
<1>7. ASSUME NEW t \in Threads, Unregister(t)
      PROVE  UniqueInv'
  <2>1. CASE Unlink(t)
    <3>1. PICK i \in 1..Len(clients) : clients' = RemoveAt(clients, i)
      BY <2>1 DEF Unlink
    <3>2. /\ Len(clients') = Len(clients) - 1
          /\ clients' \in Seq(Games)
          /\ \A j \in 1..(Len(clients) - 1) :
               clients'[j] = IF j < i THEN clients[j] ELSE clients[j + 1]
      BY <3>1, RemoveAtFacts
    <3>3. IsInjective(clients')
      <4>1. SUFFICES ASSUME NEW a \in 1..(Len(clients) - 1),
                            NEW b \in 1..(Len(clients) - 1),
                            clients'[a] = clients'[b]
                     PROVE  a = b
        BY <3>2
      <4>2. PICK a2 \in 1..Len(clients) :
              clients'[a] = clients[a2] /\ a2 = IF a < i THEN a ELSE a + 1
        BY <3>2
      <4>3. PICK b2 \in 1..Len(clients) :
              clients'[b] = clients[b2] /\ b2 = IF b < i THEN b ELSE b + 1
        BY <3>2
      <4>4. clients[a2] = clients[b2]
        BY <4>1, <4>2, <4>3
      <4>5. a2 = b2
        BY <4>4
      <4>6. QED BY <4>2, <4>3, <4>5
    <3>4. ASSUME pc'["main"] \in {"reg_exe", "reg_wrlock"},
                 NEW j \in 1..Len(clients')
          PROVE  clients'[j] # arg'["main"]
      <4>1. pc["main"] \in {"reg_exe", "reg_wrlock"} /\ arg' = arg
        BY <2>1, <3>4 DEF Unlink
      <4>2. QED BY <3>2, <3>4, <4>1
    <3>5. QED BY <3>3, <3>4
  <2>2. CASE UnlinkUnknown(t)
    BY <2>2 DEF UnlinkUnknown
  <2>3. CASE UnregisterCount(t)
    BY <2>3 DEF UnregisterCount
  <2>4. CASE UnregisterUnlock(t)
    BY <2>4 DEF UnregisterUnlock
  <2>5. CASE UnregisterEmit(t)
    BY <2>5 DEF UnregisterEmit
  <2>6. QED
    BY <1>7, <2>1, <2>2, <2>3, <2>4, <2>5 DEF Unregister
<1>8. ASSUME NEW t \in Threads, Switch(t)
      PROVE  UniqueInv'
  BY <1>8 DEF Switch, FinishEnter, FinishLeave, Return
<1>9. ASSUME NEW t \in Threads, Reload(t)
      PROVE  UniqueInv'
  BY <1>9 DEF Reload, ReloadBegin, ReloadConfig, ReloadApply
<1>10. CASE Wait
  BY <1>10 DEF Wait, ReaperTop, ReaperWait, ReaperTimeout, ReaperWoken, ReaperMoves
<1>11. CASE Expire
  BY <1>11 DEF Expire, ReaperFindsDead, ReaperFindsNone, ReaperReadsPid,
        ReaperUnregister, ReaperMoves
<1>12. CASE Housekeep
  BY <1>12 DEF Housekeep, ReaperIgpu, ReaperRepin, ReaperReload,
        ReaperNoReload, ReaperMoves
<1>13. ASSUME NEW p \in Games, Die(p) \/ Reuse(p)
      PROVE  UniqueInv'
  BY <1>13 DEF Die, Reuse
<1>14. QED
  BY <1>1, <1>2, <1>3, <1>4, <1>5, <1>6, <1>7,
     <1>8, <1>9, <1>10, <1>11, <1>12, <1>13
     DEF Next, Calls, Main, Reaper, Shared, Processes

\* Only a thread that switches changes the mode, and only a thread that holds
\* the lock switches.
LEMMA ModeStep == IInv /\ Next => ModeInv'
<1> SUFFICES ASSUME pc \in [Threads -> Locs], refcount \in Nat, op \in [Threads -> Ops],
                    LockInv, PlaceInv, ModeInv, Next PROVE ModeInv'
  BY DEF IInv, ListInv, TypeOK
<1> USE DEF ModeInv, ModeAt, ModeFits, Settled, Restarting, LockInv,
        HoldsWrite, HoldsRead, SwitchLocs, WriteLocs, ReadLocs, Threads,
        NoThread, Goto, BeginEnter, BeginLeave, Reply, CanRead, CanWrite,
        listVars, lockVars, callVars, expiryVars
<1>1. ASSUME NEW o \in {"register", "unregister", "query", "restart"},
             NEW client \in Games, NEW requester \in Pids,
             Receive(o, client, requester)
      PROVE  ModeInv'
  BY <1>1 DEF Receive, FirstLoc
<1>2. ASSUME NEW o \in {"list", "refresh"}, ReceiveUnchecked(o)
      PROVE  ModeInv'
  BY <1>2 DEF ReceiveUnchecked
<1>3. CASE Register
  <2>1. CASE RegisterReadLock
    BY <2>1 DEF RegisterReadLock
  <2>2. CASE RegisterHasClient
    BY <2>2 DEF RegisterHasClient, PlaceInv, RegisterLocs
  <2>3. CASE RegisterFindExe
    BY <2>3 DEF RegisterFindExe
  <2>4. CASE RegisterInsert
    BY <2>4 DEF RegisterInsert
  <2>5. CASE RegisterCount
    <3>1. op["main"] = "register"
      BY <2>5 DEF RegisterCount, PlaceInv, RegisterLocs
    <3>2. ASSUME NEW u \in Threads, u # "main" PROVE ModeAt(u)'
      <4>1. pc[u] \notin WriteLocs \cup SwitchLocs \cup {"restart_enter", "restart_unlock"}
        BY <2>5, <3>1, <3>2, Alone DEF RegisterCount
      <4>2. pc'[u] = pc[u]
        BY <2>5, <3>2 DEF RegisterCount
      <4>3. QED BY <4>1, <4>2
    <3>3. ModeAt("main")'
      BY <2>5, <3>1 DEF RegisterCount
    <3>4. Settled' => ModeFits'
      BY <2>5, <3>1 DEF RegisterCount
    <3>5. QED BY <3>2, <3>3, <3>4
  <2>6. CASE RegisterApply
    BY <2>6 DEF RegisterApply
  <2>7. CASE RegisterEmit
    BY <2>7 DEF RegisterEmit
  <2>8. QED
    BY <1>3, <2>1, <2>2, <2>3, <2>4, <2>5, <2>6, <2>7 DEF Register
<1>4. CASE Query
  BY <1>4 DEF Query, QueryLoad, QueryList, ListClients
<1>5. CASE Restart
  <2>1. CASE RestartLoad
    BY <2>1 DEF RestartLoad
  <2>2. CASE RestartReadLock
    <3>1. op["main"] = "restart"
      BY <2>2 DEF RestartReadLock, PlaceInv
    <3>2. ASSUME NEW u \in Threads, u # "main" PROVE ModeAt(u)'
      <4>1. pc[u] \notin WriteLocs \cup SwitchLocs \cup {"restart_enter", "restart_unlock"}
        BY <2>2, <3>1, <3>2, Alone DEF RestartReadLock
      <4>2. pc'[u] = pc[u]
        BY <2>2, <3>2 DEF RestartReadLock
      <4>3. QED BY <4>1, <4>2
    <3>3. ModeAt("main")'
      BY <2>2, <3>1 DEF RestartReadLock
    <3>4. Settled' => ModeFits'
      BY <2>2, <3>1 DEF RestartReadLock
    <3>5. QED BY <3>2, <3>3, <3>4
  <2>3. CASE RestartEnter
    <3>1. op["main"] = "restart"
      BY <2>3 DEF RestartEnter, PlaceInv
    <3>2. ASSUME NEW u \in Threads, u # "main" PROVE ModeAt(u)'
      <4>1. pc[u] \notin WriteLocs \cup SwitchLocs \cup {"restart_enter", "restart_unlock"}
        BY <2>3, <3>1, <3>2, Alone DEF RestartEnter
      <4>2. pc'[u] = pc[u]
        BY <2>3, <3>2 DEF RestartEnter
      <4>3. QED BY <4>1, <4>2
    <3>3. ModeAt("main")'
      BY <2>3, <3>1 DEF RestartEnter
    <3>4. Settled' => ModeFits'
      BY <2>3, <3>1 DEF RestartEnter
    <3>5. QED BY <3>2, <3>3, <3>4
  <2>4. CASE RestartUnlock
    BY <2>4 DEF RestartUnlock, PlaceInv
  <2>5. QED
    BY <1>5, <2>1, <2>2, <2>3, <2>4 DEF Restart
<1>6. CASE Refresh
  <2>1. CASE StopReaper
    BY <2>1 DEF StopReaper
  <2>2. CASE SignalReaper
    BY <2>2 DEF SignalReaper
  <2>3. CASE JoinReaper
    BY <2>3 DEF JoinReaper
  <2>4. CASE StartReaper
    BY <2>4 DEF StartReaper
  <2>5. QED
    BY <1>6, <2>1, <2>2, <2>3, <2>4 DEF Refresh
<1>7. ASSUME NEW t \in Threads, Unregister(t)
      PROVE  ModeInv'
  <2>1. CASE Unlink(t)
    BY <2>1 DEF Unlink
  <2>2. CASE UnlinkUnknown(t)
    BY <2>2 DEF UnlinkUnknown
  <2>3. CASE UnregisterCount(t)
    <3>1. op[t] = "unregister"
      BY <2>3 DEF UnregisterCount, PlaceInv, UnregisterLocs
    <3>2. ASSUME NEW u \in Threads, u # t PROVE ModeAt(u)'
      <4>1. pc[u] \notin WriteLocs \cup SwitchLocs \cup {"restart_enter", "restart_unlock"}
        BY <2>3, <3>1, <3>2, Alone DEF UnregisterCount
      <4>2. pc'[u] = pc[u]
        BY <2>3, <3>2 DEF UnregisterCount
      <4>3. QED BY <4>1, <4>2
    <3>3. ModeAt(t)'
      BY <2>3, <3>1 DEF UnregisterCount
    <3>4. Settled' => ModeFits'
      BY <2>3, <3>1 DEF UnregisterCount
    <3>5. QED BY <3>2, <3>3, <3>4
  <2>4. CASE UnregisterUnlock(t)
    BY <2>4 DEF UnregisterUnlock
  <2>5. CASE UnregisterEmit(t)
    BY <2>5 DEF UnregisterEmit
  <2>6. QED
    BY <1>7, <2>1, <2>2, <2>3, <2>4, <2>5 DEF Unregister
<1>8. ASSUME NEW t \in Threads, Switch(t)
      PROVE  ModeInv'
  <2>1. CASE FinishEnter(t)
    BY <2>1 DEF FinishEnter, Return, PlaceInv
  <2>2. CASE FinishLeave(t)
    BY <2>2 DEF FinishLeave, Return, PlaceInv
  <2>3. QED
    BY <1>8, <2>1, <2>2 DEF Switch
<1>9. ASSUME NEW t \in Threads, Reload(t)
      PROVE  ModeInv'
  <2>1. CASE ReloadBegin(t)
    <3>1. op[t] = "refresh"
      BY <2>1 DEF ReloadBegin, PlaceInv, ReloadLocs
    <3>2. ASSUME NEW u \in Threads, u # t PROVE ModeAt(u)'
      <4>1. pc[u] \notin WriteLocs \cup SwitchLocs \cup {"restart_enter", "restart_unlock"}
        BY <2>1, <3>1, <3>2, Alone DEF ReloadBegin
      <4>2. pc'[u] = pc[u]
        BY <2>1, <3>2 DEF ReloadBegin
      <4>3. QED BY <4>1, <4>2
    <3>3. ModeAt(t)'
      BY <2>1, <3>1 DEF ReloadBegin
    <3>4. Settled' => ModeFits'
      BY <2>1, <3>1 DEF ReloadBegin
    <3>5. QED BY <3>2, <3>3, <3>4
  <2>2. CASE ReloadConfig(t)
    <3>1. op[t] = "refresh"
      BY <2>2 DEF ReloadConfig, PlaceInv, ReloadLocs
    <3>2. ASSUME NEW u \in Threads, u # t PROVE ModeAt(u)'
      <4>1. pc[u] \notin WriteLocs \cup SwitchLocs \cup {"restart_enter", "restart_unlock"}
        BY <2>2, <3>1, <3>2, Alone DEF ReloadConfig
      <4>2. pc'[u] = pc[u]
        BY <2>2, <3>2 DEF ReloadConfig
      <4>3. QED BY <4>1, <4>2
    <3>3. ModeAt(t)'
      BY <2>2, <3>1 DEF ReloadConfig
    <3>4. Settled' => ModeFits'
      BY <2>2, <3>1 DEF ReloadConfig
    <3>5. QED BY <3>2, <3>3, <3>4
  <2>3. CASE ReloadApply(t)
    BY <2>3 DEF ReloadApply
  <2>4. QED
    BY <1>9, <2>1, <2>2, <2>3 DEF Reload
<1>10. CASE Wait
  BY <1>10 DEF Wait, ReaperTop, ReaperWait, ReaperTimeout, ReaperWoken, ReaperMoves
<1>11. CASE Expire
  <2>1. CASE ReaperFindsDead
    BY <2>1 DEF ReaperFindsDead, ReaperMoves
  <2>2. CASE ReaperFindsNone
    BY <2>2 DEF ReaperFindsNone, ReaperMoves
  <2>3. CASE ReaperReadsPid
    BY <2>3 DEF ReaperReadsPid, ReaperMoves
  <2>4. CASE ReaperUnregister
    BY <2>4 DEF ReaperUnregister, ReaperMoves
  <2>5. QED
    BY <1>11, <2>1, <2>2, <2>3, <2>4 DEF Expire
<1>12. CASE Housekeep
  <2>1. CASE ReaperIgpu
    BY <2>1 DEF ReaperIgpu, ReaperMoves
  <2>2. CASE ReaperRepin
    BY <2>2 DEF ReaperRepin, ReaperMoves
  <2>3. CASE ReaperReload
    BY <2>3 DEF ReaperReload, ReaperMoves
  <2>4. CASE ReaperNoReload
    BY <2>4 DEF ReaperNoReload, ReaperMoves
  <2>5. QED
    BY <1>12, <2>1, <2>2, <2>3, <2>4 DEF Housekeep
<1>13. ASSUME NEW p \in Games, Die(p) \/ Reuse(p)
      PROVE  ModeInv'
  BY <1>13 DEF Die, Reuse
<1>14. QED
  BY <1>1, <1>2, <1>3, <1>4, <1>5, <1>6, <1>7,
     <1>8, <1>9, <1>10, <1>11, <1>12, <1>13
     DEF Next, Calls, Main, Reaper, Shared, Processes

-----------------------------------------------------------------------------
(* The theorems. *)

\* The invariant holds at the start.
LEMMA InitInv == Init => IInv
<1>1. ASSUME Init PROVE TypeOK
  <2>1. pc \in [Threads -> Locs]
    BY <1>1 DEF Init, Locs, MainLocs, ReaperLocs
  <2>2. op \in [Threads -> Ops] /\ arg \in [Threads -> Games \cup {NoPid}]
    BY <1>1 DEF Init, Ops
  <2>3. announced \in [Games -> {"none", "registered", "unregistered"}]
    BY <1>1 DEF Init
  <2>4. clients \in Seq(Games) /\ reply \in Int
    BY <1>1 DEF Init, NoReply
  <2>5. writer \in Threads \cup {NoThread} /\ mode \in {"off", "entering", "on", "leaving"}
    BY <1>1 DEF Init
  <2>6. QED BY <1>1, <2>1, <2>2, <2>3, <2>4, <2>5 DEF Init, TypeOK
<1>2. ASSUME Init PROVE LockInv /\ PlaceInv
  BY <1>2 DEF Init, LockInv, HoldsWrite, HoldsRead, PlaceInv, Threads, NoThread,
      WriteLocs, ReadLocs, SwitchLocs, AfterJoinLocs, RegisterLocs,
      UnregisterLocs, ReloadLocs, MainLocs, ReaperLocs
<1>3. ASSUME Init PROVE CountInv /\ UniqueInv
  BY <1>3 DEF Init, CountInv, UniqueInv, IsInjective, Threads
<1>4. ASSUME Init PROVE ModeInv
  BY <1>4 DEF Init, ModeInv, ModeAt, ModeFits, Threads, WriteLocs, SwitchLocs
<1>5. QED BY <1>1, <1>2, <1>3, <1>4 DEF IInv, ListInv

\* The part of it that is not about the mode is kept by itself.
LEMMA ListStep == ListInv /\ [Next]_vars => ListInv'
<1>1. ASSUME ListInv, Next PROVE ListInv'
  <2>1. TypeOK'
    BY <1>1, PcStep, DataStep DEF TypeOK, DataOK
  <2>2. QED
    BY <1>1, <2>1, LockStep, PlaceStep, CountStep, UniqueStep DEF ListInv
<1>2. ASSUME ListInv, UNCHANGED vars PROVE ListInv'
  <2>1. TypeOK' /\ LockInv' /\ PlaceInv'
    BY <1>2 DEF vars, ListInv, TypeOK, LockInv, HoldsWrite, HoldsRead, PlaceInv
  <2>2. CountInv' /\ UniqueInv'
    BY <1>2 DEF vars, ListInv, CountInv, UniqueInv, IsInjective
  <2>3. QED BY <2>1, <2>2 DEF ListInv
<1>3. QED BY <1>1, <1>2

\* The invariant holds in every reachable state.
THEOREM Invariance == Spec => []IInv
<1>1. IInv /\ [Next]_vars => IInv'
  <2>1. ASSUME IInv, Next PROVE ModeInv'
    BY <2>1, ModeStep
  <2>2. ASSUME IInv, UNCHANGED vars PROVE ModeInv'
    BY <2>2 DEF vars, IInv, ModeInv, ModeAt, ModeFits, Settled, Restarting
  <2>3. QED BY <2>1, <2>2, ListStep DEF IInv
<1>2. QED BY <1>1, InitInv, PTL DEF Spec

\* Every variable keeps its type; the refcount never drops below zero.
THEOREM TypeCorrect == Spec => []TypeOK
<1>1. IInv => TypeOK
  BY DEF IInv, ListInv
<1>2. QED BY <1>1, Invariance, PTL

\* Whoever gets the lock finds as many entries as the refcount says and no
\* pid twice: the assertion of list_clients cannot fail.
THEOREM RefcountIsLength == Spec => []ListMatchesRefcount
<1>1. IInv => ListMatchesRefcount
  <2>1. ASSUME IInv, writer = NoThread
        PROVE  pc["main"] # "reg_count" /\ \A t \in Threads : pc[t] # "unreg_count"
    BY <2>1 DEF IInv, ListInv, LockInv, HoldsWrite, WriteLocs, Threads, NoThread
  <2>2. QED BY <2>1 DEF IInv, ListInv, ListMatchesRefcount, CountInv, UniqueInv
<1>2. QED BY <1>1, Invariance, PTL

\* Two threads never switch game mode at the same time, and a half switched
\* system always has a thread at work on it.
THEOREM SwitchIsExclusive == Spec => []OneSwitcher
<1>1. IInv => ~(pc["main"] \in SwitchLocs /\ pc["reaper"] \in SwitchLocs)
  BY DEF IInv, ListInv, LockInv, HoldsWrite, HoldsRead, PlaceInv, NoThread
<1>2. ASSUME IInv, mode \in {"entering", "leaving"}
      PROVE  \E t \in Threads : pc[t] \in SwitchLocs
  <2>1. ~Settled
    BY <1>2 DEF IInv, ModeInv, ModeFits
  <2>2. CASE Restarting
    BY <1>2, <2>2 DEF IInv, ListInv, LockInv, HoldsRead, ReadLocs, Restarting, PlaceInv,
        ModeInv, ModeAt, Threads, RegisterLocs
  <2>3. CASE writer # NoThread
    <3>1. PICK t \in Threads : HoldsWrite(t)
      BY <1>2, <2>3 DEF IInv, ListInv, TypeOK, LockInv, Threads
    <3>2. ModeAt(t)
      BY <1>2 DEF IInv, ModeInv, Threads
    <3>3. QED BY <1>2, <3>1, <3>2 DEF HoldsWrite, ModeAt, ModeFits
  <2>4. QED BY <2>1, <2>2, <2>3 DEF Settled
<1>3. IInv => OneSwitcher
  BY <1>1, <1>2 DEF OneSwitcher
<1>4. QED BY <1>3, Invariance, PTL

\* With the lock free, the list and the refcount are both empty or neither is.
LEMMA SettledCount ==
  ASSUME IInv, Settled PROVE clients # <<>> <=> refcount > 0
<1>1. refcount = Len(clients)
  BY DEF IInv, ListInv, Settled, LockInv, HoldsWrite, WriteLocs, Threads, NoThread, CountInv
<1>2. QED BY <1>1 DEF IInv, ListInv, TypeOK

\* While a game is registered and nobody is switching, the system is in game
\* mode, whatever restarts, reloads and expiries have happened.
THEOREM GameModeWhileRegistered == Spec => []OnWhileRegistered
<1>1. IInv => OnWhileRegistered
  BY SettledCount DEF OnWhileRegistered, IInv, ListInv, ModeInv, ModeFits
<1>2. QED BY <1>1, Invariance, PTL

\* Without a registered game the system is out of game mode, until the first
\* call of RestartGamemode.
THEOREM DefaultUntilRestart == Spec => []OffWhileIdle
<1>1. IInv => OffWhileIdle
  <2>1. SUFFICES ASSUME IInv, Settled, clients = <<>>, ~restarted
                 PROVE  mode = "off"
    BY DEF OffWhileIdle
  <2>2. refcount = 0
    BY <2>1, SettledCount DEF IInv, ListInv, TypeOK
  <2>3. QED BY <2>1, <2>2 DEF IInv, ModeInv, ModeFits
<1>2. QED BY <1>1, Invariance, PTL

=============================================================================
