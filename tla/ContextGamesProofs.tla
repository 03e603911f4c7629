-------------------------- MODULE ContextGamesProofs -------------------------
(***************************************************************************)
(* What becomes of each game, for every set of games and every setting:    *)
(* the game that was told it is registered is, its boost and the signals   *)
(* on the bus follow the list, only the dead expire, enter and leave       *)
(* alternate, and the context implements the registry that gamemode.h      *)
(* promises.                                                               *)
(*                                                                         *)
(* Two settings are hypotheses, where the code needs them.  A pid that     *)
(* returns while the daemon still lists the dead game gives the new        *)
(* process the place of the old one, so what is said of living games       *)
(* supposes Reused = {}; a restart leaves and enters with its own rules,   *)
(* so what is said of the order of switches supposes Restarts = FALSE.     *)
(* And auto_expire reads the pid of an entry that it does not protect any  *)
(* more: answers and signals are right until it reads a freed one, and     *)
(* only after that can a game expire that lives.                           *)
(***************************************************************************)
EXTENDS GameModeContextProofs

(* The inductive invariant, on top of IInv. *)

\* The main thread is between the insertion of its client and the signal.
Inserting ==
  \/ pc["main"] \in {"reg_count", "reg_apply"}
  \/ pc["main"] = "entering" /\ op["main"] = "register"

\* A thread is between the removal of its client and the unlock.
Unlinking(t) ==
  \/ pc[t] \in {"unreg_count", "unreg_unlock"}
  \/ pc[t] = "leaving" /\ op[t] = "unregister"

\* The client that a thread works on is in the list after the insertion and
\* out of it after the removal, for as long as nobody else can change that.
WorkInv ==
  /\ Inserting => arg["main"] \in Registered
  /\ \A t \in Threads : Unlinking(t) => arg[t] \notin Registered
  /\ pc["main"] = "unreg_emit" => arg["main"] \notin Registered

GamesInv == IInv /\ WorkInv

\* The living games that have their boost: the registered ones, less the one
\* that is being added, more the one that is being dropped, and none while a
\* reload is between its way out and its way back in.
OptimisedInv ==
  /\ writer = NoThread => optimised = Registered \cap alive
  /\ \A t \in Threads : writer = t =>
       /\ op[t] = "register" => optimised = (Registered \ {arg[t]}) \cap alive
       /\ op[t] = "unregister" => optimised = (Registered \cup {arg[t]}) \cap alive
       /\ op[t] = "refresh" => optimised = {}

\* The entry that the reaper has found is that of a dead game, the pid it has
\* read is the entry's unless that was freed, and the client that it
\* unregisters is dead unless it ever read a freed entry.
DeadInv ==
  /\ found # NoPid => found \notin alive
  /\ pc["reaper"] = "unreg_check" /\ found # NoPid => arg["reaper"] = found
  /\ ~misread
       /\ (pc["reaper"] \in {"unreg_wrlock", "unreg_emit"} \/ Unlinking("reaper"))
       => arg["reaper"] \notin alive

\* The positive answer is on its way, or was the last one.
Answered ==
  \/ pc["main"] = "reg_emit"
  \/ pc["main"] = "idle" /\ op["main"] = "register" /\ reply = 0

AnswerInv ==
  Answered /\ ~misread => arg["main"] \in Registered \/ arg["main"] \notin alive

\* The main thread has changed the list and has not sent the signal yet.
Unsaid(p) ==
  /\ p = arg["main"]
  /\ Inserting \/ Unlinking("main") \/ pc["main"] \in {"reg_emit", "unreg_emit"}

SignalInv ==
  ~misread => \A p \in alive \cap Games :
    Unsaid(p) \/ (announced[p] = "registered" <=> p \in Registered)

\* What holds while dead processes stay dead.
LivingInv == OptimisedInv /\ DeadInv /\ AnswerInv /\ SignalInv

-----------------------------------------------------------------------------
(* What the list operations do to the set of registered games. *)

\* A value is in the range of a sequence iff it is one of its entries.
LEMMA ToSetFacts ==
  ASSUME NEW S, NEW s \in Seq(S), NEW q
  PROVE  q \in ToSet(s) <=> \E i \in 1..Len(s) : s[i] = q
  BY DEF ToSet

\* The insertion adds the client and nothing else.
LEMMA InsertFacts ==
  ASSUME clients \in Seq(Games), arg["main"] \in Games, RegisterInsert
  PROVE  Registered' = Registered \cup {arg["main"]}
<1> DEFINE p == arg["main"]
<1>1. clients' = <<p>> \o clients
  BY DEF RegisterInsert
<1>2. /\ clients' \in Seq(Games)
      /\ Len(clients') = Len(clients) + 1
      /\ clients'[1] = p
      /\ \A j \in 2..(Len(clients) + 1) : clients'[j] = clients[j - 1]
  BY <1>1, PrependFacts
<1>3. ASSUME NEW q PROVE q \in Registered' <=> q \in Registered \cup {p}
  <2>1. q \in Registered' <=> \E i \in 1..Len(clients') : clients'[i] = q
    BY <1>2, ToSetFacts DEF Registered
  <2>2. q \in Registered <=> \E i \in 1..Len(clients) : clients[i] = q
    BY ToSetFacts DEF Registered
  <2>3. ASSUME q \in Registered' PROVE q \in Registered \cup {p}
    <3>1. PICK i \in 1..Len(clients') : clients'[i] = q
      BY <2>1, <2>3
    <3>2. CASE i = 1
      BY <1>2, <3>1, <3>2
    <3>3. CASE i # 1
      <4>1. i - 1 \in 1..Len(clients) /\ clients[i - 1] = q
        BY <1>2, <3>1, <3>3
      <4>2. QED BY <2>2, <4>1
    <3>4. QED BY <3>2, <3>3
  <2>4. ASSUME q \in Registered PROVE q \in Registered'
    <3>1. PICK i \in 1..Len(clients) : clients[i] = q
      BY <2>2, <2>4
    <3>2. i + 1 \in 1..Len(clients') /\ clients'[i + 1] = q
      BY <1>2, <3>1
    <3>3. QED BY <2>1, <3>2
  <2>5. p \in Registered'
    <3>1. 1 \in 1..Len(clients')
      BY <1>2
    <3>2. QED BY <1>2, <3>1 DEF Registered, ToSet
  <2>6. QED BY <2>3, <2>4, <2>5
<1>4. QED BY <1>3

\* The removal takes the client out of a list without a second entry for it,
\* and nothing else.
LEMMA UnlinkFacts ==
  ASSUME clients \in Seq(Games), IsInjective(clients), NEW t, Unlink(t)
  PROVE  arg[t] \in Registered /\ Registered' = Registered \ {arg[t]}
<1>1. PICK i \in 1..Len(clients) :
        clients[i] = arg[t] /\ clients' = RemoveAt(clients, i)
  BY DEF Unlink
<1>2. /\ clients' \in Seq(Games)
      /\ Len(clients') = Len(clients) - 1
      /\ \A j \in 1..(Len(clients) - 1) :
           clients'[j] = IF j < i THEN clients[j] ELSE clients[j + 1]
  BY <1>1, RemoveAtFacts
<1>3. \A a, b \in 1..Len(clients) : clients[a] = clients[b] => a = b
  BY DEF IsInjective
<1>4. ASSUME NEW q PROVE q \in Registered' <=> q \in Registered /\ q # arg[t]
  <2>1. q \in Registered' <=> \E j \in 1..Len(clients') : clients'[j] = q
    BY <1>2 DEF Registered, ToSet
  <2>2. q \in Registered <=> \E j \in 1..Len(clients) : clients[j] = q
    BY DEF Registered, ToSet
  <2>3. ASSUME q \in Registered' PROVE q \in Registered /\ q # arg[t]
    <3>1. PICK j \in 1..Len(clients') : clients'[j] = q
      BY <2>1, <2>3
    <3>2. PICK k \in 1..Len(clients) : clients[k] = q /\ k # i
      <4>1. CASE j < i
        BY <1>2, <3>1, <4>1
      <4>2. CASE ~(j < i)
        <5>1. j + 1 \in 1..Len(clients) /\ clients[j + 1] = q /\ j + 1 # i
          BY <1>2, <3>1, <4>2
        <5>2. QED BY <5>1
      <4>3. QED BY <4>1, <4>2
    <3>3. QED BY <1>1, <1>3, <2>2, <3>2
  <2>4. ASSUME q \in Registered, q # arg[t] PROVE q \in Registered'
    <3>1. PICK k \in 1..Len(clients) : clients[k] = q
      BY <2>2, <2>4
    <3>2. k # i
      BY <1>1, <2>4, <3>1
    <3>3. CASE k < i
      <4>1. k \in 1..Len(clients') /\ clients'[k] = q
        BY <1>2, <3>1, <3>3
      <4>2. QED BY <2>1, <4>1
    <3>4. CASE k > i
      <4>1. k - 1 \in 1..Len(clients') /\ clients'[k - 1] = q
        BY <1>2, <3>1, <3>4
      <4>2. QED BY <2>1, <4>1
    <3>5. QED BY <3>2, <3>3, <3>4
  <2>5. QED BY <2>3, <2>4
<1>5. arg[t] \in Registered
  BY <1>1 DEF Registered, ToSet
<1>6. QED BY <1>4, <1>5

\* The steps that insert or remove an entry are the only ones that change
\* the list.
LEMMA ListChanges ==
  Next => RegisterInsert \/ (\E t \in Threads : Unlink(t)) \/ clients' = clients
<1> DEFINE Changed == RegisterInsert \/ (\E t \in Threads : Unlink(t)) \/ clients' = clients
<1> SUFFICES ASSUME Next PROVE Changed
  OBVIOUS
<1> USE DEF Threads, listVars
<1>1. ASSUME NEW o \in {"register", "unregister", "query", "restart"},
             NEW client \in Games, NEW requester \in Pids,
             Receive(o, client, requester)
      PROVE  Changed
  BY <1>1 DEF Receive, FirstLoc
<1>2. ASSUME NEW o \in {"list", "refresh"}, ReceiveUnchecked(o)
      PROVE  Changed
  BY <1>2 DEF ReceiveUnchecked
<1>3. CASE Register
  BY <1>3 DEF Register, RegisterReadLock, RegisterHasClient, RegisterFindExe,
        RegisterInsert, RegisterCount, RegisterApply, RegisterEmit
<1>4. CASE Query
  BY <1>4 DEF Query, QueryLoad, QueryList, ListClients
<1>5. CASE Restart
  BY <1>5 DEF Restart, RestartLoad, RestartReadLock, RestartEnter,
        RestartUnlock
<1>6. CASE Refresh
  BY <1>6 DEF Refresh, StopReaper, SignalReaper, JoinReaper, StartReaper
<1>7. ASSUME NEW t \in Threads, Unregister(t)
      PROVE  Changed
  BY <1>7 DEF Unregister, Unlink, UnlinkUnknown, UnregisterCount,
        UnregisterUnlock, UnregisterEmit
<1>8. ASSUME NEW t \in Threads, Switch(t)
      PROVE  Changed
  BY <1>8 DEF Switch, FinishEnter, FinishLeave, Return
<1>9. ASSUME NEW t \in Threads, Reload(t)
      PROVE  Changed
  BY <1>9 DEF Reload, ReloadBegin, ReloadConfig, ReloadApply
<1>10. CASE Wait
  BY <1>10 DEF Wait, ReaperTop, ReaperWait, ReaperTimeout, ReaperWoken,
        ReaperMoves
<1>11. CASE Expire
  BY <1>11 DEF Expire, ReaperFindsDead, ReaperFindsNone, ReaperReadsPid,
        ReaperUnregister, ReaperMoves
<1>12. CASE Housekeep
  BY <1>12 DEF Housekeep, ReaperIgpu, ReaperRepin, ReaperReload,
        ReaperNoReload, ReaperMoves
<1>13. ASSUME NEW p \in Games, Die(p) \/ Reuse(p)
      PROVE  Changed
  BY <1>13 DEF Die, Reuse
<1>14. QED
  BY <1>1, <1>2, <1>3, <1>4, <1>5, <1>6, <1>7,
     <1>8, <1>9, <1>10, <1>11, <1>12, <1>13
     DEF Next, Calls, Main, Reaper, Shared, Processes

-----------------------------------------------------------------------------
(* The steps. *)

\* While nobody inserts or removes, a zero refcount means an empty list.
LEMMA ZeroMeansNone ==
  ASSUME GamesInv, refcount = 0, pc["main"] # "reg_count",
         \A t \in Threads : pc[t] # "unreg_count"
  PROVE  Registered = {}
<1>1. Len(clients) = 0
  BY DEF GamesInv, IInv, ListInv, CountInv
<1>2. \A q : q \in Registered <=> \E i \in 1..Len(clients) : clients[i] = q
  BY ToSetFacts DEF GamesInv, IInv, ListInv, TypeOK, Registered
<1>3. QED BY <1>1, <1>2

\* A thread finds the list as it left it: between its insertion or removal and
\* its unlock nobody else can write.
LEMMA WorkStep == GamesInv /\ Next => WorkInv'
<1> SUFFICES ASSUME pc \in [Threads -> Locs], op \in [Threads -> Ops],
                    arg \in [Threads -> Games \cup {NoPid}],
                    clients \in Seq(Games), LockInv, PlaceInv, UniqueInv,
                    WorkInv, Next
             PROVE  WorkInv'
  BY DEF GamesInv, IInv, ListInv, TypeOK
<1>0. clients' = clients => Registered' = Registered
  BY DEF Registered
<1> USE <1>0 DEF WorkInv, Inserting, Unlinking, LockInv, HoldsWrite, HoldsRead,
        WriteLocs, ReadLocs, SwitchLocs, Threads, NoThread, Goto, BeginEnter,
        BeginLeave, Reply, CanRead, CanWrite, listVars, lockVars, callVars, expiryVars
<1>1. ASSUME NEW o \in {"register", "unregister", "query", "restart"},
             NEW client \in Games, NEW requester \in Pids,
             Receive(o, client, requester)
      PROVE  WorkInv'
  BY <1>1 DEF Receive, FirstLoc
<1>2. ASSUME NEW o \in {"list", "refresh"}, ReceiveUnchecked(o)
      PROVE  WorkInv'
  BY <1>2 DEF ReceiveUnchecked
<1>3. CASE Register
  <2>1. CASE RegisterReadLock
    BY <2>1 DEF RegisterReadLock
  <2>2. CASE RegisterHasClient
    BY <2>2 DEF RegisterHasClient
  <2>3. CASE RegisterFindExe
    BY <2>3 DEF RegisterFindExe
  <2>4. CASE RegisterInsert
    BY <2>4, InsertFacts DEF RegisterInsert, PlaceInv, RegisterLocs
  <2>5. CASE RegisterCount
    BY <2>5 DEF RegisterCount
  <2>6. CASE RegisterApply
    BY <2>6 DEF RegisterApply
  <2>7. CASE RegisterEmit
    BY <2>7 DEF RegisterEmit
  <2>8. QED
    BY <1>3, <2>1, <2>2, <2>3, <2>4, <2>5, <2>6, <2>7 DEF Register
<1>4. CASE Query
  BY <1>4 DEF Query, QueryLoad, QueryList, ListClients
<1>5. CASE Restart
  BY <1>5 DEF Restart, RestartLoad, RestartReadLock, RestartEnter,
        RestartUnlock, PlaceInv
<1>6. CASE Refresh
  BY <1>6 DEF Refresh, StopReaper, SignalReaper, JoinReaper, StartReaper
<1>7. ASSUME NEW t \in Threads, Unregister(t)
      PROVE  WorkInv'
  <2>1. CASE Unlink(t)
    <3>1. arg[t] \in Registered /\ Registered' = Registered \ {arg[t]}
      BY <2>1, UnlinkFacts DEF UniqueInv
    <3>2. ~Inserting /\ ~Inserting'
      BY <2>1 DEF Unlink
    <3>3. QED BY <2>1, <3>1, <3>2 DEF Unlink
  <2>2. CASE UnlinkUnknown(t)
    BY <2>2 DEF UnlinkUnknown
  <2>3. CASE UnregisterCount(t)
    BY <2>3 DEF UnregisterCount
  <2>4. CASE UnregisterUnlock(t)
    BY <2>4 DEF UnregisterUnlock
  <2>5. CASE UnregisterEmit(t)
    BY <2>5 DEF UnregisterEmit
  <2>6. QED
    BY <1>7, <2>1, <2>2, <2>3, <2>4, <2>5 DEF Unregister
<1>8. ASSUME NEW t \in Threads, Switch(t)
      PROVE  WorkInv'
  BY <1>8 DEF Switch, FinishEnter, FinishLeave, Return, PlaceInv
<1>9. ASSUME NEW t \in Threads, Reload(t)
      PROVE  WorkInv'
  BY <1>9 DEF Reload, ReloadBegin, ReloadConfig, ReloadApply, PlaceInv,
        ReloadLocs
<1>10. CASE Wait
  BY <1>10 DEF Wait, ReaperTop, ReaperWait, ReaperTimeout, ReaperWoken,
        ReaperMoves
<1>11. CASE Expire
  BY <1>11 DEF Expire, ReaperFindsDead, ReaperFindsNone, ReaperReadsPid,
        ReaperUnregister, ReaperMoves
<1>12. CASE Housekeep
  BY <1>12 DEF Housekeep, ReaperIgpu, ReaperRepin, ReaperReload,
        ReaperNoReload, ReaperMoves
<1>13. ASSUME NEW p \in Games, Die(p) \/ Reuse(p)
      PROVE  WorkInv'
  BY <1>13 DEF Die, Reuse
<1>14. QED
  BY <1>1, <1>2, <1>3, <1>4, <1>5, <1>6, <1>7,
     <1>8, <1>9, <1>10, <1>11, <1>12, <1>13
     DEF Next, Calls, Main, Reaper, Shared, Processes

\* As long as the reaper has read no freed entry, it unregisters only processes
\* that it has seen dead, and they stay dead.
LEMMA DeadStep == GamesInv /\ DeadInv /\ Reused = {} /\ Next => DeadInv'
<1> SUFFICES ASSUME pc \in [Threads -> Locs], op \in [Threads -> Ops],
                    arg \in [Threads -> Games \cup {NoPid}],
                    clients \in Seq(Games), LockInv, PlaceInv, UniqueInv,
                    WorkInv, Reused = {}, DeadInv, Next
             PROVE  DeadInv'
  BY DEF GamesInv, IInv, ListInv, TypeOK
<1>0. clients' = clients => Registered' = Registered
  BY DEF Registered
<1> USE <1>0 DEF DeadInv, Unlinking, LockInv, HoldsWrite, WriteLocs,
        SwitchLocs, Threads, NoThread, Goto, BeginEnter,
        BeginLeave, Reply, CanRead, CanWrite, listVars, lockVars, callVars, expiryVars
<1>1. ASSUME NEW o \in {"register", "unregister", "query", "restart"},
             NEW client \in Games, NEW requester \in Pids,
             Receive(o, client, requester)
      PROVE  DeadInv'
  BY <1>1 DEF Receive, FirstLoc
<1>2. ASSUME NEW o \in {"list", "refresh"}, ReceiveUnchecked(o)
      PROVE  DeadInv'
  BY <1>2 DEF ReceiveUnchecked
<1>3. CASE Register
  BY <1>3 DEF Register, RegisterReadLock, RegisterHasClient, RegisterFindExe,
        RegisterInsert, RegisterCount, RegisterApply, RegisterEmit
<1>4. CASE Query
  BY <1>4 DEF Query, QueryLoad, QueryList, ListClients
<1>5. CASE Restart
  BY <1>5 DEF Restart, RestartLoad, RestartReadLock, RestartEnter,
        RestartUnlock
<1>6. CASE Refresh
  BY <1>6 DEF Refresh, StopReaper, SignalReaper, JoinReaper, StartReaper
<1>7. ASSUME NEW t \in Threads, Unregister(t)
      PROVE  DeadInv'
  BY <1>7 DEF Unregister, Unlink, UnlinkUnknown, UnregisterCount,
        UnregisterUnlock, UnregisterEmit
<1>8. ASSUME NEW t \in Threads, Switch(t)
      PROVE  DeadInv'
  BY <1>8 DEF Switch, FinishEnter, FinishLeave, Return, PlaceInv
<1>9. ASSUME NEW t \in Threads, Reload(t)
      PROVE  DeadInv'
  BY <1>9 DEF Reload, ReloadBegin, ReloadConfig, ReloadApply, PlaceInv,
        ReloadLocs
<1>10. CASE Wait
  BY <1>10 DEF Wait, ReaperTop, ReaperWait, ReaperTimeout, ReaperWoken,
        ReaperMoves
<1>11. CASE Expire
  <2>1. CASE ReaperFindsDead
    BY <2>1 DEF ReaperFindsDead, ReaperMoves
  <2>2. CASE ReaperFindsNone
    BY <2>2 DEF ReaperFindsNone, ReaperMoves
  <2>3. CASE ReaperReadsPid
    BY <2>3 DEF ReaperReadsPid, FoundPid, ReaperMoves
  <2>4. CASE ReaperUnregister
    BY <2>4 DEF ReaperUnregister, ReaperMoves
  <2>5. QED
    BY <1>11, <2>1, <2>2, <2>3, <2>4 DEF Expire
<1>12. CASE Housekeep
  BY <1>12 DEF Housekeep, ReaperIgpu, ReaperRepin, ReaperReload,
        ReaperNoReload, ReaperMoves
<1>13. ASSUME NEW p \in Games, Die(p) \/ Reuse(p)
      PROVE  DeadInv'
  BY <1>13 DEF Die, Reuse
<1>14. QED
  BY <1>1, <1>2, <1>3, <1>4, <1>5, <1>6, <1>7,
     <1>8, <1>9, <1>10, <1>11, <1>12, <1>13
     DEF Next, Calls, Main, Reaper, Shared, Processes

\* The boosts follow the list: each change of the list, and each reload, gives
\* or takes them under the same write lock.
LEMMA OptimisedStep == GamesInv /\ OptimisedInv /\ Reused = {} /\ Next => OptimisedInv'
<1> SUFFICES ASSUME GamesInv, OptimisedInv, Reused = {}, Next
             PROVE  OptimisedInv'
  OBVIOUS
<1>0. /\ pc \in [Threads -> Locs] /\ op \in [Threads -> Ops]
      /\ arg \in [Threads -> Games \cup {NoPid}]
      /\ clients \in Seq(Games) /\ refcount \in Nat
      /\ LockInv /\ PlaceInv /\ UniqueInv /\ WorkInv
      /\ writer \in Threads \cup {NoThread}
      /\ clients' = clients => Registered' = Registered
  BY DEF GamesInv, IInv, ListInv, TypeOK, Registered
<1> USE <1>0 DEF OptimisedInv, LockInv, HoldsWrite, WriteLocs,
        SwitchLocs, Threads, NoThread, Goto, BeginEnter,
        BeginLeave, Reply, CanRead, CanWrite, listVars, lockVars, callVars, expiryVars
<1>1. ASSUME NEW o \in {"register", "unregister", "query", "restart"},
             NEW client \in Games, NEW requester \in Pids,
             Receive(o, client, requester)
      PROVE  OptimisedInv'
  BY <1>1 DEF Receive, FirstLoc
<1>2. ASSUME NEW o \in {"list", "refresh"}, ReceiveUnchecked(o)
      PROVE  OptimisedInv'
  BY <1>2 DEF ReceiveUnchecked
<1>3. CASE Register
  <2>1. CASE RegisterReadLock
    BY <2>1 DEF RegisterReadLock
  <2>2. CASE RegisterHasClient
    BY <2>2 DEF RegisterHasClient
  <2>3. CASE RegisterFindExe
    BY <2>3 DEF RegisterFindExe
  <2>4. CASE RegisterInsert
    <3>1. arg["main"] \in Games /\ op["main"] = "register"
      BY <2>4 DEF RegisterInsert, PlaceInv, RegisterLocs
    <3>2. arg["main"] \notin Registered
      BY <2>4, ToSetFacts DEF RegisterInsert, UniqueInv, Registered
    <3>3. Registered' = Registered \cup {arg["main"]}
      BY <2>4, <3>1, InsertFacts
    <3>4. QED BY <2>4, <3>1, <3>2, <3>3 DEF RegisterInsert
  <2>5. CASE RegisterCount
    BY <2>5 DEF RegisterCount
  <2>6. CASE RegisterApply
    BY <2>6 DEF RegisterApply, PlaceInv, RegisterLocs, WorkInv, Inserting
  <2>7. CASE RegisterEmit
    BY <2>7 DEF RegisterEmit
  <2>8. QED
    BY <1>3, <2>1, <2>2, <2>3, <2>4, <2>5, <2>6, <2>7 DEF Register
<1>4. CASE Query
  BY <1>4 DEF Query, QueryLoad, QueryList, ListClients
<1>5. CASE Restart
  BY <1>5 DEF Restart, RestartLoad, RestartReadLock, RestartEnter,
        RestartUnlock
<1>6. CASE Refresh
  BY <1>6 DEF Refresh, StopReaper, SignalReaper, JoinReaper, StartReaper
<1>7. ASSUME NEW t \in Threads, Unregister(t)
      PROVE  OptimisedInv'
  <2>1. CASE Unlink(t)
    <3>1. arg[t] \in Registered /\ Registered' = Registered \ {arg[t]}
      BY <2>1, UnlinkFacts DEF UniqueInv
    <3>2. op[t] = "unregister"
      BY <2>1 DEF Unlink, PlaceInv, UnregisterLocs
    <3>3. QED BY <2>1, <3>1, <3>2 DEF Unlink
  <2>2. CASE UnlinkUnknown(t)
    BY <2>2 DEF UnlinkUnknown
  <2>3. CASE UnregisterCount(t)
    BY <2>3 DEF UnregisterCount
  <2>4. CASE UnregisterUnlock(t)
    BY <2>4 DEF UnregisterUnlock, PlaceInv, UnregisterLocs, WorkInv,
        Unlinking
  <2>5. CASE UnregisterEmit(t)
    BY <2>5 DEF UnregisterEmit
  <2>6. QED
    BY <1>7, <2>1, <2>2, <2>3, <2>4, <2>5 DEF Unregister
<1>8. ASSUME NEW t \in Threads, Switch(t)
      PROVE  OptimisedInv'
  BY <1>8 DEF Switch, FinishEnter, FinishLeave, Return
<1>9. ASSUME NEW t \in Threads, Reload(t)
      PROVE  OptimisedInv'
  <2>1. CASE ReloadBegin(t)
    BY <2>1, ZeroMeansNone DEF ReloadBegin, PlaceInv, ReloadLocs
  <2>2. CASE ReloadConfig(t)
    BY <2>2 DEF ReloadConfig
  <2>3. CASE ReloadApply(t)
    BY <2>3, ZeroMeansNone DEF ReloadApply, PlaceInv, ReloadLocs
  <2>4. QED
    BY <1>9, <2>1, <2>2, <2>3 DEF Reload
<1>10. CASE Wait
  BY <1>10 DEF Wait, ReaperTop, ReaperWait, ReaperTimeout, ReaperWoken,
        ReaperMoves
<1>11. CASE Expire
  BY <1>11 DEF Expire, ReaperFindsDead, ReaperFindsNone, ReaperReadsPid,
        ReaperUnregister, ReaperMoves
<1>12. CASE Housekeep
  BY <1>12 DEF Housekeep, ReaperIgpu, ReaperRepin, ReaperReload,
        ReaperNoReload, ReaperMoves
<1>13. ASSUME NEW p \in Games, Die(p) \/ Reuse(p)
      PROVE  OptimisedInv'
  BY <1>13 DEF Die, Reuse
<1>14. QED
  BY <1>1, <1>2, <1>3, <1>4, <1>5, <1>6, <1>7,
     <1>8, <1>9, <1>10, <1>11, <1>12, <1>13
     DEF Next, Calls, Main, Reaper, Shared, Processes

\* After the positive answer only the reaper can remove the client without a call
\* of the main thread, and it removes the dead, unless it has read a freed entry.
LEMMA AnswerStep == GamesInv /\ DeadInv /\ AnswerInv /\ Reused = {} /\ Next => AnswerInv'
<1> SUFFICES ASSUME pc \in [Threads -> Locs], op \in [Threads -> Ops],
                    arg \in [Threads -> Games \cup {NoPid}],
                    clients \in Seq(Games), LockInv, PlaceInv, UniqueInv,
                    WorkInv, reply \in Int, Reused = {}, DeadInv, AnswerInv, Next
             PROVE  AnswerInv'
  BY DEF GamesInv, IInv, ListInv, TypeOK
<1>0. clients' = clients => Registered' = Registered
  BY DEF Registered
<1> USE <1>0 DEF AnswerInv, Answered, LockInv, HoldsWrite, WriteLocs,
        SwitchLocs, Threads, NoThread, NoReply, Goto, BeginEnter,
        BeginLeave, Reply, CanRead, CanWrite, listVars, lockVars, callVars, expiryVars
<1>1. ASSUME NEW o \in {"register", "unregister", "query", "restart"},
             NEW client \in Games, NEW requester \in Pids,
             Receive(o, client, requester)
      PROVE  AnswerInv'
  BY <1>1 DEF Receive, FirstLoc
<1>2. ASSUME NEW o \in {"list", "refresh"}, ReceiveUnchecked(o)
      PROVE  AnswerInv'
  BY <1>2 DEF ReceiveUnchecked
<1>3. CASE Register
  <2>1. CASE RegisterReadLock
    BY <2>1 DEF RegisterReadLock
  <2>2. CASE RegisterHasClient
    BY <2>2 DEF RegisterHasClient
  <2>3. CASE RegisterFindExe
    BY <2>3 DEF RegisterFindExe
  <2>4. CASE RegisterInsert
    BY <2>4, InsertFacts DEF RegisterInsert, PlaceInv, RegisterLocs
  <2>5. CASE RegisterCount
    BY <2>5 DEF RegisterCount
  <2>6. CASE RegisterApply
    BY <2>6 DEF RegisterApply, WorkInv, Inserting
  <2>7. CASE RegisterEmit
    BY <2>7 DEF RegisterEmit
  <2>8. QED
    BY <1>3, <2>1, <2>2, <2>3, <2>4, <2>5, <2>6, <2>7 DEF Register
<1>4. CASE Query
  <2>1. CASE QueryLoad
    BY <2>1 DEF QueryLoad, PlaceInv
  <2>2. CASE QueryList
    BY <2>2 DEF QueryList, PlaceInv
  <2>3. CASE ListClients
    BY <2>3 DEF ListClients, PlaceInv
  <2>4. QED
    BY <1>4, <2>1, <2>2, <2>3 DEF Query
<1>5. CASE Restart
  BY <1>5 DEF Restart, RestartLoad, RestartReadLock, RestartEnter,
        RestartUnlock, PlaceInv
<1>6. CASE Refresh
  BY <1>6 DEF Refresh, StopReaper, SignalReaper, JoinReaper, StartReaper,
        PlaceInv
<1>7. ASSUME NEW t \in Threads, Unregister(t)
      PROVE  AnswerInv'
  <2>1. CASE Unlink(t)
    <3>1. arg[t] \in Registered /\ Registered' = Registered \ {arg[t]}
      BY <2>1, UnlinkFacts DEF UniqueInv
    <3>2. CASE t = "main"
      BY <2>1, <3>2 DEF Unlink
    <3>3. CASE t = "reaper"
      BY <2>1, <3>1, <3>3 DEF Unlink, DeadInv
    <3>4. QED BY <3>2, <3>3
  <2>2. CASE UnlinkUnknown(t)
    BY <2>2 DEF UnlinkUnknown
  <2>3. CASE UnregisterCount(t)
    BY <2>3 DEF UnregisterCount
  <2>4. CASE UnregisterUnlock(t)
    BY <2>4 DEF UnregisterUnlock
  <2>5. CASE UnregisterEmit(t)
    BY <2>5 DEF UnregisterEmit, PlaceInv, UnregisterLocs
  <2>6. QED
    BY <1>7, <2>1, <2>2, <2>3, <2>4, <2>5 DEF Unregister
<1>8. ASSUME NEW t \in Threads, Switch(t)
      PROVE  AnswerInv'
  BY <1>8 DEF Switch, FinishEnter, FinishLeave, Return, PlaceInv
<1>9. ASSUME NEW t \in Threads, Reload(t)
      PROVE  AnswerInv'
  BY <1>9 DEF Reload, ReloadBegin, ReloadConfig, ReloadApply, PlaceInv,
        ReloadLocs
<1>10. CASE Wait
  BY <1>10 DEF Wait, ReaperTop, ReaperWait, ReaperTimeout, ReaperWoken,
        ReaperMoves
<1>11. CASE Expire
  <2>1. CASE ReaperFindsDead
    BY <2>1 DEF ReaperFindsDead, ReaperMoves
  <2>2. CASE ReaperFindsNone
    BY <2>2 DEF ReaperFindsNone, ReaperMoves
  <2>3. CASE ReaperReadsPid
    BY <2>3 DEF ReaperReadsPid, ReaperMoves
  <2>4. CASE ReaperUnregister
    BY <2>4 DEF ReaperUnregister, ReaperMoves
  <2>5. QED
    BY <1>11, <2>1, <2>2, <2>3, <2>4 DEF Expire
<1>12. CASE Housekeep
  BY <1>12 DEF Housekeep, ReaperIgpu, ReaperRepin, ReaperReload,
        ReaperNoReload, ReaperMoves
<1>13. ASSUME NEW p \in Games, Die(p) \/ Reuse(p)
      PROVE  AnswerInv'
  BY <1>13 DEF Die, Reuse
<1>14. QED
  BY <1>1, <1>2, <1>3, <1>4, <1>5, <1>6, <1>7,
     <1>8, <1>9, <1>10, <1>11, <1>12, <1>13
     DEF Next, Calls, Main, Reaper, Shared, Processes

\* A change of the list by the main thread is announced before its next change,
\* and the reaper's are about the dead.
LEMMA SignalStep == GamesInv /\ LivingInv /\ Reused = {} /\ Next => SignalInv'
<1> SUFFICES ASSUME pc \in [Threads -> Locs], op \in [Threads -> Ops],
                    arg \in [Threads -> Games \cup {NoPid}],
                    clients \in Seq(Games), LockInv, PlaceInv, UniqueInv,
                    WorkInv, Reused = {},
                    announced \in [Games -> {"none", "registered", "unregistered"}],
                    DeadInv, AnswerInv, SignalInv, Next
             PROVE  SignalInv'
  BY DEF LivingInv, GamesInv, IInv, ListInv, TypeOK
<1>0. clients' = clients => Registered' = Registered
  BY DEF Registered
<1> USE <1>0 DEF SignalInv, Unsaid, Inserting, Unlinking, LockInv, HoldsWrite,
        WriteLocs, SwitchLocs, Threads, NoThread, Goto, BeginEnter,
        BeginLeave, Reply, CanRead, CanWrite, listVars, lockVars, callVars, expiryVars
<1>1. ASSUME NEW o \in {"register", "unregister", "query", "restart"},
             NEW client \in Games, NEW requester \in Pids,
             Receive(o, client, requester)
      PROVE  SignalInv'
  BY <1>1 DEF Receive, FirstLoc
<1>2. ASSUME NEW o \in {"list", "refresh"}, ReceiveUnchecked(o)
      PROVE  SignalInv'
  BY <1>2 DEF ReceiveUnchecked
<1>3. CASE Register
  <2>1. CASE RegisterReadLock
    BY <2>1 DEF RegisterReadLock
  <2>2. CASE RegisterHasClient
    BY <2>2 DEF RegisterHasClient
  <2>3. CASE RegisterFindExe
    BY <2>3 DEF RegisterFindExe
  <2>4. CASE RegisterInsert
    BY <2>4, InsertFacts DEF RegisterInsert, PlaceInv, RegisterLocs
  <2>5. CASE RegisterCount
    BY <2>5 DEF RegisterCount, PlaceInv, RegisterLocs
  <2>6. CASE RegisterApply
    BY <2>6 DEF RegisterApply
  <2>7. CASE RegisterEmit
    BY <2>7 DEF RegisterEmit, AnswerInv, Answered, PlaceInv, RegisterLocs
  <2>8. QED
    BY <1>3, <2>1, <2>2, <2>3, <2>4, <2>5, <2>6, <2>7 DEF Register
<1>4. CASE Query
  BY <1>4 DEF Query, QueryLoad, QueryList, ListClients
<1>5. CASE Restart
  BY <1>5 DEF Restart, RestartLoad, RestartReadLock, RestartEnter,
        RestartUnlock, PlaceInv
<1>6. CASE Refresh
  BY <1>6 DEF Refresh, StopReaper, SignalReaper, JoinReaper, StartReaper,
        PlaceInv
<1>7. ASSUME NEW t \in Threads, Unregister(t)
      PROVE  SignalInv'
  <2>1. CASE Unlink(t)
    <3>1. arg[t] \in Registered /\ Registered' = Registered \ {arg[t]}
      BY <2>1, UnlinkFacts DEF UniqueInv
    <3>2. CASE t = "main"
      BY <2>1, <3>1, <3>2 DEF Unlink
    <3>3. CASE t = "reaper"
      BY <2>1, <3>1, <3>3 DEF Unlink, DeadInv
    <3>4. QED BY <3>2, <3>3
  <2>2. CASE UnlinkUnknown(t)
    BY <2>2 DEF UnlinkUnknown
  <2>3. CASE UnregisterCount(t)
    BY <2>3 DEF UnregisterCount, PlaceInv, UnregisterLocs
  <2>4. CASE UnregisterUnlock(t)
    BY <2>4 DEF UnregisterUnlock
  <2>5. CASE UnregisterEmit(t)
    <3>1. CASE t = "main"
      BY <2>5, <3>1 DEF UnregisterEmit, WorkInv, PlaceInv, UnregisterLocs
    <3>2. CASE t = "reaper"
      BY <2>5, <3>2 DEF UnregisterEmit, DeadInv
    <3>3. QED BY <3>1, <3>2
  <2>6. QED
    BY <1>7, <2>1, <2>2, <2>3, <2>4, <2>5 DEF Unregister
<1>8. ASSUME NEW t \in Threads, Switch(t)
      PROVE  SignalInv'
  BY <1>8 DEF Switch, FinishEnter, FinishLeave, Return, PlaceInv
<1>9. ASSUME NEW t \in Threads, Reload(t)
      PROVE  SignalInv'
  BY <1>9 DEF Reload, ReloadBegin, ReloadConfig, ReloadApply, PlaceInv,
        ReloadLocs
<1>10. CASE Wait
  BY <1>10 DEF Wait, ReaperTop, ReaperWait, ReaperTimeout, ReaperWoken,
        ReaperMoves
<1>11. CASE Expire
  BY <1>11 DEF Expire, ReaperFindsDead, ReaperFindsNone, ReaperReadsPid,
        ReaperUnregister, ReaperMoves
<1>12. CASE Housekeep
  BY <1>12 DEF Housekeep, ReaperIgpu, ReaperRepin, ReaperReload,
        ReaperNoReload, ReaperMoves
<1>13. ASSUME NEW p \in Games, Die(p) \/ Reuse(p)
      PROVE  SignalInv'
  BY <1>13 DEF Die, Reuse
<1>14. QED
  BY <1>1, <1>2, <1>3, <1>4, <1>5, <1>6, <1>7,
     <1>8, <1>9, <1>10, <1>11, <1>12, <1>13
     DEF Next, Calls, Main, Reaper, Shared, Processes

\* Every switch starts from the mode that the one before it ended in.
LEMMA AlternateStep ==
  GamesInv /\ ~Restarts /\ Next =>
    (mode' # mode =>
       <<mode, mode'>> \in {<<"off", "entering">>, <<"entering", "on">>,
                            <<"on", "leaving">>, <<"leaving", "off">>})
<1> DEFINE Step == mode' # mode =>
             <<mode, mode'>> \in {<<"off", "entering">>, <<"entering", "on">>,
                                  <<"on", "leaving">>, <<"leaving", "off">>}
<1> SUFFICES ASSUME LockInv, PlaceInv, ModeInv, refcount \in Nat, ~Restarts, Next
             PROVE  Step
  BY DEF GamesInv, IInv, ListInv, TypeOK
<1>0. ~restarted /\ op["main"] # "restart" /\ op["reaper"] # "restart"
  BY DEF PlaceInv
<1> USE <1>0 DEF LockInv, HoldsWrite, HoldsRead, ModeInv, ModeAt, ModeFits, Settled,
        Restarting, WriteLocs, ReadLocs, SwitchLocs, Threads, NoThread, Goto,
        BeginEnter, BeginLeave, Reply, CanRead, CanWrite, listVars, lockVars,
        callVars, expiryVars
<1>1. ASSUME NEW o \in {"register", "unregister", "query", "restart"},
             NEW client \in Games, NEW requester \in Pids,
             Receive(o, client, requester)
      PROVE  Step
  BY <1>1 DEF Receive, FirstLoc
<1>2. ASSUME NEW o \in {"list", "refresh"}, ReceiveUnchecked(o)
      PROVE  Step
  BY <1>2 DEF ReceiveUnchecked
<1>3. CASE Register
  BY <1>3 DEF Register, RegisterReadLock, RegisterHasClient, RegisterFindExe,
        RegisterInsert, RegisterCount, RegisterApply, RegisterEmit
<1>4. CASE Query
  BY <1>4 DEF Query, QueryLoad, QueryList, ListClients
<1>5. CASE Restart
  BY <1>5 DEF Restart, RestartLoad, RestartReadLock, RestartEnter,
        RestartUnlock, PlaceInv
<1>6. CASE Refresh
  BY <1>6 DEF Refresh, StopReaper, SignalReaper, JoinReaper, StartReaper
<1>7. ASSUME NEW t \in Threads, Unregister(t)
      PROVE  Step
  BY <1>7 DEF Unregister, Unlink, UnlinkUnknown, UnregisterCount,
        UnregisterUnlock, UnregisterEmit
<1>8. ASSUME NEW t \in Threads, Switch(t)
      PROVE  Step
  BY <1>8 DEF Switch, FinishEnter, FinishLeave, Return
<1>9. ASSUME NEW t \in Threads, Reload(t)
      PROVE  Step
  BY <1>9 DEF Reload, ReloadBegin, ReloadConfig, ReloadApply
<1>10. CASE Wait
  BY <1>10 DEF Wait, ReaperTop, ReaperWait, ReaperTimeout, ReaperWoken,
        ReaperMoves
<1>11. CASE Expire
  BY <1>11 DEF Expire, ReaperFindsDead, ReaperFindsNone, ReaperReadsPid,
        ReaperUnregister, ReaperMoves
<1>12. CASE Housekeep
  BY <1>12 DEF Housekeep, ReaperIgpu, ReaperRepin, ReaperReload,
        ReaperNoReload, ReaperMoves
<1>13. ASSUME NEW p \in Games, Die(p) \/ Reuse(p)
      PROVE  Step
  BY <1>13 DEF Die, Reuse
<1>14. QED
  BY <1>1, <1>2, <1>3, <1>4, <1>5, <1>6, <1>7,
     <1>8, <1>9, <1>10, <1>11, <1>12, <1>13
     DEF Next, Calls, Main, Reaper, Shared, Processes

\* A change of the list counts when its lock is released, and then it adds or
\* removes one game.
LEMMA CommittedStep ==
  GamesInv /\ Next =>
    \/ Committed' = Committed
    \/ \E q \in Games \ Committed : Committed' = Committed \cup {q}
    \/ \E q \in Games \cap Committed : Committed' = Committed \ {q}
<1> DEFINE Same == Committed' = Committed
           Added == \E q \in Games \ Committed : Committed' = Committed \cup {q}
           Dropped == \E q \in Games \cap Committed : Committed' = Committed \ {q}
<1> SUFFICES ASSUME GamesInv, Next PROVE Same \/ Added \/ Dropped
  OBVIOUS
<1>0. /\ pc \in [Threads -> Locs] /\ op \in [Threads -> Ops]
      /\ arg \in [Threads -> Games \cup {NoPid}]
      /\ clients \in Seq(Games)
      /\ LockInv /\ PlaceInv /\ UniqueInv /\ WorkInv
      /\ writer \in Threads \cup {NoThread}
      /\ clients' = clients => Registered' = Registered
      /\ Registered \subseteq Games
  BY RegisteredFacts DEF GamesInv, IInv, ListInv, TypeOK, Registered
<1> USE <1>0 DEF Committed, LockInv, HoldsWrite, WriteLocs,
        SwitchLocs, Threads, NoThread, Goto, BeginEnter,
        BeginLeave, Reply, CanRead, CanWrite, listVars, lockVars, callVars, expiryVars
<1>1. ASSUME NEW o \in {"register", "unregister", "query", "restart"},
             NEW client \in Games, NEW requester \in Pids,
             Receive(o, client, requester)
      PROVE  Same \/ Added \/ Dropped
  BY <1>1 DEF Receive, FirstLoc
<1>2. ASSUME NEW o \in {"list", "refresh"}, ReceiveUnchecked(o)
      PROVE  Same \/ Added \/ Dropped
  BY <1>2 DEF ReceiveUnchecked
<1>3. CASE Register
  <2>1. CASE RegisterReadLock
    BY <2>1 DEF RegisterReadLock
  <2>2. CASE RegisterHasClient
    BY <2>2 DEF RegisterHasClient
  <2>3. CASE RegisterFindExe
    BY <2>3 DEF RegisterFindExe
  <2>4. CASE RegisterInsert
    <3>1. arg["main"] \in Games /\ op["main"] = "register"
      BY <2>4 DEF RegisterInsert, PlaceInv, RegisterLocs
    <3>2. arg["main"] \notin Registered
      BY <2>4, ToSetFacts DEF RegisterInsert, UniqueInv, Registered
    <3>3. Registered' = Registered \cup {arg["main"]}
      BY <2>4, <3>1, InsertFacts
    <3>4. Same
      BY <2>4, <3>1, <3>2, <3>3 DEF RegisterInsert
    <3>5. QED BY <3>4
  <2>5. CASE RegisterCount
    BY <2>5 DEF RegisterCount
  <2>6. CASE RegisterApply
    <3>1. /\ arg["main"] \in Games /\ op["main"] = "register"
          /\ arg["main"] \in Registered /\ writer = "main"
      BY <2>6 DEF RegisterApply, PlaceInv, RegisterLocs, WorkInv, Inserting
    <3>2. Committed = Registered \ {arg["main"]}
      BY <3>1
    <3>3. Committed' = Registered
      BY <2>6, <3>1 DEF RegisterApply
    <3>4. Added
      BY <3>1, <3>2, <3>3
    <3>5. QED BY <3>4
  <2>7. CASE RegisterEmit
    BY <2>7 DEF RegisterEmit
  <2>8. QED
    BY <1>3, <2>1, <2>2, <2>3, <2>4, <2>5, <2>6, <2>7 DEF Register
<1>4. CASE Query
  BY <1>4 DEF Query, QueryLoad, QueryList, ListClients
<1>5. CASE Restart
  BY <1>5 DEF Restart, RestartLoad, RestartReadLock, RestartEnter,
        RestartUnlock
<1>6. CASE Refresh
  BY <1>6 DEF Refresh, StopReaper, SignalReaper, JoinReaper, StartReaper
<1>7. ASSUME NEW t \in Threads, Unregister(t)
      PROVE  Same \/ Added \/ Dropped
  <2>1. CASE Unlink(t)
    <3>1. arg[t] \in Registered /\ Registered' = Registered \ {arg[t]}
      BY <2>1, UnlinkFacts DEF UniqueInv
    <3>2. op[t] = "unregister"
      BY <2>1 DEF Unlink, PlaceInv, UnregisterLocs
    <3>3. Same
      BY <2>1, <3>1, <3>2 DEF Unlink
    <3>4. QED BY <3>3
  <2>2. CASE UnlinkUnknown(t)
    BY <2>2 DEF UnlinkUnknown
  <2>3. CASE UnregisterCount(t)
    BY <2>3 DEF UnregisterCount
  <2>4. CASE UnregisterUnlock(t)
    <3>1. /\ arg[t] \in Games /\ op[t] = "unregister"
          /\ arg[t] \notin Registered /\ writer = t
      BY <2>4 DEF UnregisterUnlock, PlaceInv, UnregisterLocs, WorkInv, Unlinking
    <3>2. Committed = Registered \cup {arg[t]}
      BY <3>1
    <3>3. Committed' = Registered
      BY <2>4, <3>1 DEF UnregisterUnlock
    <3>4. Dropped
      BY <3>1, <3>2, <3>3
    <3>5. QED BY <3>4
  <2>5. CASE UnregisterEmit(t)
    BY <2>5 DEF UnregisterEmit
  <2>6. QED
    BY <1>7, <2>1, <2>2, <2>3, <2>4, <2>5 DEF Unregister
<1>8. ASSUME NEW t \in Threads, Switch(t)
      PROVE  Same \/ Added \/ Dropped
  BY <1>8 DEF Switch, FinishEnter, FinishLeave, Return
<1>9. ASSUME NEW t \in Threads, Reload(t)
      PROVE  Same \/ Added \/ Dropped
  <2>1. CASE ReloadBegin(t)
    BY <2>1 DEF ReloadBegin, PlaceInv, ReloadLocs
  <2>2. CASE ReloadConfig(t)
    BY <2>2 DEF ReloadConfig
  <2>3. CASE ReloadApply(t)
    BY <2>3 DEF ReloadApply, PlaceInv, ReloadLocs
  <2>4. QED
    BY <1>9, <2>1, <2>2, <2>3 DEF Reload
<1>10. CASE Wait
  BY <1>10 DEF Wait, ReaperTop, ReaperWait, ReaperTimeout, ReaperWoken,
        ReaperMoves
<1>11. CASE Expire
  BY <1>11 DEF Expire, ReaperFindsDead, ReaperFindsNone, ReaperReadsPid,
        ReaperUnregister, ReaperMoves
<1>12. CASE Housekeep
  BY <1>12 DEF Housekeep, ReaperIgpu, ReaperRepin, ReaperReload,
        ReaperNoReload, ReaperMoves
<1>13. ASSUME NEW p \in Games, Die(p) \/ Reuse(p)
      PROVE  Same \/ Added \/ Dropped
  BY <1>13 DEF Die, Reuse
<1>14. QED
  BY <1>1, <1>2, <1>3, <1>4, <1>5, <1>6, <1>7,
     <1>8, <1>9, <1>10, <1>11, <1>12, <1>13
     DEF Next, Calls, Main, Reaper, Shared, Processes

-----------------------------------------------------------------------------
(* The theorems. *)

\* The invariant holds in every reachable state, whatever the settings.
LEMMA GamesInvariance == Spec => []GamesInv
<1>1. Init => WorkInv
  BY DEF Init, WorkInv, Inserting, Unlinking, Threads
<1>2. GamesInv /\ IInv' /\ [Next]_vars => GamesInv'
  <2>1. GamesInv /\ Next => WorkInv'
    BY WorkStep
  <2>2. GamesInv /\ UNCHANGED vars => WorkInv'
    BY DEF GamesInv, WorkInv, Inserting, Unlinking, Registered, vars
  <2>3. QED BY <2>1, <2>2 DEF GamesInv
<1>3. Init => GamesInv
  BY <1>1, InitInv DEF GamesInv
<1>4. QED BY <1>2, <1>3, Invariance, PTL DEF Spec

\* While the dead stay dead, boosts, answers and signals are right.
LEMMA LivingInvariance == ASSUME Reused = {} PROVE Spec => []LivingInv
<1>1. Init => LivingInv
  BY DEF Init, LivingInv, OptimisedInv, DeadInv, AnswerInv, SignalInv, Answered,
      Unsaid, Inserting, Unlinking, Registered, ToSet, Threads, NoThread
<1>2. GamesInv /\ LivingInv /\ [Next]_vars => LivingInv'
  <2>1. GamesInv /\ LivingInv /\ Next => LivingInv'
    BY OptimisedStep, DeadStep, AnswerStep, SignalStep DEF LivingInv
  <2>2. LivingInv /\ UNCHANGED vars => LivingInv'
    BY DEF LivingInv, OptimisedInv, DeadInv, AnswerInv, SignalInv, Answered,
        Unsaid, Inserting, Unlinking, Registered, vars
  <2>3. QED BY <2>1, <2>2
<1>3. QED BY <1>1, <1>2, GamesInvariance, PTL DEF Spec

\* While nobody holds the write lock, exactly the registered games that live
\* run with changed priorities and affinity.
THEOREM BoostsFollowList ==
  ASSUME Reused = {} PROVE Spec => []OptimisedAreRegistered
<1>1. LivingInv => OptimisedAreRegistered
  BY DEF LivingInv, OptimisedInv, OptimisedAreRegistered
<1>2. QED BY <1>1, LivingInvariance, PTL

\* The game that was told it is registered is, as long as it lives, the main
\* thread has done nothing else and auto_expire has read no freed entry.
THEOREM AnswersHold ==
  ASSUME Reused = {} PROVE Spec => []RegisterAnswerHolds
<1>1. LivingInv => RegisterAnswerHolds
  BY DEF LivingInv, AnswerInv, Answered, RegisterAnswerHolds
<1>2. QED BY <1>1, LivingInvariance, PTL

\* Whenever the main thread is idle, the last signal about each living game
\* tells whether it is registered, as long as auto_expire has read no freed
\* entry.
THEOREM SignalsFollowList ==
  ASSUME Reused = {} PROVE Spec => []ListenersInformed
<1>1. GamesInv /\ LivingInv => ListenersInformed
  <2>1. SUFFICES ASSUME PlaceInv, SignalInv, ~misread, pc["main"] = "idle",
                        NEW p \in alive \cap Games
                 PROVE  announced[p] = "registered" <=> p \in Registered
    BY DEF GamesInv, IInv, ListInv, LivingInv, ListenersInformed
  <2>2. ~Unsaid(p)
    BY <2>1 DEF Unsaid, Inserting, Unlinking
  <2>3. QED BY <2>1, <2>2 DEF SignalInv
<1>2. QED BY <1>1, GamesInvariance, LivingInvariance, PTL

\* A game leaves the list because somebody asked for it or because it is dead;
\* only a reaper that has read the pid of a freed entry removes another, and
\* then the one whose pid it read.
THEOREM ExpiryIsForTheDead ==
  ASSUME Reused = {} PROVE Spec => OnlyDeadExpire
<1> DEFINE Step == \A p \in Registered \ Registered' :
                     \/ p \notin alive
                     \/ pc["main"] = "unreg_wrlock" /\ arg["main"] = p
                     \/ pc["reaper"] = "unreg_wrlock" /\ arg["reaper"] = p /\ misread
<1>1. ASSUME GamesInv, LivingInv, [Next]_vars PROVE Step
  <2>1. clients \in Seq(Games) /\ IsInjective(clients) /\ PlaceInv /\ DeadInv
    BY <1>1 DEF GamesInv, IInv, ListInv, TypeOK, UniqueInv, LivingInv
  <2>2. CASE RegisterInsert
    <3>1. arg["main"] \in Games
      BY <2>1, <2>2 DEF RegisterInsert, PlaceInv, RegisterLocs, Threads
    <3>2. QED BY <2>1, <2>2, <3>1, InsertFacts
  <2>3. ASSUME NEW t \in Threads, Unlink(t) PROVE Step
    <3>1. Registered \ Registered' \subseteq {arg[t]} /\ pc[t] = "unreg_wrlock"
      BY <2>1, <2>3, UnlinkFacts DEF Unlink
    <3>2. t = "reaper" => arg[t] \notin alive \/ misread
      BY <2>1, <3>1 DEF DeadInv
    <3>3. QED BY <3>1, <3>2 DEF Threads
  <2>4. CASE clients' = clients
    BY <2>4 DEF Registered
  <2>5. QED BY <1>1, <2>2, <2>3, <2>4, ListChanges DEF vars
<1>2. QED BY <1>1, GamesInvariance, LivingInvariance, PTL DEF Spec, OnlyDeadExpire

\* Without restarts, enter and leave alternate: enter never runs on top of
\* itself, nor leave, whichever thread does it.
THEOREM SwitchesAlternate ==
  ASSUME ~Restarts PROVE Spec => EnterLeaveAlternate
<1> DEFINE Step == mode' # mode =>
             <<mode, mode'>> \in {<<"off", "entering">>, <<"entering", "on">>,
                                  <<"on", "leaving">>, <<"leaving", "off">>}
<1>1. GamesInv /\ [Next]_vars => Step
  BY AlternateStep DEF vars
<1>2. QED BY <1>1, GamesInvariance, PTL DEF Spec, EnterLeaveAlternate

\* Without restarts the system is in game mode iff the registry has a game,
\* once it has settled.
LEMMA ActiveIsNonempty ==
  ASSUME GamesInv, ~Restarts
  PROVE  (IF Settled THEN mode = "on" ELSE Committed # {}) <=> Committed # {}
<1>1. SUFFICES ASSUME Settled PROVE mode = "on" <=> Committed # {}
  OBVIOUS
<1>2. Committed = Registered
  BY <1>1, RegisteredFacts
     DEF GamesInv, IInv, ListInv, TypeOK, Committed, Settled, Threads, NoThread
<1>3. Registered # {} <=> clients # <<>>
  <2>1. clients \in Seq(Games)
    BY DEF GamesInv, IInv, ListInv, TypeOK
  <2>2. clients # <<>> <=> Len(clients) > 0
    BY <2>1
  <2>3. QED BY <2>1, <2>2, RegisteredFacts
<1>4. clients # <<>> <=> refcount > 0
  BY <1>1, SettledCount DEF GamesInv
<1>5. ModeFits /\ ~restarted /\ refcount \in Nat
  BY <1>1 DEF GamesInv, IInv, ListInv, TypeOK, PlaceInv, ModeInv
<1>6. QED BY <1>2, <1>3, <1>4, <1>5 DEF ModeFits

\* Without restarts the context implements the registry of gamemode.h: it
\* starts empty and inactive, and every step adds a game and is in game mode,
\* removes one and is in game mode iff one is left, or changes neither.
THEOREM ContextImplementsRegistry ==
  ASSUME ~Restarts PROVE Spec => ImplementsRegistry
<1> DEFINE active == IF Settled THEN mode = "on" ELSE Committed # {}
<1>1. Init => Registry!Init
  BY DEF Init, Registry!Init, Committed, Settled, Restarting, Registered, ToSet,
      Threads, NoThread
<1>2. GamesInv /\ GamesInv' /\ [Next]_vars => [Registry!Next]_(Registry!vars)
  <2>1. SUFFICES ASSUME GamesInv, GamesInv', [Next]_vars
                 PROVE  Registry!Next \/ UNCHANGED Registry!vars
    OBVIOUS
  <2>2. active <=> Committed # {}
    BY <2>1, ActiveIsNonempty
  <2>3. active' <=> (Committed # {})'
    BY <2>1, ActiveIsNonempty, PTL
  <2>4. active \in BOOLEAN /\ active' \in BOOLEAN
    OBVIOUS
  <2>5. CASE Committed' = Committed
    BY <2>2, <2>3, <2>4, <2>5 DEF Registry!vars
  <2>6. ASSUME NEW q \in Games \ Committed, Committed' = Committed \cup {q}
        PROVE  Registry!Next
    BY <2>3, <2>4, <2>6 DEF Registry!Next, Registry!Register
  <2>7. ASSUME NEW q \in Games \cap Committed, Committed' = Committed \ {q}
        PROVE  Registry!Next
    BY <2>3, <2>4, <2>7 DEF Registry!Next, Registry!Unregister
  <2>8. UNCHANGED vars => Committed' = Committed
    BY DEF vars, Committed, Registered
  <2>9. QED BY <2>1, <2>5, <2>6, <2>7, <2>8, CommittedStep
<1>3. QED
  BY <1>1, <1>2, GamesInvariance, PTL DEF Spec, ImplementsRegistry, Registry!Spec

=============================================================================
