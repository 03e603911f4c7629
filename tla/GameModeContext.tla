--------------------------- MODULE GameModeContext ---------------------------
(***************************************************************************)
(* The daemon's context object (daemon/gamemode-context.c): the list of    *)
(* registered games, its reference count, the read-write lock, and the two *)
(* threads that use them.  The main thread answers one D-Bus call at a     *)
(* time; the reaper thread wakes up now and then, expires the games that   *)
(* died and reloads a changed configuration.                               *)
(*                                                                         *)
(* A step is the code between two points where the other thread can tell   *)
(* the difference: taking the lock, releasing it, an access to the atomic  *)
(* refcount, the start and the end of a switch of game mode.               *)
(***************************************************************************)
EXTENDS Integers, FiniteSets, SequencesExt

CONSTANTS
  Games,              \* processes that may be registered
  Supervisors,        \* other processes that make requests
  Trusted,            \* processes the supervisor white/blacklists let through
  Permitted,          \* games the client white/blacklists let through
  RequireSupervisor,  \* the require_supervisor setting
  Restarts,           \* does anybody call RestartGamemode?
  Reused              \* games whose pid a new process may get when they are dead

Pids == Games \cup Supervisors

ASSUME ContextAssumption ==
  /\ Trusted \subseteq Pids
  /\ Permitted \subseteq Games
  /\ Reused \subseteq Games
  /\ {RequireSupervisor, Restarts} \subseteq BOOLEAN

VARIABLES
  alive,      \* processes that exist: kill(pid, 0) and /proc/<pid>/exe succeed
  clients,    \* self->client, the linked list of registered pids
  refcount,   \* self->refcount
  mode,       \* "off", "entering", "on" or "leaving" game mode
  optimised,  \* live processes whose priorities and affinity are changed
  writer,     \* the thread that holds self->rwlock for writing
  readers,    \* the threads that hold it for reading
  running,    \* self->reaper.running
  pc,         \* where each thread is
  op,         \* the operation each thread performs
  arg,        \* the client it performs it for
  reply,      \* the result of the main thread's last finished call
  announced,  \* the last GameRegistered/GameUnregistered signal of each game
  restarted,  \* has anybody called RestartGamemode? (history only)
  found,      \* the entry that the pointer of auto_expire refers to, NoPid
              \* when it has been freed since
  misread     \* has auto_expire read a pid from a freed entry? (history only)

lockVars == <<writer, readers>>
listVars == <<clients, refcount>>
callVars == <<reply, restarted>>
expiryVars == <<found, misread>>
vars == <<alive, clients, refcount, mode, optimised, writer, readers, running,
          pc, op, arg, reply, announced, restarted, found, misread>>

Threads == {"main", "reaper"}
NoThread == "none"
NoPid == "none"
NoReply == 99

Ops == {"none", "register", "unregister", "query", "restart", "list", "refresh"}

RegisterLocs == {"reg_rdlock", "reg_has", "reg_exe", "reg_wrlock", "reg_count",
                 "reg_apply", "reg_emit"}
UnregisterLocs == {"unreg_wrlock", "unreg_count", "unreg_unlock", "unreg_emit"}
ReloadLocs == {"reload_wrlock", "reload_config", "reload_apply"}
SwitchLocs == {"entering", "leaving"}
MainLocs == {"idle", "query_load", "query_list", "restart_load",
             "restart_rdlock", "restart_enter", "restart_unlock", "list",
             "stop", "stop_signal", "join", "start"}
ReaperLocs == {"top", "lock", "wait", "woken", "igpu", "scan", "found",
               "unreg_check", "repin", "needs_reload", "exited"}
Locs == RegisterLocs \cup UnregisterLocs \cup ReloadLocs \cup SwitchLocs
          \cup MainLocs \cup ReaperLocs

-----------------------------------------------------------------------------
(* Helpers. *)

Registered == ToSet(clients)

\* pthread_rwlock_rdlock with the default attribute prefers readers: only a
\* writer that holds the lock stops it, so the nested read lock of
\* has_client cannot block on a writer that waits.
CanRead == writer = NoThread

\* MISTAKE for CanWrite: a writer that does not wait for the readers.
CanWriteEarly == writer = NoThread

\* pthread_rwlock_wrlock.
CanWrite == writer = NoThread /\ readers = {}

Goto(t, loc) == pc' = [pc EXCEPT ![t] = loc]

\* The end of a method: the answer goes out and the main thread polls again.
Reply(value) ==
  /\ reply' = value
  /\ Goto("main", "idle")

\* game_mode_context_enter and game_mode_context_leave, as one step that
\* starts the switch and one, FinishEnter or FinishLeave, that ends it.
BeginEnter(t) == mode' = "entering" /\ Goto(t, "entering")
BeginLeave(t) == mode' = "leaving" /\ Goto(t, "leaving")

\* MISTAKE for Return: restart and reload leave and do not enter again.
ReturnWithoutEnter(t) ==
  CASE op[t] = "register"   -> "reg_apply"
    [] op[t] = "unregister" -> "unreg_unlock"
    [] op[t] = "restart"    -> "restart_unlock"
    [] OTHER                -> "reload_apply"

\* Where the caller of enter or leave continues.
Return(t) ==
  CASE op[t] = "register"   -> "reg_apply"
    [] op[t] = "unregister" -> "unreg_unlock"
    [] op[t] = "restart"    -> IF pc[t] = "leaving" THEN "restart_enter"
                                                    ELSE "restart_unlock"
    [] OTHER                -> IF pc[t] = "leaving" THEN "reload_config"
                                                    ELSE "reload_apply"

\* find_exe of the requester, then its white and blacklist: 0 lets it pass.
SupervisorVerdict(requester) ==
  IF requester \notin alive THEN "fail"
  ELSE IF requester \notin Trusted THEN "reject" ELSE "pass"

\* MISTAKE for Verdict: a direct request is checked like a supervisor's, the
\* reaper's own on behalf of a dead client included.
VerdictAlwaysChecks(o, client, requester) == SupervisorVerdict(requester)

\* The first check of register, unregister, query_status and restart.  Only
\* the first two refuse a direct request when a supervisor is required, and
\* restart checks its requester even when it asks for itself.
Verdict(o, client, requester) ==
  IF o = "restart" \/ requester # client THEN SupervisorVerdict(requester)
  ELSE IF o \in {"register", "unregister"} /\ RequireSupervisor THEN "reject"
  ELSE "pass"

FirstLoc(o) ==
  CASE o = "register"   -> "reg_rdlock"
    [] o = "unregister" -> "unreg_wrlock"
    [] o = "query"      -> "query_load"
    [] OTHER            -> "restart_load"

\* What the pid of the entry that auto_expire found may read like.  A freed
\* one may hold its old pid, that of the client whose entry was allocated in
\* its place, or what another use of the memory left there.
FoundPid(pids) == IF found = NoPid THEN pids \cup {NoPid} ELSE {found}

\* A step of the reaper that changes no more than its place, op, arg and what
\* it has found.
ReaperMoves(from, to) ==
  /\ pc["reaper"] = from
  /\ Goto("reaper", to)
  /\ UNCHANGED <<alive, listVars, mode, optimised, lockVars, running, reply,
                 announced, restarted>>

-----------------------------------------------------------------------------
(* Mistakes somebody could make in the actions below: each is the action it  *)
(* is named after with one slip, and breaks the property named in its        *)
(* comment.  No specification uses them.                                     *)

\* MISTAKE for RegisterHasClient: the answer of has_client is ignored
\* (ListMatchesRefcount).
RegisterHasClientIgnored ==
  /\ pc["main"] = "reg_has"
  /\ CanRead
  /\ readers' = readers \ {"main"}
  /\ Goto("main", "reg_exe")
  /\ UNCHANGED <<alive, listVars, mode, optimised, writer, running, op, arg,
                 callVars, announced, expiryVars>>

\* MISTAKE for RegisterCount: every client enters (EnterLeaveAlternate).
RegisterCountAlwaysEnters ==
  /\ pc["main"] = "reg_count"
  /\ refcount' = refcount + 1
  /\ BeginEnter("main")
  /\ UNCHANGED <<alive, clients, optimised, lockVars, running, op, arg,
                 callVars, announced, expiryVars>>

\* MISTAKE for Unlink: the head goes, not the client (OnlyDeadExpire).
UnlinkHead(t) ==
  /\ pc[t] = "unreg_wrlock"
  /\ CanWrite
  /\ arg[t] \in Registered
  /\ clients' = Tail(clients)
  /\ writer' = t
  /\ Goto(t, "unreg_count")
  /\ UNCHANGED <<alive, refcount, mode, optimised, readers, running, op, arg,
                 callVars, announced, expiryVars>>

\* MISTAKE for UnlinkUnknown: no early return (TypeOK).
UnlinkUnknownCounts(t) ==
  /\ pc[t] = "unreg_wrlock"
  /\ CanWrite
  /\ arg[t] \notin Registered
  /\ writer' = t
  /\ Goto(t, "unreg_count")
  /\ UNCHANGED <<alive, listVars, mode, optimised, readers, running, op, arg,
                 callVars, announced, expiryVars>>

\* MISTAKE for UnregisterCount: leave when the counter was zero before the
\* decrement, not after it (OffWhileIdle).
UnregisterCountLate(t) ==
  /\ pc[t] = "unreg_count"
  /\ refcount' = refcount - 1
  /\ IF refcount = 0
       THEN BeginLeave(t)
       ELSE Goto(t, "unreg_unlock") /\ UNCHANGED mode
  /\ UNCHANGED <<alive, clients, optimised, lockVars, running, op, arg,
                 callVars, announced, expiryVars>>

\* MISTAKE for UnregisterEmit: no signal is sent (ListenersInformed).
UnregisterEmitSilent(t) ==
  /\ pc[t] = "unreg_emit"
  /\ IF t = "main" THEN Reply(0) ELSE Goto(t, "scan") /\ UNCHANGED reply
  /\ UNCHANGED <<alive, listVars, mode, optimised, lockVars, running, op, arg,
                 restarted, announced, expiryVars>>

\* MISTAKE for ReloadApply: the clients are not optimised again
\* (OptimisedAreRegistered).
ReloadApplyForgets(t) ==
  /\ pc[t] = "reload_apply"
  /\ writer' = NoThread
  /\ Goto(t, IF t = "main" THEN "start" ELSE "top")
  /\ UNCHANGED <<alive, listVars, mode, optimised, readers, running, op, arg,
                 callVars, announced, expiryVars>>

\* MISTAKE for ReaperTimeout: a wait without a time limit, which misses the
\* signal sent before it began (CallsAnswered).
ReaperTimeoutNever == FALSE

\* MISTAKE for ReaperFindsDead: a live client expires (RegisterAnswerHolds).
ReaperFindsAny ==
  /\ CanRead
  /\ ReaperMoves("scan", "found")
  /\ \E p \in Registered : found' = p
  /\ op' = [op EXCEPT !["reaper"] = "unregister"]
  /\ arg' = [arg EXCEPT !["reaper"] = NoPid]
  /\ UNCHANGED misread

-----------------------------------------------------------------------------
(* Processes. *)

\* A process exits, and takes its priorities and affinity with it.
Die(p) ==
  /\ p \in alive \cap Games
  /\ alive' = alive \ {p}
  /\ optimised' = optimised \ {p}
  /\ UNCHANGED <<clients, refcount, mode, writer, readers, running, pc, op,
                 arg, reply, announced, restarted, expiryVars>>

\* The kernel gives the pid of a dead process to a new one.
Reuse(p) ==
  /\ p \in Reused \ alive
  /\ alive' = alive \cup {p}
  /\ UNCHANGED <<clients, refcount, mode, optimised, writer, readers, running,
                 pc, op, arg, reply, announced, restarted, expiryVars>>

-----------------------------------------------------------------------------
(* The main thread: sd-bus hands it one method call at a time. *)

\* RegisterGame, UnregisterGame and QueryStatus in their three forms (a pid, a
\* pid pair, a pidfd pair), and RestartGamemode, which has the first one only.
\* The requester is checked at once.
Receive(o, client, requester) ==
  /\ pc["main"] = "idle"
  /\ o = "restart" => Restarts /\ requester = client
  /\ restarted' = (restarted \/ o = "restart")
  /\ op' = [op EXCEPT !["main"] = o]
  /\ arg' = [arg EXCEPT !["main"] = client]
  /\ LET v == Verdict(o, client, requester) IN
       /\ reply' = CASE v = "fail"   -> -1
                     [] v = "reject" -> -2
                     [] OTHER        -> NoReply
       /\ Goto("main", IF v = "pass" THEN FirstLoc(o) ELSE "idle")
  /\ UNCHANGED <<alive, listVars, mode, optimised, lockVars, running,
                 announced, expiryVars>>

\* ListGames and RefreshConfig take no argument and check nothing.
ReceiveUnchecked(o) ==
  /\ pc["main"] = "idle"
  /\ op' = [op EXCEPT !["main"] = o]
  /\ arg' = [arg EXCEPT !["main"] = NoPid]
  /\ reply' = NoReply
  /\ Goto("main", IF o = "list" THEN "list" ELSE "stop")
  /\ UNCHANGED <<alive, listVars, mode, optimised, lockVars, running,
                 announced, restarted, expiryVars>>

(* game_mode_context_register *)

RegisterReadLock ==
  /\ pc["main"] = "reg_rdlock"
  /\ CanRead
  /\ readers' = readers \cup {"main"}
  /\ Goto("main", "reg_has")
  /\ UNCHANGED <<alive, listVars, mode, optimised, writer, running, op, arg,
                 callVars, announced, expiryVars>>

\* has_client takes the read lock a second time; both are released.
RegisterHasClient ==
  /\ pc["main"] = "reg_has"
  /\ CanRead
  /\ readers' = readers \ {"main"}
  /\ IF arg["main"] \in Registered
       THEN Reply(-1)
       ELSE Goto("main", "reg_exe") /\ UNCHANGED reply
  /\ UNCHANGED <<alive, listVars, mode, optimised, writer, running, op, arg,
                 announced, restarted, expiryVars>>

\* find_exe of the client, its white and blacklist, client_new.
RegisterFindExe ==
  /\ pc["main"] = "reg_exe"
  /\ IF arg["main"] \in alive \cap Permitted
       THEN Goto("main", "reg_wrlock") /\ UNCHANGED reply
       ELSE Reply(-1)
  /\ UNCHANGED <<alive, listVars, mode, optimised, lockVars, running, op, arg,
                 announced, restarted, expiryVars>>

RegisterInsert ==
  /\ pc["main"] = "reg_wrlock"
  /\ CanWrite
  /\ writer' = "main"
  /\ clients' = <<arg["main"]>> \o clients
  /\ Goto("main", "reg_count")
  /\ UNCHANGED <<alive, refcount, mode, optimised, readers, running, op, arg,
                 callVars, announced, expiryVars>>

RegisterCount ==
  /\ pc["main"] = "reg_count"
  /\ refcount' = refcount + 1
  /\ IF refcount = 0
       THEN BeginEnter("main")
       ELSE Goto("main", "reg_apply") /\ UNCHANGED mode
  /\ UNCHANGED <<alive, clients, optimised, lockVars, running, op, arg,
                 callVars, announced, expiryVars>>

\* apply_client_optimisations does nothing to a process that is gone.
RegisterApply ==
  /\ pc["main"] = "reg_apply"
  /\ optimised' = optimised \cup ({arg["main"]} \cap alive)
  /\ writer' = NoThread
  /\ Goto("main", "reg_emit")
  /\ UNCHANGED <<alive, listVars, mode, readers, running, op, arg, callVars,
                 announced, expiryVars>>

RegisterEmit ==
  /\ pc["main"] = "reg_emit"
  /\ announced' = [announced EXCEPT ![arg["main"]] = "registered"]
  /\ Reply(0)
  /\ UNCHANGED <<alive, listVars, mode, optimised, lockVars, running, op, arg,
                 restarted, expiryVars>>

(* game_mode_context_query_status *)

QueryLoad ==
  /\ pc["main"] = "query_load"
  /\ IF refcount = 0
       THEN Reply(0)
       ELSE Goto("main", "query_list") /\ UNCHANGED reply
  /\ UNCHANGED <<alive, listVars, mode, optimised, lockVars, running, op, arg,
                 announced, restarted, expiryVars>>

QueryList ==
  /\ pc["main"] = "query_list"
  /\ CanRead
  /\ Reply(IF arg["main"] \in Registered THEN 2 ELSE 1)
  /\ UNCHANGED <<alive, listVars, mode, optimised, lockVars, running, op, arg,
                 announced, restarted, expiryVars>>

(* game_mode_context_restart: the switches run under the READ lock. *)

RestartLoad ==
  /\ pc["main"] = "restart_load"
  /\ IF refcount = 0
       THEN Reply(1)
       ELSE Goto("main", "restart_rdlock") /\ UNCHANGED reply
  /\ UNCHANGED <<alive, listVars, mode, optimised, lockVars, running, op, arg,
                 announced, restarted, expiryVars>>

RestartReadLock ==
  /\ pc["main"] = "restart_rdlock"
  /\ CanRead
  /\ readers' = readers \cup {"main"}
  /\ BeginLeave("main")
  /\ UNCHANGED <<alive, listVars, optimised, writer, running, op, arg,
                 callVars, announced, expiryVars>>

RestartEnter ==
  /\ pc["main"] = "restart_enter"
  /\ BeginEnter("main")
  /\ UNCHANGED <<alive, listVars, optimised, lockVars, running, op, arg,
                 callVars, announced, expiryVars>>

RestartUnlock ==
  /\ pc["main"] = "restart_unlock"
  /\ readers' = readers \ {"main"}
  /\ Reply(0)
  /\ UNCHANGED <<alive, listVars, mode, optimised, writer, running, op, arg,
                 announced, restarted, expiryVars>>

\* game_mode_context_list_clients: the array has room for refcount entries.
ListClients ==
  /\ pc["main"] = "list"
  /\ CanRead
  /\ Reply(Len(clients))
  /\ UNCHANGED <<alive, listVars, mode, optimised, lockVars, running, op, arg,
                 announced, restarted, expiryVars>>

(* game_mode_reload_config, around the reload itself *)

\* end_reaper_thread clears the flag before it takes the reaper's mutex.
StopReaper ==
  /\ pc["main"] = "stop"
  /\ running' = FALSE
  /\ Goto("main", "stop_signal")
  /\ UNCHANGED <<alive, listVars, mode, optimised, lockVars, op, arg, callVars,
                 announced, expiryVars>>

\* The mutex protects nothing but the wait, not the flag: the reaper locks it
\* and waits at once, so it is never seen held, and a signal that comes after
\* the reaper has looked at the flag and before it waits is lost.
SignalReaper ==
  /\ pc["main"] = "stop_signal"
  /\ pc' = [pc EXCEPT !["main"] = "join",
                      !["reaper"] = IF @ = "wait" THEN "woken" ELSE @]
  /\ UNCHANGED <<alive, listVars, mode, optimised, lockVars, running, op, arg,
                 callVars, announced, expiryVars>>

JoinReaper ==
  /\ pc["main"] = "join"
  /\ pc["reaper"] = "exited"
  /\ Goto("main", "reload_wrlock")
  /\ UNCHANGED <<alive, listVars, mode, optimised, lockVars, running, op, arg,
                 callVars, announced, expiryVars>>

StartReaper ==
  /\ pc["main"] = "start"
  /\ running' = TRUE
  /\ reply' = 0
  /\ pc' = [pc EXCEPT !["main"] = "idle", !["reaper"] = "top"]
  /\ UNCHANGED <<alive, listVars, mode, optimised, lockVars, op, arg,
                 announced, restarted, expiryVars>>

-----------------------------------------------------------------------------
(* What both threads run. *)

(* The rest of game_mode_context_unregister. *)

\* The first entry of the client leaves the list and is freed, whether or not
\* auto_expire still points to it; without one, the lock is released again
\* and the answer is -1.
Unlink(t) ==
  /\ pc[t] = "unreg_wrlock"
  /\ CanWrite
  /\ \E i \in 1..Len(clients) :
       /\ clients[i] = arg[t]
       /\ \A j \in 1..(i - 1) : clients[j] # arg[t]
       /\ clients' = RemoveAt(clients, i)
  /\ writer' = t
  /\ Goto(t, "unreg_count")
  /\ found' = IF found = arg[t] THEN NoPid ELSE found
  /\ UNCHANGED <<alive, refcount, mode, optimised, readers, running, op, arg,
                 callVars, announced, misread>>

UnlinkUnknown(t) ==
  /\ pc[t] = "unreg_wrlock"
  /\ CanWrite
  /\ arg[t] \notin Registered
  /\ IF t = "main" THEN Reply(-1) ELSE Goto(t, "scan") /\ UNCHANGED reply
  /\ UNCHANGED <<alive, listVars, mode, optimised, lockVars, running, op, arg,
                 announced, restarted, expiryVars>>

UnregisterCount(t) ==
  /\ pc[t] = "unreg_count"
  /\ refcount' = refcount - 1
  /\ IF refcount = 1
       THEN BeginLeave(t)
       ELSE Goto(t, "unreg_unlock") /\ UNCHANGED mode
  /\ UNCHANGED <<alive, clients, optimised, lockVars, running, op, arg,
                 callVars, announced, expiryVars>>

\* remove_client_optimisations, then the unlock.
UnregisterUnlock(t) ==
  /\ pc[t] = "unreg_unlock"
  /\ optimised' = optimised \ {arg[t]}
  /\ writer' = NoThread
  /\ Goto(t, "unreg_emit")
  /\ UNCHANGED <<alive, listVars, mode, readers, running, op, arg, callVars,
                 announced, expiryVars>>

UnregisterEmit(t) ==
  /\ pc[t] = "unreg_emit"
  /\ announced' = [announced EXCEPT ![arg[t]] = "unregistered"]
  /\ IF t = "main" THEN Reply(0) ELSE Goto(t, "scan") /\ UNCHANGED reply
  /\ UNCHANGED <<alive, listVars, mode, optimised, lockVars, running, op, arg,
                 restarted, expiryVars>>

(* The ends of game_mode_context_enter and game_mode_context_leave. *)

FinishEnter(t) ==
  /\ pc[t] = "entering"
  /\ mode' = "on"
  /\ Goto(t, Return(t))
  /\ UNCHANGED <<alive, listVars, optimised, lockVars, running, op, arg,
                 callVars, announced, expiryVars>>

FinishLeave(t) ==
  /\ pc[t] = "leaving"
  /\ mode' = "off"
  /\ Goto(t, Return(t))
  /\ UNCHANGED <<alive, listVars, optimised, lockVars, running, op, arg,
                 callVars, announced, expiryVars>>

(* game_mode_reload_config_internal *)

ReloadBegin(t) ==
  /\ pc[t] = "reload_wrlock"
  /\ CanWrite
  /\ writer' = t
  /\ IF refcount > 0
       THEN BeginLeave(t) /\ optimised' = optimised \ Registered
       ELSE Goto(t, "reload_config") /\ UNCHANGED <<mode, optimised>>
  /\ UNCHANGED <<alive, listVars, readers, running, op, arg, callVars,
                 announced, expiryVars>>

\* config_reload and game_mode_reconfig_cpu, then the way back in.
ReloadConfig(t) ==
  /\ pc[t] = "reload_config"
  /\ IF refcount > 0
       THEN BeginEnter(t)
       ELSE Goto(t, "reload_apply") /\ UNCHANGED mode
  /\ UNCHANGED <<alive, listVars, optimised, lockVars, running, op, arg,
                 callVars, announced, expiryVars>>

ReloadApply(t) ==
  /\ pc[t] = "reload_apply"
  /\ optimised' = IF refcount > 0 THEN optimised \cup (Registered \cap alive)
                                  ELSE optimised
  /\ writer' = NoThread
  /\ Goto(t, IF t = "main" THEN "start" ELSE "top")
  /\ UNCHANGED <<alive, listVars, mode, readers, running, op, arg, callVars,
                 announced, expiryVars>>

-----------------------------------------------------------------------------
(* The reaper thread, game_mode_context_reaper. *)

ReaperTop ==
  /\ ReaperMoves("top", IF running THEN "lock" ELSE "exited")
  /\ op' = [op EXCEPT !["reaper"] = "none"]
  /\ UNCHANGED <<arg, expiryVars>>

ReaperWait ==
  /\ ReaperMoves("lock", "wait")
  /\ UNCHANGED <<op, arg, expiryVars>>

\* The timed wait ends by itself, at its time or without a reason.
ReaperTimeout ==
  /\ ReaperMoves("wait", "woken")
  /\ UNCHANGED <<op, arg, expiryVars>>

ReaperWoken ==
  /\ ReaperMoves("woken", IF running THEN "igpu" ELSE "exited")
  /\ UNCHANGED <<op, arg, expiryVars>>

\* check_igpu_energy only changes the governor, under the write lock.
ReaperIgpu ==
  /\ CanWrite
  /\ ReaperMoves("igpu", "scan")
  /\ UNCHANGED <<op, arg, expiryVars>>

\* auto_expire looks at one entry after the other while processes die, so
\* any entry that is dead may be the first it finds.  It keeps a pointer to
\* the entry and releases the lock.
ReaperFindsDead ==
  /\ CanRead
  /\ ReaperMoves("scan", "found")
  /\ \E p \in Registered \ alive : found' = p
  /\ op' = [op EXCEPT !["reaper"] = "unregister"]
  /\ arg' = [arg EXCEPT !["reaper"] = NoPid]
  /\ UNCHANGED misread

ReaperFindsNone ==
  /\ CanRead
  /\ Registered \subseteq alive
  /\ ReaperMoves("scan", "repin")
  /\ arg' = [arg EXCEPT !["reaper"] = NoPid]
  /\ op' = [op EXCEPT !["reaper"] = "none"]
  /\ UNCHANGED expiryVars

\* Without a lock client->pid is read twice: here, as the client ...
ReaperReadsPid ==
  /\ ReaperMoves("found", "unreg_check")
  /\ \E p \in FoundPid(Games) : arg' = [arg EXCEPT !["reaper"] = p]
  /\ UNCHANGED <<op, expiryVars>>

\* ... and here, as the requester: the reaper unregisters the client in the
\* client's own name, if the two agree.  A refusal sends it back to the scan.
ReaperUnregister ==
  /\ \E requester \in FoundPid(Pids) :
       LET v == Verdict("unregister", arg["reaper"], requester)
       IN ReaperMoves("unreg_check", IF v = "pass" THEN "unreg_wrlock" ELSE "scan")
  /\ found' = NoPid
  /\ misread' = (misread \/ found = NoPid)
  /\ UNCHANGED <<op, arg>>

\* reapply_core_pinning_internal moves threads of processes that are
\* optimised already, under the write lock.
ReaperRepin ==
  /\ CanWrite
  /\ ReaperMoves("repin", "needs_reload")
  /\ UNCHANGED <<op, arg, expiryVars>>

\* config_needs_reload: a watched file has changed or not.
ReaperReload ==
  /\ ReaperMoves("needs_reload", "reload_wrlock")
  /\ op' = [op EXCEPT !["reaper"] = "refresh"]
  /\ UNCHANGED <<arg, expiryVars>>

ReaperNoReload ==
  /\ ReaperMoves("needs_reload", "top")
  /\ UNCHANGED <<op, arg, expiryVars>>

-----------------------------------------------------------------------------
Init ==
  /\ alive = Pids
  /\ clients = <<>>
  /\ refcount = 0
  /\ mode = "off"
  /\ optimised = {}
  /\ writer = NoThread
  /\ readers = {}
  /\ running = TRUE
  /\ pc = [t \in Threads |-> IF t = "main" THEN "idle" ELSE "top"]
  /\ op = [t \in Threads |-> "none"]
  /\ arg = [t \in Threads |-> NoPid]
  /\ reply = NoReply
  /\ announced = [p \in Games |-> "none"]
  /\ restarted = FALSE
  /\ found = NoPid
  /\ misread = FALSE

Calls ==
  \/ \E o \in {"register", "unregister", "query", "restart"},
        client \in Games, requester \in Pids : Receive(o, client, requester)
  \/ \E o \in {"list", "refresh"} : ReceiveUnchecked(o)

\* The steps of one function of the source each.
Register ==
  \/ RegisterReadLock \/ RegisterHasClient \/ RegisterFindExe
  \/ RegisterInsert \/ RegisterCount \/ RegisterApply \/ RegisterEmit

Unregister(t) ==
  \/ Unlink(t) \/ UnlinkUnknown(t) \/ UnregisterCount(t)
  \/ UnregisterUnlock(t) \/ UnregisterEmit(t)

Query == QueryLoad \/ QueryList \/ ListClients

Restart == RestartLoad \/ RestartReadLock \/ RestartEnter \/ RestartUnlock

Switch(t) == FinishEnter(t) \/ FinishLeave(t)

Reload(t) == ReloadBegin(t) \/ ReloadConfig(t) \/ ReloadApply(t)

Refresh == StopReaper \/ SignalReaper \/ JoinReaper \/ StartReaper

Wait == ReaperTop \/ ReaperWait \/ ReaperTimeout \/ ReaperWoken

Expire ==
  ReaperFindsDead \/ ReaperFindsNone \/ ReaperReadsPid \/ ReaperUnregister

Housekeep == ReaperIgpu \/ ReaperRepin \/ ReaperReload \/ ReaperNoReload

Shared(t) == Unregister(t) \/ Switch(t) \/ Reload(t)

Main == Register \/ Query \/ Restart \/ Refresh \/ Shared("main")

Reaper == Wait \/ Expire \/ Housekeep \/ Shared("reaper")

Processes == \E p \in Games : Die(p) \/ Reuse(p)

Next == Calls \/ Main \/ Reaper \/ Processes

Spec == Init /\ [][Next]_vars

\* A thread that can run does, and one that waits for the lock gets it in the
\* end: a critical section is finite and the kernel wakes its waiters.
\* Nothing makes a process die, a pid return or a client call.
FairSpec == Spec /\ SF_vars(Main) /\ SF_vars(Reaper)

-----------------------------------------------------------------------------
(* Properties. *)

\* Every variable has its type; in particular the refcount, a signed integer
\* that is decremented without a check, never drops below zero.
TypeOK ==
  /\ alive \subseteq Pids
  /\ clients \in Seq(Games)
  /\ refcount \in Nat
  /\ mode \in {"off", "entering", "on", "leaving"}
  /\ optimised \subseteq Games
  /\ writer \in Threads \cup {NoThread}
  /\ readers \subseteq Threads
  /\ running \in BOOLEAN
  /\ pc \in [Threads -> Locs]
  /\ op \in [Threads -> Ops]
  /\ arg \in [Threads -> Games \cup {NoPid}]
  /\ reply \in Int
  /\ announced \in [Games -> {"none", "registered", "unregistered"}]
  /\ restarted \in BOOLEAN
  /\ found \in Games \cup {NoPid}
  /\ misread \in BOOLEAN

\* RestartGamemode is between its two locks: it may be switching.
Restarting == op["main"] = "restart" /\ "main" \in readers

\* Nobody is changing anything.
Settled == writer = NoThread /\ ~Restarting

\* Whoever gets the lock finds a list without a second entry for a pid and
\* with as many entries as the refcount says: what ListGames asserts of it
\* (assert(n > i)), though register looks for the pid under one lock and
\* inserts it under another.
ListMatchesRefcount ==
  writer = NoThread => refcount = Len(clients) /\ IsInjective(clients)

\* Two threads never switch game mode at the same time, although restart
\* does it under the read lock only and the reaper reloads on its own, and
\* nothing is half switched when nobody is at it.
OneSwitcher ==
  /\ ~(pc["main"] \in SwitchLocs /\ pc["reaper"] \in SwitchLocs)
  /\ mode \in {"entering", "leaving"}
       => \E t \in Threads : pc[t] \in SwitchLocs

\* While a game is registered the system is in game mode, whatever
\* restarts, reloads and expiries have happened in between.
OnWhileRegistered == Settled /\ clients # <<>> => mode = "on"

\* Without a registered game the system is out of game mode, as long as
\* nobody has called RestartGamemode.
OffWhileIdle == Settled /\ clients = <<>> /\ ~restarted => mode = "off"

\* What gamemoded.c says at its top, with no exception for restarts: when all
\* clients have stopped, the system is back in its default state.
DefaultWhenIdle == Settled /\ clients = <<>> => mode = "off"

\* The processes that run with changed priorities and affinity are exactly
\* the registered ones: no reload forgets one, no unregistered game keeps
\* its boost.
OptimisedAreRegistered == writer = NoThread => optimised = Registered \cap alive

(* The next three hold as long as auto_expire never reads the pid of an      *)
(* entry that was freed after it let the lock go.  The pid it reads then may *)
(* be that of any game, which it removes although the game lives.            *)

\* A game that was told it is registered (0 from RegisterGame) still is when
\* the main thread is idle again, unless it is dead: an expiry under way
\* does not remove a game that was registered after it began.
RegisterAnswerHolds ==
  pc["main"] = "idle" /\ op["main"] = "register" /\ reply = 0 /\ ~misread
    => arg["main"] \in Registered \/ arg["main"] \notin alive

\* For every game that lives, the last signal sent on the bus tells whether
\* it is registered: both threads send them, after they release the lock.
ListenersInformed ==
  pc["main"] = "idle" /\ ~misread =>
    \A p \in alive \cap Games : announced[p] = "registered" <=> p \in Registered

\* A game leaves the list because it asked or because it is dead; a dead
\* process that the reaper saw is still dead when it gets the write lock.
\* Only a reaper that has read a freed entry may remove another.
OnlyDeadExpire ==
  [][\A p \in Registered \ Registered' :
       \/ p \notin alive
       \/ pc["main"] = "unreg_wrlock" /\ arg["main"] = p
       \/ pc["reaper"] = "unreg_wrlock" /\ arg["reaper"] = p /\ misread]_vars

\* Enter and leave alternate: neither runs on top of itself, so the values
\* that enter saves are never those that an earlier enter set.
EnterLeaveAlternate ==
  [][mode' # mode =>
       <<mode, mode'>> \in {<<"off", "entering">>, <<"entering", "on">>,
                            <<"on", "leaving">>, <<"leaving", "off">>}]_vars

\* The reaper removes every dead game, if clients do not call RefreshConfig
\* for ever, for each call starts its wait anew, and pids do not come back for
\* ever, for each such game may be found dead before the others.
DeadClientsExpire ==
  <>[]running /\ <>[][alive' \subseteq alive]_vars =>
    \A p \in Games : p \in Registered \ alive ~> p \notin Registered \ alive

\* Every D-Bus call is answered: neither the lock nor the join of the reaper
\* thread stops the main thread for good.
CallsAnswered == pc["main"] # "idle" ~> pc["main"] = "idle"

(* The registry that the context implements. *)

\* The list as it was before, or will be after, the change in progress: a
\* change counts from the moment its lock is released.
Committed ==
  {p \in Games :
     \/ p \in Registered
          /\ ~(writer = "main" /\ op["main"] = "register" /\ p = arg["main"])
     \/ \E t \in Threads :
          writer = t /\ op[t] = "unregister" /\ p = arg[t]}

Registry == INSTANCE GameModeRegistry WITH
  registered <- Committed,
  active     <- IF Settled THEN mode = "on" ELSE Committed # {}

\* The context does what the registry does and nothing else.
ImplementsRegistry == Registry!Spec

=============================================================================
