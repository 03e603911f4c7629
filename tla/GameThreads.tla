----------------------------- MODULE GameThreads -----------------------------
(***************************************************************************)
(* What game mode does to the threads of a game: the nice level            *)
(* (daemon/gamemode-sched.c), the I/O priority (daemon/gamemode-ioprio.c)  *)
(* and the cores they may run on (daemon/gamemode-cpu.c).  Register,       *)
(* unregister, a reload of the configuration and the reaper each walk      *)
(* through /proc/<pid>/task, thread by thread, under the context's write   *)
(* lock (daemon/gamemode-context.c).  The game runs on meanwhile: its      *)
(* threads start others, end, and set priorities and cores of their own.   *)
(***************************************************************************)
EXTENDS ConfigValues, CpuCores

CONSTANTS
  Tids,     \* the threads the game may have, its main thread included
  Main,     \* the main thread
  NoThread, \* no thread
  Configs,  \* the configurations: renice, ioprio, softrealtime, info
  Own       \* the levels the game sets itself, for each kind and thread

\* What is walked for: the nice level and the I/O priority.
Kinds == {"renice", "ioprio"}

\* The level that threads have by default; 4 is IOPRIO_DEFAULT.
Default(kind) == IF kind = "renice" THEN 0 ELSE 4

\* The level game mode gives them.  A positive renice is a negative nice
\* level.
Boost(cfg, kind) == IF kind = "renice" THEN -RenicePriority(cfg.renice)
                                       ELSE IoprioLevel(cfg.ioprio)

ASSUME GameThreadsAssumption ==
  /\ Main \in Tids /\ NoThread \notin Tids
  /\ Configs \subseteq [renice : Int, ioprio : Int, softrealtime : BOOLEAN,
                        info : {NoInfo} \cup
                               [mode : {"park", "pin"}, online : SUBSET Int,
                                keep : SUBSET Int]]
  /\ Own \in [Kinds -> [Tids -> SUBSET Int]]

VARIABLES
  threads,     \* the threads of the game that exist
  unborn,      \* those that may still start
  level,       \* the level of each kind of each thread
  iso,         \* is the main thread in SCHED_ISO mode?
  affinity,    \* the cores each thread may run on
  registered,  \* is the game registered?
  config,      \* self->config and self->cpu
  plan,        \* the walks that are left of the operation at work
  left,        \* the threads that readdir has still to list
  tid,         \* the thread whose level has been read, to be set next
  own,         \* levels the game has set itself (history only)
  raced,       \* threads that started or changed their level behind the
               \* back of a walk (history only)
  denied       \* threads to which the kernel has denied a nice level, when
               \* it was last set or by SCHED_RESET_ON_FORK (history only)

gameVars == <<threads, unborn, own>>
walkVars == <<plan, left, tid>>
histories == <<raced, denied>>
vars == <<gameVars, level, iso, affinity, registered, config, walkVars,
          histories>>

NoOwn == 99
Anywhere == {}   \* the affinity of a thread that was never pinned

Idle == plan = <<>>

\* game_mode_apply_client_optimisations
\* and game_mode_remove_client_optimisations.
ApplyWalks == <<<<"renice", "set">>, <<"ioprio", "set">>, <<"iso">>, <<"pin">>>>
RemoveWalks == <<<<"ioprio", "reset">>, <<"renice", "reset">>, <<"unpin">>>>

-----------------------------------------------------------------------------
(* The operations of the context. *)

Begin(walks) ==
  /\ Idle
  /\ plan' = walks
  /\ left' = IF walks = <<>> THEN {} ELSE threads
  /\ tid' = NoThread
  /\ UNCHANGED <<gameVars, level, iso, affinity, config, histories>>

\* game_mode_context_register.
Register ==
  /\ ~registered /\ registered' = TRUE
  /\ Begin(ApplyWalks)

\* game_mode_context_unregister, called by the game or by auto_expire.
Unregister ==
  /\ registered /\ registered' = FALSE
  /\ Begin(RemoveWalks)

\* MISTAKE for Repin: only what register pinned stays pinned.
RepinNever ==
  /\ registered
  /\ Begin(<<>>)
  /\ UNCHANGED registered

\* game_mode_reapply_core_pinning_internal, whenever the reaper wakes up.
Repin ==
  /\ registered
  /\ Begin(<<<<"pin">>>>)
  /\ UNCHANGED registered

\* MISTAKE for Reload: the new configuration is read first.
ReloadFirst ==
  /\ Begin(IF registered THEN <<<<"config">>>> \o RemoveWalks \o ApplyWalks
                         ELSE <<<<"config">>>>)
  /\ UNCHANGED registered

\* game_mode_reload_config_internal, called by the reaper if a file changed,
\* or by RefreshConfig.
Reload ==
  /\ Begin(IF registered THEN RemoveWalks \o <<<<"config">>>> \o ApplyWalks
                         ELSE <<<<"config">>>>)
  /\ UNCHANGED registered

-----------------------------------------------------------------------------
(* The walks. *)

At(walk) == ~Idle /\ Head(plan) = walk
WalkDone ==
  /\ plan' = Tail(plan)
  /\ left' = IF plan' = <<>> THEN {} ELSE threads
  /\ tid' = NoThread

\* MISTAKE for Expected: to take a level back the default is expected too.
ExpectedDefault(kind, how) == Default(kind)

\* What game_mode_apply_renice and game_mode_apply_ioprio expect to find and
\* what they set.
Expected(kind, how) == IF how = "set" THEN Default(kind) ELSE Boost(config, kind)
NewLevel(kind, how) == IF how = "set" THEN Boost(config, kind) ELSE Default(kind)

\* A renice of 0 means that nothing is done.
SwitchedOff(kind) == kind = "renice" /\ Boost(config, kind) = 0

\* MISTAKE for Adjustable: whatever the level is, it is set.
AdjustableAlways(kind, how, t) == t \in threads

\* "Don't adjust priority if it does not match the expected value".
Adjustable(kind, how, t) ==
  t \in threads /\ level[kind][t] = Expected(kind, how)

\* Reading the level of the next thread that is listed.
Read(kind, how) ==
  /\ At(<<kind, how>>) /\ ~SwitchedOff(kind) /\ tid = NoThread
  /\ \E t \in left :
       /\ left' = left \ {t}
       /\ tid' = IF Adjustable(kind, how, t) THEN t ELSE NoThread
  /\ UNCHANGED <<plan, gameVars, level, iso, affinity, registered, config,
                 histories>>

\* Setting it.  The thread may be gone, and a nice level below 0 takes a
\* permission.
Set(kind, how) ==
  /\ At(<<kind, how>>) /\ tid # NoThread
  /\ tid' = NoThread
  /\ \/ /\ tid \in threads
        /\ level' = [level EXCEPT ![kind][tid] = NewLevel(kind, how)]
        /\ denied' = IF kind = "renice" THEN denied \ {tid} ELSE denied
     \/ /\ tid \notin threads
        /\ UNCHANGED <<level, denied>>
     \/ /\ <<kind, how>> = <<"renice", "set">>
        /\ denied' = denied \cup ({tid} \cap threads)
        /\ UNCHANGED level
  /\ UNCHANGED <<plan, left, gameVars, iso, affinity, registered, config,
                 raced>>

\* There are no more threads in the list, or nothing to do for them.
LevelsDone(kind, how) ==
  /\ At(<<kind, how>>)
  /\ SwitchedOff(kind) \/ (left = {} /\ tid = NoThread)
  /\ WalkDone
  /\ UNCHANGED <<gameVars, level, iso, affinity, registered, config, histories>>

\* game_mode_apply_scheduling, for the main thread only; the kernel may not
\* know SCHED_ISO.  Nothing ever takes it back.
SetScheduler ==
  /\ At(<<"iso">>)
  /\ WalkDone
  /\ \/ config.softrealtime /\ Main \in threads /\ iso' = TRUE
     \/ UNCHANGED iso
  /\ UNCHANGED <<gameVars, level, affinity, registered, config, histories>>

\* The cores of a walk: to_keep, or all that were online when the info was
\* made.
Pinned(walk) == IF walk = <<"pin">> THEN config.info.keep ELSE config.info.online

\* apply_affinity_mask for the next thread.
Pin(walk) ==
  /\ At(walk) /\ config.info.mode = "pin"
  /\ \E t \in left :
       /\ left' = left \ {t}
       /\ affinity' = IF t \in threads THEN [affinity EXCEPT ![t] = Pinned(walk)]
                                       ELSE affinity
  /\ UNCHANGED <<plan, tid, gameVars, level, iso, registered, config, histories>>

PinDone(walk) ==
  /\ At(walk)
  /\ config.info.mode = "pin" => left = {}
  /\ WalkDone
  /\ UNCHANGED <<gameVars, level, iso, affinity, registered, config, histories>>

\* config_reload and game_mode_reconfig_cpu.
ReadConfig ==
  /\ At(<<"config">>)
  /\ WalkDone
  /\ config' \in Configs
  /\ UNCHANGED <<gameVars, level, iso, affinity, registered, histories>>

WalkStep ==
  \/ \E kind \in Kinds, how \in {"set", "reset"} :
       Read(kind, how) \/ Set(kind, how) \/ LevelsDone(kind, how)
  \/ \E walk \in {<<"pin">>, <<"unpin">>} : Pin(walk) \/ PinDone(walk)
  \/ SetScheduler \/ ReadConfig

-----------------------------------------------------------------------------
(* The game. *)

\* A walk for this kind of level is at work and has yet to set it for t.
Pending(kind, t) ==
  (\E how \in {"set", "reset"} : At(<<kind, how>>)) /\ (t \in left \/ t = tid)

\* A thread starts with what its parent has, but SCHED_RESET_ON_FORK, which
\* comes with SCHED_ISO, resets a nice level below 0.  A walk may list it or
\* not.
Spawn(parent, child) ==
  LET reset == iso /\ parent = Main /\ level["renice"][parent] < 0
  IN /\ parent \in threads /\ child \in unborn
     /\ threads' = threads \cup {child} /\ unborn' = unborn \ {child}
     /\ level' = [kind \in Kinds |-> [level[kind] EXCEPT ![child] =
                    IF kind = "renice" /\ reset THEN 0 ELSE level[kind][parent]]]
     /\ own' = [kind \in Kinds |-> [own[kind] EXCEPT ![child] =
                  IF kind = "renice" /\ reset THEN NoOwn ELSE own[kind][parent]]]
     /\ affinity' = [affinity EXCEPT ![child] = affinity[parent]]
     /\ left' \in IF Idle THEN {left} ELSE {left, left \cup {child}}
     /\ raced' = raced \cup
          {<<kind, child>> : kind \in {k \in Kinds :
              \/ <<k, parent>> \in raced
              \/ Pending(k, parent) /\ child \notin left'}}
     /\ denied' = IF reset \/ parent \in denied THEN denied \cup {child}
                                               ELSE denied
     /\ UNCHANGED <<plan, tid, iso, registered, config>>

\* Threads end: one, or all with the process, which has its main thread to
\* the end.  What is known of them is of no use any more.
Exit ==
  /\ \/ \E t \in threads \ {Main} : threads' = threads \ {t}
     \/ threads # {} /\ threads' = {}
  /\ level' = [kind \in Kinds |-> [t \in Tids |->
                 IF t \in threads' THEN level[kind][t] ELSE Default(kind)]]
  /\ own' = [kind \in Kinds |-> [t \in Tids |->
               IF t \in threads' THEN own[kind][t] ELSE NoOwn]]
  /\ affinity' = [t \in Tids |-> IF t \in threads' THEN affinity[t] ELSE Anywhere]
  /\ iso' = (iso /\ Main \in threads')
  /\ raced' = {r \in raced : r[2] \in threads'}
  /\ denied' = denied \cap threads'
  /\ UNCHANGED <<unborn, registered, config, walkVars>>

\* A thread is given a level of its own.
OwnLevel(kind, t) ==
  /\ t \in threads
  /\ \E v \in Own[kind][t] : /\ level' = [level EXCEPT ![kind][t] = v]
                          /\ own' = [own EXCEPT ![kind][t] = v]
  /\ raced' = IF tid = t /\ Pending(kind, t) THEN raced \cup {<<kind, t>>}
                                             ELSE raced
  /\ UNCHANGED <<threads, unborn, iso, affinity, registered, config, walkVars,
                 denied>>

\* A thread frees itself from the cores it was pinned to.
OwnAffinity(t) ==
  /\ t \in threads
  /\ affinity' = [affinity EXCEPT ![t] = Anywhere]
  /\ UNCHANGED <<gameVars, level, iso, registered, config, walkVars, histories>>

-----------------------------------------------------------------------------
(* Specification *)

Init ==
  /\ threads = {Main} /\ unborn = Tids \ {Main}
  /\ level = [kind \in Kinds |-> [t \in Tids |-> Default(kind)]]
  /\ own = [kind \in Kinds |-> [t \in Tids |-> NoOwn]]
  /\ iso = FALSE
  /\ affinity = [t \in Tids |-> Anywhere]
  /\ registered = FALSE /\ config \in Configs
  /\ plan = <<>> /\ left = {} /\ tid = NoThread
  /\ raced = {} /\ denied = {}

Game ==
  \/ \E parent, child \in Tids : Spawn(parent, child)
  \/ Exit
  \/ \E t \in Tids : OwnAffinity(t) \/ \E kind \in Kinds : OwnLevel(kind, t)

Next ==
  \/ Register \/ Unregister \/ Repin \/ Reload
  \/ WalkStep
  \/ Game

\* A walk goes on, and the reaper wakes up again and again.
Spec ==
  /\ Init /\ [][Next]_vars
  /\ WF_vars(WalkStep)
  /\ WF_vars(Repin)

-----------------------------------------------------------------------------
(* Properties *)

\* The levels game mode may take for its own: it knows them by their value.
Ours(kind) == {Default(kind)} \cup {Boost(cfg, kind) : cfg \in Configs}

\* A level that the game has set is never changed, registered or not, through
\* any reload (the expected value in game_mode_apply_renice and
\* game_mode_apply_ioprio), with two exceptions.  A change between the reading
\* and the setting of the same thread is overwritten; and a level that equals
\* the default or a configured one is taken for game mode's own, so that it is
\* boosted or reset, but to such a level only.
OwnLevelKept ==
  \A kind \in Kinds, t \in Tids :
    own[kind][t] # NoOwn /\ <<kind, t>> \notin raced =>
      \/ level[kind][t] = own[kind][t]
      \/ {level[kind][t], own[kind][t]} \subseteq Ours(kind)

\* Between operations the threads of a game that is not registered have their
\* default level or one of their own, whatever the configuration was meanwhile.
\* Only a thread that started behind the back of the walk that takes the
\* levels back keeps what it inherited.
RemovedIsDefault ==
  Idle /\ ~registered =>
    \A kind \in Kinds, t \in threads :
      <<kind, t>> \in raced \/ level[kind][t] \in {Default(kind), own[kind][t]}

\* What example/gamemode.ini says of a setting: "any value between 0 and 20
\* here, the value will be negated and applied as a nice value" of renice, and
\* "any value between 0 and 7" of ioprio.
Documented(kind) ==
  IF kind = "renice" THEN config.renice \in 0..20 ELSE config.ioprio \in 0..7
DocumentedLevel(kind) ==
  IF kind = "renice" THEN -config.renice ELSE config.ioprio

\* Between operations the threads of a registered game have the levels that
\* the present configuration names, not an earlier one, or one of their own;
\* the kernel may have denied a thread its nice level.  Nothing is said of
\* settings outside the documented range, nor of "off" and "reset", which the
\* code takes for 0 where example/gamemode.ini says otherwise.
LevelsAreConfigured ==
  Idle /\ registered =>
    \A kind \in Kinds, t \in threads :
      Documented(kind) =>
        \/ <<kind, t>> \in raced
        \/ level[kind][t] \in {DocumentedLevel(kind), own[kind][t]}
        \/ kind = "renice" /\ t \in denied /\ level[kind][t] = Default(kind)

\* A thread of a registered game does not stay off the cores it is pinned to,
\* though it may start while a walk is under way or free itself
\* (game_mode_reapply_core_pinning_internal).
StaysPinned ==
  \A t \in Tids :
    []<>(\/ ~registered \/ t \notin threads \/ config.info.mode # "pin"
         \/ affinity[t] = config.info.keep)

=============================================================================
