-------------------------- MODULE GameThreadsProofs --------------------------
(***************************************************************************)
(* Game mode keeps off the levels a game sets for itself, unless they look *)
(* like its own, gives the others back when the game leaves, and gives a   *)
(* registered game those that the present configuration names: for any     *)
(* number of threads, any configurations, any levels of the game's own and *)
(* any order of registrations, reloads and walks, with threads that start, *)
(* end and change their levels while they are walked over.                 *)
(***************************************************************************)
EXTENDS GameThreads, SequenceTheorems, TLAPS

Typed ==
  /\ level \in [Kinds -> [Tids -> Int]]
  /\ own \in [Kinds -> [Tids -> Int]]
  /\ threads \subseteq Tids /\ unborn \subseteq Tids
  /\ threads \cap unborn = {}
  /\ left \subseteq Tids \ unborn
  /\ tid \in (Tids \ unborn) \cup {NoThread}
  /\ config \in Configs

\* A thread whose level was read, to be set next, has no level of its own, or
\* one that looks like game mode's, or it was given one since.
ReadIsOurs ==
  \A kind \in Kinds, how \in {"set", "reset"} :
    At(<<kind, how>>) /\ tid # NoThread =>
      \/ own[kind][tid] \in Ours(kind) \cup {NoOwn}
      \/ <<kind, tid>> \in raced

OwnInv == Typed /\ ReadIsOurs /\ OwnLevelKept

LEMMA DefaultIsInt == \A kind \in Kinds : Default(kind) \in Int
  BY DEF Kinds, Default

LEMMA BoostIsInt == \A cfg \in Configs, kind \in Kinds : Boost(cfg, kind) \in Int
<1> SUFFICES ASSUME NEW cfg \in Configs, NEW kind \in Kinds
             PROVE  Boost(cfg, kind) \in Int
  OBVIOUS
<1>1. cfg.renice \in Int /\ cfg.ioprio \in Int
  BY GameThreadsAssumption
<1>2. RenicePriority(cfg.renice) \in Int
  BY <1>1 DEF RenicePriority
<1>3. IoprioLevel(cfg.ioprio) \in Int
  BY <1>1 DEF IoprioLevel
<1> QED BY <1>2, <1>3 DEF Boost, Kinds

LEMMA InitOwn == Init => OwnInv
<1> SUFFICES ASSUME Init PROVE OwnInv
  OBVIOUS
<1>1. Typed
  <2>1. level \in [Kinds -> [Tids -> Int]]
    BY DefaultIsInt DEF Init
  <2>2. own \in [Kinds -> [Tids -> Int]]
        /\ \A kind \in Kinds, t \in Tids : own[kind][t] = NoOwn
    BY DEF Init, NoOwn
  <2> QED BY <2>1, <2>2, GameThreadsAssumption DEF Init, Typed
<1> QED
  BY <1>1 DEF Init, OwnInv, ReadIsOurs, OwnLevelKept, Typed

\* A step of the daemon that changes no level and reads none.
LEMMA NothingSet ==
  ASSUME OwnInv, UNCHANGED <<gameVars, level, raced>>, config' \in Configs,
         left' \subseteq Tids \ unborn,
         tid' = NoThread \/ UNCHANGED <<plan, tid>>
  PROVE  OwnInv'
<1>1. UNCHANGED <<threads, unborn, own, level, raced>>
  BY DEF gameVars
<1> QED
  BY <1>1 DEF OwnInv, Typed, ReadIsOurs, OwnLevelKept, At, Idle

\* An operation of the context begins or a walk ends.
LEMMA ReadKeeps ==
  ASSUME OwnInv, NEW kind \in Kinds, NEW how \in {"set", "reset"}, Read(kind, how)
  PROVE  OwnInv'
<1>1. PICK t \in left :
        /\ left' = left \ {t}
        /\ tid' = IF Adjustable(kind, how, t) THEN t ELSE NoThread
  BY DEF Read
<1>2. /\ UNCHANGED <<plan, threads, unborn, own, level, raced, config>>
      /\ At(<<kind, how>>)
  BY DEF Read, gameVars, histories
<1>3. CASE Adjustable(kind, how, t)
  <2>1. level[kind][t] \in {Default(kind), Boost(config, kind)}
    BY <1>3 DEF Adjustable, Expected
  <2>2. level[kind][t] \in Ours(kind)
    BY <2>1 DEF OwnInv, Typed, Ours
  <2>3. t \in Tids
    BY DEF OwnInv, Typed
  <2>4. own[kind][t] \in Ours(kind) \cup {NoOwn} \/ <<kind, t>> \in raced
    BY <2>2, <2>3 DEF OwnInv, OwnLevelKept
  <2>5. \A k \in Kinds, h \in {"set", "reset"} : At(<<k, h>>)' => k = kind
    BY <1>2 DEF At, Idle
  <2>6. ReadIsOurs'
    BY <1>1, <1>2, <1>3, <2>4, <2>5 DEF ReadIsOurs
  <2> QED
    BY <1>1, <1>2, <1>3, <2>6 DEF OwnInv, Typed, OwnLevelKept
<1>4. CASE ~Adjustable(kind, how, t)
  <2>1. tid' = NoThread /\ left' \subseteq Tids \ unborn /\ config' \in Configs
    BY <1>1, <1>2, <1>4 DEF OwnInv, Typed
  <2> QED BY <1>2, <2>1, NothingSet DEF gameVars
<1> QED BY <1>3, <1>4

LEMMA SetKeeps ==
  ASSUME OwnInv, NEW kind \in Kinds, NEW how \in {"set", "reset"}, Set(kind, how)
  PROVE  OwnInv'
<1>1. /\ At(<<kind, how>>) /\ tid # NoThread /\ tid' = NoThread
      /\ UNCHANGED <<plan, left, threads, unborn, own, raced, config>>
      /\ \/ level' = level
         \/ level' = [level EXCEPT ![kind][tid] = NewLevel(kind, how)]
  BY DEF Set, gameVars
<1>2. tid \in Tids /\ NewLevel(kind, how) \in Int
  BY <1>1, DefaultIsInt, BoostIsInt DEF OwnInv, Typed, NewLevel
<1>3. own[kind][tid] \in Ours(kind) \cup {NoOwn} \/ <<kind, tid>> \in raced
  BY <1>1 DEF OwnInv, ReadIsOurs
<1>4. level' \in [Kinds -> [Tids -> Int]]
      /\ \A k \in Kinds, t \in Tids :
           (k = kind /\ t = tid) \/ level'[k][t] = level[k][t]
  BY <1>1, <1>2 DEF OwnInv, Typed
<1>5. NewLevel(kind, how) \in Ours(kind)
  BY DEF OwnInv, Typed, NewLevel, Ours
<1>6. \/ level'[kind][tid] = level[kind][tid]
      \/ level'[kind][tid] \in Ours(kind)
  BY <1>1, <1>2, <1>5 DEF OwnInv, Typed
<1>7. OwnLevelKept'
  BY <1>1, <1>3, <1>4, <1>6 DEF OwnInv, OwnLevelKept
<1> QED
  BY <1>1, <1>4, <1>7 DEF OwnInv, Typed, ReadIsOurs

\* A thread starts with what its parent has of its own.
LEMMA SpawnKeeps ==
  ASSUME OwnInv, NEW parent \in Tids, NEW child \in Tids, Spawn(parent, child)
  PROVE  OwnInv'
<1> DEFINE reset == iso /\ parent = Main /\ level["renice"][parent] < 0
           Resets(kind) == kind = "renice" /\ reset
<1>1. /\ parent \in threads /\ child \in unborn /\ parent # child
      /\ threads' = threads \cup {child} /\ unborn' = unborn \ {child}
      /\ left' \in {left, left \cup {child}}
      /\ UNCHANGED <<plan, tid, config>>
      /\ raced \subseteq raced'
      /\ \A kind \in Kinds : <<kind, parent>> \in raced => <<kind, child>> \in raced'
  BY DEF Spawn, OwnInv, Typed
<1>2. /\ level' = [kind \in Kinds |-> [level[kind] EXCEPT ![child] =
                     IF Resets(kind) THEN 0 ELSE level[kind][parent]]]
      /\ own' = [kind \in Kinds |-> [own[kind] EXCEPT ![child] =
                   IF Resets(kind) THEN NoOwn ELSE own[kind][parent]]]
  BY DEF Spawn
<1> HIDE DEF Resets
<1>3. ASSUME NEW kind \in Kinds
      PROVE  /\ level'[kind] \in [Tids -> Int] /\ own'[kind] \in [Tids -> Int]
             /\ \A t \in Tids \ {child} :
                  level'[kind][t] = level[kind][t] /\ own'[kind][t] = own[kind][t]
             /\ \/ own'[kind][child] = NoOwn
                \/ /\ level'[kind][child] = level[kind][parent]
                   /\ own'[kind][child] = own[kind][parent]
  <2>1. level[kind] \in [Tids -> Int] /\ own[kind] \in [Tids -> Int]
    BY DEF OwnInv, Typed
  <2>2. CASE Resets(kind)
    <3>1. /\ level'[kind] = [level[kind] EXCEPT ![child] = 0]
          /\ own'[kind] = [own[kind] EXCEPT ![child] = NoOwn]
      BY <1>2, <2>2
    <3> QED BY <2>1, <3>1 DEF NoOwn
  <2>3. CASE ~Resets(kind)
    <3>1. /\ level'[kind] = [level[kind] EXCEPT ![child] = level[kind][parent]]
          /\ own'[kind] = [own[kind] EXCEPT ![child] = own[kind][parent]]
      BY <1>2, <2>3
    <3> QED BY <2>1, <3>1
  <2> QED BY <2>2, <2>3
<1>4. level' \in [Kinds -> [Tids -> Int]] /\ own' \in [Kinds -> [Tids -> Int]]
  BY <1>2, <1>3
<1>5. \A kind \in Kinds, t \in Tids \ {child} :
        level'[kind][t] = level[kind][t] /\ own'[kind][t] = own[kind][t]
  BY <1>3
<1>6. \A kind \in Kinds :
        \/ own'[kind][child] = NoOwn
        \/ level'[kind][child] = level[kind][parent] /\ own'[kind][child] = own[kind][parent]
  BY <1>3
<1>7. Typed'
  <2>1. /\ threads' \subseteq Tids /\ unborn' \subseteq Tids
        /\ threads' \cap unborn' = {}
        /\ left' \subseteq Tids \ unborn'
        /\ tid' \in (Tids \ unborn') \cup {NoThread}
        /\ config' \in Configs
    BY <1>1 DEF OwnInv, Typed
  <2> QED BY <1>4, <2>1 DEF Typed
<1>8. tid # child
  BY <1>1, GameThreadsAssumption DEF OwnInv, Typed
<1>9. ReadIsOurs'
  BY <1>1, <1>5, <1>8 DEF OwnInv, Typed, ReadIsOurs, At, Idle
<1>10. OwnLevelKept'
  <2> SUFFICES ASSUME NEW kind \in Kinds, NEW t \in Tids, own'[kind][t] # NoOwn,
                      <<kind, t>> \notin raced'
               PROVE  \/ level'[kind][t] = own'[kind][t]
                      \/ {level'[kind][t], own'[kind][t]} \subseteq Ours(kind)
    BY DEF OwnLevelKept
  <2>1. CASE t = child
    BY <1>1, <1>6, <2>1 DEF OwnInv, OwnLevelKept
  <2>2. CASE t # child
    BY <1>1, <1>5, <2>2 DEF OwnInv, OwnLevelKept
  <2> QED BY <2>1, <2>2
<1> QED BY <1>7, <1>9, <1>10 DEF OwnInv

LEMMA ExitKeeps == OwnInv /\ Exit => OwnInv'
<1> SUFFICES ASSUME OwnInv, Exit PROVE OwnInv'
  OBVIOUS
<1>1. /\ threads' \subseteq threads
      /\ level' = [kind \in Kinds |-> [t \in Tids |->
                     IF t \in threads' THEN level[kind][t] ELSE Default(kind)]]
      /\ own' = [kind \in Kinds |-> [t \in Tids |->
                   IF t \in threads' THEN own[kind][t] ELSE NoOwn]]
      /\ raced' = {r \in raced : r[2] \in threads'}
      /\ UNCHANGED <<unborn, config, plan, left, tid>>
  BY DEF Exit, walkVars
<1>2. /\ level' \in [Kinds -> [Tids -> Int]] /\ own' \in [Kinds -> [Tids -> Int]]
      /\ \A kind \in Kinds, t \in Tids :
           IF t \in threads'
             THEN level'[kind][t] = level[kind][t] /\ own'[kind][t] = own[kind][t]
             ELSE own'[kind][t] = NoOwn
  BY <1>1, DefaultIsInt DEF OwnInv, Typed, NoOwn
<1>3. Typed'
  BY <1>1, <1>2 DEF OwnInv, Typed
<1>4. \A kind \in Kinds, t \in threads' : <<kind, t>> \in raced => <<kind, t>> \in raced'
  BY <1>1
<1>5. ReadIsOurs'
  BY <1>1, <1>2, <1>4 DEF OwnInv, Typed, ReadIsOurs, At, Idle
<1>6. OwnLevelKept'
  BY <1>2, <1>4 DEF OwnInv, OwnLevelKept
<1> QED BY <1>3, <1>5, <1>6 DEF OwnInv

LEMMA OwnLevelKeeps ==
  ASSUME OwnInv, NEW kind \in Kinds, NEW t \in Tids, OwnLevel(kind, t)
  PROVE  OwnInv'
<1>1. PICK v \in Own[kind][t] : /\ level' = [level EXCEPT ![kind][t] = v]
                                /\ own' = [own EXCEPT ![kind][t] = v]
  BY DEF OwnLevel
<1>2. /\ UNCHANGED <<threads, unborn, config, plan, left, tid>>
      /\ raced \subseteq raced'
      /\ tid = t /\ Pending(kind, t) => <<kind, t>> \in raced'
  BY DEF OwnLevel, walkVars
<1>3. v \in Int
  BY GameThreadsAssumption
<1>4. /\ level' \in [Kinds -> [Tids -> Int]] /\ own' \in [Kinds -> [Tids -> Int]]
      /\ level'[kind][t] = v /\ own'[kind][t] = v
      /\ \A k \in Kinds, u \in Tids :
           (k = kind /\ u = t)
           \/ (level'[k][u] = level[k][u] /\ own'[k][u] = own[k][u])
  BY <1>1, <1>3 DEF OwnInv, Typed
<1>5. Typed'
  BY <1>2, <1>4 DEF OwnInv, Typed
<1>6. ReadIsOurs'
  <2> SUFFICES ASSUME NEW k \in Kinds, NEW how \in {"set", "reset"},
                      At(<<k, how>>), tid # NoThread
               PROVE  \/ own'[k][tid] \in Ours(k) \cup {NoOwn}
                      \/ <<k, tid>> \in raced'
    BY <1>2 DEF ReadIsOurs, At, Idle
  <2>1. CASE k = kind /\ tid = t
    BY <1>2, <2>1 DEF Pending
  <2>2. CASE ~(k = kind /\ tid = t)
    BY <1>2, <1>4, <2>2 DEF OwnInv, Typed, ReadIsOurs
  <2> QED BY <2>1, <2>2
<1>7. OwnLevelKept'
  BY <1>2, <1>4 DEF OwnInv, OwnLevelKept
<1> QED BY <1>5, <1>6, <1>7 DEF OwnInv

LEMMA NextOwn == OwnInv /\ [Next]_vars => OwnInv'
<1> SUFFICES ASSUME OwnInv, [Next]_vars PROVE OwnInv'
  OBVIOUS
<1>0. threads \subseteq Tids \ unborn /\ config \in Configs /\ left \subseteq Tids \ unborn
  BY DEF OwnInv, Typed
<1>1. CASE Register \/ Unregister \/ Repin \/ Reload
  <2>1. \E walks : Begin(walks)
    BY <1>1 DEF Register, Unregister, Repin, Reload
  <2>2. /\ UNCHANGED <<gameVars, level, raced>> /\ config' = config
        /\ left' \in {{}, threads} /\ tid' = NoThread
    BY <2>1 DEF Begin, histories
  <2> QED BY <1>0, <2>2, NothingSet
<1>2. ASSUME NEW kind \in Kinds, NEW how \in {"set", "reset"},
             Read(kind, how) \/ Set(kind, how) \/ LevelsDone(kind, how)
      PROVE  OwnInv'
  <2>1. CASE LevelsDone(kind, how)
    <3>1. /\ UNCHANGED <<gameVars, level, raced>> /\ config' = config
          /\ left' \in {{}, threads} /\ tid' = NoThread
      BY <2>1 DEF LevelsDone, WalkDone, histories
    <3> QED BY <1>0, <3>1, NothingSet
  <2> QED BY <1>2, <2>1, ReadKeeps, SetKeeps
<1>3. ASSUME NEW walk, Pin(walk) \/ PinDone(walk) PROVE OwnInv'
  <2>1. /\ UNCHANGED <<gameVars, level, raced>> /\ config' = config
        /\ left' \subseteq left \/ left' \in {{}, threads}
        /\ tid' = NoThread \/ UNCHANGED <<plan, tid>>
    BY <1>3 DEF Pin, PinDone, WalkDone, histories
  <2> QED BY <1>0, <2>1, NothingSet
<1>4. CASE SetScheduler \/ ReadConfig
  <2>1. /\ UNCHANGED <<gameVars, level, raced>> /\ config' \in Configs
        /\ left' \in {{}, threads} /\ tid' = NoThread
    BY <1>0, <1>4 DEF SetScheduler, ReadConfig, WalkDone, histories
  <2> QED BY <1>0, <2>1, NothingSet
<1>5. ASSUME NEW t \in Tids, OwnAffinity(t) PROVE OwnInv'
  <2>1. UNCHANGED <<gameVars, level, raced, config, plan, left, tid>>
    BY <1>5 DEF OwnAffinity, walkVars, histories
  <2> QED BY <1>0, <2>1, NothingSet
<1>6. CASE UNCHANGED vars
  <2>1. UNCHANGED <<gameVars, level, raced, config, plan, left, tid>>
    BY <1>6 DEF vars, walkVars, histories
  <2> QED BY <1>0, <2>1, NothingSet
<1>7. CASE Game
  BY <1>5, <1>7, SpawnKeeps, ExitKeeps, OwnLevelKeeps DEF Game
<1> QED
  BY <1>1, <1>2, <1>3, <1>4, <1>6, <1>7 DEF Next, WalkStep

\* A level that the game has set is never changed, registered or not, through
\* any reload (the expected value in game_mode_apply_renice and
\* game_mode_apply_ioprio), unless it is set between the reading and the
\* setting of the same thread, or equals the default or a configured level;
\* then it is replaced by another such level at most.
THEOREM OwnLevelsAreKept == Spec => []OwnLevelKept
<1>1. Spec => []OwnInv
  BY InitOwn, NextOwn, PTL DEF Spec
<1>2. OwnInv => OwnLevelKept
  BY DEF OwnInv
<1> QED BY <1>1, <1>2, PTL

-----------------------------------------------------------------------------
(* What is left of an operation, and what it says about the levels. *)

\* The walks of a reload; those of register are the last four of them.
ReloadWalks == <<<<"ioprio", "reset">>, <<"renice", "reset">>, <<"unpin">>,
                 <<"config">>, <<"renice", "set">>, <<"ioprio", "set">>,
                 <<"iso">>, <<"pin">>>>

Walks == {<<"ioprio", "reset">>, <<"renice", "reset">>, <<"unpin">>, <<"config">>,
          <<"renice", "set">>, <<"ioprio", "set">>, <<"iso">>, <<"pin">>}

ToGo == Len(plan)

\* A registered game is in the last steps of a reload, and one that is not
\* registered in the last steps of unregister or in the reading of a
\* configuration.
PlanInv ==
  /\ plan \in Seq(Walks)
  /\ registered \in BOOLEAN
  /\ IF registered
       THEN ToGo <= 8 /\ \A i \in 1..ToGo : plan[i] = ReloadWalks[8 - ToGo + i]
       ELSE \/ ToGo = 1 /\ plan[1] = <<"config">>
            \/ ToGo <= 3 /\ \A i \in 1..ToGo : plan[i] = RemoveWalks[3 - ToGo + i]

\* How much is left when a kind of level is taken back, and when it is set.
ResetAt(kind) == (IF registered THEN 5 ELSE 0) + (IF kind = "ioprio" THEN 3 ELSE 2)
SetAt(kind) == IF kind = "renice" THEN 4 ELSE 3

\* The walk at work has this thread still before it.
Ahead(t) == t \in left \/ t = tid

\* The level may be the configured one: until the walk that takes it back has
\* passed, and from the walk that sets it on.
MayBeBoosted(kind, t) ==
  \/ ToGo > ResetAt(kind)
  \/ ToGo = ResetAt(kind) /\ Ahead(t)
  \/ registered /\ ToGo <= SetAt(kind)

\* It must be the configured one, unless it is a nice level that the kernel
\* denied the thread: before the walk that takes it back, and when the walk
\* that sets it has passed.
MustBeBoosted(kind, t) ==
  /\ ~(kind = "renice" /\ t \in denied)
  /\ \/ ToGo > ResetAt(kind)
     \/ registered /\ ToGo < SetAt(kind)
     \/ registered /\ ToGo = SetAt(kind) /\ ~Ahead(t)

\* A level is the default or the configured one, each where it may be, unless
\* it is the game's own or the thread started behind the back of a walk.
LevelFits(kind, t) ==
  \/ <<kind, t>> \in raced
  \/ level[kind][t] = own[kind][t]
  \/ /\ level[kind][t] = Default(kind)
     /\ ~MustBeBoosted(kind, t) \/ Boost(config, kind) = Default(kind)
  \/ /\ level[kind][t] = Boost(config, kind)
     /\ MayBeBoosted(kind, t) \/ Boost(config, kind) = Default(kind)

LevelInv == \A kind \in Kinds, t \in threads : LevelFits(kind, t)

LevelsInv == OwnInv /\ PlanInv /\ LevelInv

\* The walk at work is known from what is left.
LEMMA WalkAtWork ==
  ASSUME PlanInv, NEW kind \in Kinds
  PROVE  /\ ToGo \in 0..8
         /\ Idle <=> ToGo = 0
         /\ At(<<kind, "reset">>) <=> ToGo = ResetAt(kind)
         /\ At(<<kind, "set">>) <=> registered /\ ToGo = SetAt(kind)
         /\ At(<<"config">>) => IF registered THEN ToGo = 5 ELSE ToGo = 1
<1>1. /\ ToGo \in Nat /\ (Idle <=> ToGo = 0)
      /\ ToGo > 0 => Head(plan) = plan[1]
  BY DEF PlanInv, Idle, ToGo
<1>2. CASE registered
  <2>1. ToGo \in 0..8 /\ (ToGo > 0 => plan[1] = ReloadWalks[9 - ToGo])
    BY <1>1, <1>2 DEF PlanInv
  <2>2. /\ ToGo = 8 => Head(plan) = <<"ioprio", "reset">>
        /\ ToGo = 7 => Head(plan) = <<"renice", "reset">>
        /\ ToGo = 6 => Head(plan) = <<"unpin">>
        /\ ToGo = 5 => Head(plan) = <<"config">>
        /\ ToGo = 4 => Head(plan) = <<"renice", "set">>
        /\ ToGo = 3 => Head(plan) = <<"ioprio", "set">>
        /\ ToGo = 2 => Head(plan) = <<"iso">>
        /\ ToGo = 1 => Head(plan) = <<"pin">>
    BY <1>1, <2>1 DEF ReloadWalks
  <2>3. ToGo = 0 \/ ToGo = 1 \/ ToGo = 2 \/ ToGo = 3 \/ ToGo = 4 \/ ToGo = 5
          \/ ToGo = 6 \/ ToGo = 7 \/ ToGo = 8
    BY <2>1
  <2> QED BY <1>1, <1>2, <2>1, <2>2, <2>3 DEF At, Kinds, ResetAt, SetAt
<1>3. CASE ~registered
  <2>1. ToGo \in 0..3
        /\ \/ ToGo = 1 /\ plan[1] = <<"config">>
           \/ ToGo > 0 => plan[1] = RemoveWalks[4 - ToGo]
    BY <1>1, <1>3 DEF PlanInv
  <2>2. /\ ToGo = 3 => Head(plan) = <<"ioprio", "reset">>
        /\ ToGo = 2 => Head(plan) = <<"renice", "reset">>
        /\ ToGo = 1 => Head(plan) \in {<<"unpin">>, <<"config">>}
    BY <1>1, <2>1 DEF RemoveWalks
  <2>3. ToGo = 0 \/ ToGo = 1 \/ ToGo = 2 \/ ToGo = 3
    BY <2>1
  <2> QED BY <1>1, <1>3, <2>1, <2>2, <2>3 DEF At, Kinds, ResetAt, SetAt
<1> QED BY <1>2, <1>3

\* A walk that is done leaves one less.
LEMMA WalkDoneFacts ==
  ASSUME PlanInv, ~Idle, plan' = Tail(plan), registered' = registered
  PROVE  PlanInv' /\ ToGo' = ToGo - 1 /\ (plan' = <<>> <=> ToGo' = 0)
<1>1. /\ plan \in Seq(Walks) /\ plan # <<>>
  BY DEF PlanInv, Idle
<1>2. /\ plan' \in Seq(Walks) /\ Len(plan') = Len(plan) - 1 /\ Len(plan) \in Nat
      /\ \A i \in 1..Len(plan') : plan'[i] = plan[i + 1]
      /\ plan' = <<>> <=> Len(plan') = 0
  <2>1. Tail(plan) \in Seq(Walks) /\ Len(Tail(plan)) = Len(plan) - 1 /\ Len(plan) \in Nat
    BY <1>1, HeadTailProperties
  <2>2. \A i \in 1..(Len(plan) - 1) : Tail(plan)[i] = plan[i + 1]
    BY <1>1
  <2>3. Tail(plan) = <<>> <=> Len(Tail(plan)) = 0
    BY <2>1, EmptySeq
  <2> QED BY <2>1, <2>2, <2>3
<1>3. CASE registered
  <2>1. \A i \in 1..ToGo' : plan'[i] = ReloadWalks[8 - ToGo' + i]
    <3> SUFFICES ASSUME NEW i \in 1..ToGo' PROVE plan'[i] = ReloadWalks[8 - ToGo' + i]
      OBVIOUS
    <3>1. i + 1 \in 1..ToGo /\ plan'[i] = plan[i + 1]
      BY <1>2 DEF ToGo
    <3>2. plan[i + 1] = ReloadWalks[8 - ToGo + (i + 1)]
      BY <1>3, <3>1 DEF PlanInv
    <3>3. 8 - ToGo + (i + 1) = 8 - ToGo' + i
      BY <1>2 DEF ToGo
    <3> QED BY <3>1, <3>2, <3>3
  <2> QED BY <1>2, <1>3, <2>1 DEF PlanInv, ToGo
<1>4. CASE ~registered /\ ToGo = 1
  BY <1>2, <1>4 DEF PlanInv, ToGo
<1>5. CASE ~registered /\ ToGo # 1
  <2>1. \A i \in 1..ToGo' : plan'[i] = RemoveWalks[3 - ToGo' + i]
    <3> SUFFICES ASSUME NEW i \in 1..ToGo' PROVE plan'[i] = RemoveWalks[3 - ToGo' + i]
      OBVIOUS
    <3>1. i + 1 \in 1..ToGo /\ plan'[i] = plan[i + 1]
      BY <1>2 DEF ToGo
    <3>2. plan[i + 1] = RemoveWalks[3 - ToGo + (i + 1)]
      BY <1>5, <3>1 DEF PlanInv
    <3>3. 3 - ToGo + (i + 1) = 3 - ToGo' + i
      BY <1>2 DEF ToGo
    <3> QED BY <3>1, <3>2, <3>3
  <2> QED BY <1>2, <1>5, <2>1 DEF PlanInv, ToGo
<1> QED BY <1>3, <1>4, <1>5

-----------------------------------------------------------------------------
(* The levels. *)

\* What an operation is going to do fits what is left of it.
LEMMA BeginPlans ==
  ASSUME PlanInv, Register \/ Unregister \/ Repin \/ Reload
  PROVE  /\ PlanInv'
         /\ \/ ~registered /\ registered' /\ ToGo' = 4
            \/ registered /\ ~registered' /\ ToGo' = 3
            \/ registered /\ registered' /\ ToGo' \in {1, 8}
            \/ ~registered /\ ~registered' /\ ToGo' = 1
<1>0. registered \in BOOLEAN
  BY DEF PlanInv
<1>1. CASE Register
  <2>1. plan' = ApplyWalks /\ ~registered /\ registered' = TRUE
    BY <1>1 DEF Register, Begin
  <2>2. ApplyWalks \in Seq(Walks) /\ Len(ApplyWalks) = 4
        /\ \A i \in 1..4 : ApplyWalks[i] = ReloadWalks[8 - 4 + i]
    BY DEF ApplyWalks, ReloadWalks, Walks
  <2>3. plan' \in Seq(Walks) /\ ToGo' = 4
    BY <2>1, <2>2 DEF ToGo
  <2>4. \A i \in 1..ToGo' : plan'[i] = ReloadWalks[8 - ToGo' + i]
    BY <2>1, <2>2, <2>3
  <2> QED BY <2>1, <2>3, <2>4 DEF PlanInv
<1>2. CASE Unregister
  <2>1. plan' = RemoveWalks /\ registered /\ registered' = FALSE
    BY <1>2 DEF Unregister, Begin
  <2>2. RemoveWalks \in Seq(Walks) /\ Len(RemoveWalks) = 3
    BY DEF RemoveWalks, Walks
  <2>3. plan' \in Seq(Walks) /\ ToGo' = 3
    BY <2>1, <2>2 DEF ToGo
  <2>4. \A i \in 1..ToGo' : plan'[i] = RemoveWalks[3 - ToGo' + i]
    BY <2>1, <2>3
  <2>5. registered /\ ~registered' /\ registered' \in BOOLEAN
    BY <2>1
  <2>6. ToGo' <= 3 /\ \A i \in 1..ToGo' : plan'[i] = RemoveWalks[3 - ToGo' + i]
    BY <2>3, <2>4
  <2>7. PlanInv'
    BY <2>3, <2>5, <2>6, Zenon DEF PlanInv
  <2> QED BY <2>3, <2>5, <2>7
<1>3. CASE Repin
  <2>1. plan' = <<<<"pin">>>> /\ registered /\ registered' = registered
    BY <1>3 DEF Repin, Begin
  <2>2. plan' \in Seq(Walks) /\ ToGo' = 1 /\ plan'[1] = <<"pin">>
    BY <2>1 DEF Walks, ToGo
  <2>3. ReloadWalks[8] = <<"pin">>
    BY DEF ReloadWalks
  <2>4. \A i \in 1..ToGo' : plan'[i] = ReloadWalks[8 - ToGo' + i]
    BY <2>2, <2>3
  <2>5. registered /\ registered' = registered
    BY <2>1
  <2> QED BY <2>2, <2>4, <2>5 DEF PlanInv
<1>4. CASE Reload /\ registered
  <2> DEFINE config1 == <<<<"config">>>>
             first == RemoveWalks \o config1
  <2>1. plan' = first \o ApplyWalks /\ registered' = registered
    BY <1>4 DEF Reload, Begin
  <2>2. /\ RemoveWalks \in Seq(Walks) /\ config1 \in Seq(Walks) /\ ApplyWalks \in Seq(Walks)
        /\ Len(RemoveWalks) = 3 /\ Len(config1) = 1 /\ Len(ApplyWalks) = 4
    BY DEF RemoveWalks, ApplyWalks, Walks
  <2>3. /\ \A i \in 1..3 : RemoveWalks[i] = ReloadWalks[i]
        /\ config1[1] = ReloadWalks[4]
        /\ \A i \in 1..4 : ApplyWalks[i] = ReloadWalks[4 + i]
    BY DEF RemoveWalks, ApplyWalks, ReloadWalks
  <2> HIDE DEF config1
  <2>0. \A u, v \in Seq(Walks) :
          /\ u \o v \in Seq(Walks) /\ Len(u \o v) = Len(u) + Len(v)
          /\ \A i \in 1..(Len(u) + Len(v)) :
               (u \o v)[i] = IF i <= Len(u) THEN u[i] ELSE v[i - Len(u)]
    BY ConcatProperties
  <2>4. /\ first \in Seq(Walks) /\ Len(first) = 4
        /\ \A i \in 1..4 : first[i] = IF i <= 3 THEN RemoveWalks[i] ELSE config1[i - 3]
    <3>1. /\ first \in Seq(Walks) /\ Len(first) = Len(RemoveWalks) + Len(config1)
          /\ \A i \in 1..(Len(RemoveWalks) + Len(config1)) :
               first[i] = IF i <= Len(RemoveWalks) THEN RemoveWalks[i]
                                                   ELSE config1[i - Len(RemoveWalks)]
      BY <2>0, <2>2
    <3> HIDE DEF first
    <3> QED BY <2>2, <3>1
  <2> HIDE DEF first
  <2>5. /\ plan' \in Seq(Walks) /\ Len(plan') = 8
        /\ \A i \in 1..8 : plan'[i] = IF i <= 4 THEN first[i] ELSE ApplyWalks[i - 4]
    <3>1. /\ plan' \in Seq(Walks) /\ Len(plan') = Len(first) + Len(ApplyWalks)
          /\ \A i \in 1..(Len(first) + Len(ApplyWalks)) :
               plan'[i] = IF i <= Len(first) THEN first[i] ELSE ApplyWalks[i - Len(first)]
      BY <2>0, <2>1, <2>2, <2>4
    <3> QED BY <2>2, <2>4, <3>1
  <2>6. \A i \in 1..8 : plan'[i] = ReloadWalks[i]
    BY <2>3, <2>4, <2>5
  <2>7. ToGo' = 8
    BY <2>5 DEF ToGo
  <2>8. \A i \in 1..ToGo' : plan'[i] = ReloadWalks[8 - ToGo' + i]
    BY <2>6, <2>7
  <2>9. registered /\ registered' = registered
    BY <1>4, <2>1
  <2> QED BY <2>5, <2>7, <2>8, <2>9 DEF PlanInv
<1>5. CASE Reload /\ ~registered
  <2>1. plan' = <<<<"config">>>> /\ registered' = registered
    BY <1>5 DEF Reload, Begin
  <2>2. plan' \in Seq(Walks) /\ ToGo' = 1 /\ plan'[1] = <<"config">>
    BY <2>1 DEF Walks, ToGo
  <2>3. ~registered /\ registered' = registered
    BY <1>5, <2>1
  <2> QED BY <1>0, <2>2, <2>3 DEF PlanInv
<1> QED BY <1>1, <1>2, <1>3, <1>4, <1>5

\* An operation of the context begins: nothing is set yet, and every thread
\* is before its first walk.
LEMMA BeginLevels ==
  ASSUME LevelsInv, Register \/ Unregister \/ Repin \/ Reload
  PROVE  PlanInv' /\ LevelInv'
<1>1. /\ Idle /\ UNCHANGED <<threads, level, own, raced, denied, config>>
      /\ \A t \in threads : plan' # <<>> => Ahead(t)'
  BY DEF Register, Unregister, Repin, Reload, Begin, gameVars, histories, Ahead
<1>2. PlanInv /\ LevelInv /\ registered \in BOOLEAN /\ ToGo = 0
  <2>1. PlanInv /\ LevelInv /\ registered \in BOOLEAN
    BY DEF LevelsInv, PlanInv
  <2> QED BY <1>1, <2>1, WalkAtWork DEF Kinds
<1>3. /\ PlanInv'
      /\ \/ ~registered /\ registered' /\ ToGo' = 4
         \/ registered /\ ~registered' /\ ToGo' = 3
         \/ registered /\ registered' /\ ToGo' \in {1, 8}
         \/ ~registered /\ ~registered' /\ ToGo' = 1
  BY <1>2, BeginPlans
<1>4. ToGo' > 0 => plan' # <<>>
  BY DEF ToGo
<1>5. ASSUME NEW kind \in Kinds, NEW t \in threads PROVE LevelFits(kind, t)'
  <2>1. LevelFits(kind, t) /\ Ahead(t)'
    BY <1>1, <1>2, <1>3, <1>4, <1>5 DEF LevelInv
  <2>2. /\ MayBeBoosted(kind, t) => MayBeBoosted(kind, t)'
        /\ MustBeBoosted(kind, t)' => MustBeBoosted(kind, t)
    BY <1>1, <1>2, <1>3, <2>1 DEF MayBeBoosted, MustBeBoosted, ResetAt, SetAt, Kinds
  <2> QED BY <1>1, <2>1, <2>2 DEF LevelFits
<1> QED BY <1>1, <1>3, <1>5 DEF LevelInv

\* The walk at work ends, with no thread before it: the next one has them all
\* before it.
LEMMA DoneLevels ==
  ASSUME LevelsInv, ~Idle, WalkDone,
         UNCHANGED <<threads, level, own, histories, registered>>,
         config' = config \/ At(<<"config">>),
         \A kind \in Kinds, how \in {"set", "reset"} :
           At(<<kind, how>>) => SwitchedOff(kind) \/ (left = {} /\ tid = NoThread)
  PROVE  PlanInv' /\ LevelInv'
<1>1. /\ PlanInv /\ LevelInv /\ registered \in BOOLEAN /\ threads \subseteq Tids
      /\ \A kind \in Kinds, t \in Tids :
           level[kind][t] \in Int /\ own[kind][t] \in Int
  BY DEF LevelsInv, PlanInv, OwnInv, Typed
<1>0. UNCHANGED <<raced, denied>>
  BY DEF histories
<1>2. PlanInv' /\ ToGo' = ToGo - 1 /\ (plan' = <<>> <=> ToGo' = 0)
  BY <1>1, WalkDoneFacts DEF WalkDone
<1>3. ASSUME NEW kind \in Kinds, NEW t \in threads PROVE LevelFits(kind, t)'
  <2>1. /\ ToGo \in 0..8
        /\ At(<<kind, "reset">>) <=> ToGo = ResetAt(kind)
        /\ At(<<kind, "set">>) <=> registered /\ ToGo = SetAt(kind)
        /\ At(<<"config">>) => IF registered THEN ToGo = 5 ELSE ToGo = 1
    BY <1>1, WalkAtWork
  <2>2. Ahead(t)' <=> ToGo' # 0
    BY <1>1, <1>2, GameThreadsAssumption DEF Ahead, WalkDone
  <2>3. ToGo = ResetAt(kind) \/ (registered /\ ToGo = SetAt(kind))
          => SwitchedOff(kind) \/ ~Ahead(t)
    <3>1. left = {} /\ tid = NoThread => ~Ahead(t)
      BY <1>1, GameThreadsAssumption DEF Ahead
    <3> QED BY <2>1, <3>1
  <2>4. SwitchedOff(kind) => kind = "renice" /\ Boost(config, kind) = Default(kind)
    BY DEF SwitchedOff, Default
  <2>5. ResetAt(kind)' = ResetAt(kind)
    BY DEF ResetAt
  <2>6. /\ MayBeBoosted(kind, t) => MayBeBoosted(kind, t)' \/ SwitchedOff(kind)
        /\ MustBeBoosted(kind, t)' => MustBeBoosted(kind, t) \/ SwitchedOff(kind)
    BY <1>0, <1>1, <1>2, <2>1, <2>2, <2>3, <2>4, <2>5
       DEF MayBeBoosted, MustBeBoosted, ResetAt, SetAt, Kinds
  <2>7. LevelFits(kind, t)
    BY <1>1 DEF LevelInv
  <2>8. CASE config' = config
    BY <1>0, <2>4, <2>6, <2>7, <2>8 DEF LevelFits
  <2>9. CASE At(<<"config">>)
    <3>1. ~MayBeBoosted(kind, t) /\ ~MustBeBoosted(kind, t)'
      BY <1>1, <1>2, <2>1, <2>2, <2>5, <2>9
         DEF MayBeBoosted, MustBeBoosted, ResetAt, SetAt, Kinds
    <3> QED BY <1>0, <2>7, <3>1 DEF LevelFits
  <2> QED BY <2>8, <2>9
<1> QED BY <1>2, <1>3 DEF LevelInv

\* A thread that is still ahead of the walk may have what one that the walk
\* has passed may have; for the other kind of level it makes no difference.
LEMMA AheadMatters ==
  ASSUME LevelsInv, UNCHANGED <<plan, registered>>, NEW kind \in Kinds, NEW t, NEW u,
         kind = "renice" /\ t \in denied => u \in denied',
         \/ Ahead(t) => Ahead(u)'
         \/ ~At(<<kind, "reset">>) /\ ~At(<<kind, "set">>)
  PROVE  /\ MayBeBoosted(kind, t) => MayBeBoosted(kind, u)'
         /\ MustBeBoosted(kind, u)' => MustBeBoosted(kind, t)
<1>1. PlanInv /\ ToGo' = ToGo /\ ResetAt(kind)' = ResetAt(kind) /\ registered' = registered
  BY DEF LevelsInv, ToGo, ResetAt
<1>2. /\ At(<<kind, "reset">>) <=> ToGo = ResetAt(kind)
      /\ At(<<kind, "set">>) <=> registered /\ ToGo = SetAt(kind)
  BY <1>1, WalkAtWork
<1>3. /\ ToGo = ResetAt(kind) => (Ahead(t) => Ahead(u)')
      /\ registered /\ ToGo = SetAt(kind) => (Ahead(t) => Ahead(u)')
  BY <1>2
<1> QED BY <1>1, <1>3 DEF MayBeBoosted, MustBeBoosted

\* A level stays what it may be when nothing that it depends on changes.
LEMMA LevelStays ==
  ASSUME LevelsInv, UNCHANGED <<plan, registered, config>>, raced \subseteq raced',
         NEW kind \in Kinds, NEW t \in threads,
         level'[kind][t] = level[kind][t], own'[kind][t] = own[kind][t],
         kind = "renice" /\ t \in denied => t \in denied',
         \/ Ahead(t) => Ahead(t)'
         \/ ~At(<<kind, "reset">>) /\ ~At(<<kind, "set">>)
  PROVE  LevelFits(kind, t)'
<1>1. /\ MayBeBoosted(kind, t) => MayBeBoosted(kind, t)'
      /\ MustBeBoosted(kind, t)' => MustBeBoosted(kind, t)
  BY AheadMatters
<1>2. LevelFits(kind, t) /\ config' = config
  BY DEF LevelsInv, LevelInv
<1> QED BY <1>1, <1>2 DEF LevelFits

\* While a level is taken back nothing has to be boosted, and while it is set
\* everything may be; the other kind of level is not walked for.
LEMMA AtLevelWalk ==
  ASSUME LevelsInv, UNCHANGED <<plan, registered>>,
         NEW kind \in Kinds, NEW how \in {"set", "reset"}, At(<<kind, how>>)
  PROVE  /\ how = "reset" => \A t : ~MustBeBoosted(kind, t)'
         /\ how = "set" => \A t : MayBeBoosted(kind, t)'
         /\ \A k \in Kinds \ {kind} : ~At(<<k, "reset">>) /\ ~At(<<k, "set">>)
<1>1. /\ PlanInv /\ registered \in BOOLEAN /\ ToGo' = ToGo
      /\ ResetAt(kind)' = ResetAt(kind) /\ registered' = registered
  BY DEF LevelsInv, PlanInv, ToGo, ResetAt
<1>2. /\ ToGo \in 0..8
      /\ At(<<kind, "reset">>) <=> ToGo = ResetAt(kind)
      /\ At(<<kind, "set">>) <=> registered /\ ToGo = SetAt(kind)
  BY <1>1, WalkAtWork
<1>3. \A k \in Kinds \ {kind} : ~At(<<k, "reset">>) /\ ~At(<<k, "set">>)
  BY DEF At, Kinds
<1>4. how = "reset" => \A t : ~MustBeBoosted(kind, t)'
  BY <1>1, <1>2 DEF MustBeBoosted, ResetAt, SetAt, Kinds
<1>5. how = "set" => \A t : MayBeBoosted(kind, t)'
  BY <1>1, <1>2 DEF MayBeBoosted, ResetAt, SetAt, Kinds
<1> QED BY <1>3, <1>4, <1>5

\* A thread that is passed over has neither the level to be taken back nor
\* the one to be replaced.
LEMMA ReadLevels ==
  ASSUME LevelsInv, NEW kind \in Kinds, NEW how \in {"set", "reset"}, Read(kind, how)
  PROVE  PlanInv' /\ LevelInv'
<1>1. /\ UNCHANGED <<plan, threads, level, own, raced, denied, registered, config>>
      /\ At(<<kind, how>>) /\ tid = NoThread
  BY DEF Read, gameVars, histories
<1>2. PICK t \in left :
        /\ left' = left \ {t}
        /\ tid' = IF Adjustable(kind, how, t) THEN t ELSE NoThread
  BY DEF Read
<1>3. PlanInv'
  BY <1>1 DEF LevelsInv, PlanInv, ToGo
<1>4. threads \subseteq Tids /\ NoThread \notin Tids
  BY GameThreadsAssumption DEF LevelsInv, OwnInv, Typed
<1>5. ASSUME NEW k \in Kinds, NEW u \in threads PROVE LevelFits(k, u)'
  <2>1. CASE k # kind
    <3>1. ~At(<<k, "reset">>) /\ ~At(<<k, "set">>)
      BY <1>1, <2>1, AtLevelWalk
    <3> QED BY <1>1, <3>1, LevelStays
  <2>2. CASE u # t \/ Adjustable(kind, how, t)
    <3>1. Ahead(u) => Ahead(u)'
      BY <1>1, <1>2, <1>4, <2>2 DEF Ahead
    <3> QED BY <1>1, <3>1, LevelStays
  <2>3. CASE k = kind /\ u = t /\ ~Adjustable(kind, how, t)
    <3>1. level[k][u] # Expected(k, how)
      BY <2>3 DEF Adjustable
    <3>2. LevelFits(k, u)
      BY DEF LevelsInv, LevelInv
    <3>3. CASE how = "reset"
      <4>1. level[k][u] # Boost(config, k)
        BY <3>1, <3>3 DEF Expected
      <4>2. ~MustBeBoosted(k, u)'
        BY <1>1, <2>3, <3>3, AtLevelWalk
      <4> QED BY <1>1, <3>2, <4>1, <4>2 DEF LevelFits
    <3>4. CASE how = "set"
      <4>1. level[k][u] # Default(k)
        BY <3>1, <3>4 DEF Expected
      <4>2. MayBeBoosted(k, u)'
        BY <1>1, <2>3, <3>4, AtLevelWalk
      <4> QED BY <1>1, <3>2, <4>1, <4>2 DEF LevelFits
    <3> QED BY <3>3, <3>4
  <2> QED BY <2>1, <2>2, <2>3
<1> QED BY <1>1, <1>3, <1>5 DEF LevelInv

\* The level that was read is set, or the thread is gone, or a nice level was
\* refused.
LEMMA SetLevels ==
  ASSUME LevelsInv, NEW kind \in Kinds, NEW how \in {"set", "reset"}, Set(kind, how)
  PROVE  PlanInv' /\ LevelInv'
<1>1. /\ UNCHANGED <<plan, left, threads, own, raced, registered, config>>
      /\ At(<<kind, how>>) /\ tid # NoThread /\ tid' = NoThread
      /\ \/ tid \in threads /\ level' = [level EXCEPT ![kind][tid] = NewLevel(kind, how)]
         \/ level' = level /\ tid \notin threads
         \/ /\ level' = level /\ <<kind, how>> = <<"renice", "set">>
            /\ tid \in threads => tid \in denied'
      /\ \A t : t # tid /\ t \in denied => t \in denied'
      /\ kind # "renice" => denied' = denied
  BY DEF Set, gameVars
<1>2. PlanInv'
  BY <1>1 DEF LevelsInv, PlanInv, ToGo
<1>3. threads \subseteq Tids /\ NoThread \notin Tids /\ level \in [Kinds -> [Tids -> Int]]
  BY GameThreadsAssumption DEF LevelsInv, OwnInv, Typed
<1>4. ASSUME NEW k \in Kinds, NEW u \in threads PROVE LevelFits(k, u)'
  <2>1. CASE k # kind
    <3>1. ~At(<<k, "reset">>) /\ ~At(<<k, "set">>)
      BY <1>1, <2>1, AtLevelWalk
    <3>2. level'[k][u] = level[k][u]
      BY <1>1, <1>3, <2>1
    <3>3. k = "renice" => denied' = denied
      BY <1>1, <2>1
    <3> QED BY <1>1, <3>1, <3>2, <3>3, LevelStays
  <2>2. CASE u # tid
    <3>1. Ahead(u) => Ahead(u)'
      BY <1>1, <1>3, <2>2 DEF Ahead
    <3>2. level'[k][u] = level[k][u]
      BY <1>1, <1>3, <2>2
    <3>3. u \in denied => u \in denied'
      BY <1>1, <2>2
    <3> QED BY <1>1, <3>1, <3>2, <3>3, LevelStays
  <2>3. CASE k = kind /\ u = tid /\ level' = [level EXCEPT ![kind][tid] = NewLevel(kind, how)]
    <3>1. level'[k][u] = NewLevel(kind, how)
      BY <1>3, <2>3
    <3>2. CASE how = "reset"
      <4>1. ~MustBeBoosted(k, u)'
        BY <1>1, <2>3, <3>2, AtLevelWalk
      <4> QED BY <2>3, <3>1, <3>2, <4>1 DEF LevelFits, NewLevel
    <3>3. CASE how = "set"
      <4>1. MayBeBoosted(k, u)'
        BY <1>1, <2>3, <3>3, AtLevelWalk
      <4> QED BY <1>1, <2>3, <3>1, <3>3, <4>1 DEF LevelFits, NewLevel
    <3> QED BY <3>2, <3>3
  <2>4. CASE /\ k = kind /\ u = tid /\ level' = level
             /\ <<kind, how>> = <<"renice", "set">> /\ tid \in denied'
    <3>1. kind = "renice" /\ how = "set"
      BY <2>4
    <3>2. MayBeBoosted(k, u)' /\ ~MustBeBoosted(k, u)'
      BY <1>1, <2>4, <3>1, AtLevelWalk DEF MustBeBoosted
    <3>3. LevelFits(k, u)
      BY DEF LevelsInv, LevelInv
    <3> QED BY <1>1, <2>4, <3>2, <3>3 DEF LevelFits
  <2> QED BY <1>1, <2>1, <2>2, <2>3, <2>4
<1> QED BY <1>1, <1>2, <1>4 DEF LevelInv

\* A thread inherits a level that fits, and if its parent's is still to be
\* changed, it is walked over too or started behind the back of the walk.
LEMMA SpawnLevels ==
  ASSUME LevelsInv, NEW parent \in Tids, NEW child \in Tids, Spawn(parent, child)
  PROVE  PlanInv' /\ LevelInv'
<1> DEFINE Resets(kind) == kind = "renice" /\ iso /\ parent = Main /\ level["renice"][parent] < 0
<1>1. /\ parent \in threads /\ child \in unborn
      /\ threads' = threads \cup {child}
      /\ left' \in {left, left \cup {child}}
      /\ UNCHANGED <<plan, tid, registered, config>>
      /\ raced \subseteq raced'
      /\ \A kind \in Kinds :
           <<kind, parent>> \in raced \/ (Pending(kind, parent) /\ child \notin left')
             => <<kind, child>> \in raced'
      /\ denied \subseteq denied'
      /\ parent \in denied => child \in denied'
      /\ \A kind \in Kinds : Resets(kind) => kind = "renice" /\ child \in denied'
  BY DEF Spawn
<1>2. /\ level' = [kind \in Kinds |-> [level[kind] EXCEPT ![child] =
                     IF Resets(kind) THEN 0 ELSE level[kind][parent]]]
      /\ own' = [kind \in Kinds |-> [own[kind] EXCEPT ![child] =
                   IF Resets(kind) THEN NoOwn ELSE own[kind][parent]]]
  BY DEF Spawn
<1>3. PlanInv'
  BY <1>1 DEF LevelsInv, PlanInv, ToGo
<1>4. /\ level \in [Kinds -> [Tids -> Int]] /\ own \in [Kinds -> [Tids -> Int]]
      /\ threads \subseteq Tids /\ threads \cap unborn = {} /\ NoThread \notin Tids
  BY GameThreadsAssumption DEF LevelsInv, OwnInv, Typed
<1>5. ASSUME NEW kind \in Kinds, NEW t \in threads PROVE LevelFits(kind, t)'
  <2>1. t # child
    BY <1>1, <1>4
  <2>2. level'[kind][t] = level[kind][t] /\ own'[kind][t] = own[kind][t]
    BY <1>2, <1>4, <2>1
  <2>3. Ahead(t) => Ahead(t)'
    BY <1>1, <2>1 DEF Ahead
  <2> QED BY <1>1, <2>2, <2>3, LevelStays
<1>6. ASSUME NEW kind \in Kinds PROVE LevelFits(kind, child)'
  <2>1. CASE Resets(kind)
    <3>1. level'[kind] = [level[kind] EXCEPT ![child] = 0]
      BY <1>2, <2>1
    <3>2. level'[kind][child] = Default(kind)
      BY <1>4, <2>1, <3>1 DEF Default
    <3>3. ~MustBeBoosted(kind, child)'
      BY <1>1, <2>1 DEF MustBeBoosted
    <3> QED BY <3>2, <3>3 DEF LevelFits
  <2>2. CASE ~Resets(kind) /\ <<kind, child>> \notin raced'
    <3>1. /\ level'[kind] = [level[kind] EXCEPT ![child] = level[kind][parent]]
          /\ own'[kind] = [own[kind] EXCEPT ![child] = own[kind][parent]]
      BY <1>2, <2>2
    <3>2. level'[kind][child] = level[kind][parent] /\ own'[kind][child] = own[kind][parent]
      BY <1>4, <3>1
    <3>3. \/ Ahead(parent) => Ahead(child)'
          \/ ~At(<<kind, "reset">>) /\ ~At(<<kind, "set">>)
      <4>1. ~(Pending(kind, parent) /\ child \notin left')
        BY <1>1, <2>2
      <4> QED BY <4>1 DEF Pending, Ahead
    <3>4. /\ MayBeBoosted(kind, parent) => MayBeBoosted(kind, child)'
          /\ MustBeBoosted(kind, child)' => MustBeBoosted(kind, parent)
      BY <1>1, <3>3, AheadMatters
    <3>5. LevelFits(kind, parent) /\ <<kind, parent>> \notin raced
      BY <1>1, <2>2 DEF LevelsInv, LevelInv
    <3> QED BY <1>1, <3>2, <3>4, <3>5 DEF LevelFits
  <2> QED BY <2>1, <2>2 DEF LevelFits
<1> QED BY <1>1, <1>3, <1>5, <1>6 DEF LevelInv

\* Threads that end take their levels with them.
LEMMA ExitLevels == LevelsInv /\ Exit => PlanInv' /\ LevelInv'
<1> SUFFICES ASSUME LevelsInv, Exit PROVE PlanInv' /\ LevelInv'
  OBVIOUS
<1>1. /\ threads' \subseteq threads
      /\ level' = [kind \in Kinds |-> [t \in Tids |->
                     IF t \in threads' THEN level[kind][t] ELSE Default(kind)]]
      /\ own' = [kind \in Kinds |-> [t \in Tids |->
                   IF t \in threads' THEN own[kind][t] ELSE NoOwn]]
      /\ raced' = {r \in raced : r[2] \in threads'}
      /\ denied' = denied \cap threads'
      /\ UNCHANGED <<plan, left, tid, registered, config>>
  BY DEF Exit, walkVars
<1>2. PlanInv' /\ threads \subseteq Tids
  BY <1>1 DEF LevelsInv, OwnInv, Typed, PlanInv, ToGo
<1>3. ASSUME NEW kind \in Kinds, NEW t \in threads' PROVE LevelFits(kind, t)'
  <2>1. level'[kind][t] = level[kind][t] /\ own'[kind][t] = own[kind][t]
    BY <1>1, <1>2
  <2>2. <<kind, t>> \in raced => <<kind, t>> \in raced'
    BY <1>1
  <2>3. /\ MayBeBoosted(kind, t) => MayBeBoosted(kind, t)'
        /\ MustBeBoosted(kind, t)' => MustBeBoosted(kind, t)
    BY <1>1, AheadMatters DEF Ahead
  <2>4. LevelFits(kind, t)
    BY <1>1 DEF LevelsInv, LevelInv
  <2> QED BY <1>1, <2>1, <2>2, <2>3, <2>4 DEF LevelFits
<1> QED BY <1>2, <1>3 DEF LevelInv

\* The game may set what it likes.
LEMMA OwnLevelLevels ==
  ASSUME LevelsInv, NEW kind \in Kinds, NEW t \in Tids, OwnLevel(kind, t)
  PROVE  PlanInv' /\ LevelInv'
<1>1. /\ UNCHANGED <<threads, plan, left, tid, registered, config, denied>>
      /\ raced \subseteq raced'
  BY DEF OwnLevel, walkVars
<1>2. PICK v \in Own[kind][t] : /\ level' = [level EXCEPT ![kind][t] = v]
                                /\ own' = [own EXCEPT ![kind][t] = v]
  BY DEF OwnLevel
<1>3. /\ PlanInv' /\ threads \subseteq Tids
      /\ level \in [Kinds -> [Tids -> Int]] /\ own \in [Kinds -> [Tids -> Int]]
  BY <1>1 DEF LevelsInv, OwnInv, Typed, PlanInv, ToGo
<1>4. ASSUME NEW k \in Kinds, NEW u \in threads PROVE LevelFits(k, u)'
  <2>1. CASE k = kind /\ u = t
    BY <1>2, <1>3, <2>1 DEF LevelFits
  <2>2. CASE ~(k = kind /\ u = t)
    <3>1. level'[k][u] = level[k][u] /\ own'[k][u] = own[k][u]
      BY <1>2, <1>3, <2>2
    <3> QED BY <1>1, <3>1, LevelStays DEF Ahead
  <2> QED BY <2>1, <2>2
<1> QED BY <1>1, <1>3, <1>4 DEF LevelInv

\* Walks over the cores, and steps that do nothing.
LEMMA LevelsUntouched ==
  ASSUME LevelsInv,
         UNCHANGED <<plan, tid, gameVars, level, registered, config, histories>>,
         left' = left \/ (\A kind \in Kinds, how \in {"set", "reset"} : ~At(<<kind, how>>))
  PROVE  PlanInv' /\ LevelInv'
<1>1. UNCHANGED <<threads, own, raced, denied>>
  BY DEF gameVars, histories
<1>2. PlanInv'
  BY DEF LevelsInv, PlanInv, ToGo
<1>3. ASSUME NEW kind \in Kinds, NEW t \in threads PROVE LevelFits(kind, t)'
  BY <1>1, LevelStays DEF Ahead
<1> QED BY <1>1, <1>2, <1>3 DEF LevelInv

LEMMA InitLevels == Init => LevelsInv
<1> SUFFICES ASSUME Init PROVE LevelsInv
  OBVIOUS
<1>1. plan = <<>> /\ registered = FALSE
  BY DEF Init
<1>2. plan \in Seq(Walks) /\ ToGo = 0
  BY <1>1 DEF ToGo
<1>3. PlanInv
  <2>1. ~registered /\ registered \in BOOLEAN
    BY <1>1
  <2>2. ToGo <= 3 /\ \A i \in 1..ToGo : plan[i] = RemoveWalks[3 - ToGo + i]
    BY <1>2
  <2> QED BY <1>2, <2>1, <2>2, Zenon DEF PlanInv
<1>4. LevelInv
  <2> SUFFICES ASSUME NEW kind \in Kinds, NEW t \in threads PROVE LevelFits(kind, t)
    BY DEF LevelInv
  <2>1. level[kind][t] = Default(kind)
    BY GameThreadsAssumption DEF Init
  <2>2. ~MustBeBoosted(kind, t)
    BY <1>1, <1>2 DEF MustBeBoosted, ResetAt, Kinds
  <2> QED BY <2>1, <2>2 DEF LevelFits
<1> QED BY <1>3, <1>4, InitOwn DEF LevelsInv

LEMMA NextLevels == LevelsInv /\ [Next]_vars => LevelsInv'
<1> SUFFICES ASSUME LevelsInv, [Next]_vars PROVE PlanInv' /\ LevelInv'
  BY NextOwn DEF LevelsInv
<1>1. CASE Register \/ Unregister \/ Repin \/ Reload
  BY <1>1, BeginLevels
<1>2. ASSUME NEW kind \in Kinds, NEW how \in {"set", "reset"}, LevelsDone(kind, how)
      PROVE  PlanInv' /\ LevelInv'
  <2>1. /\ UNCHANGED <<threads, level, own, histories, registered, config>>
        /\ At(<<kind, how>>) /\ WalkDone
        /\ SwitchedOff(kind) \/ (left = {} /\ tid = NoThread)
    BY <1>2 DEF LevelsDone, gameVars
  <2>2. \A k \in Kinds, h \in {"set", "reset"} : At(<<k, h>>) => k = kind
    BY <2>1 DEF At
  <2> QED BY <2>1, <2>2, DoneLevels DEF At
<1>3. ASSUME NEW walk \in {<<"pin">>, <<"unpin">>, <<"iso">>, <<"config">>}, At(walk)
      PROVE  /\ \A kind \in Kinds, how \in {"set", "reset"} : ~At(<<kind, how>>)
             /\ ~Idle
  <2>1. \A kind \in Kinds, how \in {"set", "reset"} : walk # <<kind, how>>
    OBVIOUS
  <2> QED BY <1>3, <2>1 DEF At
<1>4. ASSUME NEW walk \in {<<"pin">>, <<"unpin">>}, Pin(walk)
      PROVE  PlanInv' /\ LevelInv'
  <2>1. At(walk) /\ UNCHANGED <<plan, tid, gameVars, level, registered, config, histories>>
    BY <1>4 DEF Pin
  <2> QED BY <1>3, <2>1, LevelsUntouched
<1>5. ASSUME NEW walk \in {<<"pin">>, <<"unpin">>}, PinDone(walk)
      PROVE  PlanInv' /\ LevelInv'
  <2>1. At(walk) /\ WalkDone /\ UNCHANGED <<threads, level, own, histories, registered, config>>
    BY <1>5 DEF PinDone, gameVars
  <2> QED BY <1>3, <2>1, DoneLevels
<1>6. CASE SetScheduler
  <2>1. At(<<"iso">>) /\ WalkDone
        /\ UNCHANGED <<threads, level, own, histories, registered, config>>
    BY <1>6 DEF SetScheduler, gameVars
  <2> QED BY <1>3, <2>1, DoneLevels
<1>7. CASE ReadConfig
  <2>1. At(<<"config">>) /\ WalkDone
        /\ UNCHANGED <<threads, level, own, histories, registered>>
    BY <1>7 DEF ReadConfig, gameVars
  <2> QED BY <1>3, <2>1, DoneLevels
<1>8. ASSUME NEW t \in Tids, OwnAffinity(t) PROVE PlanInv' /\ LevelInv'
  <2>1. /\ UNCHANGED <<plan, tid, gameVars, level, registered, config, histories>>
        /\ left' = left
    BY <1>8 DEF OwnAffinity, walkVars
  <2> QED BY <2>1, LevelsUntouched
<1>9. CASE UNCHANGED vars
  <2>1. /\ UNCHANGED <<plan, tid, gameVars, level, registered, config, histories>>
        /\ left' = left
    BY <1>9 DEF vars, walkVars
  <2> QED BY <2>1, LevelsUntouched
<1>10. CASE Game
  BY <1>8, <1>10, SpawnLevels, ExitLevels, OwnLevelLevels DEF Game
<1>11. CASE WalkStep
  BY <1>2, <1>4, <1>5, <1>6, <1>7, <1>11, ReadLevels, SetLevels DEF WalkStep
<1> QED BY <1>1, <1>9, <1>10, <1>11 DEF Next

LEMMA LevelsInvariance == Spec => []LevelsInv
  BY InitLevels, NextLevels, PTL DEF Spec

\* Between operations the threads of a game that is not registered have their
\* default level or one of their own, whatever the configuration was meanwhile
\* (game_mode_remove_client_optimisations and the reload that calls it).
THEOREM RemovedAreDefault == Spec => []RemovedIsDefault
<1>1. LevelsInv => RemovedIsDefault
  <2> SUFFICES ASSUME LevelsInv, Idle, ~registered, NEW kind \in Kinds, NEW t \in threads
               PROVE  <<kind, t>> \in raced \/ level[kind][t] \in {Default(kind), own[kind][t]}
    BY DEF RemovedIsDefault
  <2>1. ToGo = 0 /\ LevelFits(kind, t)
    BY WalkAtWork DEF LevelsInv, LevelInv
  <2>2. ~MayBeBoosted(kind, t)
    BY <2>1 DEF MayBeBoosted, ResetAt, Kinds
  <2> QED BY <2>1, <2>2 DEF LevelFits
<1> QED BY <1>1, LevelsInvariance, PTL

\* A documented setting is what the getters return.
LEMMA DocumentedIsBoost ==
  ASSUME OwnInv, NEW kind \in Kinds, Documented(kind)
  PROVE  Boost(config, kind) = DocumentedLevel(kind)
<1>1. config.renice \in Int /\ config.ioprio \in Int
  BY GameThreadsAssumption DEF OwnInv, Typed
<1>2. config.renice \in 0..20 => RenicePriority(config.renice) = config.renice
  BY <1>1 DEF RenicePriority
<1>3. config.ioprio \in 0..7 => IoprioLevel(config.ioprio) = config.ioprio
  BY <1>1 DEF IoprioLevel, IoprioResetDefault
<1> QED BY <1>2, <1>3 DEF Documented, DocumentedLevel, Boost

\* Between operations the threads of a registered game have the levels that
\* the present configuration names, where example/gamemode.ini documents them,
\* not an earlier one (game_mode_reload_config_internal), or one of their own;
\* only a nice level that the kernel denied is missing.
THEOREM RegisteredAreConfigured == Spec => []LevelsAreConfigured
<1>1. LevelsInv => LevelsAreConfigured
  <2> SUFFICES ASSUME LevelsInv, Idle, registered, NEW kind \in Kinds, NEW t \in threads,
                      Documented(kind)
               PROVE  \/ <<kind, t>> \in raced
                      \/ level[kind][t] \in {DocumentedLevel(kind), own[kind][t]}
                      \/ kind = "renice" /\ t \in denied /\ level[kind][t] = Default(kind)
    BY DEF LevelsAreConfigured
  <2>1. ToGo = 0 /\ LevelFits(kind, t)
    BY WalkAtWork DEF LevelsInv, LevelInv
  <2>2. MustBeBoosted(kind, t) \/ (kind = "renice" /\ t \in denied)
    BY <2>1 DEF MustBeBoosted, SetAt
  <2>3. Boost(config, kind) = DocumentedLevel(kind)
    BY DocumentedIsBoost DEF LevelsInv
  <2> QED BY <2>1, <2>2, <2>3 DEF LevelFits
<1> QED BY <1>1, LevelsInvariance, PTL

=============================================================================
