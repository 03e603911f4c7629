--------------------------- MODULE HardwareProofs ---------------------------
(***************************************************************************)
(* What the daemon keeps of cores and cards whatever its helpers do, for   *)
(* any machine, any number of cards and any options: no core is forgotten, *)
(* no core stays parked if no helper fails, no card but the configured one *)
(* is ever written to, and that one is left as the user had it.            *)
(***************************************************************************)
EXTENDS Hardware, FiniteSetTheorems, SequenceTheorems, TLAPS

-----------------------------------------------------------------------------
(* The helper. *)

HelperFields ==
  {"running", "todo", "cores", "status", "stage", "perf", "read", "late"}

\* A helper runs in one of the steps that need one, on some of the cores of
\* that step.
HelperInv ==
  /\ pc \in HelperSteps \cup {"off", "on", "initialise"}
  /\ reloading \in {"no", "off", "on"}
  /\ \/ helper = NoHelper
     \/ /\ helper.running = TRUE
        /\ DOMAIN helper = HelperFields
        /\ pc \in HelperSteps
        /\ Needed(pc)
        /\ helper.cores \subseteq CoreWork(pc)

\* Where a core that the user has online may be missing, and where to.
CoreInv ==
  /\ DOMAIN due = {"cores", "clocks"}
  /\ MissingAreRemembered
  /\ pc = "initialise" => due.cores \ online \subseteq lost
  /\ ~trouble =>
       /\ pc \in {"off", "get", "apply", "initialise", "unpark again"} =>
            due.cores \subseteq online
       /\ pc \in {"park", "on", "restore"} \/ (pc = "unpark" /\ helper = NoHelper) =>
            due.cores \ online \subseteq Parked(info)
       /\ pc = "unpark" /\ helper # NoHelper =>
            due.cores \ online \subseteq helper.cores

\* What is stored and what is to be set are for the same card.
GpuInv ==
  /\ host \in Hosts
  /\ target # NoGpu => /\ target.device \in DOMAIN host.cards
                       /\ target.vendor = host.cards[target.device]
  /\ stored = NoGpu <=> target = NoGpu
  /\ stored.vendor = target.vendor
  /\ target # NoGpu => stored.device = target.device

HardwareInv == HelperInv /\ CoreInv /\ GpuInv

-----------------------------------------------------------------------------
(* The cards: however nvidia-settings counts, it is gpu_device that the    *)
(* helper gets at.                                                         *)

LEMMA CardsAreCounted ==
  ASSUME NEW h \in Hosts
  PROVE  \E n \in Nat : DOMAIN h.cards = 0 .. n - 1
<1>1. /\ IsFiniteSet(DOMAIN h.cards)
      /\ DOMAIN h.cards = 0 .. Cardinality(DOMAIN h.cards) - 1
  BY HardwareAssumption
<1>2. Cardinality(DOMAIN h.cards) \in Nat
  BY <1>1, FS_CardinalityType
<1> QED BY <1>1, <1>2

\* A card with a higher number has more NVIDIA cards before it.
LEMMA RankGrows ==
  ASSUME NEW n \in Nat, NEW cards, DOMAIN cards = 0 .. n - 1,
         NEW d \in 0 .. n - 1, NEW e \in 0 .. n - 1, d < e,
         cards[e] = "nvidia"
  PROVE  Cardinality({c \in 0..d : cards[c] = "nvidia"})
           < Cardinality({c \in 0..e : cards[c] = "nvidia"})
<1> DEFINE S == {c \in 0..d : cards[c] = "nvidia"}
           T == {c \in 0..e : cards[c] = "nvidia"}
<1>1. IsFiniteSet(0..e)
  BY FS_Interval
<1>2. IsFiniteSet(T)
  BY <1>1, FS_Subset
<1>3. S \subseteq T /\ e \in T /\ e \notin S
  OBVIOUS
<1>4. IsFiniteSet(S) /\ Cardinality(S) \in Nat /\ Cardinality(T) \in Nat
  BY <1>2, <1>3, FS_Subset, FS_CardinalityType
<1>5. IsFiniteSet(S \cup {e}) /\ Cardinality(S \cup {e}) = Cardinality(S) + 1
  BY <1>3, <1>4, FS_AddElement
<1>6. Cardinality(S \cup {e}) <= Cardinality(T)
  BY <1>2, <1>3, FS_Subset
<1> QED
  BY <1>4, <1>5, <1>6

\* The index that get_gpu_index_id_nv computes leads back to the device.
LEMMA IndexMeansDevice ==
  ASSUME NEW n \in Nat, NEW cards, DOMAIN cards = 0 .. n - 1,
         NEW d \in DOMAIN cards, cards[d] = "nvidia"
  PROVE  NvidiaCard(cards, NvidiaIndex(cards, d)) = d
<1> DEFINE Rank(e) == Cardinality({c \in 0..e : cards[c] = "nvidia"})
<1>1. Rank(d) \in Nat
  <2>1. IsFiniteSet(0..d)
    BY FS_Interval
  <2> QED BY <2>1, FS_Subset, FS_CardinalityType
<1>2. NvidiaIndex(cards, d) + 1 = Rank(d)
  BY <1>1 DEF NvidiaIndex
<1>3. \A e \in DOMAIN cards : cards[e] = "nvidia" /\ Rank(e) = Rank(d) => e = d
  <2> SUFFICES ASSUME NEW e \in DOMAIN cards, cards[e] = "nvidia",
                      Rank(e) = Rank(d), e # d
               PROVE  FALSE
    OBVIOUS
  <2>1. d < e \/ e < d
    OBVIOUS
  <2>2. ASSUME d < e PROVE FALSE
    <3>1. Rank(d) < Rank(e)
      BY <2>2, RankGrows
    <3> HIDE DEF Rank
    <3> QED BY <3>1, <1>1
  <2>3. ASSUME e < d PROVE FALSE
    <3>1. Rank(e) < Rank(d)
      BY <2>3, RankGrows
    <3> HIDE DEF Rank
    <3> QED BY <3>1, <1>1
  <2> QED BY <2>1, <2>2, <2>3
<1> HIDE DEF Rank
<1>4. NvidiaCard(cards, NvidiaIndex(cards, d))
        = CHOOSE e \in DOMAIN cards : cards[e] = "nvidia" /\ Rank(e) = Rank(d)
  BY <1>2 DEF NvidiaCard, Rank
<1> QED
  BY <1>3, <1>4

LEMMA HelperGetsAtDevice ==
  ASSUME GpuInv, target # NoGpu, NEW gpu \in {target, stored}
  PROVE  CardOf(host.cards, gpu) = target.device
<1>1. /\ gpu.vendor = target.vendor /\ gpu.device = target.device
      /\ target.device \in DOMAIN host.cards
      /\ target.vendor = host.cards[target.device]
  BY DEF GpuInv
<1>2. PICK n \in Nat : DOMAIN host.cards = 0 .. n - 1
  BY CardsAreCounted DEF GpuInv
<1> QED
  BY <1>1, <1>2, IndexMeansDevice DEF CardOf

-----------------------------------------------------------------------------
(* The steps. *)

LEMMA InitInv == Init => HardwareInv
<1> SUFFICES ASSUME Init PROVE HardwareInv
  OBVIOUS
<1>1. HelperInv
  BY DEF Init, HelperInv
<1>2. CoreInv
  BY DEF Init, CoreInv, MissingAreRemembered
<1>3. GpuInv
  <2>1. host \in Hosts /\ target = GpuInfo(host.cards, host.gpu) /\ stored = target
    BY DEF Init
  <2>2. target # NoGpu => /\ target.device \in DOMAIN host.cards
                          /\ target.vendor = host.cards[target.device]
    BY <2>1 DEF GpuInfo
  <2> QED BY <2>1, <2>2 DEF GpuInv
<1> QED
  BY <1>1, <1>2, <1>3 DEF HardwareInv

\* Only a helper that runs has anything to do.
LEMMA RunningHelper ==
  ASSUME HelperInv
  PROVE  /\ helper.running <=> helper # NoHelper
         /\ helper.running <=> helper.running = TRUE
  BY DEF HelperInv, NoHelper

\* A helper that goes on, on no more cores than before.
LEMMA HelperStays ==
  ASSUME HelperInv, helper # NoHelper, UNCHANGED <<pc, reloading, info, stored, target>>,
         DOMAIN helper' = DOMAIN helper, helper'.running = helper.running,
         helper'.cores \subseteq helper.cores
  PROVE  HelperInv'
  BY DEF HelperInv, Needed, Gpu, CoreWork, Parked

\* run_external_process has returned.
LEMMA AfterReturn ==
  ASSUME HelperInv, NEW ret, NEW output, helper # NoHelper \/ pc \in HelperSteps,
         Return(ret, output)
  PROVE  HelperInv'
<1>1. pc \in HelperSteps /\ pc' = After(pc) /\ helper' = NoHelper
      /\ reloading' = reloading
  BY DEF HelperInv, Return
<1>2. After(pc) \in HelperSteps \cup {"off", "on", "initialise"}
  BY <1>1 DEF HelperSteps, After
<1> QED
  BY <1>1, <1>2 DEF HelperInv

LEMMA NextHelper == HelperInv /\ [Next]_vars => HelperInv'
<1> SUFFICES ASSUME HelperInv, [Next]_vars PROVE HelperInv'
  OBVIOUS
<1>0. /\ helper.running <=> helper # NoHelper
      /\ helper = NoHelper => ~helper.running
      /\ helper # NoHelper => "cores" \in DOMAIN helper /\ DOMAIN helper = HelperFields
  BY RunningHelper DEF HelperInv, HelperFields
<1>1. CASE Enter \/ Leave \/ Reload \/ Initialise
  BY <1>1 DEF HelperInv, Enter, Leave, Reload, Initialise, HelperSteps, NoHelper
<1>2. CASE Skip
  <2>1. After(pc) \in HelperSteps \cup {"off", "on", "initialise"}
    BY <1>2 DEF Skip, HelperSteps, After
  <2> QED BY <1>0, <1>2, <2>1 DEF HelperInv, Skip
<1>3. CASE Spawn
  <2>1. /\ pc \in HelperSteps /\ Needed(pc)
        /\ helper'.running = TRUE /\ DOMAIN helper' = HelperFields
        /\ helper'.cores = CoreWork(pc)
        /\ UNCHANGED <<pc, reloading, info, stored, target>>
    BY <1>3 DEF Spawn, HelperFields, fixedVars
  <2> QED BY <2>1 DEF HelperInv, Needed, Gpu, CoreWork, Parked
<1>4. CASE CannotSpawn
  BY <1>4, AfterReturn DEF CannotSpawn
<1>5. CASE NotAuthorised \/ Dies \/ Exits
  <2>1. helper # NoHelper /\ \E ret, output : Return(ret, output)
    BY <1>0, <1>5 DEF NotAuthorised, Dies, Exits
  <2> QED BY <2>1, AfterReturn
<1>6. CASE TimedOut
  <2>1. helper # NoHelper
    BY <1>0, <1>6 DEF TimedOut
  <2>2. CASE helper.stage = "root"
    <3>1. /\ helper' = [helper EXCEPT !.late = TRUE]
          /\ UNCHANGED <<pc, stored, reloading, target, info>>
      BY <1>6, <2>2 DEF TimedOut, fixedVars
    <3> QED BY <1>0, <2>1, <3>1, HelperStays DEF HelperFields
  <2>3. CASE helper.stage # "root"
    BY <1>6, <2>1, <2>3, AfterReturn DEF TimedOut
  <2> QED BY <2>2, <2>3
<1>7. CASE Authorised
  <2>1. /\ helper # NoHelper
        /\ helper' = [helper EXCEPT !.stage = "root"]
        /\ UNCHANGED <<pc, stored, reloading, target, info>>
    BY <1>0, <1>7 DEF Authorised, fixedVars
  <2> QED BY <1>0, <2>1, HelperStays DEF HelperFields
<1>8. CASE SetCore
  <2>1. /\ helper # NoHelper
        /\ UNCHANGED <<pc, stored, reloading, target, info>>
        /\ \E cores \in SUBSET helper.cores : helper' = [helper EXCEPT !.cores = cores]
    BY <1>0, <1>8 DEF SetCore, Working, fixedVars
  <2> QED BY <1>0, <2>1, HelperStays DEF HelperFields
<1>9. CASE QueryPerfLevel \/ Query \/ Assign
  <2>1. /\ helper # NoHelper
        /\ UNCHANGED <<pc, stored, reloading, target, info>>
    BY <1>0, <1>9 DEF QueryPerfLevel, Query, Assign, WorkingOn, Working, fixedVars
  <2>2. /\ DOMAIN helper' = DOMAIN helper
        /\ helper'.running = helper.running
        /\ helper'.cores = helper.cores
    BY <1>0, <1>9, <2>1 DEF QueryPerfLevel, Query, Assign, Onward, HelperFields
  <2> QED BY <2>1, <2>2, HelperStays
<1>10. CASE UserChangesCore \/ UserChangesCard
  BY <1>10 DEF HelperInv, UserChangesCore, UserChangesCard, HelperSteps, NoHelper,
    fixedVars
<1>11. CASE UNCHANGED vars
  BY <1>11 DEF HelperInv, vars, fixedVars, Needed, Gpu, CoreWork, Parked, NoHelper
<1> QED
  BY <1>1, <1>2, <1>3, <1>4, <1>5, <1>6, <1>7, <1>8, <1>9, <1>10, <1>11
  DEF Next, HelperStep

\* Whatever returns or was not run leaves nothing behind but what the next
\* step asks for.
LEMMA CoresAfterReturn ==
  ASSUME HelperInv, CoreInv, NEW ret, NEW output,
         helper # NoHelper \/ pc \in HelperSteps, Return(ret, output),
         online' = online,
         ~trouble' => ~trouble /\ helper # NoHelper /\ helper.cores = {}
  PROVE  CoreInv'
<1>1. /\ pc \in HelperSteps /\ pc' = After(pc) /\ helper' = NoHelper
      /\ UNCHANGED <<due, info, online>>
  BY DEF HelperInv, Return
<1>2. lost' = IF pc = "unpark again" THEN lost \cup (Parked(info) \ online) ELSE lost
  BY DEF Return
<1>3. MissingAreRemembered'
  BY <1>1, <1>2 DEF CoreInv, MissingAreRemembered, Parked
<1>4. pc' = "initialise" => (due.cores \ online \subseteq lost)'
  BY <1>1, <1>2 DEF HelperSteps, After, CoreInv, MissingAreRemembered
<1>5. ASSUME ~trouble'
      PROVE  /\ pc' \in {"off", "get", "apply", "initialise", "unpark again"} =>
                  (due.cores \subseteq online)'
             /\ pc' \in {"park", "on", "restore", "unpark"} =>
                  (due.cores \ online \subseteq Parked(info))'
  <2>1. ~trouble /\ helper # NoHelper /\ helper.cores = {}
    BY <1>5
  <2>2. pc = "unpark" => due.cores \subseteq online
    BY <2>1 DEF CoreInv
  <2>3. pc \in {"get", "apply", "unpark again"} => due.cores \subseteq online
    BY <2>1 DEF CoreInv
  <2>4. pc \in {"park", "restore"} => due.cores \ online \subseteq Parked(info)
    BY <2>1 DEF CoreInv
  <2> QED
    BY <1>1, <2>2, <2>3, <2>4 DEF HelperSteps, After, Parked
<1> QED
  BY <1>1, <1>3, <1>4, <1>5 DEF CoreInv

\* A step that leaves the cores and what is asked for alone.
LEMMA CoresStay ==
  ASSUME HelperInv, CoreInv, UNCHANGED <<pc, info, online, due, lost>>,
         ~trouble' => ~trouble,
         helper # NoHelper, helper' # NoHelper, helper'.cores = helper.cores
  PROVE  CoreInv'
  BY DEF CoreInv, MissingAreRemembered, Parked

LEMMA NextCores == HelperInv /\ CoreInv /\ [Next]_vars => CoreInv'
<1> SUFFICES ASSUME HelperInv, CoreInv, [Next]_vars PROVE CoreInv'
  OBVIOUS
<1>0. /\ helper.running <=> helper # NoHelper
      /\ helper = NoHelper => ~helper.running
      /\ helper # NoHelper => "cores" \in DOMAIN helper /\ DOMAIN helper = HelperFields
      /\ helper # NoHelper => helper.running = TRUE /\ pc \in HelperSteps
                              /\ helper.cores \subseteq CoreWork(pc)
  BY RunningHelper DEF HelperInv, HelperFields
<1>1. CASE Enter \/ Leave \/ Reload
  <2>1. helper = NoHelper /\ helper' = NoHelper
    BY <1>1, <1>0 DEF Enter, Leave, Reload, HelperSteps
  <2> QED
    BY <1>1, <2>1 DEF Enter, Leave, Reload, CoreInv, MissingAreRemembered,
      systemVars, historyVars, Parked
<1>2. CASE Initialise
  <2>1. /\ pc = "initialise" /\ pc' \in {"get", "off"}
        /\ UNCHANGED <<online, due, lost, trouble>>
    BY <1>2 DEF Initialise, systemVars, historyVars
  <2>2. MissingAreRemembered'
    BY <2>1 DEF CoreInv, MissingAreRemembered
  <2> QED
    BY <2>1, <2>2 DEF CoreInv
<1>3. CASE Skip
  <2>1. /\ pc \in HelperSteps /\ helper = NoHelper /\ ~Needed(pc)
        /\ pc' = After(pc)
        /\ UNCHANGED <<online, due, lost, trouble, info, helper>>
    BY <1>3, <1>0 DEF Skip, systemVars, historyVars
  <2>2. pc \in {"park", "unpark", "unpark again"} => Parked(info) = {}
    BY <2>1 DEF Needed, Parked
  <2>3. MissingAreRemembered'
    BY <2>1 DEF CoreInv, MissingAreRemembered, Parked
  <2>4. pc' = "initialise" => due.cores \ online \subseteq lost
    BY <2>1, <2>2 DEF HelperSteps, After, CoreInv, MissingAreRemembered
  <2>5. ASSUME ~trouble
        PROVE  /\ pc \in {"get", "apply", "unpark", "unpark again"} =>
                    due.cores \subseteq online
               /\ pc \in {"park", "restore"} =>
                    due.cores \ online \subseteq Parked(info)
    BY <2>1, <2>2, <2>5 DEF CoreInv
  <2> QED
    BY <2>1, <2>3, <2>4, <2>5 DEF HelperSteps, After, CoreInv, Parked
<1>4. CASE Spawn
  <2>1. /\ pc \in HelperSteps /\ helper = NoHelper
        /\ helper'.running = TRUE /\ helper'.cores = CoreWork(pc)
        /\ UNCHANGED <<pc, online, due, lost, trouble, info>>
    BY <1>4, <1>0 DEF Spawn, systemVars, historyVars
  <2>2. helper' # NoHelper
    BY <2>1 DEF NoHelper
  <2>3. pc = "unpark" => CoreWork(pc) = Parked(info)
    BY DEF CoreWork
  <2> QED
    BY <2>1, <2>2, <2>3 DEF CoreInv, MissingAreRemembered, Parked
<1>5. CASE CannotSpawn
  BY <1>5, CoresAfterReturn DEF CannotSpawn, systemVars
<1>6. CASE NotAuthorised \/ Dies
  <2>1. /\ helper # NoHelper /\ trouble' = TRUE /\ online' = online
        /\ \E ret, output : Return(ret, output)
    BY <1>0, <1>6 DEF NotAuthorised, Dies, systemVars
  <2> QED BY <2>1, CoresAfterReturn
<1>7. CASE Exits
  <2>1. /\ helper # NoHelper /\ helper.cores = {}
        /\ trouble' = trouble /\ online' = online
        /\ \E ret, output : Return(ret, output)
    BY <1>0, <1>7 DEF Exits, systemVars
  <2> QED BY <2>1, CoresAfterReturn
<1>8. CASE TimedOut
  <2>1. helper # NoHelper /\ trouble' = TRUE /\ online' = online
    BY <1>0, <1>8 DEF TimedOut, systemVars
  <2>2. CASE helper.stage = "root"
    <3>1. /\ helper' = [helper EXCEPT !.late = TRUE]
          /\ UNCHANGED <<pc, lost, info, due>>
      BY <1>8, <2>2 DEF TimedOut
    <3>2. helper' # NoHelper /\ helper'.cores = helper.cores
      BY <1>0, <2>1, <3>1 DEF HelperFields, NoHelper
    <3> QED BY <2>1, <3>1, <3>2, CoresStay
  <2>3. CASE helper.stage # "root"
    BY <1>8, <2>1, <2>3, CoresAfterReturn DEF TimedOut
  <2> QED BY <2>2, <2>3
<1>9. CASE Authorised \/ QueryPerfLevel \/ Query \/ Assign
  <2>1. /\ helper # NoHelper /\ UNCHANGED <<pc, lost, info, due, online>>
    BY <1>0, <1>9 DEF Authorised, QueryPerfLevel, Query, Assign, WorkingOn, Working,
      systemVars, historyVars
  <2>2. ~trouble' => ~trouble
    BY <1>9 DEF Authorised, QueryPerfLevel, Query, Assign, historyVars
  <2>3. /\ helper'.running = helper.running
        /\ helper'.cores = helper.cores
    BY <1>0, <1>9, <2>1 DEF Authorised, QueryPerfLevel, Query, Assign, Onward,
      HelperFields
  <2>4. helper' # NoHelper
    BY <1>0, <2>1, <2>3 DEF NoHelper
  <2> QED BY <2>1, <2>2, <2>3, <2>4, CoresStay
<1>10. CASE SetCore
  <2>1. /\ helper # NoHelper /\ helper.cores # {}
        /\ UNCHANGED <<pc, lost, info, due>>
    BY <1>0, <1>10 DEF SetCore, Working
  <2>2. pc \in {"park", "unpark", "unpark again"} /\ helper.cores \subseteq Parked(info)
    BY <1>0, <2>1 DEF HelperSteps, CoreWork
  <2>3. PICK c \in helper.cores :
          \/ /\ online' = IF pc = "park" THEN online \ {c} ELSE online \cup {c}
             /\ helper' = [helper EXCEPT !.cores = @ \ {c}]
             /\ UNCHANGED trouble
          \/ /\ UNCHANGED online
             /\ trouble' = (trouble \/ c # 0 \/ pc # "park")
             /\ helper' = [helper EXCEPT !.cores = @ \ {c}]
          \/ /\ pc = "park" /\ c # 0
             /\ helper' = [helper EXCEPT !.cores = {}]
             /\ trouble' = TRUE
             /\ UNCHANGED online
    BY <1>10 DEF SetCore
  <2>4. helper'.running = helper.running
    BY <1>0, <2>1, <2>3 DEF HelperFields
  <2>5. helper' # NoHelper
    BY <1>0, <2>1, <2>4 DEF NoHelper
  <2>6. /\ due.cores \ online' \subseteq (due.cores \ online) \cup {c}
        /\ pc # "park" => due.cores \ online' \subseteq due.cores \ online
    BY <2>3
  <2>7. MissingAreRemembered'
    BY <2>1, <2>2, <2>6 DEF CoreInv, MissingAreRemembered, Parked
  <2>8. ASSUME ~trouble'
        PROVE  /\ ~trouble
               /\ pc # "park" => /\ online' = online \cup {c}
                                 /\ helper'.cores = helper.cores \ {c}
    <3>1. ~trouble
      BY <2>3, <2>8
    <3>2. pc # "park" => /\ online' = online \cup {c}
                         /\ helper' = [helper EXCEPT !.cores = @ \ {c}]
      BY <2>3, <2>8
    <3> QED BY <3>1, <3>2, <1>0, <2>1 DEF HelperFields
  <2>9. ASSUME ~trouble'
        PROVE  /\ pc = "park" => (due.cores \ online \subseteq Parked(info))'
               /\ pc = "unpark" => (due.cores \ online \subseteq helper.cores)'
               /\ pc = "unpark again" => (due.cores \subseteq online)'
    <3>1. CASE pc = "park"
      BY <2>1, <2>2, <2>6, <2>8, <2>9, <3>1 DEF CoreInv, Parked
    <3>2. CASE pc = "unpark"
      BY <2>1, <2>8, <2>9, <3>2 DEF CoreInv
    <3>3. CASE pc = "unpark again"
      BY <2>1, <2>8, <2>9, <3>3 DEF CoreInv
    <3> QED BY <2>2, <3>1, <3>2, <3>3
  <2> QED
    BY <2>1, <2>2, <2>5, <2>7, <2>9 DEF CoreInv
<1>11. CASE UserChangesCore
  <2>1. /\ pc = "off" /\ UNCHANGED <<pc, info, helper, lost, trouble>>
    BY <1>11 DEF UserChangesCore
  <2>2. PICK c \in Volatile :
          LET Flip(cores) == IF c \in online THEN cores \ {c} ELSE cores \cup {c}
          IN /\ online' = Flip(online)
             /\ due' = [due EXCEPT !.cores = Flip(@)]
    BY <1>11 DEF UserChangesCore
  <2>3. /\ DOMAIN due' = {"cores", "clocks"}
        /\ due'.cores \ online' \subseteq due.cores \ online
    BY <2>2 DEF CoreInv
  <2> QED
    BY <2>1, <2>3 DEF CoreInv, MissingAreRemembered, Parked
<1>12. CASE UserChangesCard
  <2>1. /\ UNCHANGED <<pc, info, helper, online, lost, trouble>>
        /\ DOMAIN due' = DOMAIN due /\ due'.cores = due.cores
    BY <1>12 DEF UserChangesCard, CoreInv
  <2> QED
    BY <2>1 DEF CoreInv, MissingAreRemembered, Parked
<1>13. CASE UNCHANGED vars
  BY <1>13 DEF vars, systemVars, historyVars, CoreInv, MissingAreRemembered, Parked
<1> QED
  BY <1>1, <1>2, <1>3, <1>4, <1>5, <1>6, <1>7, <1>8, <1>9, <1>10, <1>11, <1>12,
    <1>13 DEF Next, HelperStep

\* What gpuclockctl printed may change the values of a GPU, not the card.
LEMMA ParsedKeepsCard ==
  ASSUME NEW gpu, NEW output, gpu # NoGpu
  PROVE  /\ Parsed(gpu, output).vendor = gpu.vendor
         /\ Parsed(gpu, output).device = gpu.device
  BY DEF Parsed

LEMMA GpuAfterReturn ==
  ASSUME HelperInv, GpuInv, NEW ret, NEW output, pc \in HelperSteps,
         pc = "get" => Needed(pc), Return(ret, output)
  PROVE  GpuInv'
<1>1. UNCHANGED <<host, target>>
  BY DEF Return, fixedVars
<1>2. CASE pc = "get" /\ ret = 0
  <2>1. stored # NoGpu /\ stored' = Parsed(stored, output)
    BY <1>2 DEF Needed, Gpu, Return
  <2>2. stored'.vendor = stored.vendor /\ stored'.device = stored.device
    BY <2>1, ParsedKeepsCard
  <2>3. stored' # NoGpu
    <3>1. CASE stored.vendor \in {"nvidia", "amd"}
      BY <2>2, <3>1 DEF NoGpu
    <3>2. CASE stored.vendor \notin {"nvidia", "amd"}
      BY <2>1, <3>2 DEF Parsed
    <3> QED BY <3>1, <3>2
  <2> QED BY <1>1, <2>1, <2>2, <2>3 DEF GpuInv
<1>3. CASE ~(pc = "get" /\ ret = 0)
  BY <1>1, <1>3 DEF GpuInv, Return
<1> QED BY <1>2, <1>3

LEMMA NextGpu == HelperInv /\ GpuInv /\ [Next]_vars => GpuInv'
<1> SUFFICES ASSUME HelperInv, GpuInv, [Next]_vars PROVE GpuInv'
  OBVIOUS
<1>1. \/ UNCHANGED <<host, target, stored>>
      \/ pc \in HelperSteps /\ Needed(pc) /\ \E ret, output : Return(ret, output)
  <2>1. helper.running => pc \in HelperSteps /\ Needed(pc)
    BY RunningHelper DEF HelperInv
  <2>2. CASE CannotSpawn
    BY <2>2 DEF CannotSpawn
  <2>3. CASE NotAuthorised \/ Dies \/ Exits \/ TimedOut
    BY <2>1, <2>3 DEF NotAuthorised, Dies, Exits, TimedOut, fixedVars
  <2>4. CASE Enter \/ Leave \/ Reload \/ Initialise \/ Skip \/ Spawn
    BY <2>4 DEF Enter, Leave, Reload, Initialise, Skip, Spawn, fixedVars
  <2>5. CASE Authorised \/ SetCore \/ QueryPerfLevel \/ Query \/ Assign
    BY <2>5 DEF Authorised, SetCore, QueryPerfLevel, Query, Assign, WorkingOn,
      Working, fixedVars
  <2>6. CASE UserChangesCore \/ UserChangesCard \/ UNCHANGED vars
    BY <2>6 DEF UserChangesCore, UserChangesCard, vars, fixedVars
  <2> QED
    BY <2>2, <2>3, <2>4, <2>5, <2>6 DEF Next, HelperStep
<1> QED
  BY <1>1, GpuAfterReturn DEF GpuInv

\* Only a helper that sets the GPU writes to a card while a helper runs.
LEMMA StepOnCards ==
  HardwareInv /\ [Next]_vars
    => [helper.running =>
          \A d \in DOMAIN clocks :
            clocks'[d] # clocks[d] => target # NoGpu /\ d = target.device]_vars
<1> SUFFICES ASSUME HardwareInv, Next, helper.running, NEW d \in DOMAIN clocks,
                    clocks'[d] # clocks[d]
             PROVE  target # NoGpu /\ d = target.device
  BY DEF vars
<1>1. pc \in HelperSteps /\ Needed(pc)
  BY RunningHelper DEF HardwareInv, HelperInv
<1>2. Assign
  BY <1>1 DEF Next, HelperStep, HelperSteps, Enter, Leave, Reload, Initialise, Skip,
    Spawn, CannotSpawn, Authorised, NotAuthorised, Dies, TimedOut, Exits, SetCore,
    QueryPerfLevel, Query, UserChangesCore, UserChangesCard, systemVars
<1>3. pc \in {"apply", "restore"} /\ Gpu(pc) \in {target, stored} /\ Gpu(pc) # NoGpu
  BY <1>1, <1>2 DEF Assign, WorkingOn, Needed, Gpu
<1>4. target # NoGpu
  BY <1>3 DEF HardwareInv, GpuInv
<1>5. CardOf(host.cards, Gpu(pc)) = target.device
  BY <1>3, <1>4, HelperGetsAtDevice DEF HardwareInv
<1>6. d = CardOf(host.cards, Gpu(pc))
  BY <1>2 DEF Assign
<1> QED
  BY <1>4, <1>5, <1>6

-----------------------------------------------------------------------------
LEMMA Invariance == Spec => []HardwareInv
<1>1. HardwareInv /\ [Next]_vars => HardwareInv'
  BY NextHelper, NextCores, NextGpu DEF HardwareInv
<1> QED
  BY InitInv, <1>1, PTL DEF Spec

\* Whatever fails, a core that is missing is one that the next unpark asks
\* for.  The daemon forgets only those that game_mode_reconfig_cpu itself
\* could not unpark.
THEOREM NoCoreIsForgotten == Spec => []MissingAreRemembered
<1>1. HardwareInv => MissingAreRemembered
  BY DEF HardwareInv, CoreInv
<1> QED
  BY <1>1, Invariance, PTL

\* Out of game mode every core the user has online is online again, if no
\* helper ever failed (unpark in game_mode_context_leave, and in
\* game_mode_reconfig_cpu before the cores are read anew).
THEOREM CoresComeBack == Spec => []CoresRestored
<1>1. HardwareInv => CoresRestored
  BY DEF HardwareInv, CoreInv, CoresRestored
<1> QED
  BY <1>1, Invariance, PTL

\* A helper never touches a card other than gpu_device, though
\* nvidia-settings counts the cards differently (get_gpu_index_id_nv).
THEOREM OnlyTheConfiguredCard == Spec => OtherCardsUntouched
  BY Invariance, StepOnCards, PTL DEF Spec, OtherCardsUntouched

-----------------------------------------------------------------------------
(* The configured card. *)

Clock == [Attributes -> Int]

\* The values of an attribute: what the user left the card at, and what it is
\* at now.
Mine(a) == due.clocks[target.device][a]
Current(a) == clocks[target.device][a]

GpuFields == {"vendor", "device", "editable"} \cup Attributes

\* The cards of the machine have all attributes, and the two infos of the GPU
\* have them too.
ClocksInv ==
  /\ clocks \in [DOMAIN host.cards -> Clock]
  /\ due.clocks \in [DOMAIN host.cards -> Clock]
  /\ trouble \in BOOLEAN
  /\ target # NoGpu =>
       /\ DOMAIN target = GpuFields /\ DOMAIN stored = GpuFields
       /\ \A a \in Attributes : target[a] \in Int /\ stored[a] \in Int
       /\ stored.editable = target.editable
       /\ target.vendor = "amd" => Mine("level") # Empty

\* The attributes that game mode reads, sets and puts back.
Managed(a) ==
  \/ target.vendor = "nvidia" /\ a \in {"core", "mem"}
  \/ target.vendor = "nvidia" /\ a = "power" /\ target.editable = 1
  \/ target.vendor = "amd" /\ a = "level"

ToDo(a) == a \in ToSet(helper.todo)

\* How much of the query is done, and for how much of it there is no output.
Asked == Queries(stored)
Done == Len(Asked) - Len(helper.todo)
Silent == IF target.vendor = "nvidia" THEN 1 ELSE 0

\* The helper that reads the card asks for one attribute after the other.
InOrder ==
  /\ Done \in 0..Len(Asked)
  /\ \A i \in 1..Len(helper.todo) : helper.todo[i] = Asked[Done + i]
  /\ Len(helper.read) = IF Done = 0 THEN 0 ELSE Done - Silent

\* It has what the card is at, for the attributes that it has come to.
ReadSoFar ==
  \A i \in 1..Len(helper.read) : helper.read[i] = Current(Asked[i + Silent])

\* What a helper of the GPU is at.
WorkInv ==
  helper # NoHelper /\ pc \in {"get", "apply", "restore"} =>
    /\ helper.todo \in Seq(Attributes \cup {"perf"}) /\ helper.read \in Seq(Int)
    /\ pc # "get" =>
         \A a \in ToSet(helper.todo) : a = "perf" \/ Managed(a)
    /\ pc = "get" /\ helper.status = 0 => InOrder
    /\ ~trouble /\ pc = "get" => helper.status = 0 /\ ~helper.late /\ ReadSoFar

\* Where the card is as the user left it, and where that is in stored.
Untouched == {"off", "get", "unpark", "unpark again", "initialise"}
Overclocked == {"apply", "park", "on", "restore"}

AsLeft(a) == Mine(a) = DontSet \/ Current(a) = Mine(a)
Remembered(a) == Mine(a) = DontSet \/ stored[a] = Mine(a)

RestoreInv ==
  ~trouble /\ target # NoGpu =>
    \A a \in Attributes :
      IF Managed(a)
        THEN /\ pc \in Untouched => AsLeft(a)
             /\ pc \in Overclocked => Remembered(a)
             /\ pc = "restore" /\ helper # NoHelper => ToDo(a) \/ AsLeft(a)
        ELSE AsLeft(a)

CardInv == HardwareInv /\ ClocksInv /\ WorkInv /\ RestoreInv

LEMMA ConcatSet ==
  ASSUME NEW S, NEW u \in Seq(S), NEW v \in Seq(S)
  PROVE  u \o v \in Seq(S) /\ ToSet(u \o v) = ToSet(u) \cup ToSet(v)
<1>1. /\ u \o v \in Seq(S) /\ Len(u \o v) = Len(u) + Len(v)
      /\ Len(u) \in Nat /\ Len(v) \in Nat
      /\ \A i \in 1..(Len(u) + Len(v)) :
           (u \o v)[i] = IF i <= Len(u) THEN u[i] ELSE v[i - Len(u)]
  BY ConcatProperties
<1>2. /\ DOMAIN u = 1..Len(u) /\ DOMAIN v = 1..Len(v)
      /\ DOMAIN (u \o v) = 1..(Len(u) + Len(v))
  BY <1>1
<1> DEFINE w == u \o v
<1>3. DOMAIN w = 1..(Len(u) + Len(v))
      /\ \A i \in 1..(Len(u) + Len(v)) : w[i] = IF i <= Len(u) THEN u[i] ELSE v[i - Len(u)]
  BY <1>1, <1>2
<1> HIDE DEF w
<1>4. ASSUME NEW x \in ToSet(w) PROVE x \in ToSet(u) \cup ToSet(v)
  <2>1. PICK i \in DOMAIN w : x = w[i]
    BY <1>4 DEF ToSet
  <2> QED BY <1>1, <1>2, <1>3, <2>1 DEF ToSet
<1>5. ASSUME NEW x \in ToSet(u) PROVE x \in ToSet(w)
  <2>1. PICK i \in DOMAIN u : x = u[i]
    BY <1>5 DEF ToSet
  <2>2. i \in DOMAIN w /\ w[i] = x
    BY <1>1, <1>2, <1>3, <2>1
  <2> QED BY <2>2 DEF ToSet
<1>6. ASSUME NEW x \in ToSet(v) PROVE x \in ToSet(w)
  <2>1. PICK i \in DOMAIN v : x = v[i]
    BY <1>6 DEF ToSet
  <2>2. i + Len(u) \in DOMAIN w /\ w[i + Len(u)] = x
    BY <1>1, <1>2, <1>3, <2>1
  <2> QED BY <2>2 DEF ToSet
<1> QED BY <1>1, <1>4, <1>5, <1>6 DEF w

LEMMA TailSet ==
  ASSUME NEW S, NEW u \in Seq(S), u # <<>>
  PROVE  Tail(u) \in Seq(S) /\ ToSet(u) = {Head(u)} \cup ToSet(Tail(u))
<1>1. /\ Tail(u) \in Seq(S) /\ Len(Tail(u)) = Len(u) - 1 /\ Len(u) \in Nat \ {0}
      /\ Head(u) = u[1]
  BY HeadTailProperties, EmptySeq
<1>2. \A i \in 1..(Len(u) - 1) : Tail(u)[i] = u[i + 1]
  OBVIOUS
<1>3. DOMAIN u = 1..Len(u) /\ DOMAIN Tail(u) = 1..(Len(u) - 1)
  BY <1>1
<1> DEFINE w == Tail(u)
<1>4. DOMAIN w = 1..(Len(u) - 1) /\ \A i \in 1..(Len(u) - 1) : w[i] = u[i + 1]
  BY <1>2, <1>3
<1> HIDE DEF w
<1>5. ASSUME NEW x \in ToSet(u) PROVE x = u[1] \/ x \in ToSet(w)
  <2>1. PICK i \in 1..Len(u) : x = u[i]
    BY <1>3, <1>5 DEF ToSet
  <2>2. i # 1 => i - 1 \in DOMAIN w /\ w[i - 1] = x
    BY <1>1, <1>4, <2>1
  <2> QED BY <2>1, <2>2 DEF ToSet
<1>6. ASSUME NEW x \in ToSet(w) PROVE x \in ToSet(u)
  <2>1. PICK i \in DOMAIN w : x = w[i]
    BY <1>6 DEF ToSet
  <2>2. i + 1 \in DOMAIN u /\ u[i + 1] = x
    BY <1>1, <1>3, <1>4, <2>1
  <2> QED BY <2>2 DEF ToSet
<1>7. u[1] \in ToSet(u)
  BY <1>1, <1>3 DEF ToSet
<1> QED BY <1>1, <1>5, <1>6, <1>7 DEF w

LEMMA OptionalSet ==
  ASSUME NEW S, NEW a \in S, NEW P
  PROVE  /\ (IF P THEN <<a>> ELSE <<>>) \in Seq(S)
         /\ ToSet(IF P THEN <<a>> ELSE <<>>) = IF P THEN {a} ELSE {}
<1>1. <<a>> \in Seq(S) /\ <<>> \in Seq(S)
  OBVIOUS
<1>2. ToSet(<<a>>) = {a} /\ ToSet(<<>>) = {}
  BY DEF ToSet
<1> QED BY <1>1, <1>2

\* What gpuclockctl is to set are managed attributes, and all of them but
\* those that have nothing to be set to.
LEMMA AssignmentsAre ==
  ASSUME ClocksInv, GpuInv, target # NoGpu, NEW gpu \in {target, stored}
  PROVE  /\ Assignments(gpu) \in Seq(Attributes \cup {"perf"})
         /\ \A a \in ToSet(Assignments(gpu)) : a = "perf" \/ Managed(a)
         /\ \A a \in Attributes : Managed(a) =>
              \/ a \in ToSet(Assignments(gpu))
              \/ a # "level" /\ gpu[a] = DontSet
              \/ a = "level" /\ gpu[a] = Empty
<1> DEFINE S == Attributes \cup {"perf"}
           Wanted(a) == IF gpu[a] # DontSet THEN <<a>> ELSE <<>>
           power == IF gpu.editable = 1 THEN Wanted("power") ELSE <<>>
<1>1. gpu.vendor = target.vendor /\ gpu.editable = target.editable
  BY DEF GpuInv, ClocksInv
<1>2. \A u, v \in Seq(S) : u \o v \in Seq(S) /\ ToSet(u \o v) = ToSet(u) \cup ToSet(v)
  BY ConcatSet
<1>3. /\ \A a \in S : Wanted(a) \in Seq(S)
      /\ \A a \in S : ToSet(Wanted(a)) = IF gpu[a] # DontSet THEN {a} ELSE {}
  BY OptionalSet
<1>4. <<>> \in Seq(S) /\ ToSet(<<>>) = {}
  BY DEF ToSet
<1>5. {"core", "mem", "power", "level", "perf"} \subseteq S
  BY DEF Attributes
<1>6. Assignments(gpu) = CASE gpu.vendor = "nvidia" -> <<"perf">> \o Wanted("core") \o Wanted("mem") \o power
                           [] gpu.vendor = "amd" -> IF gpu.level # Empty THEN <<"level">> ELSE <<>>
                           [] OTHER -> <<>>
  BY DEF Assignments
<1>7. CASE gpu.vendor = "nvidia"
  <2> DEFINE perf == <<"perf">>
             core == Wanted("core")
             mem == Wanted("mem")
  <2>1. perf \in Seq(S) /\ ToSet(perf) = {"perf"}
    BY <1>5 DEF ToSet
  <2>2. core \in Seq(S) /\ ToSet(core) = IF gpu.core # DontSet THEN {"core"} ELSE {}
    BY <1>3, <1>5
  <2>3. mem \in Seq(S) /\ ToSet(mem) = IF gpu.mem # DontSet THEN {"mem"} ELSE {}
    BY <1>3, <1>5
  <2>4. /\ power \in Seq(S)
        /\ ToSet(power) = IF gpu.editable = 1 /\ gpu.power # DontSet THEN {"power"} ELSE {}
    <3>1. CASE gpu.editable = 1
      BY <1>3, <1>5, <3>1
    <3>2. CASE gpu.editable # 1
      BY <1>4, <3>2
    <3> QED BY <3>1, <3>2
  <2>5. Assignments(gpu) = ((perf \o core) \o mem) \o power
    BY <1>6, <1>7
  <2> HIDE DEF perf, core, mem, power, S
  <2>6. /\ perf \o core \in Seq(S)
        /\ ToSet(perf \o core) = ToSet(perf) \cup ToSet(core)
    BY <1>2, <2>1, <2>2
  <2>7. /\ (perf \o core) \o mem \in Seq(S)
        /\ ToSet((perf \o core) \o mem) = ToSet(perf) \cup ToSet(core) \cup ToSet(mem)
    BY <1>2, <2>3, <2>6
  <2>8. /\ Assignments(gpu) \in Seq(S)
        /\ ToSet(Assignments(gpu))
             = ToSet(perf) \cup ToSet(core) \cup ToSet(mem) \cup ToSet(power)
    BY <1>2, <2>4, <2>5, <2>7
  <2>9. target.vendor = "nvidia"
    BY <1>1, <1>7
  <2>10. \A a \in ToSet(Assignments(gpu)) : a = "perf" \/ Managed(a)
    BY <1>1, <2>1, <2>2, <2>3, <2>4, <2>8, <2>9 DEF Managed
  <2>11. \A a \in Attributes : Managed(a) =>
           a \in ToSet(Assignments(gpu)) \/ (a # "level" /\ gpu[a] = DontSet)
    <3> SUFFICES ASSUME NEW a \in Attributes, Managed(a)
                 PROVE  a \in ToSet(Assignments(gpu)) \/ (a # "level" /\ gpu[a] = DontSet)
      OBVIOUS
    <3>1. a \in ToSet(Wanted(a)) \/ gpu[a] = DontSet
      BY <1>3 DEF S
    <3> HIDE DEF Wanted
    <3>2. CASE a = "core"
      BY <3>1, <3>2, <2>8 DEF core
    <3>3. CASE a = "mem"
      BY <3>1, <3>3, <2>8 DEF mem
    <3>4. CASE a = "power" /\ gpu.editable = 1
      BY <3>1, <3>4, <2>8 DEF power
    <3> QED BY <3>2, <3>3, <3>4, <1>1, <2>9 DEF Managed
  <2> QED BY <2>8, <2>10, <2>11 DEF S
<1>8. CASE gpu.vendor = "amd"
  <2>1. Assignments(gpu) = IF gpu.level # Empty THEN <<"level">> ELSE <<>>
    BY <1>6, <1>8
  <2>2. /\ Assignments(gpu) \in Seq(S)
        /\ ToSet(Assignments(gpu)) = IF gpu.level # Empty THEN {"level"} ELSE {}
    <3>1. CASE gpu.level # Empty
      BY <1>5, <2>1, <3>1 DEF ToSet
    <3>2. CASE gpu.level = Empty
      BY <1>4, <2>1, <3>2
    <3> QED BY <3>1, <3>2
  <2> QED BY <1>1, <1>8, <2>2 DEF Managed, Attributes
<1>9. CASE gpu.vendor \notin {"nvidia", "amd"}
  BY <1>1, <1>4, <1>6, <1>9 DEF Managed
<1> QED BY <1>7, <1>8, <1>9

\* What gpuclockctl is to read.
LEMMA QueriesAre ==
  ASSUME NEW gpu
  PROVE  /\ Queries(gpu) \in Seq(Attributes \cup {"perf"})
         /\ gpu.vendor = "nvidia" =>
              /\ Len(Queries(gpu)) = IF gpu.editable = 1 THEN 4 ELSE 3
              /\ Queries(gpu)[1] = "perf" /\ Queries(gpu)[2] = "core"
              /\ Queries(gpu)[3] = "mem"
              /\ gpu.editable = 1 => Queries(gpu)[4] = "power"
         /\ gpu.vendor = "amd" => Queries(gpu) = <<"level">>
         /\ gpu.vendor \notin {"nvidia", "amd"} => Queries(gpu) = <<>>
<1>1. CASE gpu.vendor = "nvidia" /\ gpu.editable = 1
  <2> DEFINE u == <<"perf", "core", "mem">>
             v == <<"power">>
             S == Attributes \cup {"perf"}
  <2>1. Queries(gpu) = u \o v
    BY <1>1 DEF Queries
  <2>2. /\ u \in Seq(S) /\ Len(u) = 3 /\ u[1] = "perf" /\ u[2] = "core" /\ u[3] = "mem"
        /\ v \in Seq(S) /\ Len(v) = 1 /\ v[1] = "power"
    BY DEF Attributes
  <2> HIDE DEF u, v
  <2>3. /\ u \o v \in Seq(S) /\ Len(u \o v) = Len(u) + Len(v)
        /\ \A i \in 1..(Len(u) + Len(v)) :
             (u \o v)[i] = IF i <= Len(u) THEN u[i] ELSE v[i - Len(u)]
    BY <2>2, ConcatProperties
  <2> QED BY <1>1, <2>1, <2>2, <2>3
<1>2. CASE gpu.vendor = "nvidia" /\ gpu.editable # 1
  <2>1. Queries(gpu) = <<"perf", "core", "mem">>
    BY <1>2 DEF Queries
  <2> QED BY <1>2, <2>1 DEF Attributes
<1>3. CASE gpu.vendor = "amd"
  <2>1. Queries(gpu) = <<"level">>
    BY <1>3 DEF Queries
  <2> QED BY <1>3, <2>1 DEF Attributes
<1>4. CASE gpu.vendor \notin {"nvidia", "amd"}
  <2>1. Queries(gpu) = <<>>
    BY <1>4 DEF Queries
  <2> QED BY <1>4, <2>1
<1> QED BY <1>1, <1>2, <1>3, <1>4

-----------------------------------------------------------------------------
(* The steps on the configured card. *)

LEMMA InitCard == Init => ClocksInv /\ WorkInv /\ RestoreInv
<1> SUFFICES ASSUME Init PROVE ClocksInv /\ WorkInv /\ RestoreInv
  OBVIOUS
<1>1. /\ host \in Hosts /\ helper = NoHelper /\ trouble = FALSE /\ pc = "off"
      /\ target = GpuInfo(host.cards, host.gpu) /\ stored = target
      /\ clocks = [d \in DOMAIN host.cards |-> [a \in Attributes |-> 1]]
      /\ due.clocks = clocks
  BY DEF Init
<1>2. clocks \in [DOMAIN host.cards -> Clock]
  BY <1>1 DEF Clock
<1>3. ASSUME target # NoGpu
      PROVE  /\ DOMAIN target = GpuFields
             /\ \A a \in Attributes : target[a] \in Int
             /\ target.device \in DOMAIN host.cards
  <2>1. {host.gpu.core, host.gpu.mem, host.gpu.power, host.gpu.level} \subseteq Int
    BY <1>1, HardwareAssumption
  <2>2. /\ target = [vendor |-> host.cards[host.gpu.device], device |-> host.gpu.device,
                     editable |-> host.gpu.editable, core |-> host.gpu.core,
                     mem |-> host.gpu.mem, power |-> host.gpu.power,
                     level |-> host.gpu.level]
        /\ host.gpu.device \in DOMAIN host.cards
    BY <1>1, <1>3 DEF GpuInfo
  <2> QED BY <2>1, <2>2 DEF GpuFields, Attributes
<1>4. target # NoGpu => Mine("level") # Empty
  BY <1>1, <1>3 DEF Mine, Attributes, Empty
<1>5. ClocksInv
  BY <1>1, <1>2, <1>3, <1>4 DEF ClocksInv
<1>6. RestoreInv
  BY <1>1 DEF RestoreInv, AsLeft, Mine, Current, Untouched, Overclocked
<1> QED BY <1>1, <1>5, <1>6 DEF WorkInv

\* A step that leaves the infos and the cards alone.
LEMMA SameCards ==
  ASSUME UNCHANGED <<target, stored, clocks, due.clocks>>
  PROVE  /\ \A a : /\ Managed(a)' <=> Managed(a)
                   /\ AsLeft(a)' <=> AsLeft(a)
                   /\ Remembered(a)' <=> Remembered(a)
                   /\ Current(a)' = Current(a)
                   /\ Mine(a)' = Mine(a)
         /\ Silent' = Silent /\ Asked' = Asked
  BY DEF Managed, AsLeft, Remembered, Current, Mine, Silent, Asked

\* What run_external_process returns goes into the info.
LEMMA ParsedIs ==
  ASSUME NEW gpu, DOMAIN gpu = GpuFields, NEW output \in Seq(Int),
         output # <<>> =>
           /\ gpu.vendor = "nvidia" => Len(output) >= IF gpu.editable = 1 THEN 3 ELSE 2
           /\ gpu.vendor = "amd" => Len(output) >= 1,
         \A a \in Attributes : gpu[a] \in Int
  PROVE  /\ DOMAIN Parsed(gpu, output) = GpuFields
         /\ Parsed(gpu, output).editable = gpu.editable
         /\ \A a \in Attributes : Parsed(gpu, output)[a] \in Int
         /\ gpu.vendor = "nvidia" /\ output # <<>> =>
              /\ Parsed(gpu, output)["core"] = output[1]
              /\ Parsed(gpu, output)["mem"] = output[2]
              /\ gpu.editable = 1 => Parsed(gpu, output)["power"] = output[3]
         /\ gpu.vendor = "amd" /\ output # <<>> =>
              Parsed(gpu, output)["level"] = output[1]
<1>1. \A i \in 1..Len(output) : output[i] \in Int
  OBVIOUS
<1>2. Len(output) \in Nat
  OBVIOUS
<1>3. CASE gpu.vendor = "nvidia" /\ output # <<>>
  <2>1. output[1] \in Int /\ output[2] \in Int
        /\ (gpu.editable = 1 => output[3] \in Int)
    BY <1>1, <1>2, <1>3
  <2>2. Parsed(gpu, output)
          = [gpu EXCEPT !.core = output[1], !.mem = output[2],
                        !.power = IF gpu.editable = 1 THEN output[3] ELSE 0]
    BY <1>3 DEF Parsed
  <2> QED BY <1>3, <2>1, <2>2 DEF GpuFields, Attributes
<1>4. CASE gpu.vendor = "amd"
  <2>1. output # <<>> => output[1] \in Int
    BY <1>1, <1>2, <1>4
  <2>2. Parsed(gpu, output)
          = [gpu EXCEPT !.level = IF output = <<>> THEN Empty ELSE output[1]]
    BY <1>4 DEF Parsed
  <2> QED BY <1>4, <2>1, <2>2 DEF GpuFields, Attributes, Empty
<1>5. CASE gpu.vendor # "amd" /\ ~(gpu.vendor = "nvidia" /\ output # <<>>)
  <2>1. Parsed(gpu, output) = gpu
    BY <1>5 DEF Parsed
  <2> QED BY <1>5, <2>1
<1> QED BY <1>3, <1>4, <1>5

\* What the helper that has read the card prints.
LEMMA FullOutput ==
  ASSUME HelperInv, GpuInv, ClocksInv, WorkInv, helper # NoHelper, pc = "get",
         helper.status = 0, helper.todo = <<>>
  PROVE  /\ target # NoGpu /\ stored # NoGpu /\ stored.vendor = target.vendor
         /\ helper.read \in Seq(Int)
         /\ stored.vendor = "nvidia" =>
              /\ Len(helper.read) = IF stored.editable = 1 THEN 3 ELSE 2
              /\ Asked[1 + Silent] = "core" /\ Asked[2 + Silent] = "mem"
              /\ stored.editable = 1 => Asked[3 + Silent] = "power"
         /\ stored.vendor = "amd" =>
              Len(helper.read) = 1 /\ Asked[1 + Silent] = "level"
<1>1. stored # NoGpu /\ target # NoGpu /\ stored.vendor = target.vendor
  BY DEF HelperInv, Needed, Gpu, GpuInv
<1>2. helper.read \in Seq(Int) /\ InOrder
  BY DEF WorkInv
<1>3. Len(helper.todo) = 0
  OBVIOUS
<1>4. CASE stored.vendor = "nvidia"
  <2>1. /\ Len(Asked) = IF stored.editable = 1 THEN 4 ELSE 3
        /\ Asked[2] = "core" /\ Asked[3] = "mem"
        /\ stored.editable = 1 => Asked[4] = "power"
    BY <1>4, QueriesAre DEF Asked
  <2>2. Silent = 1
    BY <1>1, <1>4 DEF Silent
  <2>3. Done = Len(Asked)
    BY <1>3, <2>1 DEF Done
  <2>4. Len(helper.read) = Len(Asked) - 1
    BY <1>2, <2>1, <2>2, <2>3 DEF InOrder
  <2> QED BY <1>1, <1>2, <1>4, <2>1, <2>2, <2>4
<1>5. CASE stored.vendor = "amd"
  <2>1. Len(Asked) = 1 /\ Asked[1] = "level"
    BY <1>5, QueriesAre DEF Asked
  <2>2. Silent = 0
    BY <1>1, <1>5 DEF Silent
  <2>3. Done = Len(Asked)
    BY <1>3, <2>1 DEF Done
  <2>4. Len(helper.read) = 1
    BY <1>2, <2>1, <2>2, <2>3 DEF InOrder
  <2> QED BY <1>1, <1>2, <1>5, <2>1, <2>2, <2>4
<1> QED BY <1>1, <1>2, <1>4, <1>5

LEMMA ClocksAfterReturn ==
  ASSUME HelperInv, GpuInv, ClocksInv, NEW ret, NEW output \in Seq(Int),
         pc \in HelperSteps, pc = "get" => Needed(pc), Return(ret, output),
         pc = "get" /\ ret = 0 /\ output # <<>> =>
           /\ stored.vendor = "nvidia" =>
                Len(output) >= IF stored.editable = 1 THEN 3 ELSE 2
           /\ stored.vendor = "amd" => Len(output) >= 1,
         clocks' = clocks, trouble' \in BOOLEAN
  PROVE  ClocksInv'
<1>1. UNCHANGED <<host, target, due>>
  BY DEF Return, fixedVars
<1>2. stored' = IF pc = "get" /\ ret = 0 THEN Parsed(stored, output) ELSE stored
  BY DEF Return
<1>3. CASE pc = "get" /\ ret = 0
  <2>1. target # NoGpu
    BY <1>3 DEF Needed, Gpu, GpuInv
  <2>2. /\ DOMAIN stored' = GpuFields
        /\ stored'.editable = stored.editable
        /\ \A a \in Attributes : stored'[a] \in Int
    BY <1>2, <1>3, <2>1, ParsedIs DEF ClocksInv
  <2> QED BY <1>1, <2>1, <2>2 DEF ClocksInv, Mine
<1>4. CASE ~(pc = "get" /\ ret = 0)
  BY <1>1, <1>2, <1>4 DEF ClocksInv, Mine
<1> QED BY <1>3, <1>4

\* A helper that exits has printed everything it was asked for, or nothing.
LEMMA ExitOutput ==
  ASSUME HelperInv, GpuInv, ClocksInv, WorkInv, Exits
  PROVE  \E output \in Seq(Int) :
           /\ Return(helper.status, output)
           /\ pc = "get" /\ helper.status = 0 =>
                output = IF helper.late THEN <<>> ELSE helper.read
           /\ pc = "get" /\ helper.status = 0 /\ output # <<>> =>
                /\ stored.vendor = "nvidia" =>
                     Len(output) >= IF stored.editable = 1 THEN 3 ELSE 2
                /\ stored.vendor = "amd" => Len(output) >= 1
<1> DEFINE output == IF helper.late \/ helper.status # 0 THEN <<>> ELSE helper.read
<1>1. helper # NoHelper /\ helper.todo = <<>> /\ Return(helper.status, output)
  BY RunningHelper DEF Exits
<1>2. CASE pc = "get" /\ helper.status = 0
  <2>1. helper.read \in Seq(Int)
        /\ (stored.vendor = "nvidia" =>
             Len(helper.read) = IF stored.editable = 1 THEN 3 ELSE 2)
        /\ (stored.vendor = "amd" => Len(helper.read) = 1)
    BY <1>1, <1>2, FullOutput
  <2>2. output = IF helper.late THEN <<>> ELSE helper.read
    BY <1>2
  <2>3. output \in Seq(Int)
    BY <2>1, <2>2
  <2>4. output # <<>> => output = helper.read
    BY <2>2
  <2> HIDE DEF output
  <2>5. output # <<>> =>
          /\ stored.vendor = "nvidia" =>
               Len(output) >= IF stored.editable = 1 THEN 3 ELSE 2
          /\ stored.vendor = "amd" => Len(output) >= 1
    BY <2>1, <2>4
  <2> QED BY <1>1, <2>2, <2>3, <2>5
<1>3. CASE ~(pc = "get" /\ helper.status = 0)
  <2>1. Return(helper.status, <<>>)
    BY <1>1, <1>3 DEF Return
  <2>2. <<>> \in Seq(Int)
    OBVIOUS
  <2> QED BY <1>3, <2>1, <2>2
<1> QED BY <1>2, <1>3

\* gpuclockctl sets an attribute of the configured card, or fails to.
LEMMA AssignIs ==
  ASSUME HelperInv, GpuInv, ClocksInv, Assign
  PROVE  /\ target # NoGpu /\ target.device \in DOMAIN host.cards
         /\ helper # NoHelper /\ pc \in {"apply", "restore"}
         /\ helper.todo # <<>> /\ Head(helper.todo) \in Attributes
         /\ Gpu(pc) \in {target, stored}
         /\ \/ /\ clocks' = [clocks EXCEPT ![target.device][Head(helper.todo)]
                                             = Gpu(pc)[Head(helper.todo)]]
               /\ helper' = [helper EXCEPT !.todo = Tail(@)]
               /\ trouble' = trouble
            \/ clocks' = clocks /\ trouble' = TRUE
<1>1. helper # NoHelper /\ pc \in {"apply", "restore"} /\ Needed(pc)
      /\ helper.todo # <<>> /\ Head(helper.todo) \in Attributes
  BY RunningHelper DEF HelperInv, Assign, WorkingOn, Working
<1>2. Gpu(pc) \in {target, stored} /\ Gpu(pc) # NoGpu
  BY <1>1 DEF Gpu, Needed
<1>3. target # NoGpu /\ target.device \in DOMAIN host.cards
  BY <1>2 DEF GpuInv
<1>4. CardOf(host.cards, Gpu(pc)) = target.device
  BY <1>2, <1>3, HelperGetsAtDevice
<1> QED
  BY <1>1, <1>2, <1>3, <1>4 DEF Assign, Onward

\* The user leaves the card at a value.
LEMMA CardChange ==
  ASSUME CoreInv, GpuInv, UserChangesCard
  PROVE  /\ pc = "off" /\ target # NoGpu /\ target.device \in DOMAIN host.cards
         /\ \E a \in Attributes, v \in Int :
              /\ clocks' = [clocks EXCEPT ![target.device][a] = v]
              /\ due'.clocks = [due.clocks EXCEPT ![target.device][a] = v]
              /\ a = "level" => v # Empty
<1>1. pc = "off" /\ target # NoGpu /\ target.device \in DOMAIN host.cards
  BY DEF UserChangesCard, GpuInv
<1>2. PICK v \in Clocks, a \in {"core", "level"} :
        /\ a = "level" => v # Empty
        /\ clocks' = [clocks EXCEPT ![target.device][a] = v]
        /\ due' = [due EXCEPT !.clocks = [@ EXCEPT ![target.device][a] = v]]
  BY DEF UserChangesCard
<1>3. v \in Int /\ a \in Attributes
  BY <1>2, HardwareAssumption DEF Attributes
<1>4. due'.clocks = [due.clocks EXCEPT ![target.device][a] = v]
  BY <1>2 DEF CoreInv
<1> QED BY <1>1, <1>2, <1>3, <1>4

\* A helper that fails or is given up returns nothing.
Fails ==
  /\ pc \in HelperSteps /\ Needed(pc)
  /\ \E ret : Return(ret, <<>>)
  /\ trouble' = TRUE /\ UNCHANGED clocks

\* A step of the daemon that starts no helper and waits for none.
Moves == Enter \/ Leave \/ Reload \/ Initialise \/ Skip

\* What the steps do to the cards and to what is known of them.
LEMMA StepOnInfos ==
  ASSUME HardwareInv, ClocksInv, [Next]_vars
  PROVE  \/ Assign \/ UserChangesCard \/ Exits \/ Fails
         \/ /\ UNCHANGED <<host, target, stored, clocks, due.clocks>>
            /\ trouble' \in BOOLEAN
            /\ \/ Moves \/ Spawn \/ QueryPerfLevel \/ Query \/ SetCore
               \/ Authorised \/ UserChangesCore \/ UNCHANGED vars
               \/ /\ helper # NoHelper /\ trouble' = TRUE /\ pc' = pc
                  /\ helper' = [helper EXCEPT !.late = TRUE]
<1>1. trouble \in BOOLEAN /\ DOMAIN due = {"cores", "clocks"}
  BY DEF ClocksInv, HardwareInv, CoreInv
<1>2. helper.running => helper # NoHelper /\ pc \in HelperSteps /\ Needed(pc)
  BY RunningHelper DEF HardwareInv, HelperInv
<1>3. CASE CannotSpawn \/ NotAuthorised \/ Dies
  BY <1>2, <1>3 DEF CannotSpawn, NotAuthorised, Dies, Fails, systemVars
<1>4. CASE TimedOut
  <2>1. CASE helper.stage = "root"
    BY <1>1, <1>2, <1>4, <2>1 DEF TimedOut, systemVars, fixedVars
  <2>2. CASE helper.stage # "root"
    BY <1>2, <1>4, <2>2 DEF TimedOut, Fails, systemVars
  <2> QED BY <2>1, <2>2
<1>5. CASE Moves \/ Spawn \/ Authorised
  BY <1>1, <1>5 DEF Moves, Enter, Leave, Reload, Initialise, Skip, Spawn, Authorised,
    fixedVars, systemVars, historyVars
<1>6. CASE QueryPerfLevel \/ Query \/ SetCore
  <2>1. UNCHANGED <<host, target, stored, clocks, due>>
    BY <1>6 DEF QueryPerfLevel, Query, SetCore, WorkingOn, Working, fixedVars, systemVars
  <2>2. trouble' \in BOOLEAN
    BY <1>1, <1>6 DEF QueryPerfLevel, Query, SetCore
  <2> QED BY <1>6, <2>1, <2>2
<1>7. CASE UserChangesCore
  BY <1>1, <1>7 DEF UserChangesCore, fixedVars
<1>8. CASE UNCHANGED vars
  BY <1>1, <1>8 DEF vars, fixedVars, systemVars, historyVars
<1> QED
  BY <1>3, <1>4, <1>5, <1>6, <1>7, <1>8 DEF Next, HelperStep, Moves

LEMMA NextClocks ==
  HardwareInv /\ ClocksInv /\ WorkInv /\ [Next]_vars => ClocksInv'
<1> SUFFICES ASSUME HardwareInv, ClocksInv, WorkInv, [Next]_vars PROVE ClocksInv'
  OBVIOUS
<1>1. HelperInv /\ CoreInv /\ GpuInv
  BY DEF HardwareInv
<1>2. CASE UNCHANGED <<host, target, stored, clocks, due.clocks>> /\ trouble' \in BOOLEAN
  BY <1>2 DEF ClocksInv, Mine
<1>3. CASE Fails
  <2>1. <<>> \in Seq(Int)
    OBVIOUS
  <2> QED BY <1>1, <1>3, <2>1, ClocksAfterReturn DEF Fails
<1>4. CASE Exits
  <2>1. PICK output \in Seq(Int) :
          /\ Return(helper.status, output)
          /\ pc = "get" /\ helper.status = 0 /\ output # <<>> =>
               /\ stored.vendor = "nvidia" =>
                    Len(output) >= IF stored.editable = 1 THEN 3 ELSE 2
               /\ stored.vendor = "amd" => Len(output) >= 1
    BY <1>1, <1>4, ExitOutput
  <2>2. pc \in HelperSteps /\ Needed(pc)
    BY <1>1, <1>4, RunningHelper DEF Exits, HelperInv
  <2>3. clocks' = clocks /\ trouble' \in BOOLEAN
    BY <1>4 DEF Exits, systemVars, ClocksInv
  <2> QED BY <1>1, <2>1, <2>2, <2>3, ClocksAfterReturn
<1>5. CASE Assign
  <2>1. UNCHANGED <<host, target, stored, due>>
    BY <1>5 DEF Assign, WorkingOn, Working, fixedVars
  <2>2. trouble' \in BOOLEAN
    BY <1>1, <1>5, AssignIs DEF ClocksInv
  <2>3. Gpu(pc)[Head(helper.todo)] \in Int
    BY <1>1, <1>5, AssignIs DEF ClocksInv
  <2>4. PICK a \in Attributes, v \in Int :
          clocks' = [clocks EXCEPT ![target.device][a] = v] \/ clocks' = clocks
    BY <1>1, <1>5, <2>3, AssignIs
  <2>5. target.device \in DOMAIN host.cards
    BY <1>1, <1>5, AssignIs
  <2>6. clocks' \in [DOMAIN host.cards -> Clock]
    BY <2>4, <2>5 DEF ClocksInv, Clock
  <2> QED BY <2>1, <2>2, <2>6 DEF ClocksInv, Mine
<1>6. CASE UserChangesCard
  <2>1. UNCHANGED <<host, target, stored, trouble>>
    BY <1>6 DEF UserChangesCard, fixedVars
  <2>2. PICK a \in Attributes, v \in Int :
          /\ clocks' = [clocks EXCEPT ![target.device][a] = v]
          /\ due'.clocks = [due.clocks EXCEPT ![target.device][a] = v]
          /\ a = "level" => v # Empty
    BY <1>1, <1>6, CardChange
  <2>3. target.device \in DOMAIN host.cards
    BY <1>1, <1>6, CardChange
  <2>4. /\ clocks' \in [DOMAIN host.cards -> Clock]
        /\ due'.clocks \in [DOMAIN host.cards -> Clock]
    BY <2>2, <2>3 DEF ClocksInv, Clock
  <2>5. due'.clocks[target.device]["level"]
          \in {v, due.clocks[target.device]["level"]}
        /\ (due'.clocks[target.device]["level"]
              # due.clocks[target.device]["level"] => a = "level")
    BY <2>2, <2>3 DEF ClocksInv, Clock
  <2>6. target.vendor = "amd" /\ target # NoGpu =>
          due'.clocks[target.device]["level"] # Empty
    BY <2>2, <2>5 DEF ClocksInv, Mine
  <2> QED BY <2>1, <2>4, <2>6 DEF ClocksInv, Mine
<1> QED
  BY <1>1, <1>2, <1>3, <1>4, <1>5, <1>6, StepOnInfos

\* A helper that still has something to do.
LEMMA NextToDo ==
  ASSUME HelperInv, GpuInv, WorkInv, helper # NoHelper,
         pc \in {"get", "apply", "restore"}, helper.todo # <<>>
  PROVE  /\ Tail(helper.todo) \in Seq(Attributes \cup {"perf"})
         /\ ToSet(helper.todo) = {Head(helper.todo)} \cup ToSet(Tail(helper.todo))
         /\ Len(Tail(helper.todo)) = Len(helper.todo) - 1
         /\ Len(helper.todo) \in Nat \ {0} /\ Head(helper.todo) = helper.todo[1]
         /\ \A i \in 1..Len(Tail(helper.todo)) : Tail(helper.todo)[i] = helper.todo[i + 1]
  BY TailSet, HeadTailProperties, EmptySeq DEF WorkInv

LEMMA NextAsked ==
  ASSUME HelperInv, GpuInv, WorkInv, helper # NoHelper, pc = "get",
         helper.todo # <<>>, helper.status = 0
  PROVE  /\ Head(helper.todo) = Asked[Done + 1]
         /\ Len(Asked) \in Nat /\ Done \in 0..(Len(Asked) - 1)
         /\ Silent \in {0, 1}
         /\ Head(helper.todo) = "perf" => Done = 0 /\ Silent = 1
         /\ Head(helper.todo) # "perf" => Len(helper.read) = Done - Silent
<1>1. stored.vendor = target.vendor
  BY DEF GpuInv
<1>2. InOrder
  BY DEF WorkInv
<1>3. Len(helper.todo) \in Nat \ {0} /\ Head(helper.todo) = helper.todo[1]
  BY NextToDo
<1>4. Len(Asked) \in Nat
  BY QueriesAre, EmptySeq DEF Asked
<1>5. Done \in 0..(Len(Asked) - 1) /\ Head(helper.todo) = Asked[Done + 1]
  <2>1. Done \in 0..Len(Asked) /\ Done = Len(Asked) - Len(helper.todo)
    BY <1>2 DEF InOrder, Done
  <2>2. helper.todo[1] = Asked[Done + 1]
    BY <1>2, <1>3 DEF InOrder
  <2>3. Done \in Int /\ Done >= 0 /\ Done <= Len(Asked) - 1
    BY <1>3, <1>4, <2>1
  <2> QED BY <1>3, <1>4, <2>2, <2>3
<1>6. Len(helper.read) = IF Done = 0 THEN 0 ELSE Done - Silent
  BY <1>2 DEF InOrder
<1>7. CASE target.vendor = "nvidia"
  <2>1. /\ Len(Asked) \in {3, 4} /\ Asked[1] = "perf" /\ Asked[2] = "core"
        /\ Asked[3] = "mem" /\ (Len(Asked) = 4 => Asked[4] = "power")
    <3>1. /\ Len(Asked) = IF stored.editable = 1 THEN 4 ELSE 3
          /\ Asked[1] = "perf" /\ Asked[2] = "core" /\ Asked[3] = "mem"
          /\ stored.editable = 1 => Asked[4] = "power"
      BY <1>1, <1>7, QueriesAre DEF Asked
    <3> QED BY <3>1
  <2>2. Silent = 1
    BY <1>7 DEF Silent
  <2>3. Done = 0 \/ Done = 1 \/ Done = 2 \/ (Done = 3 /\ Len(Asked) = 4)
    BY <1>5, <2>1
  <2>4. Head(helper.todo) = "perf" <=> Done = 0
    BY <1>5, <2>1, <2>3
  <2> QED BY <1>4, <1>5, <1>6, <2>2, <2>4
<1>8. CASE target.vendor # "nvidia"
  <2>1. Silent = 0
    BY <1>8 DEF Silent
  <2>2. Asked = <<"level">> \/ Asked = <<>>
    BY <1>1, <1>8, QueriesAre DEF Asked
  <2>3. Done = 0 /\ Asked[1] = "level"
    BY <1>5, <2>2
  <2> QED BY <1>4, <1>5, <1>6, <2>1, <2>3
<1> QED BY <1>7, <1>8

\* A helper that gets no further.
LEMMA WorkStays ==
  ASSUME WorkInv, helper # NoHelper,
         UNCHANGED <<pc, target, stored, clocks, due.clocks>>,
         helper'.todo = helper.todo, helper'.read = helper.read,
         helper'.status = helper.status,
         ~trouble' => ~trouble /\ helper'.late = helper.late
  PROVE  WorkInv'
<1>1. /\ \A a : (Managed(a)' <=> Managed(a)) /\ Current(a)' = Current(a)
      /\ Silent' = Silent /\ Asked' = Asked
  BY SameCards
<1>2. Done' = Done
  BY <1>1 DEF Done
<1>3. InOrder' <=> InOrder
  BY <1>1, <1>2 DEF InOrder
<1>4. ReadSoFar' <=> ReadSoFar
  BY <1>1 DEF ReadSoFar
<1> QED BY <1>1, <1>3, <1>4 DEF WorkInv

\* What a new helper is to do.
LEMMA WorkBegins ==
  ASSUME HelperInv, GpuInv, ClocksInv, Spawn
  PROVE  WorkInv'
<1>1. /\ Needed(pc) /\ UNCHANGED <<pc, target, stored, clocks, due>>
      /\ helper'.todo = Work(pc) /\ helper'.read = <<>> /\ helper'.late = FALSE
      /\ helper'.status = FirstStatus(pc)
  BY DEF Spawn, fixedVars, systemVars, historyVars
<1>2. \A a : Managed(a)' <=> Managed(a)
  BY <1>1 DEF Managed
<1>3. <<>> \in Seq(Int) /\ Len(<<>>) = 0
  OBVIOUS
<1>4. CASE pc = "get"
  <2>1. helper'.todo = Asked' /\ helper'.status = 0
    BY <1>1, <1>4 DEF Work, Asked, FirstStatus
  <2>2. Asked' \in Seq(Attributes \cup {"perf"})
    BY QueriesAre DEF Asked
  <2>3. Len(Asked') \in Nat
    BY <2>2
  <2>4. Done' = 0
    BY <2>1, <2>3 DEF Done
  <2>5. InOrder'
    BY <1>1, <1>3, <2>1, <2>3, <2>4 DEF InOrder
  <2>6. ReadSoFar'
    BY <1>1, <1>3 DEF ReadSoFar
  <2> QED BY <1>1, <1>3, <1>4, <2>1, <2>2, <2>5, <2>6 DEF WorkInv
<1>5. CASE pc \in {"apply", "restore"}
  <2>1. Gpu(pc) \in {target, stored} /\ target # NoGpu
    BY <1>1, <1>5 DEF Gpu, Needed, GpuInv
  <2>2. helper'.todo = Assignments(Gpu(pc))
    BY <1>1, <1>5 DEF Work
  <2>3. /\ helper'.todo \in Seq(Attributes \cup {"perf"})
        /\ \A a \in ToSet(helper'.todo) : a = "perf" \/ Managed(a)
    BY <2>1, <2>2, AssignmentsAre
  <2> QED BY <1>1, <1>2, <1>3, <1>5, <2>3 DEF WorkInv
<1>6. CASE pc \notin {"get", "apply", "restore"}
  BY <1>1, <1>6 DEF WorkInv
<1> QED BY <1>4, <1>5, <1>6

\* The query for the performance level is over.
LEMMA PerfLevelWork ==
  ASSUME HardwareInv, ClocksInv, WorkInv, QueryPerfLevel
  PROVE  WorkInv'
<1>1. HelperInv /\ GpuInv
  BY DEF HardwareInv
<1>2. /\ helper # NoHelper /\ pc \in {"get", "apply", "restore"}
      /\ helper.todo # <<>> /\ Head(helper.todo) = "perf"
      /\ UNCHANGED <<pc, target, stored, clocks, due>>
  BY <1>1, RunningHelper DEF QueryPerfLevel, WorkingOn, Working, fixedVars, systemVars
<1>3. /\ helper'.todo = Tail(helper.todo) /\ helper'.read = helper.read
      /\ helper'.status = helper.status /\ helper'.late = helper.late
  BY <1>1, <1>2 DEF QueryPerfLevel, Onward, HelperInv, HelperFields
<1>4. ~trouble' => ~trouble
  BY DEF QueryPerfLevel
<1>5. /\ \A a : (Managed(a)' <=> Managed(a)) /\ Current(a)' = Current(a)
      /\ Silent' = Silent /\ Asked' = Asked
  BY <1>2, SameCards
<1>6. /\ helper'.todo \in Seq(Attributes \cup {"perf"})
      /\ ToSet(helper'.todo) \subseteq ToSet(helper.todo)
      /\ Len(helper.todo) \in Nat \ {0}
      /\ Len(helper'.todo) = Len(helper.todo) - 1
      /\ \A i \in 1..Len(helper'.todo) : helper'.todo[i] = helper.todo[i + 1]
  BY <1>1, <1>2, <1>3, NextToDo
<1>7. ASSUME pc = "get", helper.status = 0 PROVE InOrder'
  <2>1. /\ Done = 0 /\ Silent = 1 /\ Len(Asked) \in Nat /\ Done \in 0..(Len(Asked) - 1)
    BY <1>1, <1>2, <1>7, NextAsked
  <2>2. InOrder
    BY <1>2, <1>7 DEF WorkInv
  <2>3. Done' = 1
    BY <1>5, <1>6, <2>1 DEF Done
  <2>4. Len(helper'.read) = 0
    BY <1>3, <2>1, <2>2 DEF InOrder
  <2>5. ASSUME NEW i \in 1..Len(helper'.todo)
        PROVE  helper'.todo[i] = Asked[1 + i]
    <3>1. i + 1 \in 1..Len(helper.todo)
      BY <1>6
    <3>2. helper.todo[i + 1] = Asked[0 + (i + 1)]
      BY <2>1, <2>2, <3>1 DEF InOrder
    <3> QED BY <1>6, <3>2
  <2> QED BY <1>5, <2>1, <2>3, <2>4, <2>5 DEF InOrder
<1>8. ReadSoFar' <=> ReadSoFar
  BY <1>3, <1>5 DEF ReadSoFar
<1> QED BY <1>2, <1>3, <1>4, <1>5, <1>6, <1>7, <1>8 DEF WorkInv

\* An attribute is read, in the order in which they are asked for.
LEMMA ReadWork ==
  ASSUME HardwareInv, ClocksInv, WorkInv, helper # NoHelper, pc = "get",
         helper.todo # <<>>, Head(helper.todo) # "perf",
         UNCHANGED <<pc, target, stored, clocks, due.clocks>>,
         NEW v \in Int,
         helper'.todo = Tail(helper.todo), helper'.read = Append(helper.read, v),
         helper'.status = helper.status, helper'.late = helper.late,
         ~trouble' => ~trouble /\ v = Current(Head(helper.todo))
  PROVE  WorkInv'
<1>1. HelperInv /\ GpuInv
  BY DEF HardwareInv
<1>2. /\ \A a : (Managed(a)' <=> Managed(a)) /\ Current(a)' = Current(a)
      /\ Silent' = Silent /\ Asked' = Asked
  BY SameCards
<1>3. /\ helper'.todo \in Seq(Attributes \cup {"perf"})
      /\ Len(helper.todo) \in Nat \ {0}
      /\ Len(helper'.todo) = Len(helper.todo) - 1
      /\ \A i \in 1..Len(helper'.todo) : helper'.todo[i] = helper.todo[i + 1]
  BY <1>1, NextToDo
<1>4. helper.read \in Seq(Int)
  BY DEF WorkInv
<1>5. /\ helper'.read \in Seq(Int) /\ Len(helper'.read) = Len(helper.read) + 1
      /\ \A i \in 1..Len(helper.read) : helper'.read[i] = helper.read[i]
      /\ helper'.read[Len(helper.read) + 1] = v
      /\ Len(helper.read) \in Nat
  BY <1>4, AppendProperties
<1>6. ASSUME helper.status = 0
      PROVE  InOrder' /\ (~trouble' => ReadSoFar')
  <2>1. /\ Head(helper.todo) = Asked[Done + 1]
        /\ Len(Asked) \in Nat /\ Done \in 0..(Len(Asked) - 1)
        /\ Silent \in {0, 1}
        /\ Len(helper.read) = Done - Silent
    BY <1>1, <1>6, NextAsked
  <2>2. InOrder
    BY <1>6 DEF WorkInv
  <2>3. Done' = Done + 1
    <3> DEFINE k == Len(Asked)
               m == Len(helper.todo)
               n == Len(helper'.todo)
    <3>1. /\ Done = k - m /\ Done' = k - n
          /\ k \in Nat /\ m \in Nat /\ n = m - 1
      BY <1>2, <1>3, <2>1 DEF Done
    <3> HIDE DEF k, m, n
    <3> QED BY <3>1
  <2>4. Len(helper'.read) = Done' - Silent
    BY <1>5, <2>1, <2>3
  <2>5. ASSUME NEW i \in 1..Len(helper'.todo)
        PROVE  helper'.todo[i] = Asked[Done' + i]
    <3>1. i + 1 \in 1..Len(helper.todo)
      BY <1>3
    <3>2. helper.todo[i + 1] = Asked[Done + (i + 1)]
      BY <2>2, <3>1 DEF InOrder
    <3>3. Done + (i + 1) = Done' + i
      BY <2>1, <2>3
    <3> QED BY <1>3, <3>2, <3>3
  <2>6. InOrder'
    BY <1>2, <2>1, <2>3, <2>4, <2>5 DEF InOrder
  <2>7. ASSUME ~trouble', NEW i \in 1..Len(helper'.read)
        PROVE  helper'.read[i] = Current(Asked[i + Silent])
    <3>1. CASE i \in 1..Len(helper.read)
      BY <1>5, <2>7, <3>1 DEF WorkInv, ReadSoFar
    <3>2. CASE i = Len(helper.read) + 1
      <4>1. i + Silent = Done + 1
        BY <2>1, <3>2
      <4> QED BY <1>5, <2>1, <2>7, <3>2, <4>1
    <3> QED BY <1>5, <3>1, <3>2
  <2> QED BY <1>2, <2>6, <2>7 DEF ReadSoFar
<1> QED BY <1>2, <1>3, <1>5, <1>6 DEF WorkInv

LEMMA QueryWork ==
  ASSUME HardwareInv, ClocksInv, WorkInv, Query
  PROVE  WorkInv'
<1>1. HelperInv /\ GpuInv
  BY DEF HardwareInv
<1>2. /\ helper # NoHelper /\ pc = "get"
      /\ helper.todo # <<>> /\ Head(helper.todo) \in Attributes
      /\ UNCHANGED <<pc, target, stored, clocks, due>>
  BY <1>1, RunningHelper DEF Query, WorkingOn, Working, fixedVars, systemVars
<1>3. Head(helper.todo) # "perf"
  BY <1>2 DEF Attributes
<1>4. target # NoGpu /\ target.device \in DOMAIN host.cards
  BY <1>1, <1>2 DEF HelperInv, Needed, Gpu, GpuInv
<1>5. CardOf(host.cards, stored) = target.device
  BY <1>1, <1>4, HelperGetsAtDevice
<1>6. Current(Head(helper.todo)) \in Int
  BY <1>2, <1>4 DEF ClocksInv, Clock, Current
<1>7. helper.read \in Seq(Int)
  BY <1>2 DEF WorkInv
<1>8. CASE \E v \in Int :
             /\ helper' = [helper EXCEPT !.read = Append(@, v), !.todo = Tail(@)]
             /\ ~trouble' => ~trouble /\ v = Current(Head(helper.todo))
  <2>1. PICK v \in Int :
             /\ helper' = [helper EXCEPT !.read = Append(@, v), !.todo = Tail(@)]
             /\ ~trouble' => ~trouble /\ v = Current(Head(helper.todo))
    BY <1>8
  <2>2. /\ helper'.todo = Tail(helper.todo) /\ helper'.read = Append(helper.read, v)
        /\ helper'.status = helper.status /\ helper'.late = helper.late
    BY <1>1, <1>2, <2>1 DEF HelperInv, HelperFields
  <2> QED BY <1>2, <1>3, <2>1, <2>2, ReadWork
<1>9. CASE helper' = [helper EXCEPT !.todo = <<>>, !.status = -1] /\ trouble' = TRUE
  <2>1. helper'.todo = <<>> /\ helper'.read = helper.read /\ helper'.status = -1
    BY <1>1, <1>2, <1>9 DEF HelperInv, HelperFields
  <2>2. <<>> \in Seq(Attributes \cup {"perf"})
    OBVIOUS
  <2>3. trouble'
    BY <1>9
  <2> QED BY <1>2, <1>7, <2>1, <2>2, <2>3 DEF WorkInv
<1>10. CASE /\ Onward([helper EXCEPT !.read = Append(@,
                         clocks[CardOf(host.cards, stored)][Head(helper.todo)])])
            /\ trouble' = trouble
  <2>1. helper' = [helper EXCEPT !.read = Append(@, Current(Head(helper.todo))),
                                 !.todo = Tail(@)]
    BY <1>1, <1>2, <1>5, <1>10 DEF Onward, Current, HelperInv, HelperFields
  <2> QED BY <1>6, <1>8, <1>10, <2>1
<1>11. CASE /\ helper.read # <<>>
            /\ Onward([helper EXCEPT !.read = Append(@, Last(helper.read))])
            /\ trouble' = TRUE
  <2>1. Last(helper.read) \in Int
    BY <1>7, <1>11 DEF Last
  <2>2. helper' = [helper EXCEPT !.read = Append(@, Last(helper.read)), !.todo = Tail(@)]
    BY <1>1, <1>2, <1>11 DEF Onward, HelperInv, HelperFields
  <2> QED BY <1>8, <1>11, <2>1, <2>2
<1> QED BY <1>9, <1>10, <1>11 DEF Query

LEMMA AssignWork ==
  ASSUME HardwareInv, ClocksInv, WorkInv, Assign
  PROVE  WorkInv'
<1>1. HelperInv /\ GpuInv
  BY DEF HardwareInv
<1>2. /\ helper # NoHelper /\ pc \in {"apply", "restore"} /\ helper.todo # <<>>
      /\ UNCHANGED <<pc, target>>
  BY <1>1, AssignIs DEF Assign, WorkingOn, Working, fixedVars
<1>3. helper'.todo = Tail(helper.todo) /\ helper'.read = helper.read
  BY <1>1, <1>2 DEF Assign, Onward, HelperInv, HelperFields
<1>4. \A a : Managed(a)' <=> Managed(a)
  BY <1>2 DEF Managed
<1>5. /\ helper'.todo \in Seq(Attributes \cup {"perf"})
      /\ ToSet(helper'.todo) \subseteq ToSet(helper.todo)
  BY <1>1, <1>2, <1>3, NextToDo
<1> QED BY <1>2, <1>3, <1>4, <1>5 DEF WorkInv

LEMMA NextWork ==
  HardwareInv /\ ClocksInv /\ WorkInv /\ [Next]_vars => WorkInv'
<1> SUFFICES ASSUME HardwareInv, ClocksInv, WorkInv, [Next]_vars PROVE WorkInv'
  OBVIOUS
<1>1. HelperInv /\ GpuInv
  BY DEF HardwareInv
<1>2. /\ helper.running <=> helper # NoHelper
      /\ helper # NoHelper => DOMAIN helper = HelperFields /\ pc \in HelperSteps
                              /\ helper.cores \subseteq CoreWork(pc)
  BY <1>1, RunningHelper DEF HelperInv
<1>3. CASE Moves \/ UserChangesCore \/ UserChangesCard
  <2>1. helper' = NoHelper
    BY <1>2, <1>3 DEF Moves, Enter, Leave, Reload, Initialise, Skip, UserChangesCore,
      UserChangesCard, HelperSteps
  <2> QED BY <2>1 DEF WorkInv, NoHelper
<1>4. CASE Fails \/ Exits
  <2>1. helper' = NoHelper
    BY <1>4 DEF Fails, Exits, Return
  <2> QED BY <2>1 DEF WorkInv, NoHelper
<1>5. CASE SetCore
  <2>1. helper # NoHelper /\ helper.cores # {} /\ pc' = pc
    BY <1>2, <1>5 DEF SetCore, Working
  <2>2. pc \notin {"get", "apply", "restore"}
    BY <1>2, <2>1 DEF CoreWork
  <2> QED BY <2>1, <2>2 DEF WorkInv
<1>6. CASE Authorised
  <2>1. /\ helper # NoHelper /\ UNCHANGED <<pc, target, stored, clocks, due, trouble>>
        /\ helper' = [helper EXCEPT !.stage = "root"]
    BY <1>2, <1>6 DEF Authorised, fixedVars, systemVars, historyVars
  <2> QED BY <1>2, <2>1, WorkStays DEF HelperFields
<1>7. CASE /\ helper # NoHelper /\ trouble' = TRUE /\ pc' = pc
           /\ helper' = [helper EXCEPT !.late = TRUE]
           /\ UNCHANGED <<target, stored, clocks, due.clocks>>
  BY <1>2, <1>7, WorkStays DEF HelperFields
<1>8. CASE UNCHANGED vars
  <2>1. UNCHANGED <<pc, target, stored, clocks, due, trouble, helper>>
    BY <1>8 DEF vars, fixedVars, systemVars, historyVars
  <2>2. CASE helper = NoHelper
    BY <2>1, <2>2 DEF WorkInv, NoHelper
  <2>3. CASE helper # NoHelper
    BY <2>1, <2>3, WorkStays
  <2> QED BY <2>2, <2>3
<1> QED
  BY <1>1, <1>3, <1>4, <1>5, <1>6, <1>7, <1>8, StepOnInfos, WorkBegins, PerfLevelWork,
    QueryWork, AssignWork

\* A step that leaves the infos and the cards alone and stays on the same side
\* of the overclocking.
LEMMA RestoreStays ==
  ASSUME RestoreInv, UNCHANGED <<target, stored, clocks, due.clocks>>,
         ~trouble' => ~trouble,
         target # NoGpu =>
           (pc \in Untouched /\ pc' \in Untouched)
             \/ (pc \in Overclocked /\ pc' \in Overclocked),
         pc' = "restore" /\ helper' # NoHelper =>
           /\ pc = "restore" /\ helper # NoHelper
           /\ \A a \in Attributes : ToDo(a) => ToDo(a)'
  PROVE  RestoreInv'
<1>1. \A a : /\ Managed(a)' <=> Managed(a)
             /\ AsLeft(a)' <=> AsLeft(a)
             /\ Remembered(a)' <=> Remembered(a)
  BY SameCards
<1>2. Untouched \cap Overclocked = {}
  BY DEF Untouched, Overclocked
<1> QED BY <1>1, <1>2 DEF RestoreInv, Untouched, Overclocked

\* A step of the daemon goes from one side of the overclocking to the other
\* only if there is no GPU.
LEMMA StepsStay ==
  ASSUME HelperInv, GpuInv, ClocksInv, RestoreInv, Moves
  PROVE  RestoreInv'
<1>1. /\ helper = NoHelper /\ helper' = NoHelper
      /\ UNCHANGED <<target, stored, clocks, due, trouble>>
  BY RunningHelper DEF HelperInv, Moves, Enter, Leave, Reload, Initialise, Skip,
    HelperSteps, fixedVars, systemVars, historyVars
<1>2. target # NoGpu =>
        (pc \in Untouched /\ pc' \in Untouched)
          \/ (pc \in Overclocked /\ pc' \in Overclocked)
  <2>1. CASE Enter \/ Leave \/ Reload \/ Initialise
    BY <2>1 DEF Enter, Leave, Reload, Initialise, Untouched, Overclocked
  <2>2. CASE Skip
    <3>1. pc \in HelperSteps /\ pc' = After(pc) /\ ~Needed(pc)
      BY <2>2 DEF Skip
    <3>2. target # NoGpu => pc \in {"park", "unpark", "unpark again"}
      BY <3>1 DEF Needed, Gpu, GpuInv, HelperSteps
    <3> QED BY <3>1, <3>2 DEF After, Untouched, Overclocked
  <2> QED BY <2>1, <2>2 DEF Moves
<1> QED BY <1>1, <1>2, RestoreStays

\* Before the helper puts the card back, everything that it has to put back is
\* on its list.
LEMMA SpawnRestores ==
  ASSUME HelperInv, GpuInv, ClocksInv, RestoreInv, Spawn
  PROVE  RestoreInv'
<1>1. /\ UNCHANGED <<pc, target, stored, clocks, due, trouble>>
      /\ helper'.todo = Work(pc)
  BY DEF Spawn, fixedVars, systemVars, historyVars
<1>2. \A a : /\ Managed(a)' <=> Managed(a)
             /\ AsLeft(a)' <=> AsLeft(a)
             /\ Remembered(a)' <=> Remembered(a)
  BY <1>1, SameCards
<1>3. ASSUME pc = "restore", ~trouble, target # NoGpu, NEW a \in Attributes, Managed(a)
      PROVE  a \in ToSet(helper'.todo) \/ AsLeft(a)
  <2>1. Remembered(a)
    BY <1>3 DEF RestoreInv, Overclocked
  <2>2. helper'.todo = Assignments(stored)
    BY <1>1, <1>3 DEF Work, Gpu
  <2>3. \/ a \in ToSet(helper'.todo)
        \/ a # "level" /\ stored[a] = DontSet
        \/ a = "level" /\ stored[a] = Empty
    BY <1>3, <2>2, AssignmentsAre
  <2>4. a = "level" => Mine(a) # Empty
    BY <1>3 DEF Managed, ClocksInv
  <2>5. Mine(a) = DontSet \/ stored[a] = Mine(a)
    BY <2>1 DEF Remembered
  <2> QED BY <2>3, <2>4, <2>5 DEF AsLeft
<1> QED BY <1>1, <1>2, <1>3 DEF RestoreInv, ToDo

\* An attribute that is set is off the list; when the card is put back it is
\* as the user left it.
LEMMA AssignRestores ==
  ASSUME HardwareInv, ClocksInv, WorkInv, RestoreInv, Assign
  PROVE  RestoreInv'
<1>0. PICK b : b = Head(helper.todo)
  OBVIOUS
<1>1. HelperInv /\ GpuInv
  BY DEF HardwareInv
<1>2. SUFFICES ASSUME ~trouble' PROVE RestoreInv'
  BY DEF RestoreInv
<1>3. /\ target # NoGpu /\ target.device \in DOMAIN host.cards
      /\ helper # NoHelper /\ pc \in {"apply", "restore"}
      /\ helper.todo # <<>> /\ b \in Attributes
      /\ clocks' = [clocks EXCEPT ![target.device][b] = Gpu(pc)[b]]
      /\ helper' = [helper EXCEPT !.todo = Tail(@)]
      /\ trouble' = trouble
  BY <1>0, <1>1, <1>2, AssignIs
<1>4. UNCHANGED <<pc, target, stored, due>>
  BY DEF Assign, WorkingOn, Working, fixedVars
<1>5. helper'.todo = Tail(helper.todo)
  BY <1>1, <1>3 DEF HelperInv, HelperFields
<1>6. /\ b \in ToSet(helper.todo)
      /\ ToSet(helper.todo) = {b} \cup ToSet(helper'.todo)
  BY <1>0, <1>1, <1>3, <1>5, NextToDo
<1>7. Managed(b)
  <2>1. b # "perf"
    BY <1>3 DEF Attributes
  <2> QED BY <1>3, <1>6, <2>1 DEF WorkInv
<1>8. /\ Current(b)' = Gpu(pc)[b]
      /\ \A a \in Attributes : a # b => Current(a)' = Current(a)
  <2>1. PICK x : x = Gpu(pc)[b] /\ clocks' = [clocks EXCEPT ![target.device][b] = x]
    BY <1>3
  <2>2. \A a \in Attributes : clocks'[target.device][a]
                                 = IF a = b THEN x ELSE clocks[target.device][a]
    BY <1>3, <2>1 DEF ClocksInv, Clock
  <2> QED BY <1>3, <1>4, <2>1, <2>2 DEF Current
<1>9. \A a : /\ Managed(a)' <=> Managed(a)
             /\ Mine(a)' = Mine(a)
             /\ Remembered(a)' <=> Remembered(a)
  BY <1>4 DEF Managed, Mine, Remembered
<1>10. ASSUME NEW a \in Attributes, ~Managed(a) PROVE AsLeft(a)'
  <2>1. AsLeft(a)
    BY <1>2, <1>3, <1>10 DEF RestoreInv
  <2> QED BY <1>7, <1>8, <1>9, <1>10, <2>1 DEF AsLeft
<1>11. ASSUME NEW a \in Attributes, Managed(a) PROVE Remembered(a)'
  BY <1>2, <1>3, <1>9, <1>11 DEF RestoreInv, Overclocked
<1>12. ASSUME NEW a \in Attributes, Managed(a), pc = "restore"
       PROVE  ToDo(a)' \/ AsLeft(a)'
  <2>1. CASE a = b
    <3>1. Current(a)' = stored[a] /\ Mine(a)' = Mine(a)
      <4>1. Gpu(pc) = stored
        BY <1>12 DEF Gpu
      <4> QED BY <1>8, <1>9, <2>1, <4>1
    <3>2. Remembered(a)
      BY <1>9, <1>11, <1>12
    <3> QED BY <3>1, <3>2 DEF AsLeft, Remembered
  <2>2. CASE a # b
    <3>1. ToDo(a) \/ AsLeft(a)
      BY <1>2, <1>3, <1>12 DEF RestoreInv
    <3>2. ToDo(a) => ToDo(a)'
      BY <1>6, <2>2 DEF ToDo
    <3>3. AsLeft(a) => AsLeft(a)'
      BY <1>8, <1>9, <2>2 DEF AsLeft
    <3> QED BY <3>1, <3>2, <3>3
  <2> QED BY <2>1, <2>2
<1> QED BY <1>3, <1>4, <1>9, <1>10, <1>11, <1>12 DEF RestoreInv, Untouched

\* The helper that read the card has put what it is at into stored, and the
\* one that put it back has done so.
LEMMA ExitRestores ==
  ASSUME HardwareInv, ClocksInv, WorkInv, RestoreInv, Exits
  PROVE  RestoreInv'
<1>1. HelperInv /\ GpuInv
  BY DEF HardwareInv
<1>2. SUFFICES ASSUME ~trouble', target # NoGpu PROVE RestoreInv'
  BY DEF RestoreInv, Exits, Return, fixedVars
<1>3. /\ ~trouble /\ helper # NoHelper /\ helper.todo = <<>> /\ helper' = NoHelper
      /\ pc \in HelperSteps /\ pc' = After(pc)
      /\ UNCHANGED <<target, clocks, due>>
  BY <1>1, <1>2, RunningHelper
  DEF HelperInv, Exits, Return, fixedVars, systemVars
<1>4. \A a : /\ Managed(a)' <=> Managed(a)
             /\ AsLeft(a)' <=> AsLeft(a)
  BY <1>3 DEF Managed, AsLeft, Mine, Current
<1>5. CASE pc = "get"
  <2>1. helper.status = 0 /\ ~helper.late /\ ReadSoFar
    BY <1>3, <1>5 DEF WorkInv
  <2>2. stored' = Parsed(stored, helper.read)
    BY <1>1, <1>5, <2>1, ExitOutput DEF Return
  <2>3. /\ stored # NoGpu /\ stored.vendor = target.vendor
        /\ helper.read \in Seq(Int)
        /\ stored.vendor = "nvidia" =>
             /\ Len(helper.read) = IF stored.editable = 1 THEN 3 ELSE 2
             /\ Asked[1 + Silent] = "core" /\ Asked[2 + Silent] = "mem"
             /\ stored.editable = 1 => Asked[3 + Silent] = "power"
        /\ stored.vendor = "amd" =>
             Len(helper.read) = 1 /\ Asked[1 + Silent] = "level"
    BY <1>1, <1>3, <1>5, <2>1, FullOutput
  <2>4. DOMAIN stored = GpuFields /\ stored.editable = target.editable
        /\ \A a \in Attributes : stored[a] \in Int
    BY <1>2 DEF ClocksInv
  <2>5. \A i \in 1..Len(helper.read) : helper.read[i] = Current(Asked[i + Silent])
    BY <2>1 DEF ReadSoFar
  <2>6. CASE stored.vendor = "nvidia"
    <3>1. helper.read # <<>> /\ Len(helper.read) >= IF stored.editable = 1 THEN 3 ELSE 2
      BY <2>3, <2>6
    <3>2. /\ stored'["core"] = helper.read[1] /\ stored'["mem"] = helper.read[2]
          /\ stored.editable = 1 => stored'["power"] = helper.read[3]
      BY <2>2, <2>3, <2>4, <2>6, <3>1, ParsedIs
    <3>3. /\ helper.read[1] = Current("core") /\ helper.read[2] = Current("mem")
          /\ stored.editable = 1 => helper.read[3] = Current("power")
      BY <2>3, <2>5, <2>6
    <3>4. \A a \in Attributes : Managed(a) => stored'[a] = Current(a)
      BY <2>3, <2>4, <2>6, <3>2, <3>3 DEF Managed
    <3> QED BY <1>2, <1>3, <1>4, <1>5, <3>4
        DEF RestoreInv, After, Untouched, Overclocked, Remembered, AsLeft, Mine
  <2>7. CASE stored.vendor = "amd"
    <3>0. Len(helper.read) = 1
      BY <2>3, <2>7
    <3>1. helper.read # <<>> /\ Len(helper.read) >= 1
      BY <3>0
    <3>2. stored'["level"] = helper.read[1]
      BY <2>2, <2>3, <2>4, <2>7, <3>1, ParsedIs
    <3>3. helper.read[1] = Current("level")
      BY <3>0, <2>3, <2>5, <2>7
    <3>4. \A a \in Attributes : Managed(a) => stored'[a] = Current(a)
      BY <2>3, <2>7, <3>2, <3>3 DEF Managed
    <3> QED BY <1>2, <1>3, <1>4, <1>5, <3>4
        DEF RestoreInv, After, Untouched, Overclocked, Remembered, AsLeft, Mine
  <2>8. CASE stored.vendor \notin {"nvidia", "amd"}
    <3>1. \A a : ~Managed(a)
      BY <2>3, <2>8 DEF Managed
    <3> QED BY <1>2, <1>3, <1>4, <3>1 DEF RestoreInv
  <2> QED BY <2>6, <2>7, <2>8
<1>6. CASE pc # "get"
  <2>1. stored' = stored
    BY <1>6 DEF Exits, Return
  <2>2. \A a : Remembered(a)' <=> Remembered(a)
    BY <1>3, <2>1 DEF Remembered, Mine
  <2>3. CASE pc = "restore"
    <3>1. ToSet(helper.todo) = {}
      BY <1>3 DEF ToSet
    <3>2. \A a \in Attributes : Managed(a) => AsLeft(a)
      BY <1>2, <1>3, <2>3, <3>1 DEF RestoreInv, ToDo
    <3>3. pc' \notin Overclocked
      BY <1>3, <2>3 DEF After, Overclocked
    <3> QED BY <1>2, <1>3, <1>4, <3>2, <3>3 DEF RestoreInv
  <2>4. CASE pc # "restore"
    <3>1. \/ pc \in Untouched /\ pc' \in Untouched
          \/ pc \in Overclocked /\ pc' \in Overclocked
      BY <1>3, <1>6, <2>4 DEF HelperSteps, After, Untouched, Overclocked
    <3> QED BY <1>3, <2>1, <3>1, RestoreStays DEF Exits
  <2> QED BY <2>3, <2>4
<1> QED BY <1>5, <1>6

\* What the user changes, the user has changed it to.
LEMMA ChangeRestores ==
  ASSUME HardwareInv, ClocksInv, RestoreInv, UserChangesCard
  PROVE  RestoreInv'
<1>1. CoreInv /\ HelperInv /\ GpuInv
  BY DEF HardwareInv
<1>2. UNCHANGED <<pc, target, stored, trouble, helper>>
  BY DEF UserChangesCard, fixedVars
<1>3. /\ pc = "off" /\ target # NoGpu /\ target.device \in DOMAIN host.cards
  BY <1>1, CardChange
<1>4. PICK b \in Attributes, v \in Int :
        /\ clocks' = [clocks EXCEPT ![target.device][b] = v]
        /\ due'.clocks = [due.clocks EXCEPT ![target.device][b] = v]
  BY <1>1, CardChange
<1>5. \A a \in Attributes :
        /\ clocks'[target.device][a] = IF a = b THEN v ELSE clocks[target.device][a]
        /\ due'.clocks[target.device][a]
             = IF a = b THEN v ELSE due.clocks[target.device][a]
  BY <1>3, <1>4 DEF ClocksInv, Clock
<1>6. \A a \in Attributes : AsLeft(a) => AsLeft(a)'
  BY <1>2, <1>5 DEF AsLeft, Current, Mine
<1>7. \A a : Managed(a)' <=> Managed(a)
  BY <1>2 DEF Managed
<1> QED BY <1>2, <1>3, <1>6, <1>7 DEF RestoreInv, Untouched, Overclocked

LEMMA NextRestore ==
  HardwareInv /\ ClocksInv /\ WorkInv /\ RestoreInv /\ [Next]_vars => RestoreInv'
<1> SUFFICES ASSUME HardwareInv, ClocksInv, WorkInv, RestoreInv, [Next]_vars
             PROVE  RestoreInv'
  OBVIOUS
<1>1. HelperInv /\ GpuInv
  BY DEF HardwareInv
<1>2. CASE Fails
  <2>1. trouble'
    BY <1>2 DEF Fails
  <2> QED BY <2>1 DEF RestoreInv
<1>3. CASE trouble' = TRUE
  <2>1. trouble'
    BY <1>3
  <2> QED BY <2>1 DEF RestoreInv
<1>4. CASE SetCore \/ Authorised \/ Query \/ QueryPerfLevel
  <2>1. /\ helper # NoHelper /\ pc' = pc
        /\ UNCHANGED <<target, stored, clocks, due>>
    BY <1>1, <1>4, RunningHelper
    DEF SetCore, Authorised, Query, QueryPerfLevel, WorkingOn, Working, fixedVars,
      systemVars, historyVars
  <2>2. ~trouble' => ~trouble
    BY <1>4 DEF SetCore, Authorised, Query, QueryPerfLevel, historyVars
  <2>3. pc \in Untouched \cup Overclocked
    BY <1>1 DEF HelperInv, HelperSteps, Untouched, Overclocked
  <2>4. pc = "restore" => \A a \in Attributes : ToDo(a) => ToDo(a)'
    <3>1. CASE SetCore
      <4>1. pc # "restore"
        BY <1>1, <3>1, <2>1 DEF SetCore, HelperInv, CoreWork
      <4> QED BY <4>1
    <3>2. CASE Authorised
      <4>1. helper'.todo = helper.todo
        BY <1>1, <2>1, <3>2 DEF Authorised, HelperInv, HelperFields
      <4> QED BY <4>1 DEF ToDo
    <3>3. CASE Query
      BY <3>3 DEF Query, WorkingOn
    <3>4. CASE QueryPerfLevel
      <4>1. helper'.todo = Tail(helper.todo)
        BY <1>1, <2>1, <3>4 DEF QueryPerfLevel, Onward, HelperInv, HelperFields
      <4>2. helper.todo # <<>> /\ Head(helper.todo) = "perf"
        BY <3>4 DEF QueryPerfLevel, WorkingOn
      <4>3. ASSUME pc = "restore"
            PROVE  ToSet(helper.todo) = {"perf"} \cup ToSet(helper'.todo)
        BY <1>1, <2>1, <4>1, <4>2, <4>3, NextToDo
      <4> QED BY <4>3 DEF ToDo, Attributes
    <3> QED BY <1>4, <3>1, <3>2, <3>3, <3>4
  <2> QED BY <2>1, <2>2, <2>3, <2>4, RestoreStays
<1>5. CASE UserChangesCore \/ UNCHANGED vars
  <2>1. /\ UNCHANGED <<pc, target, stored, clocks, due.clocks, trouble, helper>>
    BY <1>5 DEF HardwareInv, CoreInv, UserChangesCore, fixedVars, vars, systemVars,
      historyVars
  <2>2. \A a : /\ Managed(a)' <=> Managed(a)
               /\ AsLeft(a)' <=> AsLeft(a)
               /\ Remembered(a)' <=> Remembered(a)
               /\ ToDo(a)' <=> ToDo(a)
    BY <2>1, SameCards DEF ToDo
  <2> QED BY <2>1, <2>2 DEF RestoreInv
<1> QED
  BY <1>1, <1>2, <1>3, <1>4, <1>5, StepOnInfos, StepsStay, SpawnRestores,
    AssignRestores, ExitRestores, ChangeRestores

\* Every step keeps what is known of helpers, cores and cards.
LEMMA NextCard == CardInv /\ [Next]_vars => CardInv'
  BY NextHelper, NextCores, NextGpu, NextClocks, NextWork, NextRestore
  DEF CardInv, HardwareInv

-----------------------------------------------------------------------------
\* Out of game mode the configured card is as the user left it, if no helper
\* ever failed: what game_mode_get_gpu stored is what the card was at, and
\* gpuclockctl has put all of it back by the time that leave is done.
THEOREM CardComesBack == Spec => []GpuRestored
<1>1. Init => CardInv
  BY InitInv, InitCard DEF CardInv
<1>2. CardInv /\ [Next]_vars => CardInv'
  BY NextCard
<1>3. CardInv => GpuRestored
  BY DEF CardInv, RestoreInv, GpuRestored, AsLeft, Mine, Current, Untouched
<1> QED
  BY <1>1, <1>2, <1>3, PTL DEF Spec

-----------------------------------------------------------------------------
(* Types. *)

GpuRecords ==
  [vendor : {"nvidia", "amd", "intel"}, device : Nat, editable : {0, 1},
   core : Int, mem : Int, power : Int, level : Int]
InfoRecords == [mode : {"park", "pin"}, online : SUBSET Cores, keep : SUBSET Cores]

CoresType ==
  /\ options \in host.choices
  /\ info \in {NoInfo} \cup InfoRecords
  /\ online \subseteq Cores /\ due.cores \subseteq Cores /\ lost \subseteq Cores

InfosType ==
  /\ {stored, target} \subseteq {NoGpu} \cup GpuRecords
  /\ Sane(target.vendor, target)

HelperType ==
  helper # NoHelper => /\ helper.stage \in {"user", "asking", "root"}
                       /\ helper.status \in {0, -1}
                       /\ {helper.perf, helper.late} \subseteq BOOLEAN

TypeInv == CoresType /\ InfosType /\ HelperType

\* Of the cores that are online some are kept.
LEMMA KeptAreOnline ==
  ASSUME NEW machine, NEW on, NEW mode, NEW option,
         option.kind \in {"unset", "yes", "no", "list"}
  PROVE  Keep(machine, on, mode, option) \subseteq on
<1>1. Fastest(machine, on) \subseteq on /\ LargestCache(machine, on) \subseteq on
  BY DEF Fastest, LargestCache
<1>2. BestCores(machine, on) \subseteq on
  BY <1>1 DEF BestCores
<1>3. CASE option.kind \in {"unset", "yes"}
  BY <1>2, <1>3 DEF Keep
<1>4. CASE option.kind \in {"no", "list"}
  BY <1>4 DEF Keep
<1> QED BY <1>3, <1>4

LEMMA CpuInfoType ==
  ASSUME NEW h \in Hosts, NEW choice \in h.choices, NEW on \in SUBSET Cores
  PROVE  CpuInfo(h.machine, on, choice) \in {NoInfo} \cup InfoRecords
<1> DEFINE mode == ParkOrPin(choice)
           keep == Keep(h.machine, on, mode,
                        IF mode = "park" THEN choice.park ELSE choice.pin)
<1>1. {choice.park.kind, choice.pin.kind} \subseteq {"unset", "yes", "no", "list"}
  BY HardwareAssumption
<1>2. mode \in {"pin", "park", "none"}
  BY DEF ParkOrPin
<1>3. keep \subseteq Cores
  BY <1>1, KeptAreOnline
<1>4. \/ CpuInfo(h.machine, on, choice) = NoInfo
      \/ /\ mode # "none"
         /\ CpuInfo(h.machine, on, choice) = [mode |-> mode, online |-> on, keep |-> keep]
  BY DEF CpuInfo
<1> HIDE DEF mode, keep
<1> QED BY <1>2, <1>3, <1>4 DEF InfoRecords

\* game_mode_initialise_gpu accepts no value above its limits.
LEMMA GpuInfoType ==
  ASSUME NEW h \in Hosts, NEW gpu, gpu = GpuInfo(h.cards, h.gpu)
  PROVE  gpu \in {NoGpu} \cup GpuRecords /\ Sane(gpu.vendor, gpu)
<1>1. CASE gpu = NoGpu
  BY <1>1 DEF NoGpu, Sane
<1>2. CASE gpu # NoGpu
  <2>1. PICK n \in Nat : DOMAIN h.cards = 0 .. n - 1
    BY CardsAreCounted
  <2>2. /\ h.gpu.device \in DOMAIN h.cards /\ h.cards[h.gpu.device] # "none"
        /\ Sane(h.cards[h.gpu.device], h.gpu)
        /\ gpu = [vendor |-> h.cards[h.gpu.device], device |-> h.gpu.device,
                  editable |-> h.gpu.editable, core |-> h.gpu.core,
                  mem |-> h.gpu.mem, power |-> h.gpu.power, level |-> h.gpu.level]
    BY <1>2 DEF GpuInfo
  <2>3. /\ h.cards[h.gpu.device] \in {"nvidia", "amd", "intel"}
        /\ h.gpu.editable \in {0, 1}
        /\ {h.gpu.core, h.gpu.mem, h.gpu.power, h.gpu.level} \subseteq Int
    BY <2>2, HardwareAssumption
  <2>4. h.gpu.device \in Nat
    BY <2>1, <2>2
  <2>5. gpu \in GpuRecords
    BY <2>2, <2>3, <2>4 DEF GpuRecords
  <2>6. Sane(gpu.vendor, gpu)
    BY <2>2 DEF Sane
  <2> QED BY <2>5, <2>6
<1> QED BY <1>1, <1>2

LEMMA InitTypes == Init => TypeInv
<1> SUFFICES ASSUME Init PROVE TypeInv
  OBVIOUS
<1>1. /\ host \in Hosts /\ options \in host.choices /\ online = Cores
      /\ info = CpuInfo(host.machine, online, options) /\ due.cores = online
      /\ target = GpuInfo(host.cards, host.gpu) /\ stored = target
      /\ lost = {} /\ helper = NoHelper
  BY DEF Init
<1>2. CoresType
  BY <1>1, CpuInfoType DEF CoresType
<1>3. InfosType
  BY <1>1, GpuInfoType DEF InfosType
<1> QED BY <1>1, <1>2, <1>3 DEF TypeInv, HelperType

\* What the helper printed is of the type of the options it replaces.
LEMMA ParsedType ==
  ASSUME NEW gpu \in GpuRecords, NEW output \in Seq(Int),
         output # <<>> =>
           /\ gpu.vendor = "nvidia" => Len(output) >= IF gpu.editable = 1 THEN 3 ELSE 2
           /\ gpu.vendor = "amd" => Len(output) >= 1
  PROVE  Parsed(gpu, output) \in GpuRecords
<1>1. \A i \in 1..Len(output) : output[i] \in Int
  OBVIOUS
<1>2. Len(output) \in Nat
  OBVIOUS
<1>3. CASE gpu.vendor = "nvidia" /\ output # <<>>
  <2> DEFINE power == IF gpu.editable = 1 THEN output[3] ELSE 0
  <2>1. output[1] \in Int /\ output[2] \in Int /\ power \in Int
    BY <1>1, <1>2, <1>3
  <2>2. Parsed(gpu, output)
          = [gpu EXCEPT !.core = output[1], !.mem = output[2], !.power = power]
    BY <1>3 DEF Parsed
  <2> HIDE DEF power
  <2> QED BY <2>1, <2>2 DEF GpuRecords
<1>4. CASE gpu.vendor = "amd"
  <2> DEFINE level == IF output = <<>> THEN Empty ELSE output[1]
  <2>1. level \in Int
    BY <1>1, <1>2, <1>4 DEF Empty
  <2>2. Parsed(gpu, output) = [gpu EXCEPT !.level = level]
    BY <1>4 DEF Parsed
  <2> HIDE DEF level
  <2> QED BY <2>1, <2>2 DEF GpuRecords
<1>5. CASE gpu.vendor # "amd" /\ ~(gpu.vendor = "nvidia" /\ output # <<>>)
  BY <1>5 DEF Parsed
<1> QED BY <1>3, <1>4, <1>5

LEMMA InfosAfterReturn ==
  ASSUME GpuInv, InfosType, NEW ret, NEW output \in Seq(Int),
         pc = "get" => Needed(pc), Return(ret, output),
         pc = "get" /\ ret = 0 /\ output # <<>> =>
           /\ stored.vendor = "nvidia" =>
                Len(output) >= IF stored.editable = 1 THEN 3 ELSE 2
           /\ stored.vendor = "amd" => Len(output) >= 1
  PROVE  InfosType'
<1>1. target' = target
      /\ stored' = IF pc = "get" /\ ret = 0 THEN Parsed(stored, output) ELSE stored
  BY DEF Return, fixedVars
<1>2. CASE pc = "get" /\ ret = 0
  <2>1. stored \in GpuRecords
    BY <1>2 DEF Needed, Gpu, InfosType
  <2>2. stored' \in GpuRecords
    BY <1>1, <1>2, <2>1, ParsedType
  <2> QED BY <1>1, <2>2 DEF InfosType
<1>3. CASE ~(pc = "get" /\ ret = 0)
  BY <1>1, <1>3 DEF InfosType
<1> QED BY <1>2, <1>3

LEMMA NextInfos == CardInv /\ InfosType /\ [Next]_vars => InfosType'
<1> SUFFICES ASSUME CardInv, InfosType, [Next]_vars PROVE InfosType'
  OBVIOUS
<1>1. HardwareInv /\ HelperInv /\ GpuInv /\ ClocksInv /\ WorkInv
  BY DEF CardInv, HardwareInv
<1>2. CASE UNCHANGED <<target, stored>>
  BY <1>2 DEF InfosType
<1>3. CASE Fails
  <2>1. <<>> \in Seq(Int)
    OBVIOUS
  <2> QED BY <1>1, <1>3, <2>1, InfosAfterReturn DEF Fails
<1>4. CASE Exits
  <2>1. PICK output \in Seq(Int) :
          /\ Return(helper.status, output)
          /\ pc = "get" /\ helper.status = 0 /\ output # <<>> =>
               /\ stored.vendor = "nvidia" =>
                    Len(output) >= IF stored.editable = 1 THEN 3 ELSE 2
               /\ stored.vendor = "amd" => Len(output) >= 1
    BY <1>1, <1>4, ExitOutput
  <2>2. Needed(pc)
    BY <1>1, <1>4, RunningHelper DEF Exits, HelperInv
  <2> QED BY <1>1, <2>1, <2>2, InfosAfterReturn
<1>5. CASE Assign \/ UserChangesCard
  BY <1>5 DEF InfosType, Assign, WorkingOn, Working, UserChangesCard, fixedVars
<1> QED BY <1>1, <1>2, <1>3, <1>4, <1>5, StepOnInfos

\* Cores are changed by the helper and by the user, one that is there.
LEMMA NextCoresType ==
  HardwareInv /\ CoresType /\ [Next]_vars => CoresType'
<1> SUFFICES ASSUME HardwareInv, CoresType, [Next]_vars PROVE CoresType'
  OBVIOUS
<1>1. HelperInv /\ host \in Hosts /\ DOMAIN due = {"cores", "clocks"}
  BY DEF HardwareInv, GpuInv, CoreInv
<1>2. Parked(info) \subseteq Cores
  BY DEF CoresType, Parked, NoInfo, InfoRecords
<1>3. host' = host
  BY DEF Next, HelperStep, Enter, Leave, Reload, Initialise, Skip, Spawn, CannotSpawn,
    Authorised, NotAuthorised, Dies, TimedOut, Exits, SetCore, QueryPerfLevel, Query,
    Assign, UserChangesCore, UserChangesCard, WorkingOn, Working, Return, vars, fixedVars
<1>4. CASE Initialise
  <2>1. /\ options' \in host.choices /\ UNCHANGED <<online, due, lost>>
        /\ info' = CpuInfo(host.machine, online, options')
    BY <1>4 DEF Initialise, systemVars, historyVars
  <2>2. info' \in {NoInfo} \cup InfoRecords
    BY <1>1, <2>1, CpuInfoType DEF CoresType
  <2> QED BY <1>3, <2>1, <2>2 DEF CoresType
<1>5. CASE SetCore
  <2>1. PICK c \in helper.cores : online' \in {online, online \ {c}, online \cup {c}}
    BY <1>5 DEF SetCore
  <2>2. helper.cores \subseteq Parked(info)
    BY <1>1, <1>5, RunningHelper DEF SetCore, Working, HelperInv, CoreWork
  <2>3. UNCHANGED <<options, info, due, lost>>
    BY <1>5 DEF SetCore, Working
  <2> QED BY <1>2, <1>3, <2>1, <2>2, <2>3 DEF CoresType
<1>6. CASE UserChangesCore
  <2>1. PICK c \in Volatile :
          /\ online' \in {online \ {c}, online \cup {c}}
          /\ due'.cores \in {due.cores \ {c}, due.cores \cup {c}}
    BY <1>1, <1>6 DEF UserChangesCore
  <2>2. c \in Cores
    BY HardwareAssumption
  <2>3. UNCHANGED <<options, info, lost>>
    BY <1>6 DEF UserChangesCore
  <2> QED BY <1>3, <2>1, <2>2, <2>3 DEF CoresType
<1>7. CASE /\ UNCHANGED <<options, info, online, due.cores>>
           /\ lost' \in {lost, lost \cup (Parked(info) \ online)}
  BY <1>2, <1>3, <1>7 DEF CoresType
<1>8. ASSUME NEW ret, NEW output, Return(ret, output), online' = online PROVE CoresType'
  BY <1>7, <1>8 DEF Return
<1>9. CASE CannotSpawn \/ NotAuthorised \/ Dies \/ Exits
  BY <1>8, <1>9 DEF CannotSpawn, NotAuthorised, Dies, Exits, systemVars
<1>10. CASE TimedOut
  BY <1>7, <1>8, <1>10 DEF TimedOut, systemVars
<1>11. CASE Enter \/ Leave \/ Reload \/ Skip \/ Spawn \/ Authorised \/ UNCHANGED vars
  BY <1>7, <1>11 DEF Enter, Leave, Reload, Skip, Spawn, Authorised, vars, systemVars,
    historyVars
<1>12. CASE QueryPerfLevel \/ Query \/ Assign
  BY <1>7, <1>12 DEF QueryPerfLevel, Query, Assign, WorkingOn, Working, systemVars
<1>13. CASE UserChangesCard
  <2>1. due'.cores = due.cores /\ UNCHANGED <<options, info, online, lost>>
    BY <1>1, <1>13 DEF UserChangesCard
  <2> QED BY <1>7, <2>1
<1> QED
  BY <1>4, <1>5, <1>6, <1>9, <1>10, <1>11, <1>12, <1>13 DEF Next, HelperStep

\* A helper goes on, ends, or has not begun.
LEMMA NextHelperType == HelperInv /\ HelperType /\ [Next]_vars => HelperType'
<1> SUFFICES ASSUME HelperInv, HelperType, [Next]_vars PROVE HelperType'
  OBVIOUS
<1>1. helper.running => helper # NoHelper /\ DOMAIN helper = HelperFields
  BY RunningHelper DEF HelperInv
<1>2. helper.running => /\ helper.stage \in {"user", "asking", "root"}
                        /\ helper.status \in {0, -1}
                        /\ {helper.perf, helper.late} \subseteq BOOLEAN
  BY <1>1 DEF HelperType
<1>3. CASE helper' = helper \/ helper' = NoHelper
  BY <1>3 DEF HelperType
<1>4. CASE Spawn
  BY <1>4 DEF Spawn, FirstStatus, HelperType
<1>5. CASE helper.running /\ helper' = [helper EXCEPT !.stage = "root"]
  BY <1>1, <1>2, <1>5 DEF HelperType, HelperFields
<1>6. CASE helper.running /\ helper' = [helper EXCEPT !.late = TRUE]
  BY <1>1, <1>2, <1>6 DEF HelperType, HelperFields
<1>7. CASE SetCore
  BY <1>1, <1>2, <1>7 DEF SetCore, Working, HelperType, HelperFields
<1>8. CASE QueryPerfLevel \/ Query \/ Assign
  <2>1. helper.running
    BY <1>8 DEF QueryPerfLevel, Query, Assign, WorkingOn, Working
  <2>2. CASE QueryPerfLevel
    BY <1>1, <1>2, <2>1, <2>2 DEF QueryPerfLevel, Onward, HelperType, HelperFields
  <2>3. CASE Query
    <3>1. \/ \E v : Onward([helper EXCEPT !.read = Append(@, v)])
          \/ helper' = [helper EXCEPT !.todo = <<>>, !.status = -1]
      BY <2>3 DEF Query
    <3> QED
      BY <1>1, <1>2, <2>1, <3>1 DEF Onward, HelperType, HelperFields
  <2>4. CASE Assign
    <3>1. \/ Onward(helper)
          \/ \E status \in {helper.status, -1} : Onward([helper EXCEPT !.status = status])
      BY <2>4 DEF Assign
    <3> QED
      BY <1>1, <1>2, <2>1, <3>1 DEF Onward, HelperType, HelperFields
  <2> QED BY <1>8, <2>2, <2>3, <2>4
<1>9. CASE CannotSpawn \/ NotAuthorised \/ Dies \/ Exits \/ TimedOut
  BY <1>3, <1>6, <1>9 DEF CannotSpawn, NotAuthorised, Dies, Exits, TimedOut, Return
<1>10. CASE \/ Enter \/ Leave \/ Reload \/ Initialise \/ Skip
            \/ UserChangesCore \/ UserChangesCard \/ UNCHANGED vars
  BY <1>3, <1>10 DEF Enter, Leave, Reload, Initialise, Skip, UserChangesCore,
    UserChangesCard, vars
<1>11. CASE Authorised
  BY <1>5, <1>11 DEF Authorised
<1> QED
  BY <1>4, <1>7, <1>8, <1>9, <1>10, <1>11 DEF Next, HelperStep

\* The type invariant.  Nothing above the limits of game_mode_initialise_gpu
\* is ever asked of an NVIDIA card, and no "manual" of an AMD card, and no
\* core is kept or parked that the machine does not have.
THEOREM TypeCorrectness == Spec => []TypeOK
<1>1. Init => CardInv /\ TypeInv
  BY InitInv, InitCard, InitTypes DEF CardInv
<1>2. CardInv /\ TypeInv /\ [Next]_vars => (CardInv /\ TypeInv)'
  BY NextCard, NextCoresType, NextInfos, NextHelperType DEF TypeInv, CardInv, HardwareInv
<1>3. CardInv /\ TypeInv => TypeOK
  <2> SUFFICES ASSUME CardInv, TypeInv PROVE TypeOK
    OBVIOUS
  <2>1. /\ HelperInv /\ ClocksInv /\ CoresType /\ InfosType /\ HelperType
    BY DEF CardInv, HardwareInv, TypeInv
  <2>2. /\ {stored, target} \subseteq GpuType
        /\ target.vendor = "nvidia" => target.core <= CoreLimit /\ target.mem <= MemLimit
        /\ target.vendor = "amd" => target.level # Manual
    BY <2>1 DEF InfosType, GpuRecords, GpuType, Sane
  <2>3. helper.running => helper # NoHelper /\ helper.cores \subseteq Parked(info)
    BY <2>1, RunningHelper DEF HelperInv, CoreWork
  <2>4. clocks \in [DOMAIN host.cards -> [Attributes -> Int]] /\ trouble \in BOOLEAN
    BY <2>1 DEF ClocksInv, Clock
  <2> QED
    BY <2>1, <2>2, <2>3, <2>4 DEF TypeOK, HelperInv, CoresType, InfoRecords, HelperType
<1> QED
  BY <1>1, <1>2, <1>3, PTL DEF Spec

=============================================================================
