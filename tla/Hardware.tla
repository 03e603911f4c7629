------------------------------ MODULE Hardware ------------------------------
(***************************************************************************)
(* Core parking and GPU clocks: what game_mode_context_enter,              *)
(* game_mode_context_leave and a reload of the configuration               *)
(* (daemon/gamemode-context.c) do through the helpers cpucorectl and       *)
(* gpuclockctl, one step of a helper at a time.  A helper is a child of    *)
(* run_external_process (common/common-external.c); pkexec may keep it     *)
(* waiting for a password, and it runs as root afterwards.  Which cores    *)
(* and which card is for CpuCores and GpuClocks to say.                    *)
(***************************************************************************)
EXTENDS CpuCores, GpuClocks

CONSTANTS
  Cores,       \* the cores of the machine
  Hosts,       \* what the kernel says of the cores, the cards, the options
               \* of the GPU, and the choices of park_cores and pin_cores
  Volatile,    \* cores the user takes away and brings back
  Clocks       \* what the user may set an attribute of the card to

ASSUME HardwareAssumption ==
  /\ Cores \in SUBSET Nat /\ 0 \in Cores
  /\ \A h \in Hosts :
       /\ h.machine \in [cache : [Cores -> Int], freq : [Cores -> Int],
                         pcores : SUBSET Cores]
       /\ IsFiniteSet(DOMAIN h.cards)
       /\ DOMAIN h.cards = 0 .. Cardinality(DOMAIN h.cards) - 1
       /\ \A d \in DOMAIN h.cards : h.cards[d] \in {"nvidia", "amd", "intel", "none"}
       /\ h.gpu.editable \in {0, 1}
       /\ {h.gpu.core, h.gpu.mem, h.gpu.power, h.gpu.level} \subseteq Int
       /\ \A choice \in h.choices :
            {choice.park.kind, choice.pin.kind} \subseteq {"unset", "yes", "no", "list"}
  /\ Volatile \subseteq Cores \ {0}
  /\ Clocks \subseteq Int

VARIABLES
  pc,        \* "off", "on", or what enter, leave or reload is at
  reloading, \* "no", or was game mode "off" or "on" when the reload began?
  host,      \* the machine
  options,   \* the configured park_cores and pin_cores
  info,      \* self->cpu
  stored,    \* self->stored_gpu
  target,    \* self->target_gpu
  online,    \* cores that are online
  clocks,    \* the attributes of each card
  helper,    \* the helper that runs, if any
  due,       \* what the user left the cores and cards at (history only)
  lost,      \* cores that reload failed to unpark (history only)
  trouble    \* has any helper ever failed? (history only)

fixedVars == <<host, target>>
systemVars == <<online, clocks>>
historyVars == <<due, lost, trouble>>
vars == <<pc, reloading, fixedVars, options, info, stored, systemVars, helper,
          historyVars>>

NoHelper == [running |-> FALSE]

\* MISTAKE for After: leave is done when there is no GPU to put back.
AfterEarly(step) ==
  CASE step = "get"     -> "apply"
    [] step = "apply"   -> "park"
    [] step = "park"    -> "on"
    [] step = "restore" -> IF stored = NoGpu /\ reloading = "no" THEN "off"
                                                                 ELSE "unpark"
    [] step = "unpark"  -> IF reloading = "no" THEN "off" ELSE "unpark again"
    [] step = "unpark again" -> "initialise"

\* The steps of enter, of leave and of reload, and what comes next.
After(step) ==
  CASE step = "get"     -> "apply"
    [] step = "apply"   -> "park"
    [] step = "park"    -> "on"
    [] step = "restore" -> "unpark"
    [] step = "unpark"  -> IF reloading = "no" THEN "off" ELSE "unpark again"
    [] step = "unpark again" -> "initialise"

HelperSteps == {"get", "apply", "park", "restore", "unpark", "unpark again"}

\* The GPU info that a step uses.
Gpu(step) == IF step = "apply" THEN target ELSE stored

\* A null pointer, or an info for pinning, makes a step return at once.
Needed(step) ==
  IF step \in {"get", "apply", "restore"} THEN Gpu(step) # NoGpu
                                          ELSE info.mode = "park"

\* The attributes gpuclockctl is to read or set, and the cores in the list
\* for cpucorectl.
Work(step) ==
  CASE step = "get"                  -> Queries(stored)
    [] step \in {"apply", "restore"} -> Assignments(Gpu(step))
    [] OTHER                         -> <<>>
CoreWork(step) ==
  IF step \in {"get", "apply", "restore"} THEN {} ELSE Parked(info)

\* The exit status gpuclockctl has if nothing fails: it does not set an Intel
\* card.
FirstStatus(step) ==
  IF step \in {"apply", "restore"} /\ Gpu(step).vendor = "intel" THEN -1 ELSE 0

-----------------------------------------------------------------------------
(* run_external_process *)

\* It returns ret with output in the buffer, and the step is over.  Only
\* game_mode_get_gpu looks at either.
Return(ret, output) ==
  /\ helper' = NoHelper
  /\ pc' = After(pc)
  /\ stored' = IF pc = "get" /\ ret = 0 THEN Parsed(stored, output) ELSE stored
  /\ lost' = IF pc = "unpark again" THEN lost \cup (Parked(info) \ online)
                                    ELSE lost
  /\ UNCHANGED <<reloading, fixedVars, options, info, due>>

Skip ==
  /\ pc \in HelperSteps /\ ~helper.running /\ ~Needed(pc)
  /\ pc' = After(pc)
  /\ UNCHANGED <<reloading, fixedVars, options, info, stored, systemVars, helper,
                 historyVars>>

\* pkexec comes first, but not for "gpuclockctl get".
Spawn ==
  /\ pc \in HelperSteps /\ ~helper.running /\ Needed(pc)
  /\ helper' = [running |-> TRUE, todo |-> Work(pc), cores |-> CoreWork(pc),
                status |-> FirstStatus(pc),
                stage |-> IF pc = "get" THEN "user" ELSE "asking",
                perf |-> FALSE, read |-> <<>>, late |-> FALSE]
  /\ UNCHANGED <<pc, reloading, fixedVars, options, info, stored, systemVars,
                 historyVars>>

\* There is no pipe, or no child; a failed fork counts as success.
CannotSpawn ==
  /\ pc \in HelperSteps /\ ~helper.running /\ Needed(pc)
  /\ \E ret \in {0, -1} : Return(ret, <<>>)
  /\ trouble' = TRUE
  /\ UNCHANGED systemVars

Authorised ==
  /\ helper.running /\ helper.stage = "asking"
  /\ helper' = [helper EXCEPT !.stage = "root"]
  /\ UNCHANGED <<pc, reloading, fixedVars, options, info, stored, systemVars,
                 historyVars>>

NotAuthorised ==
  /\ helper.running /\ helper.stage = "asking"
  /\ Return(-1, <<>>)
  /\ trouble' = TRUE
  /\ UNCHANGED systemVars

\* MISTAKE for TimedOut: the child is waited for without being killed.
TimedOutWaits ==
  /\ helper.running /\ ~helper.late
  /\ trouble' = TRUE
  /\ helper' = [helper EXCEPT !.late = TRUE]
  /\ UNCHANGED <<pc, stored, lost, reloading, fixedVars, options, info, due>>
  /\ UNCHANGED systemVars

\* Nothing more to read for five seconds: the output is thrown away and the
\* child killed.  A child that is root already cannot be killed by the
\* daemon; waitpid then waits for it.
TimedOut ==
  /\ helper.running /\ ~helper.late
  /\ trouble' = TRUE
  /\ IF helper.stage = "root"
       THEN /\ helper' = [helper EXCEPT !.late = TRUE]
            /\ UNCHANGED <<pc, stored, lost, reloading, fixedVars, options, info,
                           due>>
       ELSE Return(0, <<>>)
  /\ UNCHANGED systemVars

\* The child is killed by somebody else, or crashes: "exited abnormally" is
\* logged, and the answer is 0.
Dies ==
  /\ helper.running
  /\ Return(0, <<>>)
  /\ trouble' = TRUE
  /\ UNCHANGED systemVars

\* The child has done its work and exits.
Exits ==
  /\ helper.running /\ helper.stage # "asking"
  /\ helper.todo = <<>> /\ helper.cores = {}
  /\ Return(helper.status,
            IF helper.late \/ helper.status # 0 THEN <<>> ELSE helper.read)
  /\ UNCHANGED <<systemVars, trouble>>

-----------------------------------------------------------------------------
(* The work of the helpers.  An operation is done, or it fails, or it      *)
(* seems done but is not: the kernel refuses the value when the file is    *)
(* closed, or a child of gpuclockctl is killed at its own time limit.      *)

Working ==
  /\ helper.running /\ helper.stage # "asking"
  /\ UNCHANGED <<pc, reloading, fixedVars, options, info, stored, due, lost>>

\* set_state of cpucorectl for the next core.  A core that cannot be parked
\* ends it, unless it is core 0; the exit status is 0 all the same.
SetCore ==
  /\ Working
  /\ \E c \in helper.cores :
       /\ \A d \in helper.cores : c <= d
       /\ \/ /\ online' = IF pc = "park" THEN online \ {c} ELSE online \cup {c}
             /\ helper' = [helper EXCEPT !.cores = @ \ {c}]
             /\ UNCHANGED trouble
          \/ /\ UNCHANGED online
             /\ trouble' = (trouble \/ c # 0 \/ pc # "park")
             /\ helper' = [helper EXCEPT !.cores = @ \ {c}]
          \/ /\ pc = "park" /\ c # 0
             /\ helper' = [helper EXCEPT !.cores = {}]
             /\ trouble' = TRUE
             /\ UNCHANGED online
  /\ UNCHANGED clocks

\* gpuclockctl is at this attribute.
WorkingOn(steps, attributes) ==
  /\ Working
  /\ pc \in steps /\ helper.todo # <<>> /\ Head(helper.todo) \in attributes

Onward(h) == helper' = [h EXCEPT !.todo = Tail(@)]

\* get_max_perf_level_nv.  Without the level, the offsets of that level can
\* be neither read nor set.
QueryPerfLevel ==
  /\ WorkingOn({"get", "apply", "restore"}, {"perf"})
  /\ \E found \in BOOLEAN :
       /\ Onward([helper EXCEPT !.perf = found])
       /\ trouble' = (trouble \/ ~found)
  /\ UNCHANGED systemVars

Reachable(gpu, attribute) ==
  attribute \in {"core", "mem"} /\ gpu.editable = 1 => helper.perf

\* get_nv_attr for one attribute, or the read of get_gpu_state_amd; if no
\* child can be forked, what the last one printed is read again.
Query ==
  /\ WorkingOn({"get"}, Attributes)
  /\ LET a == Head(helper.todo)
         Read(v) == Onward([helper EXCEPT !.read = Append(@, v)])
     IN \/ /\ Reachable(stored, a)
           /\ Read(clocks[CardOf(host.cards, stored)][a])
           /\ UNCHANGED trouble
        \/ /\ stored.vendor = "nvidia" /\ helper.read # <<>>
           /\ Read(Last(helper.read))
           /\ trouble' = TRUE
        \/ /\ helper' = [helper EXCEPT !.todo = <<>>, !.status = -1]
           /\ trouble' = TRUE
  /\ UNCHANGED systemVars

\* set_nv_attr for one attribute, or set_gpu_state_amd_file.  A failure does
\* not keep the others from being set.
Assign ==
  /\ WorkingOn({"apply", "restore"}, Attributes)
  /\ LET a == Head(helper.todo)
         gpu == Gpu(pc)
     IN \/ /\ Reachable(gpu, a)
           /\ clocks' = [clocks EXCEPT ![CardOf(host.cards, gpu)][a] = gpu[a]]
           /\ Onward(helper)
           /\ UNCHANGED trouble
        \/ /\ \E status \in {helper.status, -1} :
                /\ gpu.vendor = "amd" => status = -1
                /\ Onward([helper EXCEPT !.status = status])
           /\ trouble' = TRUE
           /\ UNCHANGED clocks
  /\ UNCHANGED online

-----------------------------------------------------------------------------
(* The context. *)

\* MISTAKE for Enter: the GPU is not read, but what game_mode_context_init
\* made of the configuration counts as its state.
EnterUnread ==
  /\ pc = "off" /\ pc' = "apply"
  /\ UNCHANGED <<reloading, fixedVars, options, info, stored, systemVars, helper,
                 historyVars>>

\* game_mode_context_enter reads the GPU, sets it and parks the cores.
Enter ==
  /\ pc = "off" /\ pc' = "get"
  /\ UNCHANGED <<reloading, fixedVars, options, info, stored, systemVars, helper,
                 historyVars>>

\* game_mode_context_leave puts the GPU back and unparks the cores.
Leave ==
  /\ pc = "on" /\ pc' = "restore"
  /\ UNCHANGED <<reloading, fixedVars, options, info, stored, systemVars, helper,
                 historyVars>>

\* MISTAKE for Reload: leave has unparked the cores, nothing else may have to.
ReloadUnparksOnce ==
  /\ pc \in {"off", "on"}
  /\ reloading' = pc
  /\ pc' = IF pc = "on" THEN "restore" ELSE "initialise"
  /\ UNCHANGED <<fixedVars, options, info, stored, systemVars, helper,
                 historyVars>>

\* game_mode_reload_config_internal leaves game mode if it is on, reads the
\* configuration, and game_mode_reconfig_cpu unparks the cores of the old
\* info, whether or not leave has done so.
Reload ==
  /\ pc \in {"off", "on"}
  /\ reloading' = pc
  /\ pc' = IF pc = "on" THEN "restore" ELSE "unpark again"
  /\ UNCHANGED <<fixedVars, options, info, stored, systemVars, helper,
                 historyVars>>

\* game_mode_reconfig_cpu looks at the cores again, with the new options, and
\* game mode is entered again.  The GPU's options are never read again.
Initialise ==
  /\ pc = "initialise"
  /\ options' \in host.choices
  /\ info' = CpuInfo(host.machine, online, options')
  /\ pc' = IF reloading = "on" THEN "get" ELSE "off"
  /\ reloading' = "no"
  /\ UNCHANGED <<fixedVars, stored, systemVars, helper, historyVars>>

\* The user changes a core, or the card in question, while game mode is off.
\* The kernel always has a performance level to tell.
UserChangesCore ==
  /\ pc = "off"
  /\ \E c \in Volatile :
       LET Flip(cores) == IF c \in online THEN cores \ {c} ELSE cores \cup {c}
       IN /\ online' = Flip(online)
          /\ due' = [due EXCEPT !.cores = Flip(@)]
  /\ UNCHANGED <<pc, reloading, fixedVars, options, info, stored, clocks, helper,
                 lost, trouble>>

UserChangesCard ==
  /\ pc = "off" /\ target # NoGpu
  /\ \E v \in Clocks, a \in IF target.vendor = "nvidia" THEN {"core"} ELSE {"level"} :
       /\ a = "level" => v # Empty
       /\ clocks' = [clocks EXCEPT ![target.device][a] = v]
       /\ due' = [due EXCEPT !.clocks = [@ EXCEPT ![target.device][a] = v]]
  /\ UNCHANGED <<pc, reloading, fixedVars, options, info, stored, online, helper,
                 lost, trouble>>

\* game_mode_context_init.
Init ==
  /\ pc = "off" /\ reloading = "no" /\ helper = NoHelper
  /\ host \in Hosts /\ options \in host.choices
  /\ online = Cores
  /\ info = CpuInfo(host.machine, online, options)
  /\ target = GpuInfo(host.cards, host.gpu)
  /\ stored = target
  /\ clocks = [d \in DOMAIN host.cards |-> [a \in Attributes |-> 1]]
  /\ due = [cores |-> online, clocks |-> clocks]
  /\ lost = {} /\ trouble = FALSE

HelperStep ==
  \/ Authorised \/ NotAuthorised \/ Dies \/ TimedOut
  \/ Exits \/ SetCore \/ QueryPerfLevel \/ Query \/ Assign

Next ==
  \/ Enter \/ Leave \/ Reload \/ Initialise \/ Skip \/ Spawn \/ CannotSpawn
  \/ HelperStep
  \/ UserChangesCore \/ UserChangesCard

\* Only what happens by itself is fair: time passes, and a helper that may
\* work does.  Nobody has to type a password.
Spec ==
  /\ Init /\ [][Next]_vars
  /\ WF_vars(TimedOut)
  /\ WF_vars(Exits \/ SetCore \/ QueryPerfLevel \/ Query \/ Assign)

-----------------------------------------------------------------------------
(* Properties *)

GpuType ==
  {NoGpu} \cup [vendor : {"nvidia", "amd", "intel"}, device : Nat,
                editable : {0, 1}, core : Int, mem : Int, power : Int,
                level : Int]

\* The type invariant.  Nothing above the limits of game_mode_initialise_gpu
\* is ever asked of an NVIDIA card, and no "manual" of an AMD card.
TypeOK ==
  /\ pc \in HelperSteps \cup {"off", "on", "initialise"}
  /\ reloading \in {"no", "off", "on"}
  /\ options \in host.choices
  /\ info \in {NoInfo} \cup [mode : {"park", "pin"}, online : SUBSET Cores,
                             keep : SUBSET Cores]
  /\ {stored, target} \subseteq GpuType
  /\ target.vendor = "nvidia" => target.core <= CoreLimit /\ target.mem <= MemLimit
  /\ target.vendor = "amd" => target.level # Manual
  /\ online \subseteq Cores /\ due.cores \subseteq Cores /\ lost \subseteq Cores
  /\ clocks \in [DOMAIN host.cards -> [Attributes -> Int]]
  /\ helper.running => /\ helper.cores \subseteq Parked(info)
                       /\ helper.stage \in {"user", "asking", "root"}
                       /\ helper.status \in {0, -1}
                       /\ {helper.perf, helper.late} \subseteq BOOLEAN
  /\ trouble \in BOOLEAN

\* Out of game mode every core the user has online is online again, if no
\* helper ever failed (unpark in game_mode_context_leave, and in
\* game_mode_reconfig_cpu before the cores are read anew).
CoresRestored == pc = "off" /\ ~trouble => due.cores \subseteq online

\* Whatever fails, a core that is missing is one that the next unpark asks
\* for.  The daemon forgets only those that game_mode_reconfig_cpu itself
\* could not unpark: it reads the list of online cores after that.
MissingAreRemembered ==
  due.cores \ online \subseteq Parked(info) \cup lost

\* Out of game mode the configured card is as the user left it, if no helper
\* ever failed.  An offset of -1 cannot be put back: set_gpu_state_nv takes
\* it for "do not set".
GpuRestored ==
  pc = "off" /\ ~trouble /\ target # NoGpu =>
    \A a \in Attributes :
      LET mine == due.clocks[target.device][a]
      IN mine # DontSet => clocks[target.device][a] = mine

\* A helper never touches a card other than gpu_device, though
\* nvidia-settings counts the cards differently (get_gpu_index_id_nv).
OtherCardsUntouched ==
  [][helper.running =>
       \A d \in DOMAIN clocks :
         clocks'[d] # clocks[d] => target # NoGpu /\ d = target.device]_vars

\* The daemon, which holds its write lock meanwhile, is never kept waiting by
\* a helper for ever, even if nobody answers pkexec (the time limit of
\* run_external_process).
HelperReturns == helper.running ~> ~helper.running

=============================================================================
