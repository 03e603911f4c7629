---------------------------- MODULE Optimisations ----------------------------
(***************************************************************************)
(* What game_mode_context_enter and game_mode_context_leave do to the      *)
(* system (daemon/gamemode-context.c): the CPU governor, the platform      *)
(* profile, split lock mitigation, the X3D mode and the GPU are read,      *)
(* changed and put back by helper programs, any of which may fail, and the *)
(* screensaver is inhibited.  GameModeContext shows that the two functions *)
(* alternate and never overlap; here they are taken apart, one step per    *)
(* setting.                                                                *)
(***************************************************************************)
EXTENDS Integers, TLC

CONSTANTS
  Values,      \* values of settings
  Choices,     \* the values the user gives each setting
  Configs,     \* the configurations
  HasProfile,  \* profile_exists()
  HasGpu       \* are GPU optimisations configured?

\* Settings whose current level the context remembers.
Tracked == {"governor", "profile"}
Settings == Tracked \cup {"splitlock", "x3d", "gpu"}
Levels == {"default", "desired", "igpu"}

Unset == ""
Absent == "-1"

\* Values that only GameMode gives a setting.
Own == {"performance", "powersave", "target"}

\* What the user chooses, now or as a configured default, is told apart from
\* what GameMode sets.
ASSUME OptimisationsAssumption ==
  /\ Own \cup {Unset, Absent} \subseteq Values
  /\ Choices \in [Settings -> SUBSET (Values \ Own)]
  /\ Configs \subseteq [default : [Tracked -> Values \ Own], splitlock : BOOLEAN,
                        inhibit : BOOLEAN, x3dDesired : Values,
                        x3dDefault : Values]
  /\ {HasProfile, HasGpu} \subseteq BOOLEAN

VARIABLES
  pc,           \* "off", "on", or the setting that enter or leave is at
  config,       \* self->config
  system,       \* the value of each setting
  initial,      \* self->initial_*: what enter found, to be put back
  current,      \* self->current_govenor and self->current_profile
  stored,       \* self->stored_gpu
  igpu,         \* self->igpu_optimization_enabled
  inhibitor,    \* is self->idle_inhibitor set?
  inhibitions,  \* what the screensaver service has been asked for
  due,          \* what each setting has to be out of game mode (history only)
  trouble       \* the worst of the helpers so far: "none", "refused" or
                \* "silent" (history only)

helperVars == <<system, trouble>>
screenVars == <<inhibitor, inhibitions>>
vars == <<pc, config, system, initial, current, stored, igpu, inhibitor,
          inhibitions, due, trouble>>

At(from, to) == pc = from /\ pc' = to

-----------------------------------------------------------------------------
(* Helper programs. *)

Refused == trouble' = IF trouble = "none" THEN "refused" ELSE trouble

\* run_external_process: the helper sets s to v and exits with 0; or it is
\* refused (no permission, no such program) and the answer is -1; or nothing
\* happens and the answer is 0 all the same: fork failed, the helper was
\* killed at its time limit, or the kernel rejected the value when the
\* helper closed the file.
Run(s, v, ret) ==
  \/ /\ ret = 0
     /\ system' = [system EXCEPT ![s] = v]
     /\ UNCHANGED trouble
  \/ /\ ret = 0
     /\ trouble' = "silent"
     /\ UNCHANGED system
  \/ /\ ret = -1
     /\ Refused
     /\ UNCHANGED system

Results == {0, -1}

\* The value of a tracked setting at a level.  The desired values stand for
\* the configured ones too, the default is configured or what was found.
Wanted(s, level) ==
  CASE level = "desired" -> "performance"
    [] level = "igpu"    -> "powersave"
    [] OTHER             -> IF config.default[s] # Unset THEN config.default[s]
                                                         ELSE initial[s]

\* MISTAKE for SetTracked: the level is remembered when the helper failed.
SetTrackedAlways(s, level, ret) ==
  IF current[s] = level \/ (s = "profile" /\ ~HasProfile)
    THEN ret = 0 /\ UNCHANGED <<helperVars, current>>
    ELSE /\ Run(s, Wanted(s, level), ret)
         /\ current' = [current EXCEPT ![s] = level]

\* game_mode_set_governor and game_mode_set_profile.
SetTracked(s, level, ret) ==
  IF current[s] = level \/ (s = "profile" /\ ~HasProfile)
    THEN ret = 0 /\ UNCHANGED <<helperVars, current>>
    ELSE /\ Run(s, Wanted(s, level), ret)
         /\ current' = IF ret = 0 THEN [current EXCEPT ![s] = level]
                                  ELSE current

\* game_mode_disable_splitlock writes the value that was found, when it
\* enters and when it leaves.
SetSplitlock(entering) ==
  IF \/ ~config.splitlock
     \/ entering /\ initial["splitlock"] = "0"
     \/ initial["splitlock"] = Absent
    THEN UNCHANGED helperVars
    ELSE \E ret \in Results : Run("splitlock", initial["splitlock"], ret)

\* game_mode_set_x3d_mode: an invalid mode is refused, an empty one ignored.
SetX3D(mode) ==
  IF mode \in {"frequency", "cache"}
    THEN \E ret \in Results : Run("x3d", mode, ret)
    ELSE UNCHANGED helperVars

-----------------------------------------------------------------------------
(* game_mode_context_enter *)

\* MISTAKE for StoreTracked: what is found is stored in any case.
StoreTrackedAlways(s) == system[s]

\* game_mode_store_governor and game_mode_store_profile.
StoreTracked(s) ==
  IF current[s] = "default" /\ (s = "profile" => HasProfile)
    THEN system[s] ELSE initial[s]

\* game_mode_context_store_defaults.  The X3D mode is read by a helper, and
\* only if a mode is configured.
EnterStore ==
  /\ At("off", "profile")
  /\ \E read \in BOOLEAN :
       /\ read => config.x3dDesired # Unset
       /\ initial' = [s \in DOMAIN initial |->
            CASE s \in Tracked   -> StoreTracked(s)
              [] s = "splitlock" -> system[s]
              [] OTHER           -> IF read THEN system[s] ELSE initial[s]]
       /\ IF read \/ config.x3dDesired = Unset THEN UNCHANGED trouble
                                               ELSE Refused
  /\ UNCHANGED <<config, system, current, stored, igpu, screenVars, due>>

EnterProfile ==
  /\ At("profile", "governor")
  /\ \E ret \in Results : SetTracked("profile", "desired", ret)
  /\ UNCHANGED <<config, initial, stored, igpu, screenVars, due>>

\* With the governor set, game_mode_enable_igpu_optimization follows: it
\* succeeds if the machine reports the energy of CPU and GPU.
EnterGovernor ==
  /\ At("governor", "inhibit")
  /\ \E ret \in Results :
       /\ SetTracked("governor", "desired", ret)
       /\ IF ret = 0 THEN igpu' \in {igpu, TRUE} ELSE UNCHANGED igpu
  /\ UNCHANGED <<config, initial, stored, screenVars, due>>

\* An inhibitor that is left over goes before a new one is made, which fails
\* without a screensaver service.
EnterInhibit ==
  /\ At("inhibit", "splitlock")
  /\ IF config.inhibit
       THEN /\ inhibitor' \in BOOLEAN
            /\ inhibitions' = inhibitions - (IF inhibitor THEN 1 ELSE 0)
                                          + (IF inhibitor' THEN 1 ELSE 0)
       ELSE UNCHANGED screenVars
  /\ UNCHANGED <<config, system, initial, current, stored, igpu, due, trouble>>

EnterSplitlock ==
  /\ At("splitlock", "x3d")
  /\ SetSplitlock(TRUE)
  /\ UNCHANGED <<config, initial, current, stored, igpu, screenVars, due>>

EnterX3D ==
  /\ At("x3d", "gpu")
  /\ SetX3D(config.x3dDesired)
  /\ UNCHANGED <<config, initial, current, stored, igpu, screenVars, due>>

\* MISTAKE for EnterGpu: the values are read after they have been set.
EnterGpuStoresLate ==
  /\ At("gpu", "on")
  /\ HasGpu
  /\ \E ret \in Results : Run("gpu", "target", ret)
  /\ stored' = system'["gpu"]
  /\ UNCHANGED <<config, initial, current, igpu, screenVars, due>>

\* game_mode_get_gpu, which may fail and then leaves stored_gpu alone, and
\* game_mode_apply_gpu.
EnterGpu ==
  /\ At("gpu", "on")
  /\ IF HasGpu
       THEN \/ /\ stored' = system["gpu"]
               /\ \E ret \in Results : Run("gpu", "target", ret)
            \/ /\ UNCHANGED stored
               /\ Refused
               /\ system' \in {system, [system EXCEPT !["gpu"] = "target"]}
       ELSE UNCHANGED <<helperVars, stored>>
  /\ UNCHANGED <<config, initial, current, igpu, screenVars, due>>

-----------------------------------------------------------------------------
(* game_mode_context_leave *)

LeaveProfile ==
  /\ At("on", "leave_gpu")
  /\ \E ret \in Results : SetTracked("profile", "default", ret)
  /\ UNCHANGED <<config, initial, stored, igpu, screenVars, due>>

LeaveGpu ==
  /\ At("leave_gpu", "leave_inhibit")
  /\ IF HasGpu THEN \E ret \in Results : Run("gpu", stored, ret)
               ELSE UNCHANGED helperVars
  /\ UNCHANGED <<config, initial, current, stored, igpu, screenVars, due>>

\* The connection is closed even if UnInhibit fails, and the service drops
\* what it holds for a connection that is gone.
LeaveInhibit ==
  /\ At("leave_inhibit", "leave_splitlock")
  /\ IF config.inhibit
       THEN /\ inhibitor' = FALSE
            /\ inhibitions' = inhibitions - (IF inhibitor THEN 1 ELSE 0)
       ELSE UNCHANGED screenVars
  /\ UNCHANGED <<config, system, initial, current, stored, igpu, due, trouble>>

LeaveSplitlock ==
  /\ At("leave_splitlock", "leave_x3d")
  /\ SetSplitlock(FALSE)
  /\ UNCHANGED <<config, initial, current, stored, igpu, screenVars, due>>

\* The default mode, else the mode that was found at some time.
LeaveX3D ==
  /\ At("leave_x3d", "leave_governor")
  /\ SetX3D(IF config.x3dDefault # Unset THEN config.x3dDefault
                                         ELSE initial["x3d"])
  /\ UNCHANGED <<config, initial, current, stored, igpu, screenVars, due>>

\* What a configured default makes of a setting that is due.
DueAfterLeave(s) ==
  LET configured == CASE s = "governor" -> config.default[s]
                      [] s = "profile" /\ HasProfile -> config.default[s]
                      [] s = "x3d"      -> config.x3dDefault
                      [] OTHER          -> Unset
  IN  IF configured = Unset THEN due[s] ELSE configured

\* Last of all the governor; the iGPU optimisation ends whatever comes of it.
LeaveGovernor ==
  /\ At("leave_governor", "off")
  /\ \E ret \in Results : SetTracked("governor", "default", ret)
  /\ igpu' = FALSE
  /\ due' = [s \in Settings |-> DueAfterLeave(s)]
  /\ UNCHANGED <<config, initial, stored, screenVars>>

-----------------------------------------------------------------------------
(* The reaper thread, the configuration and the user. *)

\* game_mode_check_igpu_energy: the energy cannot be read any more, or its
\* ratio is on one side of the threshold.
CheckIgpuEnergy ==
  /\ pc \in {"on", "off"}
  /\ current["governor"] # "default" /\ igpu
  /\ \/ igpu' = FALSE /\ UNCHANGED <<helperVars, current>>
     \/ /\ \E level \in {"igpu", "desired"}, ret \in Results :
             SetTracked("governor", level, ret)
        /\ UNCHANGED igpu
  /\ UNCHANGED <<pc, config, initial, stored, screenVars, due>>

\* MISTAKE for ReloadConfig: the new configuration comes before the leave.
ReloadConfigEarly ==
  /\ pc = "on"
  /\ config' \in Configs
  /\ UNCHANGED <<pc, system, initial, current, stored, igpu, screenVars, due,
                 trouble>>

\* config_reload in game_mode_reload_config_internal: it comes after the
\* leave and before the next enter.
ReloadConfig ==
  /\ pc = "off"
  /\ config' \in Configs
  /\ UNCHANGED <<pc, system, initial, current, stored, igpu, screenVars, due,
                 trouble>>

\* The user changes a setting out of game mode.  (A change during game mode
\* is overwritten by leave, which is what restoring means.)
UserSets(s, v) ==
  /\ pc = "off"
  /\ Absent \notin {system[s], v}
  /\ system' = [system EXCEPT ![s] = v]
  /\ due' = [due EXCEPT ![s] = v]
  /\ UNCHANGED <<pc, config, initial, current, stored, igpu, screenVars,
                 trouble>>

-----------------------------------------------------------------------------
Init ==
  /\ pc = "off"
  /\ config \in Configs
  /\ system \in {f \in [Settings -> UNION {Choices[s] : s \in Settings}] :
                   \A s \in Settings : f[s] \in Choices[s]}
  /\ initial = [s \in Settings \ {"gpu"} |->
                  IF s = "splitlock" THEN Absent ELSE Unset]
  /\ current = [s \in Tracked |-> "default"]
  /\ stored = "target"
  /\ igpu = FALSE
  /\ inhibitor = FALSE /\ inhibitions = 0
  /\ due = system
  /\ trouble = "none"

Enter == EnterStore \/ EnterProfile \/ EnterGovernor \/ EnterInhibit
           \/ EnterSplitlock \/ EnterX3D \/ EnterGpu

Leave == LeaveProfile \/ LeaveGpu \/ LeaveInhibit \/ LeaveSplitlock
           \/ LeaveX3D \/ LeaveGovernor

User == \E s \in Settings : \E v \in Choices[s] : UserSets(s, v)

Next == Enter \/ Leave \/ CheckIgpuEnergy \/ ReloadConfig \/ User

Spec == Init /\ [][Next]_vars

-----------------------------------------------------------------------------
\* What the context keeps to put back is never a governor or a profile that
\* GameMode set itself, although a refused leave is followed by an enter that
\* finds GameMode's value in the system.  (It can be after a helper that
\* failed and reported success: nothing tells the context.)
OriginalKept ==
  trouble # "silent" => \A s \in Tracked : initial[s] \notin Own

\* Out of game mode, a governor or profile that the context takes for
\* restored is not GameMode's own: a refused leave is remembered, and a later
\* one makes up for it.
DefaultIsNotOurs ==
  pc = "off" /\ trouble # "silent" =>
    \A s \in Tracked : current[s] = "default" => system[s] \notin Own

\* As long as no helper has failed, every leave puts back what was there
\* before the enter, or the configured default, through any number of
\* reloads, of the reaper's changes of governor and of the user's changes.
CleanLeaveRestores ==
  pc = "off" /\ trouble = "none" =>
    \A s \in Settings \ {"x3d"} : system[s] = due[s]

\* Out of game mode the screensaver is not inhibited, and never twice, though
\* the setting that says whether to inhibit it changes between enter and leave.
InhibitionBalanced ==
  /\ inhibitions = IF inhibitor THEN 1 ELSE 0
  /\ pc = "off" => ~inhibitor

=============================================================================
