------------------------- MODULE OptimisationsProofs -------------------------
(***************************************************************************)
(* What the user had is never lost: proofs that enter and leave keep the   *)
(* original governor and profile, whatever helpers are refused and in      *)
(* whatever order the context is entered, left, reloaded and rebalanced,   *)
(* for every set of values, choices and configurations.                    *)
(***************************************************************************)
EXTENDS Optimisations, TLAPS

Typed ==
  /\ config \in Configs
  /\ system \in [Settings -> Values]
  /\ initial \in [Settings \ {"gpu"} -> Values]
  /\ stored \in Values
  /\ current \in [Tracked -> Levels]

\* At every point of enter and leave, and not only out of game mode, a level
\* that is the default goes with a value that is not GameMode's.
Kept ==
  trouble # "silent" =>
    \A s \in Tracked :
      /\ initial[s] \notin Own
      /\ current[s] = "default" => system[s] \notin Own

KeptInv == Typed /\ Kept

LEMMA InitKept == Init => KeptInv
<1> SUFFICES ASSUME Init PROVE KeptInv
  OBVIOUS
<1>1. \A s \in Settings : system[s] \in Choices[s] /\ Choices[s] \subseteq Values \ Own
  BY OptimisationsAssumption DEF Init
<1>2. system \in [Settings -> Values]
  BY <1>1 DEF Init
<1>3. /\ Unset \notin Own
      /\ Unset \in Values /\ Absent \in Values /\ "target" \in Values
  BY OptimisationsAssumption DEF Unset, Own
<1>4. Typed
  BY <1>2, <1>3 DEF Init, Typed, Levels
<1>5. Kept
  BY <1>1, <1>3 DEF Init, Kept, Tracked, Settings
<1> QED BY <1>4, <1>5 DEF KeptInv

\* What a tracked setting is given at a level is a value, and at the default
\* level one that is not GameMode's.
LEMMA WantedIsKept ==
  ASSUME Typed, NEW s \in Tracked, NEW level \in Levels
  PROVE  /\ Wanted(s, level) \in Values
         /\ initial[s] \notin Own => Wanted(s, "default") \notin Own
<1>1. config.default[s] \in Values \ Own
  BY OptimisationsAssumption DEF Typed
<1>2. initial[s] \in Values
  BY DEF Typed, Tracked, Settings
<1> QED BY <1>1, <1>2, OptimisationsAssumption DEF Wanted, Own, Levels

\* A helper changes the setting it is run for, if anything.
LEMMA RunChanges ==
  ASSUME system \in [Settings -> Values], NEW s \in Settings, NEW v \in Values,
         NEW ret, Run(s, v, ret)
  PROVE  /\ system' \in [Settings -> Values]
         /\ \A r \in Settings \ {s} : system'[r] = system[r]
         /\ trouble' # "silent" =>
              /\ trouble # "silent"
              /\ system'[s] = IF ret = 0 THEN v ELSE system[s]
BY DEF Run, Refused

LEMMA SetTrackedKeeps ==
  ASSUME KeptInv, NEW s \in Tracked, NEW level \in Levels, NEW ret \in Results,
         SetTracked(s, level, ret), UNCHANGED <<config, initial>>,
         stored' \in Values
  PROVE  KeptInv'
<1>1. CASE UNCHANGED <<helperVars, current>>
  BY <1>1 DEF KeptInv, Typed, Kept, helperVars
<1>2. CASE /\ Run(s, Wanted(s, level), ret)
           /\ current' = IF ret = 0 THEN [current EXCEPT ![s] = level]
                                    ELSE current
  <2>1. s \in Settings
    BY DEF Settings
  <2>2. /\ Wanted(s, level) \in Values
        /\ initial[s] \notin Own => Wanted(s, "default") \notin Own
    BY WantedIsKept DEF KeptInv
  <2>3. /\ system' \in [Settings -> Values]
        /\ \A r \in Settings \ {s} : system'[r] = system[r]
        /\ trouble' # "silent" =>
             /\ trouble # "silent"
             /\ system'[s] = IF ret = 0 THEN Wanted(s, level) ELSE system[s]
    BY <1>2, <2>1, <2>2, RunChanges DEF KeptInv, Typed
  <2>4. current \in [Tracked -> Levels] /\ current' \in [Tracked -> Levels]
    BY <1>2 DEF KeptInv, Typed
  <2>5. Typed'
    BY <2>3, <2>4 DEF KeptInv, Typed
  <2>6. ASSUME trouble' # "silent", NEW r \in Tracked
        PROVE  initial'[r] \notin Own
                 /\ (current'[r] = "default" => system'[r] \notin Own)
    <3>1. initial[r] \notin Own /\ (current[r] = "default" => system[r] \notin Own)
      BY <2>3, <2>6 DEF KeptInv, Kept
    <3>2. CASE r = s
      BY <1>2, <2>2, <2>3, <2>4, <2>6, <3>1, <3>2
    <3>3. CASE r # s
      BY <1>2, <2>3, <2>4, <2>6, <3>1, <3>3 DEF Settings
    <3> QED BY <3>2, <3>3
  <2> QED BY <2>5, <2>6 DEF KeptInv, Kept
<1> QED BY <1>1, <1>2 DEF SetTracked

\* A helper for a setting that is not tracked.
LEMMA RunKeeps ==
  ASSUME KeptInv, NEW s \in Settings \ Tracked, NEW v \in Values, NEW ret,
         Run(s, v, ret), UNCHANGED <<config, initial, current>>,
         stored' \in Values
  PROVE  KeptInv'
<1>1. /\ system' \in [Settings -> Values]
      /\ \A r \in Settings \ {s} : system'[r] = system[r]
      /\ trouble' # "silent" => trouble # "silent"
  BY RunChanges DEF KeptInv, Typed
<1>2. \A r \in Tracked : r \in Settings \ {s}
  BY DEF Settings
<1> QED BY <1>1, <1>2 DEF KeptInv, Typed, Kept

LEMMA HelpersUnchangedKeeps ==
  ASSUME KeptInv, UNCHANGED <<helperVars, config, initial, current>>,
         stored' \in Values
  PROVE  KeptInv'
BY DEF KeptInv, Typed, Kept, helperVars

\* A step keeps it: only the helpers for the governor and the profile, and
\* the store in enter, touch what it is about.
LEMMA StepKept == KeptInv /\ [Next]_vars => KeptInv'
<1> SUFFICES ASSUME KeptInv, [Next]_vars PROVE KeptInv'
  OBVIOUS
<1>0. stored' \in Values
  <2>1. stored \in Values /\ system["gpu"] \in Values
    BY DEF KeptInv, Typed, Settings
  <2>2. CASE EnterGpu
    BY <2>1, <2>2 DEF EnterGpu
  <2>3. EnterGpu \/ UNCHANGED stored
    BY DEF Next, vars, Enter, Leave, User, EnterStore, EnterProfile,
       EnterGovernor, EnterInhibit, EnterSplitlock, EnterX3D, LeaveProfile,
       LeaveGpu, LeaveInhibit, LeaveSplitlock, LeaveX3D, LeaveGovernor,
       CheckIgpuEnergy, ReloadConfig, UserSets
  <2> QED BY <2>1, <2>2, <2>3
<1>1. CASE EnterStore
  <2>1. /\ UNCHANGED <<config, system, current>>
        /\ trouble' # "silent" => trouble # "silent"
    BY <1>1 DEF EnterStore, Refused
  <2>2. PICK read \in BOOLEAN :
          initial' = [s \in DOMAIN initial |->
            CASE s \in Tracked   -> StoreTracked(s)
              [] s = "splitlock" -> system[s]
              [] OTHER           -> IF read THEN system[s] ELSE initial[s]]
    BY <1>1 DEF EnterStore
  <2>3. /\ initial \in [Settings \ {"gpu"} -> Values]
        /\ system \in [Settings -> Values]
    BY DEF KeptInv, Typed
  <2>4. \A s \in Tracked : StoreTracked(s) \in {system[s], initial[s]}
    BY DEF StoreTracked
  <2>5. Tracked \subseteq Settings \ {"gpu"}
    BY DEF Tracked, Settings
  <2>6. \A s \in Settings \ {"gpu"} : initial'[s] \in {system[s], initial[s]}
    BY <2>2, <2>3, <2>4
  <2>7. initial' \in [Settings \ {"gpu"} -> Values]
    BY <2>2, <2>3, <2>6
  <2>8. Typed'
    BY <1>0, <2>1, <2>7 DEF KeptInv, Typed
  <2>9. \A s \in Tracked : initial'[s] = StoreTracked(s)
    BY <2>2, <2>3, <2>5 DEF Tracked
  <2>10. Kept'
    BY <2>1, <2>9 DEF KeptInv, Kept, StoreTracked
  <2> QED BY <2>8, <2>10 DEF KeptInv
<1>2. CASE EnterProfile
  <2>1. PICK ret \in Results : SetTracked("profile", "desired", ret)
    BY <1>2 DEF EnterProfile
  <2>2. UNCHANGED <<config, initial>>
    BY <1>2 DEF EnterProfile
  <2> QED BY <2>1, <2>2, <1>0, SetTrackedKeeps DEF Tracked, Levels
<1>3. CASE EnterGovernor
  <2>1. PICK ret \in Results : SetTracked("governor", "desired", ret)
    BY <1>3 DEF EnterGovernor
  <2>2. UNCHANGED <<config, initial>>
    BY <1>3 DEF EnterGovernor
  <2> QED BY <2>1, <2>2, <1>0, SetTrackedKeeps DEF Tracked, Levels
<1>4. CASE EnterInhibit
  BY <1>4, <1>0, HelpersUnchangedKeeps DEF EnterInhibit, helperVars
<1>5. ASSUME NEW entering, SetSplitlock(entering),
             UNCHANGED <<config, initial, current>>
      PROVE  KeptInv'
  <2>1. initial["splitlock"] \in Values /\ "splitlock" \in Settings \ Tracked
    BY DEF KeptInv, Typed, Settings, Tracked
  <2>2. \/ UNCHANGED helperVars
        \/ \E ret \in Results : Run("splitlock", initial["splitlock"], ret)
    BY <1>5 DEF SetSplitlock
  <2> QED BY <1>5, <2>1, <2>2, <1>0, RunKeeps, HelpersUnchangedKeeps
<1>6. CASE EnterSplitlock
  BY <1>5, <1>6 DEF EnterSplitlock
<1>7. ASSUME NEW m \in Values, SetX3D(m), UNCHANGED <<config, initial, current>>
      PROVE  KeptInv'
  <2>1. "x3d" \in Settings \ Tracked
    BY DEF Settings, Tracked
  <2>2. UNCHANGED helperVars \/ \E ret \in Results : Run("x3d", m, ret)
    BY <1>7 DEF SetX3D
  <2> QED BY <1>7, <2>1, <2>2, <1>0, RunKeeps, HelpersUnchangedKeeps
<1>8. initial["x3d"] \in Values
  BY DEF KeptInv, Typed, Settings
<1>9. config \in Configs
  BY DEF KeptInv, Typed
<1>10. config.x3dDesired \in Values /\ config.x3dDefault \in Values
  BY <1>9, OptimisationsAssumption
<1>11. CASE EnterX3D
  BY <1>7, <1>10, <1>11 DEF EnterX3D
<1>12. CASE LeaveX3D
  BY <1>7, <1>8, <1>10, <1>12 DEF LeaveX3D
<1>13. CASE LeaveSplitlock
  BY <1>5, <1>13 DEF LeaveSplitlock
<1>14. CASE LeaveInhibit
  BY <1>14, <1>0, HelpersUnchangedKeeps DEF LeaveInhibit, helperVars
<1>15. CASE LeaveProfile
  <2>1. PICK ret \in Results : SetTracked("profile", "default", ret)
    BY <1>15 DEF LeaveProfile
  <2>2. UNCHANGED <<config, initial>>
    BY <1>15 DEF LeaveProfile
  <2> QED BY <2>1, <2>2, <1>0, SetTrackedKeeps DEF Tracked, Levels
<1>16. CASE LeaveGovernor
  <2>1. PICK ret \in Results : SetTracked("governor", "default", ret)
    BY <1>16 DEF LeaveGovernor
  <2>2. UNCHANGED <<config, initial>>
    BY <1>16 DEF LeaveGovernor
  <2> QED BY <2>1, <2>2, <1>0, SetTrackedKeeps DEF Tracked, Levels
<1>17. ASSUME NEW v \in Values, UNCHANGED <<config, initial, current>>,
              \/ \E ret \in Results : Run("gpu", v, ret)
              \/ Refused /\ system' \in {system, [system EXCEPT !["gpu"] = v]}
              \/ UNCHANGED helperVars
       PROVE  KeptInv'
  <2>1. "gpu" \in Settings \ Tracked
    BY DEF Settings, Tracked
  <2>2. CASE Refused /\ system' \in {system, [system EXCEPT !["gpu"] = v]}
    <3>1. system' \in [Settings -> Values]
      BY <1>17, <2>2 DEF KeptInv, Typed
    <3>2. \A r \in Tracked : system'[r] = system[r]
      BY <2>1, <2>2 DEF KeptInv, Typed, Tracked, Settings
    <3>3. trouble' # "silent" => trouble # "silent"
      BY <2>2 DEF Refused
    <3> QED BY <1>0, <1>17, <3>1, <3>2, <3>3 DEF KeptInv, Typed, Kept
  <2> QED BY <1>17, <2>1, <2>2, <1>0, RunKeeps, HelpersUnchangedKeeps
<1>18. CASE EnterGpu
  <2>1. "target" \in Values
    BY OptimisationsAssumption DEF Own
  <2>2. UNCHANGED <<config, initial, current>>
    BY <1>18 DEF EnterGpu
  <2>3. \/ \E ret \in Results : Run("gpu", "target", ret)
        \/ Refused /\ system' \in {system, [system EXCEPT !["gpu"] = "target"]}
        \/ UNCHANGED helperVars
    BY <1>18 DEF EnterGpu
  <2> QED BY <1>17, <2>1, <2>2, <2>3
<1>19. CASE LeaveGpu
  <2>1. stored \in Values
    BY DEF KeptInv, Typed
  <2>2. UNCHANGED <<config, initial, current>>
    BY <1>19 DEF LeaveGpu
  <2>3. (\E ret \in Results : Run("gpu", stored, ret)) \/ UNCHANGED helperVars
    BY <1>19 DEF LeaveGpu
  <2> QED BY <1>17, <2>1, <2>2, <2>3
<1>20. CASE CheckIgpuEnergy
  <2>1. UNCHANGED <<config, initial>>
    BY <1>20 DEF CheckIgpuEnergy
  <2>2. CASE UNCHANGED <<helperVars, current>>
    BY <2>1, <2>2, <1>0, HelpersUnchangedKeeps
  <2>3. CASE \E level \in {"igpu", "desired"}, ret \in Results :
               SetTracked("governor", level, ret)
    BY <2>1, <2>3, <1>0, SetTrackedKeeps DEF Tracked, Levels
  <2> QED BY <1>20, <2>2, <2>3 DEF CheckIgpuEnergy
<1>21. CASE ReloadConfig
  BY <1>0, <1>21 DEF ReloadConfig, KeptInv, Typed, Kept
<1>22. CASE User
  <2>0. PICK s \in Settings : \E v \in Choices[s] : UserSets(s, v)
    BY <1>22 DEF User
  <2>1. PICK v \in Choices[s] : UserSets(s, v)
    BY <2>0
  <2>2. v \in Values \ Own
    BY <2>1, OptimisationsAssumption
  <2>3. UNCHANGED <<config, initial, current, trouble>>
    BY <2>1 DEF UserSets
  <2>4. system' = [system EXCEPT ![s] = v] /\ system \in [Settings -> Values]
    BY <2>1 DEF UserSets, KeptInv, Typed
  <2>5. system' \in [Settings -> Values]
    BY <2>2, <2>4
  <2>6. \A r \in Tracked : system'[r] = v \/ system'[r] = system[r]
    BY <2>4 DEF Settings
  <2> QED BY <1>0, <2>2, <2>3, <2>5, <2>6 DEF KeptInv, Typed, Kept
<1>23. CASE UNCHANGED vars
  BY <1>23, <1>0, HelpersUnchangedKeeps DEF vars, helperVars
<1> QED
  BY <1>1, <1>2, <1>3, <1>4, <1>6, <1>11, <1>12, <1>13, <1>14, <1>15, <1>16,
     <1>18, <1>19, <1>20, <1>21, <1>22, <1>23 DEF Next, Enter, Leave

\* Enter and leave keep the levels and the values in step.
THEOREM KeptInvariance == Spec => []KeptInv
BY InitKept, StepKept, PTL DEF Spec

\* What the context keeps to put back is never a value that GameMode set,
\* unless a helper failed without saying so.
THEOREM OriginalIsKept == Spec => []OriginalKept
<1>1. KeptInv => OriginalKept
  BY DEF KeptInv, Kept, OriginalKept
<1> QED BY <1>1, KeptInvariance, PTL

\* A governor or profile that the context takes for restored is not
\* GameMode's own.
THEOREM RestoredIsNotOurs == Spec => []DefaultIsNotOurs
<1>1. KeptInv => DefaultIsNotOurs
  BY DEF KeptInv, Kept, DefaultIsNotOurs
<1> QED BY <1>1, KeptInvariance, PTL

-----------------------------------------------------------------------------
(* The screensaver. *)

\* The screensaver is inhibited between the two steps that see to it, under
\* a configuration that says so, and once.
InhibitInv ==
  /\ inhibitor \in BOOLEAN
  /\ inhibitions = IF inhibitor THEN 1 ELSE 0
  /\ inhibitor => /\ config.inhibit
                  /\ pc \in {"splitlock", "x3d", "gpu", "on", "leave_gpu",
                             "leave_inhibit"}

-----------------------------------------------------------------------------
(* Leaves that nothing goes wrong in. *)

Leaving == {"leave_gpu", "leave_inhibit", "leave_splitlock", "leave_x3d",
            "leave_governor"}

\* Where a tracked setting is GameMode's: enter has set it and leave has not
\* put it back.
BoostedAt(s) ==
  IF s = "governor" THEN {"inhibit", "splitlock", "x3d", "gpu", "on"} \cup Leaving
  ELSE IF HasProfile THEN {"governor", "inhibit", "splitlock", "x3d", "gpu", "on"}
                     ELSE {}

\* What a setting has to be at this point of enter or leave: leave comes to
\* the profile first, and to what is due last.
DueNow(s) == IF s = "profile" /\ pc \in Leaving THEN DueAfterLeave(s) ELSE due[s]

\* As long as no helper has failed, a tracked setting is what is due or
\* GameMode's, and what was found is what is due.
TrackedClean(s) ==
  /\ current[s] = "default" <=> pc \notin BoostedAt(s)
  /\ current[s] = "default" => system[s] = DueNow(s)
  /\ pc # "off" /\ (s = "profile" => HasProfile) => initial[s] = due[s]

\* Split lock mitigation is written with the value that it had; what the card
\* had is in stored while it is in game mode.
SplitlockClean ==
  /\ system["splitlock"] = due["splitlock"]
  /\ pc # "off" => initial["splitlock"] = due["splitlock"]

GpuClean ==
  due["gpu"] = IF HasGpu /\ pc \in {"on", "leave_gpu"} THEN stored ELSE system["gpu"]

CleanInv ==
  /\ due \in [Settings -> Values]
  /\ trouble = "none" => /\ \A s \in Tracked : TrackedClean(s)
                         /\ SplitlockClean
                         /\ GpuClean

LeaveInv == KeptInv /\ InhibitInv /\ CleanInv

LEMMA InitLeave == Init => LeaveInv
<1> SUFFICES ASSUME Init PROVE LeaveInv
  OBVIOUS
<1>1. KeptInv
  BY InitKept
<1>2. InhibitInv
  BY DEF Init, InhibitInv
<1>3. due \in [Settings -> Values]
  BY <1>1 DEF Init, KeptInv, Typed
<1>4. \A s \in Tracked : TrackedClean(s)
  BY DEF Init, TrackedClean, BoostedAt, DueNow, Leaving
<1>5. SplitlockClean /\ GpuClean
  BY DEF Init, SplitlockClean, GpuClean
<1> QED BY <1>1, <1>2, <1>3, <1>4, <1>5 DEF LeaveInv, CleanInv

LEMMA NextInhibit == LeaveInv /\ [Next]_vars => InhibitInv'
<1> SUFFICES ASSUME InhibitInv, [Next]_vars PROVE InhibitInv'
  BY DEF LeaveInv
<1>1. CASE EnterInhibit
  BY <1>1 DEF EnterInhibit, InhibitInv, screenVars, At
<1>2. CASE LeaveInhibit
  <2>1. config' = config
    BY <1>2 DEF LeaveInhibit
  <2>2. CASE config.inhibit
    <3>1. inhibitor' = FALSE /\ inhibitions' = inhibitions - (IF inhibitor THEN 1 ELSE 0)
      BY <1>2, <2>2 DEF LeaveInhibit
    <3>2. inhibitions' = 0
      BY <3>1 DEF InhibitInv
    <3>3. ~inhibitor' /\ inhibitor' \in BOOLEAN
      BY <3>1
    <3> QED BY <3>2, <3>3 DEF InhibitInv
  <2>3. CASE ~config.inhibit
    <3>1. UNCHANGED <<inhibitor, inhibitions>> /\ ~inhibitor
      BY <1>2, <2>3 DEF LeaveInhibit, screenVars, InhibitInv
    <3> QED BY <3>1 DEF InhibitInv
  <2> QED BY <2>2, <2>3
<1>3. CASE ReloadConfig \/ User
  BY <1>3 DEF ReloadConfig, User, UserSets, InhibitInv, screenVars
<1>4. CASE CheckIgpuEnergy \/ UNCHANGED vars
  BY <1>4 DEF CheckIgpuEnergy, InhibitInv, screenVars, vars
<1>5. CASE EnterStore \/ EnterProfile \/ EnterGovernor \/ EnterSplitlock
             \/ EnterX3D \/ EnterGpu
  <2>1. /\ UNCHANGED <<config, inhibitor, inhibitions>>
        /\ \/ pc \in {"off", "profile", "governor"}
           \/ pc' \in {"x3d", "gpu", "on"}
    BY <1>5 DEF EnterStore, EnterProfile, EnterGovernor, EnterSplitlock, EnterX3D,
       EnterGpu, screenVars, At
  <2> QED BY <2>1 DEF InhibitInv
<1>6. CASE LeaveProfile \/ LeaveGpu \/ LeaveSplitlock \/ LeaveX3D \/ LeaveGovernor
  <2>1. /\ UNCHANGED <<config, inhibitor, inhibitions>>
        /\ \/ pc \in {"leave_splitlock", "leave_x3d", "leave_governor"}
           \/ pc' \in {"leave_gpu", "leave_inhibit"}
    BY <1>6 DEF LeaveProfile, LeaveGpu, LeaveSplitlock, LeaveX3D, LeaveGovernor,
       screenVars, At
  <2> QED BY <2>1 DEF InhibitInv
<1> QED
  BY <1>1, <1>2, <1>3, <1>4, <1>5, <1>6 DEF Next, Enter, Leave

\* A helper that did not fail has done what it was run for.
LEMMA RunDone ==
  ASSUME NEW s \in Settings, NEW v, NEW ret, Run(s, v, ret), trouble' = "none"
  PROVE  trouble = "none" /\ ret = 0 /\ system' = [system EXCEPT ![s] = v]
  BY DEF Run, Refused

LEMMA SetTrackedDone ==
  ASSUME LeaveInv, NEW s \in Tracked, NEW level \in Levels, NEW ret,
         SetTracked(s, level, ret), trouble' = "none"
  PROVE  /\ trouble = "none"
         /\ IF current[s] = level \/ (s = "profile" /\ ~HasProfile)
              THEN UNCHANGED <<system, current>>
              ELSE /\ system' = [system EXCEPT ![s] = Wanted(s, level)]
                   /\ current' = [current EXCEPT ![s] = level]
<1>1. CASE current[s] = level \/ (s = "profile" /\ ~HasProfile)
  BY <1>1 DEF SetTracked, helperVars
<1>2. CASE ~(current[s] = level \/ (s = "profile" /\ ~HasProfile))
  <2>1. /\ Run(s, Wanted(s, level), ret)
        /\ current' = IF ret = 0 THEN [current EXCEPT ![s] = level] ELSE current
    BY <1>2 DEF SetTracked
  <2> QED BY <1>2, <2>1, RunDone DEF Settings
<1> QED BY <1>1, <1>2

\* A step that leaves a tracked setting alone, between two points of enter or
\* leave that are the same to it.
LEMMA TrackedStays ==
  ASSUME NEW s \in Tracked, TrackedClean(s), UNCHANGED <<config, initial, current, due>>,
         system'[s] = system[s], pc # "off",
         pc' \in BoostedAt(s) <=> pc \in BoostedAt(s),
         s = "profile" => (pc' \in Leaving <=> pc \in Leaving)
  PROVE  TrackedClean(s)'
<1>1. DueNow(s)' = DueNow(s)
  BY DEF DueNow, DueAfterLeave
<1> QED BY <1>1 DEF TrackedClean, BoostedAt

LEMMA NextClean == LeaveInv /\ [Next]_vars => CleanInv'
<1> SUFFICES ASSUME LeaveInv, [Next]_vars PROVE CleanInv'
  OBVIOUS
<1>0. /\ config \in Configs /\ system \in [Settings -> Values]
      /\ initial \in [Settings \ {"gpu"} -> Values] /\ stored \in Values
      /\ current \in [Tracked -> Levels] /\ due \in [Settings -> Values]
  BY DEF LeaveInv, KeptInv, Typed, CleanInv
<1>1. due' \in [Settings -> Values]
  <2>1. CASE LeaveGovernor
    <3>1. config.x3dDefault \in Values /\ \A s \in Tracked : config.default[s] \in Values
      BY <1>0, OptimisationsAssumption
    <3>2. \A s \in Settings : DueAfterLeave(s) \in Values
      BY <1>0, <3>1 DEF DueAfterLeave, Tracked
    <3> QED BY <2>1, <3>2 DEF LeaveGovernor
  <2>2. CASE User
    <3>1. \A s \in Settings : Choices[s] \subseteq Values
      BY OptimisationsAssumption
    <3>2. PICK s \in Settings : \E v \in Choices[s] : UserSets(s, v)
      BY <2>2 DEF User
    <3> QED BY <1>0, <3>1, <3>2 DEF UserSets
  <2>3. LeaveGovernor \/ User \/ UNCHANGED due
    BY DEF Next, vars, Enter, Leave, EnterStore, EnterProfile, EnterGovernor,
       EnterInhibit, EnterSplitlock, EnterX3D, EnterGpu, LeaveProfile, LeaveGpu,
       LeaveInhibit, LeaveSplitlock, LeaveX3D, CheckIgpuEnergy, ReloadConfig
  <2> QED BY <1>0, <2>1, <2>2, <2>3
<1> SUFFICES ASSUME trouble' = "none"
             PROVE  (\A s \in Tracked : TrackedClean(s)') /\ SplitlockClean' /\ GpuClean'
  BY <1>1 DEF CleanInv
<1>2. ASSUME trouble = "none"
      PROVE  /\ TrackedClean("governor") /\ TrackedClean("profile")
             /\ SplitlockClean /\ GpuClean
  BY <1>2 DEF LeaveInv, CleanInv, Tracked
<1>3. SUFFICES TrackedClean("governor")' /\ TrackedClean("profile")'
               /\ SplitlockClean' /\ GpuClean'
  BY DEF Tracked
<1>4. /\ "governor" \in Tracked /\ "profile" \in Tracked
      /\ "governor" \in Settings /\ "profile" \in Settings
      /\ "splitlock" \in Settings /\ "gpu" \in Settings /\ "x3d" \in Settings
      /\ {"default", "desired", "igpu"} = Levels
  BY DEF Tracked, Settings, Levels
<1>5. CASE EnterStore
  <2>1. /\ pc = "off" /\ pc' = "profile"
        /\ UNCHANGED <<config, system, current, stored, due>> /\ trouble = "none"
    BY <1>5 DEF EnterStore, At, Refused
  <2>2. /\ initial'["governor"] = StoreTracked("governor")
        /\ initial'["profile"] = StoreTracked("profile")
        /\ initial'["splitlock"] = system["splitlock"]
    BY <1>0, <1>5 DEF EnterStore, Tracked, Settings
  <2>3. TrackedClean("governor")'
    BY <1>2, <2>1, <2>2 DEF TrackedClean, BoostedAt, DueNow, Leaving, StoreTracked
  <2>4. TrackedClean("profile")'
    BY <1>2, <2>1, <2>2 DEF TrackedClean, BoostedAt, DueNow, Leaving, StoreTracked
  <2> QED BY <1>2, <2>1, <2>2, <2>3, <2>4 DEF SplitlockClean, GpuClean
<1>6. CASE EnterProfile
  <2>1. /\ pc = "profile" /\ pc' = "governor"
        /\ UNCHANGED <<config, initial, stored, due>>
    BY <1>6 DEF EnterProfile, At
  <2>2. PICK ret \in Results : SetTracked("profile", "desired", ret)
    BY <1>6 DEF EnterProfile
  <2>3. /\ trouble = "none"
        /\ IF current["profile"] = "desired" \/ ~HasProfile
             THEN UNCHANGED <<system, current>>
             ELSE /\ system' = [system EXCEPT !["profile"] = Wanted("profile", "desired")]
                  /\ current' = [current EXCEPT !["profile"] = "desired"]
    BY <1>4, <2>2, SetTrackedDone
  <2>4. TrackedClean("governor")'
    BY <1>0, <1>2, <1>4, <2>1, <2>3 DEF TrackedClean, BoostedAt, DueNow, Leaving
  <2>5. TrackedClean("profile")'
    BY <1>0, <1>2, <1>4, <2>1, <2>3 DEF TrackedClean, BoostedAt, DueNow, Leaving
  <2> QED BY <1>0, <1>2, <1>4, <2>1, <2>3, <2>4, <2>5 DEF SplitlockClean, GpuClean
<1>7. CASE EnterGovernor
  <2>1. /\ pc = "governor" /\ pc' = "inhibit"
        /\ UNCHANGED <<config, initial, stored, due>>
    BY <1>7 DEF EnterGovernor, At
  <2>2. PICK ret \in Results : SetTracked("governor", "desired", ret)
    BY <1>7 DEF EnterGovernor
  <2>3. /\ trouble = "none"
        /\ IF current["governor"] = "desired"
             THEN UNCHANGED <<system, current>>
             ELSE /\ system' = [system EXCEPT !["governor"] = Wanted("governor", "desired")]
                  /\ current' = [current EXCEPT !["governor"] = "desired"]
    BY <1>4, <2>2, SetTrackedDone
  <2>4. TrackedClean("governor")'
    BY <1>0, <1>2, <1>4, <2>1, <2>3 DEF TrackedClean, BoostedAt, DueNow, Leaving
  <2>5. TrackedClean("profile")'
    BY <1>0, <1>2, <1>4, <2>1, <2>3 DEF TrackedClean, BoostedAt, DueNow, Leaving
  <2> QED BY <1>0, <1>2, <1>4, <2>1, <2>3, <2>4, <2>5 DEF SplitlockClean, GpuClean
<1>8. ASSUME UNCHANGED <<config, initial, current, due>>,
             system'["governor"] = system["governor"],
             system'["profile"] = system["profile"], trouble = "none",
             \/ pc \in {"inhibit", "splitlock", "x3d", "gpu"}
                /\ pc' \in {"splitlock", "x3d", "gpu", "on"}
             \/ pc \in Leaving /\ pc' \in Leaving
      PROVE  TrackedClean("governor")' /\ TrackedClean("profile")'
  BY <1>2, <1>4, <1>8, TrackedStays DEF BoostedAt, Leaving
<1>9. CASE EnterInhibit \/ LeaveInhibit
  <2>1. /\ \/ pc = "inhibit" /\ pc' = "splitlock"
           \/ pc = "leave_inhibit" /\ pc' = "leave_splitlock"
        /\ UNCHANGED <<config, system, initial, current, stored, due, trouble>>
    BY <1>9 DEF EnterInhibit, LeaveInhibit, At
  <2> QED BY <1>2, <1>8, <2>1 DEF SplitlockClean, GpuClean, Leaving
<1>10. CASE EnterSplitlock \/ LeaveSplitlock
  <2>1. /\ \/ pc = "splitlock" /\ pc' = "x3d"
           \/ pc = "leave_splitlock" /\ pc' = "leave_x3d"
        /\ UNCHANGED <<config, initial, current, stored, due>>
        /\ \/ UNCHANGED helperVars
           \/ \E ret \in Results : Run("splitlock", initial["splitlock"], ret)
    BY <1>10 DEF EnterSplitlock, LeaveSplitlock, SetSplitlock, At
  <2>2. /\ trouble = "none"
        /\ \/ system' = system
           \/ system' = [system EXCEPT !["splitlock"] = initial["splitlock"]]
    BY <1>4, <2>1, RunDone DEF helperVars
  <2> QED BY <1>0, <1>2, <1>4, <1>8, <2>1, <2>2 DEF SplitlockClean, GpuClean, Leaving
<1>11. CASE EnterX3D \/ LeaveX3D
  <2>1. /\ \/ pc = "x3d" /\ pc' = "gpu"
           \/ pc = "leave_x3d" /\ pc' = "leave_governor"
        /\ UNCHANGED <<config, initial, current, stored, due>>
        /\ \E mode : \/ UNCHANGED helperVars
                     \/ \E ret \in Results : Run("x3d", mode, ret)
    BY <1>11 DEF EnterX3D, LeaveX3D, SetX3D, At
  <2>2. /\ trouble = "none"
        /\ \E mode : system' = system \/ system' = [system EXCEPT !["x3d"] = mode]
    BY <1>4, <2>1, RunDone DEF helperVars
  <2> QED BY <1>0, <1>2, <1>4, <1>8, <2>1, <2>2 DEF SplitlockClean, GpuClean, Leaving
<1>12. CASE EnterGpu
  <2>1. /\ pc = "gpu" /\ pc' = "on" /\ UNCHANGED <<config, initial, current, due>>
    BY <1>12 DEF EnterGpu, At
  <2>2. /\ trouble = "none"
        /\ IF HasGpu THEN /\ stored' = system["gpu"]
                          /\ system' = [system EXCEPT !["gpu"] = "target"]
                     ELSE UNCHANGED <<system, stored>>
    BY <1>4, <1>12, RunDone DEF EnterGpu, Refused, helperVars
  <2> QED BY <1>0, <1>2, <1>4, <1>8, <2>1, <2>2 DEF SplitlockClean, GpuClean, Leaving
<1>13. CASE LeaveGpu
  <2>1. /\ pc = "leave_gpu" /\ pc' = "leave_inhibit"
        /\ UNCHANGED <<config, initial, current, stored, due>>
    BY <1>13 DEF LeaveGpu, At
  <2>2. /\ trouble = "none"
        /\ IF HasGpu THEN system' = [system EXCEPT !["gpu"] = stored]
                     ELSE UNCHANGED system
    BY <1>4, <1>13, RunDone DEF LeaveGpu, helperVars
  <2> QED BY <1>0, <1>2, <1>4, <1>8, <2>1, <2>2 DEF SplitlockClean, GpuClean, Leaving
<1>14. CASE LeaveProfile
  <2>1. /\ pc = "on" /\ pc' = "leave_gpu"
        /\ UNCHANGED <<config, initial, stored, due>>
    BY <1>14 DEF LeaveProfile, At
  <2>2. PICK ret \in Results : SetTracked("profile", "default", ret)
    BY <1>14 DEF LeaveProfile
  <2>3. /\ trouble = "none"
        /\ IF current["profile"] = "default" \/ ~HasProfile
             THEN UNCHANGED <<system, current>>
             ELSE /\ system' = [system EXCEPT !["profile"] = Wanted("profile", "default")]
                  /\ current' = [current EXCEPT !["profile"] = "default"]
    BY <1>4, <2>2, SetTrackedDone
  <2>4. TrackedClean("governor")'
    BY <1>0, <1>2, <1>4, <2>1, <2>3 DEF TrackedClean, BoostedAt, DueNow, Leaving
  <2>5. TrackedClean("profile")'
    BY <1>0, <1>2, <1>4, <2>1, <2>3 DEF TrackedClean, BoostedAt, DueNow, Leaving,
       Wanted, DueAfterLeave
  <2> QED BY <1>0, <1>2, <1>4, <2>1, <2>3, <2>4, <2>5 DEF SplitlockClean, GpuClean
<1>15. CASE LeaveGovernor
  <2>1. /\ pc = "leave_governor" /\ pc' = "off"
        /\ UNCHANGED <<config, initial, stored>>
        /\ due' = [s \in Settings |-> DueAfterLeave(s)]
    BY <1>15 DEF LeaveGovernor, At
  <2>2. PICK ret \in Results : SetTracked("governor", "default", ret)
    BY <1>15 DEF LeaveGovernor
  <2>3. /\ trouble = "none"
        /\ IF current["governor"] = "default"
             THEN UNCHANGED <<system, current>>
             ELSE /\ system' = [system EXCEPT !["governor"] = Wanted("governor", "default")]
                  /\ current' = [current EXCEPT !["governor"] = "default"]
    BY <1>4, <2>2, SetTrackedDone
  <2>4. TrackedClean("governor")'
    BY <1>0, <1>2, <1>4, <2>1, <2>3 DEF TrackedClean, BoostedAt, DueNow, Leaving,
       Wanted, DueAfterLeave
  <2>5. TrackedClean("profile")'
    BY <1>0, <1>2, <1>4, <2>1, <2>3 DEF TrackedClean, BoostedAt, DueNow, Leaving
  <2>6. due'["splitlock"] = due["splitlock"] /\ due'["gpu"] = due["gpu"]
    BY <1>4, <2>1 DEF DueAfterLeave
  <2> QED BY <1>0, <1>2, <1>4, <2>1, <2>3, <2>4, <2>5, <2>6 DEF SplitlockClean, GpuClean
<1>16. CASE CheckIgpuEnergy
  <2>1. /\ pc \in {"on", "off"} /\ current["governor"] # "default"
        /\ UNCHANGED <<pc, config, initial, stored, due>>
    BY <1>16 DEF CheckIgpuEnergy
  <2>2. \/ UNCHANGED <<helperVars, current>>
        \/ \E level \in {"igpu", "desired"}, ret \in Results :
             SetTracked("governor", level, ret)
    BY <1>16 DEF CheckIgpuEnergy
  <2>3. /\ trouble = "none"
        /\ \/ UNCHANGED <<system, current>>
           \/ \E level \in {"igpu", "desired"} :
                /\ system' = [system EXCEPT !["governor"] = Wanted("governor", level)]
                /\ current' = [current EXCEPT !["governor"] = level]
    BY <1>4, <2>2, SetTrackedDone DEF helperVars
  <2>4. TrackedClean("governor")'
    BY <1>0, <1>2, <1>4, <2>1, <2>3 DEF TrackedClean, BoostedAt, DueNow, Leaving
  <2>5. TrackedClean("profile")'
    BY <1>0, <1>2, <1>4, <2>1, <2>3 DEF TrackedClean, BoostedAt, DueNow, Leaving
  <2> QED BY <1>0, <1>2, <1>4, <2>1, <2>3, <2>4, <2>5 DEF SplitlockClean, GpuClean
<1>17. CASE ReloadConfig
  <2>1. /\ pc = "off"
        /\ UNCHANGED <<pc, system, initial, current, stored, due, trouble>>
    BY <1>17 DEF ReloadConfig
  <2>2. TrackedClean("governor")' /\ TrackedClean("profile")'
    BY <1>2, <2>1 DEF TrackedClean, BoostedAt, DueNow, Leaving
  <2> QED BY <1>2, <2>1, <2>2 DEF SplitlockClean, GpuClean
<1>18. CASE User
  <2>1. PICK s \in Settings : \E v \in Choices[s] : UserSets(s, v)
    BY <1>18 DEF User
  <2>2. PICK v : UserSets(s, v)
    BY <2>1
  <2>3. /\ pc = "off" /\ system' = [system EXCEPT ![s] = v]
        /\ due' = [due EXCEPT ![s] = v]
        /\ UNCHANGED <<pc, config, initial, current, stored, trouble>>
    BY <2>2 DEF UserSets
  <2>4. TrackedClean("governor")' /\ TrackedClean("profile")'
    BY <1>0, <1>2, <1>4, <2>3 DEF TrackedClean, BoostedAt, DueNow, Leaving
  <2> QED BY <1>0, <1>2, <1>4, <2>3, <2>4 DEF SplitlockClean, GpuClean
<1>19. CASE UNCHANGED vars
  <2>1. UNCHANGED <<pc, config, system, initial, current, stored, due, trouble>>
    BY <1>19 DEF vars
  <2> QED
    BY <1>2, <2>1 DEF TrackedClean, BoostedAt, DueNow, DueAfterLeave, SplitlockClean,
       GpuClean
<1> QED
  BY <1>5, <1>6, <1>7, <1>9, <1>10, <1>11, <1>12, <1>13, <1>14, <1>15, <1>16, <1>17,
     <1>18, <1>19 DEF Next, Enter, Leave

LEMMA LeaveInvariance == Spec => []LeaveInv
<1>1. LeaveInv /\ [Next]_vars => LeaveInv'
  BY StepKept, NextInhibit, NextClean DEF LeaveInv
<1> QED BY InitLeave, <1>1, PTL DEF Spec

\* As long as no helper has failed, every leave puts back what was there
\* before the enter, or the configured default, through any reloads, changes
\* of governor by the reaper and changes by the user
\* (game_mode_context_store_defaults and game_mode_context_leave).
THEOREM CleanLeavesRestore == Spec => []CleanLeaveRestores
<1>1. LeaveInv => CleanLeaveRestores
  <2> SUFFICES ASSUME LeaveInv, pc = "off", trouble = "none", NEW s \in Settings \ {"x3d"}
               PROVE  system[s] = due[s]
    BY DEF CleanLeaveRestores
  <2>1. (\A r \in Tracked : TrackedClean(r)) /\ SplitlockClean /\ GpuClean
    BY DEF LeaveInv, CleanInv
  <2>2. CASE s \in Tracked
    BY <2>1, <2>2 DEF TrackedClean, BoostedAt, DueNow, Leaving
  <2>3. CASE s \in {"splitlock", "gpu"}
    BY <2>1, <2>3 DEF SplitlockClean, GpuClean
  <2> QED BY <2>2, <2>3 DEF Settings
<1> QED BY <1>1, LeaveInvariance, PTL

\* Out of game mode the screensaver is not inhibited, and never twice, though
\* the setting that says whether to inhibit it is read again by a reload
\* (game_mode_context_enter and game_mode_context_leave).
THEOREM ScreensaverIsBalanced == Spec => []InhibitionBalanced
<1>1. LeaveInv => InhibitionBalanced
  BY DEF LeaveInv, InhibitInv, InhibitionBalanced
<1> QED BY <1>1, LeaveInvariance, PTL

=============================================================================
