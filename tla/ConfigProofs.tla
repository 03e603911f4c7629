---------------------------- MODULE ConfigProofs ----------------------------
(***************************************************************************)
(* What the configuration guarantees, for any number of locations, any     *)
(* files and any list length: a getter sees one configuration as long as   *)
(* no reload overtakes it, no change that a watch could see is lost, and   *)
(* the values are those of the files that were found, line after line.     *)
(***************************************************************************)
EXTENDS Config, FiniteSetTheorems, WellFoundedInduction, TLAPS

-----------------------------------------------------------------------------
(* The lock. *)

\* As long as no reload overtook the main thread, the lock counts it, and
\* whoever loads has the lock for himself.
LockInv ==
  /\ stage \in Stages
  /\ writing \in BOOLEAN /\ reading \in BOOLEAN /\ overtaken \in BOOLEAN
  /\ readers \in Int
  /\ writing <=> stage \in {"parse", "watch"}
  /\ ~overtaken => readers = IF reading THEN 1 ELSE 0
  /\ ~overtaken /\ writing => ~reading

\* config_init starts with an empty lock.
LEMMA InitLock == Init => LockInv
<1> SUFFICES ASSUME Init PROVE LockInv
  OBVIOUS
<1>1. writing = FALSE /\ reading = FALSE /\ overtaken = FALSE
  BY DEF Init
<1>2. stage = "init" /\ readers = 0
  BY DEF Init
<1>3. ~writing /\ ~reading /\ stage \notin {"parse", "watch"}
  BY <1>1, <1>2
<1>4. readers \in Int /\ readers = IF reading THEN 1 ELSE 0
  BY <1>2, <1>3
<1>5. writing \in BOOLEAN /\ reading \in BOOLEAN /\ overtaken \in BOOLEAN
  BY <1>1
<1> QED
  BY <1>2, <1>3, <1>4, <1>5, Zenon DEF LockInv, Stages

\* Every step keeps the count and the exclusion.
LEMMA NextLock == LockInv /\ [Next]_vars => LockInv'
<1> SUFFICES ASSUME LockInv, [Next]_vars PROVE LockInv'
  OBVIOUS
<1> USE DEF LockInv, Stages
<1>1. CASE \E i \in Locations, content \in Places : Edit(i, content)
  BY <1>1 DEF Edit, lockVars
<1>2. CASE \E i \in Locations : EditOther(i)
  BY <1>2 DEF EditOther, lockVars
<1>3. CASE BeginRead
  <2>1. /\ ~reading /\ ~writing
        /\ reading' = TRUE /\ readers' = readers + 1
        /\ UNCHANGED <<stage, writing, overtaken>>
    BY <1>3 DEF BeginRead
  <2>2. ~overtaken => readers = 0
    BY <2>1, Zenon
  <2>3. readers' \in Int /\ (~overtaken => readers' = 1)
    BY <2>1, <2>2
  <2> QED
    BY <2>1, <2>3, Zenon
<1>4. CASE EndRead
  <2>1. /\ reading
        /\ reading' = FALSE /\ readers' = readers - 1
        /\ overtaken' = overtaken
    BY <1>4 DEF EndRead
  <2>2. ~overtaken => readers = 1
    BY <2>1, Zenon
  <2>3. readers' \in Int /\ (~overtaken => readers' = 0)
    BY <2>1, <2>2
  <2>4. CASE stage = "blocked" /\ LastReader
    <3>1. stage' = "parse" /\ writing' = TRUE
      BY <1>4, <2>4 DEF EndRead
    <3> QED
      BY <2>1, <2>3, <3>1, Zenon
  <2>5. CASE ~(stage = "blocked" /\ LastReader)
    <3>1. UNCHANGED <<stage, writing>>
      BY <1>4, <2>5 DEF EndRead
    <3> QED
      BY <2>1, <2>3, <3>1, Zenon
  <2> QED BY <2>4, <2>5
<1>5. CASE CheckReload
  BY <1>5 DEF CheckReload, lockVars
<1>6. CASE Refresh
  BY <1>6 DEF Refresh, lockVars
<1>7. CASE Reinitialise
  <2>1. /\ stage' = "lock" /\ writing' = FALSE /\ readers' = 0
        /\ overtaken' = (overtaken \/ reading) /\ reading' = reading
    BY <1>7 DEF Reinitialise
  <2>2. readers' \in Int /\ stage' \notin {"parse", "watch"}
    BY <2>1
  <2> QED
    BY <2>1, <2>2, Zenon
<1>8. CASE LockForWriting
  <2>1. stage = "lock" /\ UNCHANGED <<readers, reading, overtaken>>
    BY <1>8 DEF LockForWriting
  <2>2. CASE readers = 0
    <3>1. stage' = "parse" /\ writing' = TRUE
      BY <1>8, <2>2 DEF LockForWriting, TakeLock
    <3>2. ~overtaken => ~reading
      BY <2>2
    <3> QED
      BY <2>1, <3>1, <3>2, Zenon
  <2>3. CASE readers # 0
    <3>1. stage' = "blocked" /\ writing' = writing
      BY <1>8, <2>3 DEF LockForWriting, TakeLock
    <3>2. ~writing /\ stage' \notin {"parse", "watch"}
      BY <2>1, <3>1
    <3> QED
      BY <2>1, <3>1, <3>2, Zenon
  <2> QED BY <2>2, <2>3
<1>9. CASE ParseLocation
  BY <1>9 DEF ParseLocation, lockVars
<1>10. CASE WatchLocation
  BY <1>10 DEF WatchLocation
<1>11. CASE UNCHANGED vars
  BY <1>11 DEF vars, lockVars
<1> QED
  BY <1>1, <1>2, <1>3, <1>4, <1>5, <1>6, <1>7, <1>8, <1>9, <1>10, <1>11
  DEF Next, Environment, Load

\* Only a location that is parsed changes the values.
LEMMA StepReads ==
  LockInv /\ [Next]_vars => [reading /\ ~overtaken' => UNCHANGED values]_vars
<1> SUFFICES ASSUME LockInv, Next, reading, ~overtaken'
             PROVE  UNCHANGED values
  BY DEF vars
<1>1. ~ParseLocation
  BY DEF LockInv, ParseLocation
<1> QED
  BY <1>1 DEF Next, Environment, Load, Edit, EditOther, BeginRead, EndRead,
    CheckReload, Refresh, Reinitialise, LockForWriting, WatchLocation

\* While the main thread holds the read lock the values it reads stay the
\* same, as long as no reload began while it was reading
\* (gamemode-config.c:487, 551).
THEOREM ReadersSeeOneConfig == Spec => GetterSeesOneConfig
<1>1. Spec => []LockInv
  BY InitLock, NextLock, PTL DEF Spec
<1> QED
  BY <1>1, StepReads, PTL DEF Spec, GetterSeesOneConfig

-----------------------------------------------------------------------------
(* The watches. *)

\* A location without a watch, or with a watch on the directory of a file
\* that is there, is one to be looked at, or its changes cannot be seen.
WatchInv ==
  /\ \A i \in Locations :
       watch[i] = "none" => unwatched[i] \/ Pending(i)
  /\ \A i \in Locations :
       watch[i] = "dir" /\ IsFile(files[i]) => unwatched[i] \/ Pending(i)

EditType ==
  /\ files \in [Locations -> Places]
  /\ parsed \in [Locations -> Contents \cup {Missing}]
  /\ watch \in [Locations -> {"none", "file", "dir"}]
  /\ unwatched \in [Locations -> BOOLEAN]
  /\ events \in Seq(EventKinds)
  /\ at \in Locations
  /\ stage \in Stages
  /\ stage = "blocked" => at = 1

EditInv == EditType /\ WatchInv /\ NoLostEdit

LEMMA PlacesDiffer ==
  Missing \notin Contents /\ NoDirectory \notin Contents /\ Missing # NoDirectory
  BY ConfigAssumption

\* What is appended to the queue, and what is read from it.
LEMMA Appended ==
  ASSUME NEW s \in Seq(EventKinds), NEW k \in EventKinds
  PROVE  /\ Append(s, k) \in Seq(EventKinds)
         /\ ToSet(s) \cup {k} \subseteq ToSet(Append(s, k))
<1> DEFINE t == Append(s, k)
<1>1. t \in Seq(EventKinds) /\ Len(t) = Len(s) + 1
  OBVIOUS
<1>2. \A i \in 1..Len(s) : t[i] = s[i]
  OBVIOUS
<1>3. t[Len(s) + 1] = k
  OBVIOUS
<1>4. DOMAIN s = 1..Len(s) /\ DOMAIN t = 1..Len(s) + 1 /\ Len(s) \in Nat
  BY <1>1
<1> HIDE DEF t
<1>5. ToSet(s) \cup {k} \subseteq ToSet(t)
  BY <1>2, <1>3, <1>4 DEF ToSet
<1> QED
  BY <1>1, <1>5 DEF t

LEMMA Consumed ==
  ASSUME NEW s \in Seq(EventKinds), NEW n \in 1..Len(s)
  PROVE  /\ SubSeq(s, n + 1, Len(s)) \in Seq(EventKinds)
         /\ ToSet(s) \subseteq
              ToSet(SubSeq(s, 1, n)) \cup ToSet(SubSeq(s, n + 1, Len(s)))
<1> DEFINE front == SubSeq(s, 1, n)
           rest == SubSeq(s, n + 1, Len(s))
<1>1. /\ rest \in Seq(EventKinds)
      /\ Len(rest) = Len(s) - n
      /\ \A i \in 1..Len(s) - n : rest[i] = s[n + i]
  OBVIOUS
<1>2. /\ front \in Seq(EventKinds)
      /\ Len(front) = n
      /\ \A i \in 1..n : front[i] = s[i]
  OBVIOUS
<1>3. /\ DOMAIN s = 1..Len(s) /\ Len(s) \in Nat
      /\ DOMAIN front = 1..n /\ DOMAIN rest = 1..Len(s) - n
  BY <1>1, <1>2
<1> HIDE DEF front, rest
<1>4. ASSUME NEW e \in ToSet(s)
      PROVE  e \in ToSet(front) \cup ToSet(rest)
  <2>1. PICK i \in 1..Len(s) : e = s[i]
    BY <1>3 DEF ToSet
  <2>2. CASE i <= n
    BY <2>1, <2>2, <1>2, <1>3 DEF ToSet
  <2>3. CASE i > n
    <3>1. i - n \in 1..Len(s) - n /\ rest[i - n] = s[i]
      BY <2>3, <1>1, <1>3
    <3> QED BY <2>1, <3>1, <1>3 DEF ToSet
  <2> QED BY <2>2, <2>3, <1>3
<1> QED
  BY <1>1, <1>4 DEF front, rest

\* config_init looks at every location.
LEMMA InitEdit == Init => EditInv
<1> SUFFICES ASSUME Init PROVE EditInv
  OBVIOUS
<1>1. EditType
  BY ConfigAssumption DEF Init, EditType, Stages, Locations, EventKinds
<1>2. \A i \in Locations : Pending(i)
  BY DEF Init, Pending
<1> QED
  BY <1>1, <1>2 DEF EditInv, WatchInv, NoLostEdit

\* The events a change brings keep what is pending pending.
LEMMA NotifyKeeps ==
  ASSUME EditType, NEW i \in Locations, NEW kind \in EventKinds, Notify(i, kind),
         UNCHANGED <<stage, at>>
  PROVE  /\ events' \in Seq(EventKinds)
         /\ \A j \in Locations : Pending(j) => Pending(j)'
         /\ kind = "config" => \A j \in Locations : Pending(j)'
<1>1. /\ events' \in Seq(EventKinds)
      /\ ToSet(events) \cup {kind} \subseteq ToSet(events')
  BY Appended DEF EditType, Notify
<1> QED
  BY <1>1 DEF Pending

\* An edit is noticed by a watch, or there is none that could.
LEMMA EditKeeps ==
  ASSUME EditInv, NEW i \in Locations, NEW content \in Places, Edit(i, content)
  PROVE  EditInv'
<1> USE DEF EditInv
<1>1. /\ content # files[i]
      /\ files[i] # NoDirectory \/ content = Missing
      /\ files' = [files EXCEPT ![i] = content]
      /\ UNCHANGED <<stage, at, parsed, unwatched>>
  BY DEF Edit
<1>2. /\ files' \in [Locations -> Places]
      /\ files'[i] = content
      /\ \A j \in Locations \ {i} : files'[j] = files[j]
  BY <1>1 DEF EditType
<1>3. /\ UNCHANGED <<events, watch>> \/ \E kind \in EventKinds : Notify(i, kind)
      /\ watch' = watch \/ watch' = [watch EXCEPT ![i] = "none"]
  BY DEF Edit, EventKinds
<1>4. /\ events' \in Seq(EventKinds)
      /\ \A j \in Locations : Pending(j) => Pending(j)'
  BY <1>1, <1>3, NotifyKeeps DEF EditType, Pending
<1>5. EditType'
  BY <1>1, <1>2, <1>3, <1>4 DEF EditType
<1>6. ASSUME NEW j \in Locations \ {i}
      PROVE  /\ watch'[j] = watch[j] /\ files'[j] = files[j]
             /\ Pending(j) => Pending(j)'
  BY <1>2, <1>3, <1>4 DEF EditType
<1>7. /\ Seen(content) # Seen(files[i]) => unwatched[i] \/ Pending(i)'
      /\ watch'[i] = "none" => unwatched[i] \/ Pending(i)'
      /\ watch'[i] = "dir" /\ IsFile(content) => unwatched[i] \/ Pending(i)'
  <2>1. CASE watch[i] = "none"
    BY <2>1, <1>4 DEF WatchInv
  <2>2. CASE watch[i] = "file"
    <3>1. Notify(i, "config")
      BY <2>2 DEF Edit
    <3> QED BY <3>1, <1>1, NotifyKeeps DEF EventKinds
  <2>3. CASE watch[i] = "dir" /\ content = NoDirectory
    <3>1. Notify(i, "config")
      BY <2>3 DEF Edit
    <3> QED BY <3>1, <1>1, NotifyKeeps DEF EventKinds
  <2>4. CASE watch[i] = "dir" /\ IsFile(content) /\ ~IsFile(files[i])
    <3>1. Notify(i, "config")
      BY <2>4, PlacesDiffer DEF Edit, IsFile
    <3> QED BY <3>1, <1>1, NotifyKeeps DEF EventKinds
  <2>5. CASE watch[i] = "dir" /\ IsFile(files[i])
    BY <2>5, <1>4, <1>3 DEF WatchInv
  <2>6. CASE watch[i] = "dir" /\ content # NoDirectory /\ ~IsFile(content)
             /\ ~IsFile(files[i])
    <3>1. UNCHANGED watch
      BY <2>6 DEF Edit
    <3> QED BY <2>6, <3>1 DEF Seen
  <2> QED
    BY <2>1, <2>2, <2>3, <2>4, <2>5, <2>6 DEF EditType
<1>8. NoLostEdit'
  BY <1>1, <1>2, <1>4, <1>6, <1>7 DEF NoLostEdit
<1>9. WatchInv'
  BY <1>1, <1>2, <1>6, <1>7 DEF WatchInv
<1> QED
  BY <1>5, <1>8, <1>9

\* A location that the load has watched is up to date, or it cannot be
\* watched; those after it are still to come.
LEMMA WatchKeeps == EditInv /\ WatchLocation => EditInv'
<1> SUFFICES ASSUME EditInv, WatchLocation PROVE EditInv'
  OBVIOUS
<1> USE DEF EditInv
<1>1. PICK kind \in Watchable(at) :
        /\ watch' = [watch EXCEPT ![at] = kind]
        /\ unwatched' = [unwatched EXCEPT ![at] =
                           kind = "none" \/ parsed[at] # Seen(files[at])]
  BY DEF WatchLocation
<1>2. /\ at \in Locations /\ stage = "watch" /\ UNCHANGED <<files, parsed, events>>
      /\ \/ at < NumLocations /\ at' = at + 1 /\ stage' = "parse"
         \/ at = NumLocations /\ at' = at /\ stage' = "idle"
  BY ConfigAssumption DEF WatchLocation, EditType, Locations
<1>3. kind \in {"none", "file", "dir"} /\ (kind = "dir" => ~IsFile(parsed[at]))
  BY <1>1 DEF Watchable
<1>4. EditType'
  <2>1. at' \in Locations
    BY <1>2, ConfigAssumption DEF Locations
  <2>2. watch' \in [Locations -> {"none", "file", "dir"}]
    BY <1>1, <1>2, <1>3 DEF EditType
  <2>3. unwatched' \in [Locations -> BOOLEAN]
    BY <1>1, <1>2 DEF EditType
  <2> QED
    BY <1>2, <2>1, <2>2, <2>3 DEF EditType, Stages
<1>5. \A j \in Locations \ {at} : /\ watch'[j] = watch[j]
                                  /\ unwatched'[j] = unwatched[j]
                                  /\ Pending(j) => Pending(j)'
  BY <1>1, <1>2, ConfigAssumption DEF EditType, Pending, Locations
<1>6. /\ watch'[at] = kind
      /\ unwatched'[at] = (kind = "none" \/ parsed[at] # Seen(files[at]))
  BY <1>1, <1>2 DEF EditType
<1>7. NoLostEdit'
  BY <1>2, <1>5, <1>6 DEF NoLostEdit
<1>8. WatchInv'
  BY <1>2, <1>3, <1>5, <1>6 DEF WatchInv, Seen
<1> QED
  BY <1>4, <1>7, <1>8

\* A batch that is not for the configuration leaves the events that are.
LEMMA CheckKeeps == EditInv /\ CheckReload => EditInv'
<1> SUFFICES ASSUME EditInv, CheckReload PROVE EditInv'
  OBVIOUS
<1> USE DEF EditInv
<1>1. PICK n \in 1..Len(events) :
        /\ events' = SubSeq(events, n + 1, Len(events))
        /\ IF NeedsReload(SubSeq(events, 1, n))
             THEN stage' = "init" /\ loader' = "reaper"
             ELSE UNCHANGED <<stage, loader>>
  BY DEF CheckReload
<1>2. /\ events' \in Seq(EventKinds)
      /\ ToSet(events) \subseteq ToSet(SubSeq(events, 1, n)) \cup ToSet(events')
  BY <1>1, Consumed DEF EditType
<1>3. stage = "idle" /\ UNCHANGED <<files, parsed, watch, unwatched, at>>
  BY DEF CheckReload
<1>4. \A j \in Locations : Pending(j) => Pending(j)'
  BY <1>1, <1>2, <1>3 DEF NeedsReload, Pending
<1>5. EditType'
  BY <1>1, <1>2, <1>3 DEF EditType, Stages
<1> QED
  BY <1>3, <1>4, <1>5 DEF NoLostEdit, WatchInv

LEMMA NextEdit == EditInv /\ [Next]_vars => EditInv'
<1> SUFFICES ASSUME EditInv, [Next]_vars PROVE EditInv'
  OBVIOUS
<1>0. EditType /\ WatchInv /\ NoLostEdit
  BY DEF EditInv
<1>1. CASE \E i \in Locations, content \in Places : Edit(i, content)
  BY <1>1, EditKeeps
<1>2. ASSUME NEW i \in Locations, EditOther(i) PROVE EditInv'
  <2>1. /\ Notify(i, "other")
        /\ UNCHANGED <<files, stage, at, watch, parsed, unwatched>>
    BY <1>2 DEF EditOther
  <2>2. /\ events' \in Seq(EventKinds)
        /\ \A j \in Locations : Pending(j) => Pending(j)'
    BY <1>0, <2>1, NotifyKeeps DEF EventKinds
  <2> QED
    BY <1>0, <2>1, <2>2 DEF EditInv, EditType, WatchInv, NoLostEdit
<1>3. CASE BeginRead
  BY <1>0, <1>3 DEF BeginRead, watchVars, EditInv, EditType, WatchInv, NoLostEdit,
    Pending
<1>4. CASE EndRead
  <2>1. /\ UNCHANGED <<files, events, at, watch, parsed, unwatched>>
        /\ stage' = stage \/ (stage = "blocked" /\ stage' = "parse")
    BY <1>4 DEF EndRead, watchVars
  <2>2. \A j \in Locations : Pending(j) => Pending(j)'
    BY <1>0, <2>1 DEF EditType, Pending, Locations
  <2> QED
    BY <1>0, <2>1, <2>2 DEF EditInv, EditType, WatchInv, NoLostEdit, Stages
<1>5. CASE CheckReload
  BY <1>5, CheckKeeps
<1>6. CASE Refresh \/ Reinitialise
  <2>1. /\ UNCHANGED <<files, at, parsed, unwatched>>
        /\ stage' \in {"init", "lock"}
    BY <1>6 DEF Refresh, Reinitialise, watchVars
  <2>2. /\ watch' \in [Locations -> {"none", "file", "dir"}]
        /\ events' \in Seq(EventKinds)
    <3>1. CASE Refresh
      BY <1>0, <3>1 DEF Refresh, watchVars, EditType
    <3>2. CASE Reinitialise
      <4>1. watch' = [i \in Locations |-> "none"] /\ events' = <<>>
        BY <3>2 DEF Reinitialise
      <4> QED BY <4>1
    <3> QED BY <1>6, <3>1, <3>2
  <2>3. \A j \in Locations : Pending(j)'
    BY <2>1 DEF Pending
  <2> QED
    BY <1>0, <2>1, <2>2, <2>3 DEF EditInv, EditType, WatchInv, NoLostEdit, Stages
<1>7. CASE LockForWriting
  <2>1. /\ UNCHANGED <<files, events, watch, parsed, unwatched>>
        /\ at' = 1 /\ stage' \in {"parse", "blocked"}
    BY <1>7 DEF LockForWriting, TakeLock, watchVars
  <2>2. at' \in Locations /\ \A j \in Locations : Pending(j)'
    BY <2>1, ConfigAssumption DEF Pending, Locations
  <2> QED
    BY <1>0, <2>1, <2>2 DEF EditInv, EditType, WatchInv, NoLostEdit, Stages
<1>8. CASE ParseLocation
  <2>1. /\ UNCHANGED <<files, events, watch, unwatched, at>>
        /\ stage = "parse" /\ stage' = "watch"
        /\ parsed' = [parsed EXCEPT ![at] = Seen(files[at])]
    BY <1>8 DEF ParseLocation, watchVars
  <2>2. \A j \in Locations : Pending(j) => Pending(j)'
    BY <2>1 DEF Pending
  <2>3. Seen(files[at]) \in Contents \cup {Missing}
    BY DEF Seen, IsFile
  <2>4. EditType'
    BY <1>0, <2>1, <2>3 DEF EditType, Stages
  <2>5. NoLostEdit'
    BY <1>0, <2>1, <2>2 DEF EditType, NoLostEdit
  <2> QED
    BY <1>0, <2>1, <2>2, <2>4, <2>5 DEF EditInv, WatchInv
<1>9. CASE WatchLocation
  BY <1>9, WatchKeeps
<1>10. CASE UNCHANGED vars
  BY <1>0, <1>10 DEF vars, watchVars, EditInv, EditType, WatchInv, NoLostEdit,
    Pending
<1> QED
  BY <1>1, <1>2, <1>3, <1>4, <1>5, <1>6, <1>7, <1>8, <1>9, <1>10
  DEF Next, Environment, Load

\* A change after the last load waits in the queue, however the events are
\* read, unless there was no watch that could see it: none could be set, or
\* the change fell between the parsing of the file and its watch
\* (gamemode-config.c:457, 561).
THEOREM EditsAreNotLost == Spec => []NoLostEdit
<1>1. Spec => []EditInv
  BY InitEdit, NextEdit, PTL DEF Spec
<1>2. EditInv => NoLostEdit
  BY DEF EditInv
<1> QED
  BY <1>1, <1>2, PTL

-----------------------------------------------------------------------------
(* The values of one file. *)

\* What holds of zero, and of n + 1 if it holds of n, holds of every number.
\* The sets of the library's least-element principle stand for the
\* predicates of its induction principle.
LEMMA SetInduction ==
  ASSUME NEW S, 0 \in S, \A n \in Nat : n \in S => n + 1 \in S
  PROVE  Nat \subseteq S
<1> DEFINE R == {ss \in Nat \X Nat : ss[1] < ss[2]}
           T == Nat \ S
<1> SUFFICES ASSUME T # {} PROVE FALSE
  OBVIOUS
<1>1. IsWellFoundedOn(R, Nat)
  BY NatLessThanWellFounded DEF OpToRel
<1>2. T \subseteq Nat
  OBVIOUS
<1> HIDE DEF R, T
<1>3. \E x \in T : \A y \in T : ~(<<y, x>> \in R)
  BY <1>1, <1>2, WFMin
<1>4. PICK n \in T : \A m \in T : ~(m < n)
  BY <1>2, <1>3 DEF R
<1>5. n \in Nat /\ n # 0
  BY <1>2 DEF T
<1>6. n - 1 \in Nat /\ n - 1 \notin T
  BY <1>2, <1>4, <1>5
<1> QED
  BY <1>5, <1>6 DEF T

\* The states the handler of a line works on.
FitStates ==
  {s \in [values : Values, erange : BOOLEAN] : Len(s.values.whitelist) <= ListMax}

\* What a list is after one more line.
LEMMA AppendedValue ==
  ASSUME NEW list \in Seq(Int), Len(list) <= ListMax, NEW line \in Lines
  PROVE  /\ AppendValue(list, line) \in Seq(Int)
         /\ Len(AppendValue(list, line)) <= ListMax
<1>1. line.value \in Int /\ ListMax \in Nat /\ Len(list) \in Nat
  BY ListMaxAssumption DEF Lines
<1>2. CASE Len(list) < ListMax /\ line.form # "toolong"
  <2>1. AppendValue(list, line) = Append(list, line.value)
    BY <1>2 DEF AppendValue
  <2>2. /\ Append(list, line.value) \in Seq(Int)
        /\ Len(Append(list, line.value)) = Len(list) + 1
    BY <1>1
  <2> QED
    BY <1>1, <1>2, <2>1, <2>2
<1>3. CASE ~(Len(list) < ListMax /\ line.form # "toolong")
  BY <1>3, Zenon DEF AppendValue
<1> QED
  BY <1>2, <1>3

\* What the handler of a line makes of each value: the value of the key, if
\* the line is good and allowed and errno lets it pass, and what was there.
LEMMA LineSets ==
  ASSUME NEW s \in FitStates, NEW line \in Lines, NEW protected \in BOOLEAN,
         NEW r, r = HandleLine(s, protected, line)
  PROVE  /\ r \in FitStates
         /\ s.erange => r.erange
         /\ r.values.whitelist =
              IF line.key = "whitelist" THEN AppendValue(s.values.whitelist, line)
                                        ELSE s.values.whitelist
         /\ r.values.ioprio = IF line.key = "ioprio" THEN line.value
                                                     ELSE s.values.ioprio
         /\ ~r.erange => \A key \in Numbers :
              r.values[key] =
                IF line.key = key /\ line.form = "ok"
                     /\ (key \in ProtectedKeys => protected)
                  THEN line.value ELSE s.values[key]
<1>1. /\ s \in [values : Values, erange : BOOLEAN]
      /\ Len(s.values.whitelist) <= ListMax
  BY DEF FitStates
<1>2. line.key \in Keys /\ line.form \in Forms /\ line.value \in Int
  BY DEF Lines
<1>3. s.values \in Values /\ s.values.whitelist \in Seq(Int)
  BY <1>1 DEF Values
<1>4. CASE line.key = "whitelist"
  <2> DEFINE list == AppendValue(s.values.whitelist, line)
  <2>1. list \in Seq(Int) /\ Len(list) <= ListMax
    BY <1>1, <1>3, AppendedValue
  <2> HIDE DEF list
  <2>2. r = [s EXCEPT !.values.whitelist = list]
    BY <1>4 DEF HandleLine, ProtectedKeys, list
  <2>3. /\ r.erange = s.erange
        /\ r.values = [s.values EXCEPT !.whitelist = list]
        /\ r \in [values : Values, erange : BOOLEAN]
    BY <1>1, <2>1, <2>2 DEF Values
  <2>4. /\ r.values.whitelist = list
        /\ r.values.ioprio = s.values.ioprio
        /\ \A key \in Numbers : r.values[key] = s.values[key]
    BY <1>3, <2>3 DEF Values, Numbers
  <2>5. r \in FitStates
    BY <2>1, <2>3, <2>4 DEF FitStates
  <2> QED
    BY <1>4, <2>3, <2>4, <2>5 DEF Numbers, list
<1>5. CASE line.key = "ioprio"
  <2>1. r = [s EXCEPT !.values.ioprio = line.value]
    BY <1>5 DEF HandleLine, ProtectedKeys
  <2>2. /\ r.erange = s.erange
        /\ r.values = [s.values EXCEPT !.ioprio = line.value]
        /\ r \in [values : Values, erange : BOOLEAN]
    BY <1>1, <1>2, <2>1 DEF Values
  <2>3. /\ r.values.ioprio = line.value
        /\ r.values.whitelist = s.values.whitelist
        /\ \A key \in Numbers : r.values[key] = s.values[key]
    BY <1>3, <2>2 DEF Values, Numbers
  <2>4. r \in FitStates
    BY <1>1, <2>2, <2>3 DEF FitStates
  <2> QED
    BY <1>5, <2>2, <2>3, <2>4 DEF Numbers
<1>6. CASE line.key \in Numbers
  <2>1. line.key # "whitelist" /\ line.key # "ioprio"
    BY <1>6 DEF Numbers
  <2>2. CASE line.key \in ProtectedKeys /\ ~protected
    <3>1. r = s
      BY <2>1, <2>2 DEF HandleLine
    <3> QED
      BY <2>1, <2>2, <3>1
  <2>3. CASE ~(line.key \in ProtectedKeys /\ ~protected)
    <3>1. r = SetNumber(s, line)
      BY <2>1, <2>3 DEF HandleLine
    <3>2. CASE s.erange \/ line.form = "overflow"
      <4>1. r = [s EXCEPT !.erange = TRUE]
        BY <3>1, <3>2 DEF SetNumber
      <4>2. r.values = s.values /\ r.erange /\ r \in [values : Values, erange : BOOLEAN]
        BY <1>1, <4>1
      <4>3. r \in FitStates
        BY <1>1, <4>2 DEF FitStates
      <4> QED
        BY <2>1, <4>2, <4>3
    <3>3. CASE ~(s.erange \/ line.form = "overflow") /\ line.form = "ok"
      <4>1. r = [s EXCEPT !.values[line.key] = line.value]
        BY <3>1, <3>3 DEF SetNumber
      <4>2. r.erange = s.erange /\ r.values = [s.values EXCEPT ![line.key] = line.value]
        BY <1>1, <4>1
      <4>3. /\ r.values \in Values
            /\ r.values.whitelist = s.values.whitelist
            /\ r.values.ioprio = s.values.ioprio
            /\ \A key \in Numbers :
                 r.values[key] = IF line.key = key THEN line.value ELSE s.values[key]
        <5>1. CASE line.key = "renice"
          BY <1>2, <1>3, <4>2, <5>1 DEF Values, Numbers
        <5>2. CASE line.key = "gpu_device"
          BY <1>2, <1>3, <4>2, <5>2 DEF Values, Numbers
        <5> QED
          BY <1>6, <5>1, <5>2 DEF Numbers
      <4>4. r \in [values : Values, erange : BOOLEAN]
        BY <1>1, <4>1, <4>2, <4>3
      <4>5. r \in FitStates
        BY <1>1, <4>3, <4>4 DEF FitStates
      <4> QED
        BY <2>1, <2>3, <3>3, <4>2, <4>3, <4>5
    <3>4. CASE ~(s.erange \/ line.form = "overflow") /\ line.form # "ok"
      <4>1. r = s
        BY <3>1, <3>4 DEF SetNumber
      <4> QED
        BY <2>1, <3>4, <4>1
    <3> QED
      BY <3>2, <3>3, <3>4
  <2> QED
    BY <2>2, <2>3
<1> QED
  BY <1>2, <1>4, <1>5, <1>6 DEF Keys, Numbers

\* The values after a file are those after its last line, each line working
\* on what the one before it left.
LEMMA ParseUnfolds ==
  ASSUME NEW s \in FitStates, NEW protected \in BOOLEAN, NEW lines \in Seq(Lines)
  PROVE  \E after \in [0..Len(lines) -> FitStates] :
           /\ after[0] = s
           /\ \A n \in 1..Len(lines) :
                after[n] = HandleLine(after[n - 1], protected, lines[n])
           /\ Parse(s, protected, lines) = after[Len(lines)]
<1> DEFINE Step(f, n) == IF n = 0 THEN s
                                  ELSE HandleLine(f[n - 1], protected, lines[n])
           Follows(f, n) == \A m \in 0..n : f[m] = Step(f, m)
           S == {n \in Nat : n <= Len(lines) =>
                   \E f \in [0..n -> FitStates] : Follows(f, n)}
<1>0. Len(lines) \in Nat /\ \A n \in 1..Len(lines) : lines[n] \in Lines
  OBVIOUS
<1>1. 0 \in S
  <2> DEFINE f == [m \in 0..0 |-> s]
  <2>1. f \in [0..0 -> FitStates] /\ Follows(f, 0)
    OBVIOUS
  <2> QED
    BY <2>1
<1>2. ASSUME NEW n \in Nat, n \in S, n + 1 <= Len(lines)
      PROVE  \E f \in [0..n + 1 -> FitStates] : Follows(f, n + 1)
  <2>1. PICK f \in [0..n -> FitStates] : Follows(f, n)
    BY <1>0, <1>2
  <2> DEFINE new == HandleLine(f[n], protected, lines[n + 1])
  <2>2. new \in FitStates
    BY <1>0, <1>2, LineSets
  <2> HIDE DEF new
  <2> DEFINE g == [m \in 0..n + 1 |-> IF m = n + 1 THEN new ELSE f[m]]
  <2>3. /\ g \in [0..n + 1 -> FitStates]
        /\ g[n + 1] = new
        /\ \A m \in 0..n : g[m] = f[m]
    BY <2>2
  <2> HIDE DEF g
  <2>4. ASSUME NEW m \in 0..n PROVE g[m] = Step(g, m)
    <3>1. CASE m = 0
      BY <2>1, <2>3, <3>1
    <3>2. CASE m # 0
      <4>1. m - 1 \in 0..n /\ g[m - 1] = f[m - 1] /\ g[m] = f[m]
        BY <2>3, <3>2
      <4> QED
        BY <2>1, <3>2, <4>1
    <3> QED
      BY <3>1, <3>2
  <2>5. g[n + 1] = Step(g, n + 1)
    <3>1. n + 1 # 0 /\ (n + 1) - 1 = n /\ g[n] = f[n]
      BY <2>3
    <3> QED
      BY <2>3, <3>1 DEF new
  <2>6. ASSUME NEW m \in 0..n + 1 PROVE g[m] = Step(g, m)
    <3>1. m \in 0..n \/ m = n + 1
      OBVIOUS
    <3> HIDE DEF Step
    <3> QED
      BY <2>4, <2>5, <3>1
  <2> HIDE DEF Step
  <2> QED
    BY <2>3, <2>6
<1>3. Nat \subseteq S
  <2>1. \A n \in Nat : n \in S => n + 1 \in S
    <3> HIDE DEF Follows
    <3> QED
      BY <1>0, <1>2
  <2> HIDE DEF S
  <2> QED
    BY <1>1, <2>1, SetInduction
<1>4. PICK f \in [0..Len(lines) -> FitStates] : Follows(f, Len(lines))
  <2>1. Len(lines) \in S
    BY <1>0, <1>3
  <2> HIDE DEF Follows
  <2> QED
    BY <1>0, <2>1
<1> DEFINE after == CHOOSE g : g = [n \in 0..Len(lines) |-> Step(g, n)]
<1>5. f = [n \in 0..Len(lines) |-> Step(f, n)]
  BY <1>4
<1>6. after = [n \in 0..Len(lines) |-> Step(after, n)]
  BY <1>5
<1>7. Parse(s, protected, lines) = after[Len(lines)]
  BY DEF Parse
<1> HIDE DEF after
<1>8. after[0] = s
  BY <1>0, <1>6
<1>9. \A n \in 1..Len(lines) :
        after[n] = HandleLine(after[n - 1], protected, lines[n])
  BY <1>0, <1>6
<1> DEFINE U == {n \in Nat : n <= Len(lines) => after[n] \in FitStates}
<1>10. 0 \in U
  BY <1>8
<1>11. ASSUME NEW n \in Nat, n \in U, n + 1 <= Len(lines)
       PROVE  after[n + 1] \in FitStates
  <2>1. after[n] \in FitStates /\ lines[n + 1] \in Lines
    BY <1>0, <1>11
  <2>2. n + 1 \in 1..Len(lines) /\ (n + 1) - 1 = n
    BY <1>0, <1>11
  <2>3. after[n + 1] = HandleLine(after[n], protected, lines[n + 1])
    BY <1>9, <2>2
  <2> QED
    BY <2>1, <2>3, LineSets
<1>12. Nat \subseteq U
  <2>1. \A n \in Nat : n \in U => n + 1 \in U
    BY <1>0, <1>11
  <2> HIDE DEF U
  <2> QED
    BY <1>10, <2>1, SetInduction
<1>13. \A n \in 0..Len(lines) : after[n] \in FitStates
  BY <1>0, <1>12
<1>14. after \in [0..Len(lines) -> FitStates]
  BY <1>6, <1>13
<1> QED
  BY <1>7, <1>8, <1>9, <1>14

-----------------------------------------------------------------------------
(* The type invariant. *)

\* pthread_rwlock_unlock counts down what it did not count up when the lock
\* was initialised while the main thread was reading, but only once at a
\* time: the next read makes up for it.
CountInv ==
  LET counted == IF reading THEN 1 ELSE 0
  IN readers \in {counted, counted - 1}

ValuesType ==
  /\ values \in Values /\ Len(values.whitelist) <= ListMax
  /\ erange \in BOOLEAN /\ overflowed \in BOOLEAN
  /\ loader \in Threads \cup {"none"}

\* Every step keeps the count within one of what it should be.
LEMMA NextCount == LockInv /\ CountInv /\ [Next]_vars => CountInv'
<1> SUFFICES ASSUME LockInv, CountInv, [Next]_vars PROVE CountInv'
  OBVIOUS
<1>0. reading \in BOOLEAN /\ readers \in Int
  BY DEF LockInv
<1>1. CASE BeginRead
  <2>1. ~reading /\ reading' = TRUE /\ readers' = readers + 1
    BY <1>1 DEF BeginRead
  <2>2. reading'
    BY <2>1
  <2> QED
    BY <1>0, <2>1, <2>2 DEF CountInv
<1>2. CASE EndRead
  <2>1. reading /\ reading' = FALSE /\ readers' = readers - 1
    BY <1>2 DEF EndRead
  <2>2. ~reading'
    BY <2>1
  <2> QED
    BY <1>0, <2>1, <2>2 DEF CountInv
<1>3. CASE Reinitialise
  <2>1. readers' = 0 /\ reading' = reading
    BY <1>3 DEF Reinitialise
  <2> QED
    BY <1>0, <2>1 DEF CountInv
<1>4. ASSUME UNCHANGED <<readers, reading>> PROVE CountInv'
  BY <1>4 DEF CountInv
<1> QED
  BY <1>1, <1>2, <1>3, <1>4
  DEF Next, Environment, Load, Edit, EditOther, CheckReload, Refresh,
    LockForWriting, ParseLocation, WatchLocation, lockVars, vars

\* What one location makes of the values: those before it, or the defaults,
\* with the lines of its file.
LEMMA LocationParsed ==
  ASSUME EditType, ValuesType, ParseLocation
  PROVE  \E start \in ParseStates(at) : \E end \in FitStates :
           /\ start \in FitStates
           /\ end = IF IsFile(files[at])
                      THEN Parse(start, at \in Protected, files[at])
                      ELSE [start EXCEPT !.erange = FALSE]
           /\ values' = end.values
           /\ erange' = (end.erange /\ at < NumLocations)
           /\ overflowed' = (overflowed \/ end.erange)
<1>1. PICK start \in ParseStates(at) :
        LET end == IF IsFile(files[at])
                     THEN Parse(start, at \in Protected, files[at])
                     ELSE [start EXCEPT !.erange = FALSE]
        IN /\ values' = end.values
           /\ erange' = (end.erange /\ at < NumLocations)
           /\ overflowed' = (overflowed \/ end.erange)
  BY DEF ParseLocation
<1>2. start \in FitStates
  <2>1. Defaults \in Values /\ Len(Defaults.whitelist) <= ListMax
    BY ListMaxAssumption DEF Defaults, Values
  <2>2. \A e \in {FALSE, overflowed} : e \in BOOLEAN
    BY DEF ValuesType
  <2>3. CASE at > 1
    <3>1. start = [values |-> values, erange |-> erange]
      BY <2>3 DEF ParseStates
    <3> QED
      BY <3>1 DEF ValuesType, FitStates
  <2>4. CASE ~(at > 1)
    <3>1. PICK e \in {FALSE, overflowed} : start = [values |-> Defaults, erange |-> e]
      BY <2>4 DEF ParseStates
    <3>2. e \in BOOLEAN
      BY <2>2
    <3> HIDE DEF Defaults
    <3> QED
      BY <2>1, <3>1, <3>2 DEF FitStates
  <2> QED
    BY <2>3, <2>4
<1> DEFINE end == IF IsFile(files[at])
                    THEN Parse(start, at \in Protected, files[at])
                    ELSE [start EXCEPT !.erange = FALSE]
<1>3. end \in FitStates
  <2>1. CASE IsFile(files[at])
    <3>1. files[at] \in Seq(Lines)
      BY <2>1, ConfigAssumption DEF IsFile
    <3>2. Len(files[at]) \in 0..Len(files[at])
      BY <3>1
    <3>3. \A protected \in BOOLEAN :
            Parse(start, protected, files[at]) \in FitStates
      <4> TAKE protected \in BOOLEAN
      <4>1. PICK after \in [0..Len(files[at]) -> FitStates] :
              Parse(start, protected, files[at]) = after[Len(files[at])]
        BY <1>2, <3>1, ParseUnfolds
      <4> QED
        BY <3>2, <4>1
    <3>4. PICK allowed \in BOOLEAN : allowed = (at \in Protected)
      <4>1. (at \in Protected) \in BOOLEAN
        OBVIOUS
      <4> QED
        BY <4>1
    <3>5. end = Parse(start, allowed, files[at])
      BY <2>1, <3>4
    <3> HIDE DEF end
    <3> QED
      BY <3>3, <3>5
  <2>2. CASE ~IsFile(files[at])
    <3>1. end = [start EXCEPT !.erange = FALSE]
      BY <2>2
    <3>2. start \in [values : Values, erange : BOOLEAN]
      BY <1>2 DEF FitStates
    <3>3. end \in [values : Values, erange : BOOLEAN] /\ end.values = start.values
      BY <3>1, <3>2
    <3> QED
      BY <1>2, <3>3 DEF FitStates
  <2> QED
    BY <2>1, <2>2
<1>4. /\ values' = end.values
      /\ erange' = (end.erange /\ at < NumLocations)
      /\ overflowed' = (overflowed \/ end.erange)
  BY <1>1
<1> QED
  BY <1>2, <1>3, <1>4

\* Every step keeps the types of the values.
LEMMA NextValuesType == EditType /\ ValuesType /\ [Next]_vars => ValuesType'
<1> SUFFICES ASSUME EditType, ValuesType, [Next]_vars PROVE ValuesType'
  OBVIOUS
<1>1. CASE ParseLocation
  <2>1. PICK end \in FitStates :
          /\ values' = end.values
          /\ erange' = (end.erange /\ at < NumLocations)
          /\ overflowed' = (overflowed \/ end.erange)
    BY <1>1, LocationParsed
  <2>2. end \in [values : Values, erange : BOOLEAN]
        /\ Len(end.values.whitelist) <= ListMax
    BY DEF FitStates
  <2>3. loader' = loader
    BY <1>1 DEF ParseLocation
  <2>4. values' \in Values /\ Len(values'.whitelist) <= ListMax
    BY <2>1, <2>2
  <2>5. erange' \in BOOLEAN /\ overflowed' \in BOOLEAN
    BY <2>1, Zenon
  <2> QED
    BY <2>3, <2>4, <2>5 DEF ValuesType
<1>2. ASSUME UNCHANGED <<values, erange, overflowed>>,
             loader' \in Threads \cup {"none"}
      PROVE  ValuesType'
  BY <1>2 DEF ValuesType
<1>3. CASE CheckReload \/ Refresh \/ WatchLocation
  <2>1. /\ UNCHANGED <<values, erange, overflowed>>
        /\ loader' \in Threads \cup {"none"}
    BY <1>3 DEF CheckReload, Refresh, WatchLocation, ValuesType, Threads
  <2> QED
    BY <1>2, <2>1
<1>4. CASE UNCHANGED vars \/ Environment \/ BeginRead \/ EndRead \/ Reinitialise
           \/ LockForWriting
  <2>1. UNCHANGED <<values, erange, overflowed, loader>>
    BY <1>4 DEF vars, Environment, Edit, EditOther, BeginRead, EndRead,
      Reinitialise, LockForWriting
  <2> QED
    BY <1>2, <2>1 DEF ValuesType
<1> QED
  BY <1>1, <1>3, <1>4 DEF Next, Load

TypeInv == LockInv /\ EditInv /\ CountInv /\ ValuesType

LEMMA InitType == Init => TypeInv
<1> SUFFICES ASSUME Init PROVE TypeInv
  OBVIOUS
<1>1. CountInv
  <2>1. readers = 0 /\ reading = FALSE
    BY DEF Init
  <2> QED
    BY <2>1 DEF CountInv
<1>2. ValuesType
  <2>1. values = Defaults /\ erange = FALSE /\ overflowed = FALSE /\ loader = "main"
    BY DEF Init
  <2>2. Defaults \in Values /\ Len(Defaults.whitelist) <= ListMax
    BY ListMaxAssumption DEF Defaults, Values
  <2> HIDE DEF Defaults
  <2> QED
    BY <2>1, <2>2 DEF ValuesType, Threads
<1> QED
  BY <1>1, <1>2, InitLock, InitEdit DEF TypeInv

\* The lists never hold more than the struct has room for, the watches and
\* the events are of the kinds inotify reports, the readers the lock counts
\* are off by one at most.
THEOREM TypeCorrectness == Spec => []TypeOK
<1>1. TypeInv /\ [Next]_vars => TypeInv'
  BY NextLock, NextEdit, NextCount, NextValuesType DEF TypeInv, EditInv
<1>2. TypeInv => TypeOK
  <2> SUFFICES ASSUME TypeInv PROVE TypeOK
    OBVIOUS
  <2>1. readers \in {-1, 0, 1}
    BY DEF TypeInv, LockInv, CountInv
  <2>2. {erange, writing, reading, overflowed, overtaken} \subseteq BOOLEAN
    BY Zenon DEF TypeInv, LockInv, ValuesType
  <2> QED
    BY <2>1, <2>2 DEF TypeInv, EditInv, EditType, ValuesType, TypeOK
<1> QED
  BY <1>1, <1>2, InitType, PTL DEF Spec

-----------------------------------------------------------------------------
(* The values and the files. *)

\* The positions of a key before a location, and in the first lines of it.
UpTo(found, key, i, n) ==
  {p \in Assignments(found, key) : p[1] < i \/ (p[1] = i /\ p[2] <= n)}

\* The values are those the positions up to there give them.
FollowUpTo(vals, found, i, n, keys) ==
  /\ IsFiniteSet(UpTo(found, "whitelist", i, n))
  /\ ListsFirst(vals.whitelist, found, UpTo(found, "whitelist", i, n))
  /\ \A key \in keys :
       HasLast(vals[key], Defaults[key], found, UpTo(found, key, i, n))

Found == [Locations -> Contents \cup {Missing}]

LEMMA PositionType ==
  ASSUME NEW found \in Found, NEW key \in Keys
  PROVE  /\ \A p \in Assignments(found, key) :
              /\ p \in Locations \X (Nat \ {0})
              /\ IsFile(found[p[1]]) /\ p[2] \in 1..Len(found[p[1]])
              /\ Counts(key, p[1], found[p[1]][p[2]])
         /\ \A i \in Locations : IsFile(found[i]) =>
              \A n \in 1..Len(found[i]) :
                Counts(key, i, found[i][n]) => <<i, n>> \in Assignments(found, key)
<1>1. \A i \in Locations :
        /\ IsFile(found[i]) => /\ LinesOf(found[i]) = found[i]
                               /\ found[i] \in Seq(Lines)
        /\ ~IsFile(found[i]) => LinesOf(found[i]) = <<>>
  BY ConfigAssumption DEF LinesOf, IsFile
<1>2. \A i \in Locations :
        /\ IsFile(found[i]) => DOMAIN LinesOf(found[i]) = 1..Len(found[i])
        /\ ~IsFile(found[i]) => DOMAIN LinesOf(found[i]) = {}
  BY <1>1
<1>3. ASSUME NEW p \in Assignments(found, key)
      PROVE  /\ p \in Locations \X (Nat \ {0})
             /\ IsFile(found[p[1]]) /\ p[2] \in 1..Len(found[p[1]])
             /\ Counts(key, p[1], found[p[1]][p[2]])
  <2>1. /\ p \in UNION {{i} \X DOMAIN LinesOf(found[i]) : i \in Locations}
        /\ Counts(key, p[1], found[p[1]][p[2]])
    BY <1>3 DEF Assignments
  <2>2. PICK i \in Locations : p \in {i} \X DOMAIN LinesOf(found[i])
    BY <2>1
  <2>3. p[1] = i /\ p[2] \in DOMAIN LinesOf(found[i]) /\ p = <<p[1], p[2]>>
    BY <2>2
  <2>4. IsFile(found[i]) /\ p[2] \in 1..Len(found[i]) /\ found[i] \in Seq(Lines)
    BY <1>1, <1>2, <2>3
  <2>5. p[2] \in Nat \ {0}
    BY <2>4
  <2> QED
    BY <2>1, <2>3, <2>4, <2>5
<1>4. ASSUME NEW i \in Locations, IsFile(found[i]), NEW n \in 1..Len(found[i]),
             Counts(key, i, found[i][n])
      PROVE  <<i, n>> \in Assignments(found, key)
  <2>1. <<i, n>> \in {i} \X DOMAIN LinesOf(found[i])
    BY <1>2, <1>4
  <2>2. <<i, n>> \in UNION {{j} \X DOMAIN LinesOf(found[j]) : j \in Locations}
    BY <2>1
  <2> QED
    BY <1>4, <2>2 DEF Assignments
<1> QED
  BY <1>3, <1>4

\* One more line adds its position if it counts, after all that there are.
LEMMA NextPosition ==
  ASSUME NEW found \in Found, NEW key \in Keys, NEW i \in Locations,
         IsFile(found[i]), NEW n \in Nat, n + 1 \in 1..Len(found[i])
  PROVE  /\ Counts(key, i, found[i][n + 1]) =>
              UpTo(found, key, i, n + 1) = UpTo(found, key, i, n) \cup {<<i, n + 1>>}
         /\ ~Counts(key, i, found[i][n + 1]) =>
              UpTo(found, key, i, n + 1) = UpTo(found, key, i, n)
         /\ \A q \in UpTo(found, key, i, n) :
              q \in Nat \X Nat /\ Before(q, <<i, n + 1>>)
<1>1. Locations \subseteq Nat
  BY ConfigAssumption DEF Locations
<1>2. ASSUME NEW p \in Assignments(found, key), p[1] = i, p[2] = n + 1
      PROVE  p = <<i, n + 1>> /\ Counts(key, i, found[i][n + 1])
  <2>1. p \in Locations \X (Nat \ {0}) /\ Counts(key, p[1], found[p[1]][p[2]])
    BY PositionType
  <2> QED
    BY <1>2, <2>1
<1>3. \A p \in Assignments(found, key) : p[1] \in Nat /\ p[2] \in Nat /\ p \in Nat \X Nat
  BY <1>1, PositionType
<1>4. \A p \in Assignments(found, key) :
        p[2] <= n + 1 <=> (p[2] <= n \/ p[2] = n + 1)
  BY <1>3
<1>5. UpTo(found, key, i, n) \subseteq UpTo(found, key, i, n + 1)
  BY <1>4 DEF UpTo
<1>6. \A p \in UpTo(found, key, i, n + 1) :
        p \in UpTo(found, key, i, n) \/ (p[1] = i /\ p[2] = n + 1)
  BY <1>4 DEF UpTo
<1>7. Counts(key, i, found[i][n + 1]) => <<i, n + 1>> \in UpTo(found, key, i, n + 1)
  <2> SUFFICES ASSUME Counts(key, i, found[i][n + 1])
               PROVE  <<i, n + 1>> \in UpTo(found, key, i, n + 1)
    OBVIOUS
  <2>1. <<i, n + 1>> \in Assignments(found, key)
    BY PositionType
  <2> QED
    BY <2>1 DEF UpTo
<1>8. UpTo(found, key, i, n + 1) \subseteq Assignments(found, key)
  BY DEF UpTo
<1>9. \A q \in UpTo(found, key, i, n) : q \in Nat \X Nat /\ Before(q, <<i, n + 1>>)
  BY <1>1, <1>3 DEF UpTo, Before
<1>10. \A p \in UpTo(found, key, i, n + 1) :
         \/ p \in UpTo(found, key, i, n)
         \/ p = <<i, n + 1>> /\ Counts(key, i, found[i][n + 1])
  BY <1>2, <1>6, <1>8
<1> QED
  BY <1>5, <1>7, <1>9, <1>10

\* The positions before a location do not depend on what is found there or
\* after it; those of a location are all there are before the next.
LEMMA PositionsBefore ==
  ASSUME NEW found \in Found, NEW other \in Found, NEW key \in Keys,
         NEW i \in Int, \A j \in Locations : j < i => found[j] = other[j]
  PROVE  /\ UpTo(found, key, i, 0) = UpTo(other, key, i, 0)
         /\ \A p \in UpTo(found, key, i, 0) : found[p[1]] = other[p[1]]
<1>1. \A p \in Assignments(found, key) : p \in Locations \X (Nat \ {0})
  BY PositionType
<1>2. \A p \in Assignments(other, key) : p \in Locations \X (Nat \ {0})
  BY PositionType
<1>3. \A p \in UpTo(found, key, i, 0) \cup UpTo(other, key, i, 0) :
        p[1] \in Locations /\ p[1] < i /\ p = <<p[1], p[2]>>
  BY <1>1, <1>2 DEF UpTo
<1>4. ASSUME NEW p \in UpTo(found, key, i, 0) PROVE p \in UpTo(other, key, i, 0)
  <2>1. p \in Assignments(found, key) /\ p[1] < i
    BY <1>3 DEF UpTo
  <2>2. /\ IsFile(found[p[1]]) /\ p[2] \in 1..Len(found[p[1]])
        /\ Counts(key, p[1], found[p[1]][p[2]]) /\ found[p[1]] = other[p[1]]
    BY <1>3, <2>1, PositionType
  <2>3. <<p[1], p[2]>> \in Assignments(other, key)
    BY <1>3, <2>2, PositionType
  <2> QED
    BY <1>3, <2>1, <2>3 DEF UpTo
<1>5. ASSUME NEW p \in UpTo(other, key, i, 0) PROVE p \in UpTo(found, key, i, 0)
  <2>1. p \in Assignments(other, key) /\ p[1] < i
    BY <1>3 DEF UpTo
  <2>2. /\ IsFile(other[p[1]]) /\ p[2] \in 1..Len(other[p[1]])
        /\ Counts(key, p[1], other[p[1]][p[2]]) /\ found[p[1]] = other[p[1]]
    BY <1>3, <2>1, PositionType
  <2>3. <<p[1], p[2]>> \in Assignments(found, key)
    BY <1>3, <2>2, PositionType
  <2> QED
    BY <1>3, <2>1, <2>3 DEF UpTo
<1> QED
  BY <1>3, <1>4, <1>5

LEMMA PositionsOfFile ==
  ASSUME NEW found \in Found, NEW key \in Keys, NEW i \in Locations
  PROVE  /\ UpTo(found, key, 1, 0) = {}
         /\ UpTo(found, key, NumLocations + 1, 0) = Assignments(found, key)
         /\ IsFile(found[i]) =>
              UpTo(found, key, i, Len(found[i])) = UpTo(found, key, i + 1, 0)
         /\ ~IsFile(found[i]) =>
              UpTo(found, key, i, 0) = UpTo(found, key, i + 1, 0)
<1>1. \A p \in Assignments(found, key) :
        /\ p[1] \in 1..NumLocations /\ p[2] \in Nat \ {0}
        /\ IsFile(found[p[1]]) /\ p[2] \in 1..Len(found[p[1]])
  BY PositionType DEF Locations
<1>2. i \in Int /\ NumLocations \in Nat
  BY ConfigAssumption DEF Locations
<1>3. \A p \in Assignments(found, key) :
        /\ ~(p[1] < 1) /\ ~(p[2] <= 0) /\ p[1] < NumLocations + 1
        /\ p[1] < i + 1 <=> (p[1] < i \/ p[1] = i)
  BY <1>1, <1>2
<1>4. \A p \in Assignments(found, key) : p[1] = i =>
        IsFile(found[i]) /\ p[2] <= Len(found[i])
  BY <1>1
<1> QED
  BY <1>3, <1>4 DEF UpTo

\* A line that counts extends the list, if there is room for it.
LEMMA ListGrows ==
  ASSUME NEW found, NEW positions, IsFiniteSet(positions), NEW p \in Nat \X Nat,
         \A q \in positions : q \in Nat \X Nat /\ Before(q, p),
         NEW list \in Seq(Int), ListsFirst(list, found, positions),
         NEW line \in Lines, line = found[p[1]][p[2]], line.form # "toolong"
  PROVE  /\ IsFiniteSet(positions \cup {p})
         /\ ListsFirst(AppendValue(list, line), found, positions \cup {p})
<1> DEFINE all == positions \cup {p}
           c == Cardinality(positions)
           new == AppendValue(list, line)
<1>1. p \notin positions /\ ~Before(p, p) /\ \A q \in positions : ~Before(p, q)
  BY DEF Before
<1>2. c \in Nat /\ Cardinality(all) = c + 1 /\ IsFiniteSet(all)
  BY <1>1, FS_AddElement, FS_CardinalityType
<1>3. Rank(p, all) = c
  <2>1. {q \in all : Before(q, p)} = positions
    BY <1>1
  <2> QED
    BY <2>1 DEF Rank
<1>4. ASSUME NEW q \in positions
      PROVE  /\ Rank(q, all) = Rank(q, positions)
             /\ Rank(q, positions) \in Nat /\ Rank(q, positions) < c
  <2> DEFINE first == {r \in positions : Before(r, q)}
  <2>1. {r \in all : Before(r, q)} = first
    BY <1>1
  <2>2. q \in Nat \X Nat /\ q \notin first
    BY DEF Before
  <2>3. first \subseteq positions /\ first # positions
    BY <2>2
  <2>4. IsFiniteSet(first) /\ Cardinality(first) \in Nat
    BY <2>3, FS_Subset, FS_CardinalityType
  <2>5. Cardinality(first) <= c /\ Cardinality(first) # c
    BY <2>3, FS_Subset
  <2>6. Rank(q, all) = Cardinality(first)
    BY <2>1 DEF Rank
  <2>7. Rank(q, positions) = Cardinality(first)
    BY DEF Rank
  <2> HIDE DEF first, all
  <2> QED
    BY <1>2, <2>4, <2>5, <2>6, <2>7
<1>5. ListMax \in Nat /\ ListMax > 0 /\ Len(list) \in Nat /\ line.value \in Int
  BY ListMaxAssumption DEF Lines
<1>6. /\ Len(list) = IF c < ListMax THEN c ELSE ListMax
      /\ \A q \in positions : Rank(q, positions) < ListMax =>
           list[Rank(q, positions) + 1] = found[q[1]][q[2]].value
  BY DEF ListsFirst
<1>7. CASE c < ListMax
  <2>1. new = Append(list, line.value)
    BY <1>5, <1>6, <1>7 DEF AppendValue
  <2>2. /\ Len(new) = c + 1 /\ new[c + 1] = line.value
        /\ \A k \in 1..c : new[k] = list[k]
    BY <1>5, <1>6, <1>7, <2>1
  <2>3. ASSUME NEW q \in all, Rank(q, all) < ListMax
        PROVE  new[Rank(q, all) + 1] = found[q[1]][q[2]].value
    <3>1. CASE q = p
      BY <1>3, <2>2, <3>1
    <3>2. CASE q \in positions
      <4> DEFINE k == Rank(q, positions)
      <4>1. k \in Nat /\ k < c /\ Rank(q, all) = k
        BY <1>4, <3>2
      <4>2. list[k + 1] = found[q[1]][q[2]].value
        BY <1>6, <1>7, <2>3, <3>2, <4>1
      <4> HIDE DEF k, new, c
      <4>3. k + 1 \in 1..c
        BY <1>2, <4>1
      <4> QED
        BY <2>2, <4>1, <4>2, <4>3
    <3> QED
      BY <3>1, <3>2
  <2>4. Len(new) = IF Cardinality(all) < ListMax THEN Cardinality(all) ELSE ListMax
    BY <1>2, <1>5, <1>7, <2>2
  <2> HIDE DEF all, new
  <2>5. ListsFirst(new, found, all)
    BY <2>3, <2>4 DEF ListsFirst
  <2> QED
    BY <1>2, <2>5 DEF all, new
<1>8. CASE ~(c < ListMax)
  <2>1. new = list /\ Len(list) = ListMax
    BY <1>5, <1>6, <1>8 DEF AppendValue
  <2>2. ASSUME NEW q \in all, Rank(q, all) < ListMax
        PROVE  new[Rank(q, all) + 1] = found[q[1]][q[2]].value
    <3>1. q \in positions
      BY <1>3, <1>8, <2>2
    <3> QED
      BY <1>4, <1>6, <2>1, <2>2, <3>1
  <2>3. Len(new) = IF Cardinality(all) < ListMax THEN Cardinality(all) ELSE ListMax
    BY <1>2, <1>5, <1>8, <2>1
  <2> HIDE DEF all, new
  <2>4. ListsFirst(new, found, all)
    BY <2>2, <2>3 DEF ListsFirst
  <2> QED
    BY <1>2, <2>4 DEF all, new
<1> QED
  BY <1>7, <1>8

\* A line that counts decides the value of its key.
LEMMA LastMoves ==
  ASSUME NEW found, NEW positions, NEW p, \A q \in positions : Before(q, p),
         NEW value, value = found[p[1]][p[2]].value, NEW default
  PROVE  HasLast(value, default, found, positions \cup {p})
<1>1. /\ p \in positions \cup {p}
      /\ \A q \in positions \cup {p} : q = p \/ Before(q, p)
      /\ positions \cup {p} # {}
  OBVIOUS
<1> QED
  BY <1>1 DEF HasLast

\* The numbers follow as long as errno does not say that one overflowed.
Clean(keys, s) == {"ioprio"} \cup (IF s.erange THEN {} ELSE keys)

\* The handler of a line makes the values follow that line, too.
LEMMA LineFollows ==
  ASSUME NEW found \in Found, NEW i \in Locations, IsFile(found[i]),
         NEW n \in Nat, n + 1 \in 1..Len(found[i]),
         NEW protected \in BOOLEAN, protected <=> i \in Protected,
         NEW keys \in SUBSET Numbers, NEW s \in FitStates,
         NEW r, r = HandleLine(s, protected, found[i][n + 1]),
         FollowUpTo(s.values, found, i, n, Clean(keys, s))
  PROVE  FollowUpTo(r.values, found, i, n + 1, Clean(keys, r))
<1> DEFINE line == found[i][n + 1]
           p == <<i, n + 1>>
<1>1. line \in Lines
  <2>1. found[i] \in Seq(Lines)
    BY ConfigAssumption DEF IsFile
  <2> QED
    BY <2>1
<1>2. p \in Nat \X Nat /\ found[p[1]][p[2]] = line
  BY ConfigAssumption DEF Locations
<1>3. /\ s.erange => r.erange
      /\ r.values.whitelist =
           IF line.key = "whitelist" THEN AppendValue(s.values.whitelist, line)
                                     ELSE s.values.whitelist
      /\ r.values.ioprio = IF line.key = "ioprio" THEN line.value
                                                  ELSE s.values.ioprio
      /\ ~r.erange => \A key \in Numbers :
           r.values[key] =
             IF line.key = key /\ line.form = "ok"
                  /\ (key \in ProtectedKeys => protected)
               THEN line.value ELSE s.values[key]
  BY <1>1, LineSets
<1>4. /\ IsFiniteSet(UpTo(found, "whitelist", i, n))
      /\ ListsFirst(s.values.whitelist, found, UpTo(found, "whitelist", i, n))
      /\ \A key \in Clean(keys, s) :
           HasLast(s.values[key], Defaults[key], found, UpTo(found, key, i, n))
  BY DEF FollowUpTo
<1>5. \A key \in Keys :
        /\ Counts(key, i, line) => UpTo(found, key, i, n + 1) =
                                     UpTo(found, key, i, n) \cup {p}
        /\ ~Counts(key, i, line) => UpTo(found, key, i, n + 1) =
                                      UpTo(found, key, i, n)
        /\ \A q \in UpTo(found, key, i, n) : q \in Nat \X Nat /\ Before(q, p)
  BY NextPosition
<1>6. s.values.whitelist \in Seq(Int)
  BY DEF FitStates, Values
<1> HIDE DEF line, p
<1>7. /\ IsFiniteSet(UpTo(found, "whitelist", i, n + 1))
      /\ ListsFirst(r.values.whitelist, found, UpTo(found, "whitelist", i, n + 1))
  <2>1. "whitelist" \in Keys /\ "whitelist" \notin Numbers \cup ProtectedKeys
    BY DEF Keys, Numbers, ProtectedKeys
  <2>2. Counts("whitelist", i, line) <=>
          line.key = "whitelist" /\ line.form # "toolong"
    BY <2>1 DEF Counts
  <2>3. CASE Counts("whitelist", i, line)
    <3>1. r.values.whitelist = AppendValue(s.values.whitelist, line)
      BY <1>3, <2>2, <2>3
    <3>2. UpTo(found, "whitelist", i, n + 1) = UpTo(found, "whitelist", i, n) \cup {p}
      BY <1>5, <2>1, <2>3
    <3>3. \A q \in UpTo(found, "whitelist", i, n) : q \in Nat \X Nat /\ Before(q, p)
      BY <1>5, <2>1
    <3>4. line.form # "toolong" /\ line = found[p[1]][p[2]]
      BY <1>2, <2>2, <2>3
    <3> DEFINE old == UpTo(found, "whitelist", i, n)
               list == s.values.whitelist
    <3>5. /\ IsFiniteSet(old) /\ ListsFirst(list, found, old)
          /\ \A q \in old : q \in Nat \X Nat /\ Before(q, p)
          /\ list \in Seq(Int)
      BY <1>4, <1>6, <3>3
    <3> HIDE DEF old, list
    <3>6. /\ IsFiniteSet(old \cup {p})
          /\ ListsFirst(AppendValue(list, line), found, old \cup {p})
      BY <1>1, <1>2, <3>4, <3>5, ListGrows
    <3> QED
      BY <3>1, <3>2, <3>6 DEF old, list
  <2>4. CASE ~Counts("whitelist", i, line)
    <3>1. r.values.whitelist = s.values.whitelist
      BY <1>3, <2>2, <2>4 DEF AppendValue
    <3>2. UpTo(found, "whitelist", i, n + 1) = UpTo(found, "whitelist", i, n)
      BY <1>5, <2>1, <2>4
    <3> QED
      BY <1>4, <3>1, <3>2
  <2> QED
    BY <2>3, <2>4
<1>8. ASSUME NEW key \in Clean(keys, r)
      PROVE  HasLast(r.values[key], Defaults[key], found, UpTo(found, key, i, n + 1))
  <2>1. key \in Clean(keys, s) /\ key \in Keys /\ key # "whitelist"
    BY <1>3 DEF Clean, Keys, Numbers
  <2>2. r.values[key] = IF Counts(key, i, line) THEN line.value ELSE s.values[key]
    <3>1. CASE key = "ioprio"
      <4>1. Counts(key, i, line) <=> line.key = "ioprio"
        BY <3>1 DEF Counts, Numbers, ProtectedKeys
      <4> QED
        BY <1>3, <3>1, <4>1
    <3>2. CASE key # "ioprio"
      <4>1. key \in Numbers /\ ~r.erange
        BY <3>2 DEF Clean
      <4>2. Counts(key, i, line) <=>
              /\ line.key = key /\ line.form = "ok"
              /\ key \in ProtectedKeys => protected
        BY <2>1, <4>1 DEF Counts
      <4> QED
        BY <1>3, <4>1, <4>2
    <3> QED
      BY <3>1, <3>2
  <2>3. CASE Counts(key, i, line)
    <3>1. r.values[key] = found[p[1]][p[2]].value
      BY <1>2, <2>2, <2>3
    <3>2. /\ UpTo(found, key, i, n + 1) = UpTo(found, key, i, n) \cup {p}
          /\ \A q \in UpTo(found, key, i, n) : Before(q, p)
      BY <1>5, <2>1, <2>3
    <3> DEFINE old == UpTo(found, key, i, n)
               value == r.values[key]
    <3>3. value = found[p[1]][p[2]].value /\ \A q \in old : Before(q, p)
      BY <3>1, <3>2
    <3> HIDE DEF old, value
    <3>4. HasLast(value, Defaults[key], found, old \cup {p})
      BY <3>3, LastMoves
    <3> QED
      BY <3>2, <3>4 DEF old, value
  <2>4. CASE ~Counts(key, i, line)
    <3>1. /\ r.values[key] = s.values[key]
          /\ UpTo(found, key, i, n + 1) = UpTo(found, key, i, n)
      BY <1>5, <2>1, <2>2, <2>4
    <3> QED
      BY <1>4, <2>1, <3>1
  <2> QED
    BY <2>3, <2>4
<1> QED
  BY <1>7, <1>8 DEF FollowUpTo

\* A file that is parsed makes the values follow all its lines.
LEMMA FileFollows ==
  ASSUME NEW found \in Found, NEW i \in Locations, IsFile(found[i]),
         NEW protected \in BOOLEAN, protected <=> i \in Protected,
         NEW keys \in SUBSET Numbers, NEW s \in FitStates,
         FollowUpTo(s.values, found, i, 0, Clean(keys, s)),
         NEW end, end = Parse(s, protected, found[i])
  PROVE  FollowUpTo(end.values, found, i + 1, 0, Clean(keys, end))
<1> DEFINE len == Len(found[i])
<1>1. found[i] \in Seq(Lines) /\ len \in Nat
  <2>1. found[i] \in Seq(Lines)
    BY ConfigAssumption DEF IsFile
  <2> QED
    BY <2>1
<1>2. PICK after \in [0..len -> FitStates] :
        /\ after[0] = s
        /\ \A n \in 1..len :
             after[n] = HandleLine(after[n - 1], protected, found[i][n])
        /\ Parse(s, protected, found[i]) = after[len]
  BY <1>1, ParseUnfolds
<1> DEFINE Good(n) ==
             FollowUpTo(after[n].values, found, i, n, Clean(keys, after[n]))
           S == {n \in Nat : n <= len => Good(n)}
<1>3. 0 \in S
  BY <1>2
<1>4. ASSUME NEW n \in Nat, n \in S, n + 1 <= len PROVE Good(n + 1)
  <2>1. Good(n)
    BY <1>1, <1>4
  <2>2. after[n] \in FitStates /\ n + 1 \in 1..len
    BY <1>1, <1>4
  <2>3. after[n + 1] = HandleLine(after[n], protected, found[i][n + 1])
    BY <1>2, <2>2
  <2> HIDE DEF S
  <2> QED
    BY <2>1, <2>2, <2>3, LineFollows
<1>5. Nat \subseteq S
  <2>1. \A n \in Nat : n \in S => n + 1 \in S
    <3> HIDE DEF Good
    <3> QED
      BY <1>1, <1>4
  <2> HIDE DEF S
  <2> QED
    BY <1>3, <2>1, SetInduction
<1>6. Good(len)
  <2>1. len \in S
    BY <1>1, <1>5
  <2> HIDE DEF Good
  <2> QED
    BY <1>1, <2>1
<1>7. FollowUpTo(end.values, found, i, len, Clean(keys, end))
  BY <1>2, <1>6
<1>8. \A key \in Keys : UpTo(found, key, i, len) = UpTo(found, key, i + 1, 0)
  BY PositionsOfFile
<1>9. "whitelist" \in Keys /\ Clean(keys, end) \subseteq Keys
  BY DEF Keys, Clean, Numbers
<1> HIDE DEF len
<1> QED
  BY <1>7, <1>8, <1>9 DEF FollowUpTo

\* What the values follow while no number has overflowed, and ever.
Followed == {"ioprio"} \cup (IF overflowed THEN {} ELSE Numbers)

\* From the first location that is parsed on, the values follow the files
\* found so far.
FilesInv ==
  /\ erange => overflowed
  /\ stage = "parse" /\ at > 1 => FollowUpTo(values, parsed, at, 0, Followed)
  /\ stage = "watch" => FollowUpTo(values, parsed, at + 1, 0, Followed)
  /\ stage = "idle" => FollowUpTo(values, parsed, NumLocations + 1, 0, Followed)

\* A load starts from the defaults, which follow no file.
LEMMA DefaultsFollow ==
  ASSUME NEW found \in Found, NEW keys \in SUBSET Keys
  PROVE  FollowUpTo(Defaults, found, 1, 0, keys)
<1>1. 1 \in Locations
  BY ConfigAssumption DEF Locations
<1>2. \A key \in Keys : UpTo(found, key, 1, 0) = {}
  BY <1>1, PositionsOfFile
<1>3. IsFiniteSet({}) /\ Cardinality({}) = 0
  BY FS_EmptySet
<1>4. ListsFirst(Defaults.whitelist, found, {})
  <2>1. Defaults.whitelist = <<>> /\ Len(<<>>) = 0
    BY DEF Defaults
  <2> QED
    BY <1>3, <2>1, ListMaxAssumption DEF ListsFirst
<1>5. \A key \in Keys : HasLast(Defaults[key], Defaults[key], found, {})
  BY DEF HasLast
<1> QED
  BY <1>2, <1>3, <1>4, <1>5 DEF FollowUpTo, Keys

\* What the values follow before a location they follow whatever is there.
LEMMA OthersFollow ==
  ASSUME NEW found \in Found, NEW other \in Found, NEW i \in Int,
         \A j \in Locations : j < i => found[j] = other[j],
         NEW vals, NEW keys \in SUBSET Keys, FollowUpTo(vals, found, i, 0, keys)
  PROVE  FollowUpTo(vals, other, i, 0, keys)
<1>1. \A key \in Keys :
        /\ UpTo(found, key, i, 0) = UpTo(other, key, i, 0)
        /\ \A p \in UpTo(found, key, i, 0) : found[p[1]] = other[p[1]]
  BY PositionsBefore
<1>2. ASSUME NEW list, NEW positions,
             \A p \in positions : found[p[1]] = other[p[1]],
             ListsFirst(list, found, positions)
      PROVE  ListsFirst(list, other, positions)
  BY <1>2 DEF ListsFirst
<1>3. ASSUME NEW value, NEW default, NEW positions,
             \A p \in positions : found[p[1]] = other[p[1]],
             HasLast(value, default, found, positions)
      PROVE  HasLast(value, default, other, positions)
  BY <1>3 DEF HasLast
<1>4. /\ IsFiniteSet(UpTo(other, "whitelist", i, 0))
      /\ ListsFirst(vals.whitelist, other, UpTo(other, "whitelist", i, 0))
  <2> DEFINE positions == UpTo(other, "whitelist", i, 0)
  <2>1. /\ \A p \in positions : found[p[1]] = other[p[1]]
        /\ IsFiniteSet(positions) /\ ListsFirst(vals.whitelist, found, positions)
    BY <1>1 DEF FollowUpTo, Keys
  <2> HIDE DEF positions
  <2>2. ListsFirst(vals.whitelist, other, positions)
    BY <1>2, <2>1
  <2> QED
    BY <2>1, <2>2 DEF positions
<1>5. ASSUME NEW key \in keys
      PROVE  HasLast(vals[key], Defaults[key], other, UpTo(other, key, i, 0))
  <2> DEFINE positions == UpTo(other, key, i, 0)
  <2>1. /\ \A p \in positions : found[p[1]] = other[p[1]]
        /\ HasLast(vals[key], Defaults[key], found, positions)
    BY <1>1 DEF FollowUpTo
  <2> HIDE DEF positions
  <2>2. HasLast(vals[key], Defaults[key], other, positions)
    BY <1>3, <2>1
  <2> QED
    BY <2>2 DEF positions
<1> QED
  BY <1>4, <1>5 DEF FollowUpTo

\* A location without a file leaves the values as they follow.
LEMMA NoFileFollows ==
  ASSUME NEW found \in Found, NEW i \in Locations, ~IsFile(found[i]),
         NEW vals, NEW keys \in SUBSET Keys, FollowUpTo(vals, found, i, 0, keys)
  PROVE  FollowUpTo(vals, found, i + 1, 0, keys)
<1>1. \A key \in Keys : UpTo(found, key, i, 0) = UpTo(found, key, i + 1, 0)
  BY PositionsOfFile
<1> QED
  BY <1>1 DEF FollowUpTo, Keys

\* The values follow the location that is parsed.
LEMMA LocationFollows ==
  ASSUME EditType, ValuesType, FilesInv, ParseLocation
  PROVE  FilesInv'
<1>1. PICK start \in ParseStates(at) : \E e \in FitStates :
        /\ start \in FitStates
        /\ e = IF IsFile(files[at])
                 THEN Parse(start, at \in Protected, files[at])
                 ELSE [start EXCEPT !.erange = FALSE]
        /\ values' = e.values
        /\ erange' = (e.erange /\ at < NumLocations)
        /\ overflowed' = (overflowed \/ e.erange)
  BY LocationParsed
<1>2. PICK end \in FitStates :
        /\ start \in FitStates
        /\ end = IF IsFile(files[at])
                   THEN Parse(start, at \in Protected, files[at])
                   ELSE [start EXCEPT !.erange = FALSE]
        /\ values' = end.values
        /\ erange' = (end.erange /\ at < NumLocations)
        /\ overflowed' = (overflowed \/ end.erange)
  BY <1>1
<1>3. PICK found : found = parsed'
  OBVIOUS
<1>4. PICK i \in Locations : i = at
  BY DEF EditType
<1>5. /\ stage = "parse" /\ stage' = "watch" /\ at' = at
      /\ found = [parsed EXCEPT ![i] = Seen(files[i])]
  BY <1>3, <1>4 DEF ParseLocation
<1>6. /\ parsed \in Found /\ found \in Found
      /\ found[i] = Seen(files[i])
      /\ \A j \in Locations : j < i => parsed[j] = found[j]
  <2>1. parsed \in [Locations -> Contents \cup {Missing}]
    BY DEF EditType
  <2>2. Seen(files[i]) \in Contents \cup {Missing}
    BY DEF Seen, IsFile
  <2>3. i \in Int
    BY DEF Locations
  <2> QED
    BY <1>5, <2>1, <2>2, <2>3 DEF Found
<1>7. Followed \in SUBSET Keys /\ i \in Int /\ i > 0
  BY DEF Followed, Keys, Numbers, Locations
<1>8. overflowed \in BOOLEAN /\ erange \in BOOLEAN
  BY DEF ValuesType
<1>9. FollowUpTo(start.values, found, i, 0, Followed) /\ (start.erange => overflowed)
  <2>1. CASE i > 1
    <3>1. start = [values |-> values, erange |-> erange]
      BY <1>4, <2>1 DEF ParseStates
    <3>2. FollowUpTo(values, parsed, i, 0, Followed)
      BY <1>4, <1>5, <2>1 DEF FilesInv
    <3>3. FollowUpTo(values, found, i, 0, Followed)
      BY <1>6, <1>7, <3>2, OthersFollow
    <3>4. erange => overflowed
      BY DEF FilesInv
    <3> QED
      BY <3>1, <3>3, <3>4
  <2>2. CASE ~(i > 1)
    <3>1. PICK e \in {FALSE, overflowed} : start = [values |-> Defaults, erange |-> e]
      BY <1>4, <2>2 DEF ParseStates
    <3>2. i = 1
      BY <1>7, <2>2
    <3>3. FollowUpTo(Defaults, found, 1, 0, Followed)
      BY <1>6, <1>7, DefaultsFollow
    <3>4. start.values = Defaults /\ start.erange = e
      BY <3>1
    <3> QED
      BY <1>8, <3>2, <3>3, <3>4
  <2> QED
    BY <2>1, <2>2
<1> DEFINE keys == IF overflowed THEN {} ELSE Numbers
<1>10. Followed' \subseteq Clean(keys, end) /\ Clean(keys, start) \subseteq Followed
  <2>1. overflowed' <=> overflowed \/ end.erange
    BY <1>2
  <2>2. Followed' = {"ioprio"} \cup (IF overflowed' THEN {} ELSE Numbers)
    BY DEF Followed, Numbers
  <2> QED
    BY <2>1, <2>2 DEF Followed, Clean
<1>11. keys \in SUBSET Numbers
  OBVIOUS
<1> HIDE DEF keys
<1>12. FollowUpTo(end.values, found, i + 1, 0, Followed')
  <2>1. CASE IsFile(files[i])
    <3>1. found[i] = files[i] /\ IsFile(found[i])
      BY <1>6, <2>1 DEF Seen
    <3>2. PICK allowed \in BOOLEAN : allowed = (i \in Protected)
      <4>1. (i \in Protected) \in BOOLEAN
        OBVIOUS
      <4> QED
        BY <4>1
    <3>3. end = Parse(start, allowed, found[i])
      BY <1>2, <1>4, <2>1, <3>1, <3>2
    <3>4. FollowUpTo(start.values, found, i, 0, Clean(keys, start))
      BY <1>9, <1>10 DEF FollowUpTo
    <3>5. allowed <=> i \in Protected
      BY <3>2
    <3>6. start \in FitStates
      BY <1>2
    <3>7. FollowUpTo(end.values, found, i + 1, 0, Clean(keys, end))
      BY <1>6, <1>11, <3>1, <3>3, <3>4, <3>5, <3>6, FileFollows
    <3> QED
      BY <1>10, <3>7 DEF FollowUpTo
  <2>2. CASE ~IsFile(files[i])
    <3>1. ~IsFile(found[i])
      BY <1>6, <2>2, PlacesDiffer DEF Seen, IsFile
    <3>2. end = [start EXCEPT !.erange = FALSE]
      BY <1>2, <1>4, <2>2
    <3>3. start \in [values : Values, erange : BOOLEAN]
      BY <1>2 DEF FitStates
    <3>4. end.values = start.values
      BY <3>2, <3>3
    <3>5. FollowUpTo(start.values, found, i + 1, 0, Followed)
      BY <1>6, <1>7, <1>9, <3>1, NoFileFollows
    <3>6. Followed' \subseteq Followed
      <4>1. overflowed => overflowed'
        BY <1>2
      <4> QED
        BY <4>1 DEF Followed, Numbers
    <3> QED
      BY <3>4, <3>5, <3>6 DEF FollowUpTo
  <2> QED
    BY <2>1, <2>2
<1>13. erange' => overflowed'
  BY <1>2, Zenon
<1>14. FollowUpTo(values', parsed', at' + 1, 0, Followed')
  BY <1>2, <1>3, <1>4, <1>5, <1>12
<1> QED
  BY <1>5, <1>13, <1>14 DEF FilesInv

\* Every step keeps the values following the files found so far.
LEMMA NextFiles == EditInv /\ ValuesType /\ FilesInv /\ [Next]_vars => FilesInv'
<1> SUFFICES ASSUME EditInv, ValuesType, FilesInv, [Next]_vars PROVE FilesInv'
  OBVIOUS
<1>0. EditType
  BY DEF EditInv
<1>1. CASE ParseLocation
  BY <1>0, <1>1, LocationFollows
<1>2. ASSUME UNCHANGED <<values, erange, parsed, overflowed>>
      PROVE  /\ erange' => overflowed'
             /\ Followed' = Followed
             /\ \A i, n, keys : FollowUpTo(values, parsed, i, n, keys) =>
                                  FollowUpTo(values', parsed', i, n, keys)
  BY <1>2 DEF FilesInv, Followed
<1>3. CASE WatchLocation
  <2>1. /\ UNCHANGED <<values, erange, parsed, overflowed>>
        /\ stage = "watch"
        /\ \/ at < NumLocations /\ at' = at + 1 /\ stage' = "parse"
           \/ ~(at < NumLocations) /\ stage' = "idle"
    BY <1>3 DEF WatchLocation
  <2>2. FollowUpTo(values, parsed, at + 1, 0, Followed)
    BY <2>1 DEF FilesInv
  <2>3. FollowUpTo(values', parsed', at + 1, 0, Followed')
    BY <1>2, <2>1, <2>2
  <2>4. ~(at < NumLocations) => at + 1 = NumLocations + 1
    BY <1>0, ConfigAssumption DEF EditType, Locations
  <2> QED
    BY <1>2, <2>1, <2>3, <2>4 DEF FilesInv
<1>4. CASE LockForWriting
  <2>1. /\ UNCHANGED <<values, erange, parsed, overflowed>>
        /\ at' = 1 /\ stage' \in {"parse", "blocked"}
    BY <1>4 DEF LockForWriting, TakeLock
  <2> QED
    BY <1>2, <2>1 DEF FilesInv
<1>5. CASE CheckReload \/ Refresh \/ Reinitialise
  <2>1. /\ UNCHANGED <<values, erange, parsed, overflowed, at>>
        /\ stage' \in {"init", "lock"} \/ stage' = stage
    BY <1>5 DEF CheckReload, Refresh, Reinitialise
  <2> QED
    BY <1>2, <2>1 DEF FilesInv
<1>6. CASE EndRead
  <2>1. /\ UNCHANGED <<values, erange, parsed, overflowed, at>>
        /\ stage' = stage \/ (stage = "blocked" /\ stage' = "parse")
    BY <1>6 DEF EndRead
  <2>2. stage = "blocked" => at = 1
    BY <1>0 DEF EditType
  <2> QED
    BY <1>2, <2>1, <2>2 DEF FilesInv
<1>7. CASE UNCHANGED vars \/ Environment \/ BeginRead
  <2>1. UNCHANGED <<values, erange, parsed, overflowed, at, stage>>
    BY <1>7 DEF vars, Environment, Edit, EditOther, BeginRead
  <2> QED
    BY <1>2, <2>1 DEF FilesInv
<1> QED
  BY <1>1, <1>3, <1>4, <1>5, <1>6, <1>7 DEF Next, Load

\* When no load is under way the values are those the files had, the file of
\* the last location that sets a number deciding, and the [gpu] section of a
\* user's file is never among them.  A number that overflowed spoils those
\* after it, and nothing else (gamemode-config.c:163, 378).
THEOREM ValuesAreThoseOfTheFiles == Spec => []ValuesFollowFiles
<1>1. Init => FilesInv
  BY DEF Init, FilesInv
<1>2. TypeInv /\ FilesInv /\ [Next]_vars => (TypeInv /\ FilesInv)'
  BY NextLock, NextEdit, NextCount, NextValuesType, NextFiles DEF TypeInv, EditInv
<1>3. TypeInv /\ FilesInv => ValuesFollowFiles
  <2> SUFFICES ASSUME TypeInv, FilesInv, stage = "idle"
               PROVE  /\ ListsFirst(values.whitelist, parsed,
                                    Assignments(parsed, "whitelist"))
                      /\ \A key \in Followed :
                           HasLast(values[key], Defaults[key], parsed,
                                   Assignments(parsed, key))
    BY DEF ValuesFollowFiles, Followed
  <2>1. FollowUpTo(values, parsed, NumLocations + 1, 0, Followed)
    BY DEF FilesInv
  <2>2. parsed \in Found /\ \E i \in Locations : TRUE
    BY DEF TypeInv, EditInv, EditType, Found
  <2>3. \A key \in Keys :
          UpTo(parsed, key, NumLocations + 1, 0) = Assignments(parsed, key)
    BY <2>2, PositionsOfFile
  <2>4. Followed \subseteq Keys /\ "whitelist" \in Keys
    BY DEF Followed, Keys, Numbers
  <2> QED
    BY <2>1, <2>3, <2>4 DEF FollowUpTo
<1> QED
  BY <1>1, <1>2, <1>3, InitType, PTL DEF Spec

=============================================================================
