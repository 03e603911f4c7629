------------------------------- MODULE Config -------------------------------
(***************************************************************************)
(* The configuration of the daemon (daemon/gamemode-config.c): the files   *)
(* it is read from, the values, the inotify watches that tell when a file  *)
(* changed, and the lock, which a reload destroys and initialises again.   *)
(* The files change under the daemon at any time.  The reaper thread looks *)
(* for changes and reloads; the main thread reads values, outside of the   *)
(* context's lock when it checks the lists of a registration, and reloads  *)
(* for RefreshConfig while there is no reaper.                             *)
(***************************************************************************)
EXTENDS ConfigValues

CONSTANTS
  NumLocations,  \* CONFIG_NUM_LOCATIONS
  Protected,     \* the locations only the administrator can write to
  Contents,      \* what a file may contain, as sequences of lines
  Missing,       \* a location without a file in its directory
  NoDirectory,   \* a location without a directory
  MaxEvents      \* the inotify events that may wait at a time (a bound)

Locations == 1..NumLocations

ASSUME ConfigAssumption ==
  /\ NumLocations \in Nat \ {0}
  /\ Protected \subseteq Locations
  /\ Contents \subseteq Seq(Lines)
  /\ {Missing, NoDirectory} \cap Contents = {}
  /\ Missing # NoDirectory
  /\ MaxEvents \in Nat \ {0}

VARIABLES
  files,       \* what is at each location
  values,      \* self->values
  erange,      \* is errno ERANGE in the thread that loads?
  stage,       \* where the thread that loads is, "idle" if none does
  loader,      \* that thread
  at,          \* the location it is at
  writing,     \* is self->rwlock held for writing?
  readers,     \* the readers self->rwlock counts
  reading,     \* is the main thread between its rdlock and unlock?
  watch,       \* self->inotwd: the kind of watch on each location
  events,      \* the queue of self->inotfd
  parsed,      \* what the last load found at each location (history only)
  unwatched,   \* locations whose changes the watches of the last load
               \* cannot show (history only)
  overflowed,  \* did a number ever overflow? (history only)
  overtaken    \* did a reload ever begin while the main thread was reading?
               \* (history only)

lockVars == <<writing, readers, reading>>
watchVars == <<watch, events, unwatched>>
vars == <<files, values, erange, stage, loader, at, lockVars, watchVars,
          parsed, overflowed, overtaken>>

Threads == {"main", "reaper"}
Stages == {"idle", "init", "lock", "blocked", "parse", "watch"}
EventKinds == {"config", "other"}

IsFile(content) == content \in Contents

\* What fopen can tell of a location.
Seen(content) == IF IsFile(content) THEN content ELSE Missing

-----------------------------------------------------------------------------
(* The files. *)

\* The events a change brings.  A watch on a file reports that it changed
\* or went away, one on a directory that a file came or that the directory
\* went away; a watched inode that went away takes its watch along.
Notify(i, kind) ==
  /\ Len(events) < MaxEvents
  /\ events' = Append(events, kind)

\* Anybody edits, creates or deletes a file or a directory.
Edit(i, content) ==
  /\ content # files[i]
  /\ files[i] # NoDirectory \/ content = Missing
  /\ files' = [files EXCEPT ![i] = content]
  /\ CASE watch[i] = "file" ->
            /\ Notify(i, "config")
            /\ watch' = IF IsFile(content) THEN watch
                                           ELSE [watch EXCEPT ![i] = "none"]
       [] watch[i] = "dir" /\ content = NoDirectory ->
            /\ Notify(i, "config")
            /\ watch' = [watch EXCEPT ![i] = "none"]
       [] watch[i] = "dir" /\ IsFile(content) /\ ~IsFile(files[i]) ->
            Notify(i, "config") /\ UNCHANGED watch
       [] OTHER -> UNCHANGED <<events, watch>>
  /\ UNCHANGED <<values, erange, stage, loader, at, lockVars, parsed, unwatched,
                 overflowed, overtaken>>

\* Another file appears in a watched directory.
EditOther(i) ==
  /\ watch[i] = "dir"
  /\ Notify(i, "other")
  /\ UNCHANGED <<files, values, erange, stage, loader, at, lockVars, watch,
                 parsed, unwatched, overflowed, overtaken>>

-----------------------------------------------------------------------------
(* The main thread reads: memcpy_locked_config and the list checks. *)

\* pthread_rwlock_rdlock waits for a writer that holds the lock only.
BeginRead ==
  /\ loader # "main"
  /\ ~reading /\ ~writing
  /\ reading' = TRUE
  /\ readers' = readers + 1
  /\ UNCHANGED <<files, values, erange, stage, loader, at, writing, watchVars,
                 parsed, overflowed, overtaken>>

\* MISTAKE for LastReader: the count is tested after it was lowered.
LastReaderLate == readers = 0

LastReader == readers = 1

\* pthread_rwlock_unlock counts down, also when the lock was initialised
\* since.  A writer that waits is woken by the reader that brings the count
\* to zero, and by nothing else.
EndRead ==
  /\ reading
  /\ reading' = FALSE
  /\ readers' = readers - 1
  /\ IF stage = "blocked" /\ LastReader
       THEN stage' = "parse" /\ writing' = TRUE
       ELSE UNCHANGED <<stage, writing>>
  /\ UNCHANGED <<files, values, erange, loader, at, watchVars, parsed,
                 overflowed, overtaken>>

-----------------------------------------------------------------------------
(* Loading. *)

\* MISTAKE for NeedsReload: only the first event of a batch is looked at.
NeedsReloadFirst(batch) == batch[1] = "config"

\* The loop of config_needs_reload over the events it has read.
NeedsReload(batch) == "config" \in ToSet(batch)

\* The reaper reads a batch of events, as many as fit into its buffer.
CheckReload ==
  /\ stage = "idle" /\ loader = "none"
  /\ \E n \in 1..Len(events) :
       /\ events' = SubSeq(events, n + 1, Len(events))
       /\ IF NeedsReload(SubSeq(events, 1, n))
            THEN stage' = "init" /\ loader' = "reaper"
            ELSE UNCHANGED <<stage, loader>>
  /\ UNCHANGED <<files, values, erange, at, lockVars, watch, unwatched, parsed,
                 overflowed, overtaken>>

\* RefreshConfig: the main thread has joined the reaper and loads itself.
Refresh ==
  /\ stage = "idle" /\ ~reading
  /\ stage' = "init" /\ loader' = "main"
  /\ UNCHANGED <<files, values, erange, at, lockVars, watchVars, parsed,
                 overflowed, overtaken>>

\* internal_destroy and the rest of config_init: the watches go, the lock
\* forgets who holds it.
Reinitialise ==
  /\ stage = "init"
  /\ stage' = "lock"
  /\ writing' = FALSE /\ readers' = 0
  /\ watch' = [i \in Locations |-> "none"]
  /\ events' = <<>>
  /\ overtaken' = (overtaken \/ reading)
  /\ UNCHANGED <<files, values, erange, loader, at, reading, parsed, unwatched,
                 overflowed>>

\* MISTAKE for TakeLock: the writer does not wait for the readers.
TakeLockEarly ==
  stage' = "parse" /\ writing' = TRUE

\* pthread_rwlock_wrlock.
TakeLock ==
  IF readers = 0 THEN stage' = "parse" /\ writing' = TRUE
                 ELSE stage' = "blocked" /\ UNCHANGED writing

LockForWriting ==
  /\ stage = "lock"
  /\ TakeLock
  /\ at' = 1
  /\ UNCHANGED <<files, values, erange, loader, readers, reading, watchVars,
                 parsed, overflowed, overtaken>>

\* The values are cleared before the first location.  A number that
\* overflowed in an earlier load of the thread may still show in its errno.
ParseStates(i) ==
  IF i > 1 THEN {[values |-> values, erange |-> erange]}
  ELSE {[values |-> Defaults, erange |-> e] : e \in {FALSE, overflowed}}

\* fopen and ini_parse_file; a file that is not there sets errno to ENOENT.
ParseLocation ==
  /\ stage = "parse"
  /\ stage' = "watch"
  /\ parsed' = [parsed EXCEPT ![at] = Seen(files[at])]
  /\ \E start \in ParseStates(at) :
       LET end == IF IsFile(files[at])
                    THEN Parse(start, at \in Protected, files[at])
                    ELSE [start EXCEPT !.erange = FALSE]
       IN /\ values' = end.values
          /\ erange' = (end.erange /\ at < NumLocations)
          /\ overflowed' = (overflowed \/ end.erange)
  /\ UNCHANGED <<files, loader, at, lockVars, watchVars, overtaken>>

\* inotify_add_watch, on the file if it was found and on the directory if
\* not, may fail in any case.
Watchable(i) ==
  {"none"} \cup (IF IsFile(parsed[i])
                   THEN {k \in {"file"} : IsFile(files[i])}
                   ELSE {k \in {"dir"} : files[i] # NoDirectory})

WatchLocation ==
  /\ stage = "watch"
  /\ \E kind \in Watchable(at) :
       /\ watch' = [watch EXCEPT ![at] = kind]
       /\ unwatched' = [unwatched EXCEPT ![at] =
                          kind = "none" \/ parsed[at] # Seen(files[at])]
  /\ IF at < NumLocations
       THEN /\ at' = at + 1
            /\ stage' = "parse"
            /\ UNCHANGED <<loader, writing>>
       ELSE /\ stage' = "idle" /\ loader' = "none" /\ writing' = FALSE
            /\ UNCHANGED at
  /\ UNCHANGED <<files, values, erange, readers, reading, events, parsed,
                 overflowed, overtaken>>

-----------------------------------------------------------------------------
Places == Contents \cup {Missing, NoDirectory}

\* The daemon starts with config_init.
Init ==
  /\ files \in [Locations -> Places]
  /\ values = Defaults
  /\ erange = FALSE
  /\ stage = "init" /\ loader = "main" /\ at = 1
  /\ writing = FALSE /\ readers = 0 /\ reading = FALSE
  /\ watch = [i \in Locations |-> "none"]
  /\ events = <<>>
  /\ parsed = [i \in Locations |-> Missing]
  /\ unwatched = [i \in Locations |-> TRUE]
  /\ overflowed = FALSE /\ overtaken = FALSE

Environment ==
  \E i \in Locations :
    \/ \E content \in Places : Edit(i, content)
    \/ EditOther(i)

Load == Reinitialise \/ LockForWriting \/ ParseLocation \/ WatchLocation

Next == Environment \/ BeginRead \/ EndRead \/ CheckReload \/ Refresh \/ Load

\* The reaper wakes up again and again, and threads that run go on.
Fairness ==
  /\ WF_vars(CheckReload)
  /\ WF_vars(EndRead)
  /\ WF_vars(Load)

Spec == Init /\ [][Next]_vars /\ Fairness

-----------------------------------------------------------------------------
(* Properties. *)

TypeOK ==
  /\ files \in [Locations -> Places]
  /\ values \in Values /\ Len(values.whitelist) <= ListMax
  /\ stage \in Stages
  /\ loader \in Threads \cup {"none"}
  /\ at \in Locations
  /\ {erange, writing, reading, overflowed, overtaken} \subseteq BOOLEAN
  /\ readers \in {-1, 0, 1}
  /\ watch \in [Locations -> {"none", "file", "dir"}]
  /\ events \in Seq(EventKinds)
  /\ parsed \in [Locations -> Contents \cup {Missing}]
  /\ unwatched \in [Locations -> BOOLEAN]

\* The reference.  A position is a location and a line of its file; the
\* positions of a key are those whose lines are good and allowed where they
\* stand, in what a load found.
LinesOf(content) == IF IsFile(content) THEN content ELSE <<>>

Before(p, q) == p[1] < q[1] \/ (p[1] = q[1] /\ p[2] < q[2])

Counts(key, i, line) ==
  /\ line.key = key
  /\ key = "whitelist" => line.form # "toolong"
  /\ key \in Numbers => line.form = "ok"
  /\ key \in ProtectedKeys => i \in Protected

Assignments(found, key) ==
  {p \in UNION {{i} \X DOMAIN LinesOf(found[i]) : i \in Locations} :
     Counts(key, p[1], found[p[1]][p[2]])}

\* A list has the entries in the order of their positions, until it is full.
Rank(p, positions) == Cardinality({q \in positions : Before(q, p)})

ListsFirst(list, found, positions) ==
  /\ Len(list) = IF Cardinality(positions) < ListMax
                   THEN Cardinality(positions) ELSE ListMax
  /\ \A p \in positions :
       Rank(p, positions) < ListMax =>
         list[Rank(p, positions) + 1] = found[p[1]][p[2]].value

\* Any other key has the value of the last position, or the default.
HasLast(value, default, found, positions) ==
  IF positions = {} THEN value = default
  ELSE \E p \in positions :
         /\ \A q \in positions : q = p \/ Before(q, p)
         /\ value = found[p[1]][p[2]].value

\* When no load is under way the values are those the files had, the file of
\* the last location that sets a number deciding, and the [gpu] section of a
\* user's file is never among them.  A number that overflowed spoils those
\* after it, and nothing else (gamemode-config.c:163, 378).
ValuesFollowFiles ==
  stage = "idle" =>
    /\ ListsFirst(values.whitelist, parsed, Assignments(parsed, "whitelist"))
    /\ \A key \in {"ioprio"} \cup (IF overflowed THEN {} ELSE Numbers) :
         HasLast(values[key], Defaults[key], parsed, Assignments(parsed, key))

\* While the main thread holds the read lock the values it reads stay the
\* same, as long as no reload began while it was reading
\* (gamemode-config.c:487, 551).
GetterSeesOneConfig ==
  [][reading /\ ~overtaken' => UNCHANGED values]_vars

\* A location is still to be looked at: a change of it is in the queue, or a
\* load that is under way has not parsed it or not watched it yet.
Pending(i) ==
  \/ "config" \in ToSet(events)
  \/ stage \in {"init", "lock", "blocked"}
  \/ stage \in {"parse", "watch"} /\ at <= i

\* A change after the last load waits in the queue, however the events are
\* read, unless there was no watch that could see it: none could be set, or
\* the change fell between the parsing of the file and its watch
\* (gamemode-config.c:457, 561).
NoLostEdit ==
  \A i \in Locations :
    parsed[i] # Seen(files[i]) => unwatched[i] \/ Pending(i)

\* A change that can be seen is loaded sooner or later, unless a reload once
\* overtook the main thread and with it lost the lock: each location is up
\* to date again and again.
EditsTakeEffect ==
  \A i \in Locations :
    []<>(parsed[i] = Seen(files[i]) \/ unwatched[i] \/ overtaken)

\* A load that began ends: "a rwlock to allow config_reload to be called"
\* (gamemode-config.c:73).
LoadsEnd == stage # "idle" ~> stage = "idle"

=============================================================================
