# Verification of GameMode in TLA+

GameMode is a daemon (`gamemoded`) that games register with over D-Bus. While at
least one game is registered the system is in *game mode*: CPU governor, platform
profile, GPU clocks, parked cores, screensaver and more are changed, and each game
gets its own scheduling changes. When the last game leaves or dies, everything is
put back. This directory holds TLA+ models of the daemon, its client library and its
helpers, TLC configurations that check them and TLAPS proofs about them.
`PROJECT.json` maps every definition to the source lines it stands for.

    tlc -workers 2 -config GameModeContext_safety.cfg MCGameModeContext
    tlapm GameModeContextProofs.tla

## The system and its components

| component | source | state | operations | status |
|---|---|---|---|---|
| Context | `daemon/gamemode-context.c` | list of clients, atomic `refcount`, `rwlock`, current governor and profile, stored originals | init, destroy, register, unregister, query_status, restart, list, reload, enter, leave | modelled |
| Reaper thread | same | `reaper.running`, mutex, condition | timed wait, energy check, expiry, re-pinning, reload | modelled |
| Signals and exit | `daemon/gamemoded.c`, `game_mode_context_destroy` | none of its own | SIGINT/SIGTERM handler: destroy, `_Exit` | partly |
| System settings | `gamemode-context.c`, helpers in `util/`, `common/` | governor, profile, split lock, X3D mode, idle inhibitor | store, set, restore each | partly |
| D-Bus service | `daemon/gamemode-dbus.c` | bus, slots | 13 methods, `ClientCount`, two signals, game objects | partly |
| Configuration | `daemon/gamemode-config.c` | values, own `rwlock`, inotify watches | load the files in order, getters with clamps, needs_reload, reload | partly |
| Client library | `lib/client_impl.c`, `gamemode_client.h` | loaded library and pointers, `use_pidfs`, error string | eight requests; pidfd, pid-pair or pid form; portal in a sandbox; retry | partly |
| pidfd conversion | `common/common-pidfds.c` | none | open_pidfds, pidfds_to_pids | modelled |
| CPU cores | `daemon/gamemode-cpu.c`, `common/common-cpu.c`, `util/cpucorectl.c` | online set, set to keep | initialise, reconfigure, park, unpark, pin | modelled |
| GPU | `daemon/gamemode-gpu.c`, `util/gpuclockctl.c`, `common/common-gpu.c` | target and stored GPU info | initialise, get, apply, restore | modelled |
| Priorities | `daemon/gamemode-sched.c`, `gamemode-ioprio.c` | nice, policy and ioprio of each thread | apply, undo | modelled |
| External processes | `common/common-external.c` | none | run_external_process with its time limit | modelled |
| Command line | `daemon/gamemoded.c` | none | `-rPID` toggle; other options | partly |
| Energy | `common/common-power.c` | last counter values | read RAPL counters, 32-bit difference | outcome modelled |
| Wine, logging, strings, self tests, example, data files | the rest | none that matters here | | not modelled |

How they interact. The main thread runs the sd-bus loop and handles one method call
at a time. The reaper thread waits on a condition with a timeout, then checks the
energy balance, unregisters games whose process is gone, re-pins threads and reloads
a changed configuration. Both use the client list under `rwlock`; the refcount is
also read without it (`query_status`, `restart`, `destroy`, `ClientCount`). A
`RefreshConfig` call stops and joins the reaper, reloads, and starts a new one. Both
threads run enter, leave and the emission of signals. The configuration has a lock of
its own. A UNIX signal runs `destroy` on top of whatever the main thread is doing.
Helpers run as child processes, most of them through pkexec, that the calling thread
waits for with the context's lock held. Games, launchers and `gamemoded -r` call
through the client library, which sends D-Bus requests and waits for the answer.

What is hard about it: the list and the refcount are two variables; register looks a
pid up and inserts it under two different locks; restart tests before it locks, and
locks for reading only; the reaper finds a dead game under one lock, reads its pid
under none and removes it under another; the stop/signal/join handshake may lose its
signal; a helper may fail with or without saying so; destroy takes no lock; a reload initialises a lock that
others may hold; files change while they are parsed; a request that timed out may
still be carried out, and is sent a second time in another form; threads of a game
come, go and change while their list is walked. `hazards` in `PROJECT.json` lists each
of these at its line, with the properties that watch it or the reason why none does.

What makes each component correct: the context, that list, refcount, mode, signals
and per-game changes agree whenever the lock is free; the reaper, that it removes all
dead games and, as long as it reads no freed entry, no live one, and never blocks a
call for good; exit, that the default
state is back; the settings, that what the user had is kept and put back; the
configuration, that later files override, protected keys do not, readers see one
configuration and no change of a file is missed; the client library, that one request
has one effect and its answer is true; cores, clocks and priorities, that undo is the
inverse of apply for whatever apply changed, and that nothing else is touched.

## Modules

* **`GameModeRegistry`**: the abstract specification. A set of registered games and
  one flag; registering the first game sets the flag, the last unregistration clears
  it. No threads, no list, no lock.
* **`GameModeContext`**: the context and its two threads. `pc["main"]` and
  `pc["reaper"]` say where a thread is; one action is the code between two points
  at which the other thread can tell the difference (taking or releasing the lock, an
  access to the refcount, the start and end of a switch). `clients` is the linked
  list, `writer`/`readers` the rwlock, `optimised` the live games whose priorities and
  affinity are changed, `mode` is "entering" or "leaving" while the corresponding
  function runs. The main thread's calls are `Receive` (with its requester check),
  `Register*`, `Unlink` to `UnregisterEmit`, `Query*`, `Restart*`, `ListClients` and
  the four steps of `RefreshConfig`; the reaper's steps are `Reaper*`. Unregister,
  switches and reload are parameterised by the thread, as both run them.
  `found` is the entry that the pointer of `auto_expire` refers to between the unlock
  and the unregistration: `ReaperFindsDead` sets it under the read lock, `Unlink` frees
  it, and `ReaperReadsPid` and `ReaperUnregister` read the pid through it, once as the
  client and once as the requester. From a freed entry any pid may be read (`FoundPid`),
  that of a game registered in the same memory included. `restarted` and `misread` (a
  freed entry was read) are history variables. `ImplementsRegistry` refines
  `GameModeRegistry`: a registration or unregistration counts from the moment its
  write lock is released.
* **`GameModeShutdown`** extends it with the signal handler. `handler` is its place;
  once it runs, the main thread stays where it was, the reaper goes on until it is
  joined. `clean` (history) records whether the main thread was polling and the reaper
  kept off the write lock.
* **`ClientRequests`** is the other end: callers with the wrappers of
  `gamemode_client.h` (`LoadLibrary`, `Begin`), the requests of `client_impl.c`
  (`Send`, `Timeout`, `NoReply`, `RequestFailed`), the queue to the daemon and its
  handlers of `gamemode-dbus.c` (`Handle`), which perform the steps of an instance of
  `GameModeRegistry`. So the two are joined at the registry: the context implements it,
  the clients use it. The daemon may crash and be started again by the bus, processes
  die, and an answer may come after the caller gave it up. A caller may be
  `gamemoded -rPID` (`tool`). `claims` and `asked` are history variables.
* **`ConfigValues`**: the effect of each kind of line on the values (lists, numbers
  and their errno, protected sections) and the getters that change what they read.
  One key stands for each way in which a value is treated.
* **`Config`** runs them: `files` change at any time (`Edit`), a load goes through
  `Reinitialise`, `LockForWriting` and, for each location, `ParseLocation` and
  `WatchLocation`; inotify is `watch` and `events`; the main thread reads in
  `BeginRead`/`EndRead`. The read-write lock is modelled by its counter, since
  `config_reload` resets it.
* **`Optimisations`** takes enter and leave apart: one action per setting, each helper
  with three outcomes (done; refused with -1; nothing done and 0 returned, which is
  what a failed fork, a kill at the time limit or a value rejected at `fclose` give).
  The four protocols for keeping originals are modelled as they are: governor and
  profile are stored only when the remembered level is the default; split lock on every
  enter; X3D only if configured; the GPU on every enter, starting from the configured
  target. `due` and `trouble` are history variables.
* **`CpuCores`**, **`GpuClocks`**: functions only. Which cores to keep, from lists,
  caches, frequencies and P-cores; which card is meant, which attributes are read and
  set in which order, how the output is taken in.
* **`Hardware`** runs the helpers `cpucorectl` and `gpuclockctl` with these, one core or
  attribute at a time, as children of `run_external_process`: `Spawn`, pkexec's
  `Authorised`/`NotAuthorised`, the work, `Exits`, `TimedOut`, `Dies`. The order of
  enter, leave and reload is `After`. A helper that is root already is not killed by
  the daemon's kill.
* **`GameThreads`**: the threads of one game and the walks through them. An operation
  is a `plan` of walks; `left` are the threads still to be listed, `tid` the one that
  was read and is set next. `Read` and `Set` are two steps since the game runs between
  them. `own` (the level the game has set), `raced` and `denied` (the kernel refused the
  thread its nice level, or reset it on fork) are history variables.
* **`MC*`** give the constants for TLC. **`*Proofs`** hold the TLAPS proofs;
  `ContextGamesProofs` and `GameModeShutdownProofs` build on `GameModeContextProofs`.

Operators whose comment begins with MISTAKE are plausible slips (a dropped check, a
swapped order); no specification uses them. Each property is violated when one of
them takes the place of the operator it is named after (`mutants` in `PROJECT.json`).

## Runs

| run | bounds | shows |
|---|---|---|
| `context_safety` | 3 games, 1 supervisor, restarts, reloads | nine safety and action properties below |
| `context_liveness` | 2 games, the pid of one used again, no restarts | calls are answered, dead games expire, enter/leave alternate, refinement |
| `context_restart` (violation) | 1 game | restart enters game mode for nobody |
| `context_supervisor` (violation) | 1 game, `require_supervisor` | dead games are never expired |
| `shutdown` | 1 game, its pid used again | a signal to a polling daemon ends it in the default state |
| `optimisations` | 2 user governors, 2 opposite configurations, any helper failing | originals kept and put back, inhibitor balanced |
| `config` | 2 locations, 2 contents, lists of 2, 2 events | values are those of the files, no edit lost, readers and loads |
| `config_lock` (violation) | 1 location, 1 event | a reload under a reader blocks for ever |
| `client` | a launcher, a game, 3 libraries, 2 requests | answers are true and stay true, every call returns, `-r` toggles |
| `client_swap` (violation) | the same without pidfds | the launcher is registered in place of the game |
| `hardware` | 6 cores, 4 card slots, 3 machines, any helper failing | cores and clocks come back, nothing else is touched |
| `threads` | 2 threads, 3 configurations, own levels of both kinds | documented levels applied and taken back, others left alone, pinning |

`context_safety`, `config`, `client` and `hardware` also check the type invariant of
their module; the typing that `Optimisations` and `GameThreads` need is part of the
invariants proved about them (`Typed` in their proof modules).

The context properties: `ListMatchesRefcount` (no duplicate pid, counter equals
length: the assertion in `list_clients`), `OneSwitcher` (two threads never enter or
leave at once), `OnWhileRegistered` and `OffWhileIdle` (the latter without restarts),
`OptimisedAreRegistered`, `RegisterAnswerHolds` (a game told 0 is registered unless it
died), `ListenersInformed` (the last signal about a live game is true) and
`OnlyDeadExpire`. The last three speak of runs in which the reaper never read a freed
entry, or, `OnlyDeadExpire`, name that as the one other way for a game to leave the
list: a removal by a reaper that misread is allowed and occurs.

The configuration: `ValuesFollowFiles` compares the result of the line-by-line load with
a reference definition over all files at once (a list has its entries in the order of
their positions, `ListsFirst`; any other key has the value of the last, `HasLast`);
`NoLostEdit` says where a change that is not loaded yet must show, `EditsTakeEffect` that it is loaded in the end;
`GetterSeesOneConfig` is the purpose of the lock.

The clients: `ClaimsHold` (a caller that was told that a game is
registered, or is not, was told the truth, and no late or repeated request of its own
makes it untrue), `OnlyAskedFor` (who may find itself registered), `ToggleFlips` and
`CallsReturn`.

The hardware: `CoresRestored`, `GpuRestored`, `MissingAreRemembered` (whatever fails, a
missing core is one that the next unpark asks for), `OtherCardsUntouched` and
`HelperReturns`. The threads: `OwnLevelKept` (a level the game has set is replaced only if
it equals the default or a configured one, and by another of these),
`RemovedIsDefault`, `LevelsAreConfigured` (a registered game has the levels that the
configuration names, taken from what `example/gamemode.ini` documents and not from the
code's clamps; nothing is claimed for values outside of the documented ranges, nor for
"off" and "reset") and `StaysPinned`.

### Bounds, and why they are enough

Context: three games give a list with a head, a middle and a tail, so that unlinking at
each position, two expiries in one scan and a registration between them occur; the main
thread has one call at a time, so more games only repeat these. Two games suffice for
expiry of one while the other keeps the mode on. One game suffices for the races of the
last registered game, which are the ones at shutdown and in restart. The refcount is
bounded by the number of games because a pid is listed once, which is itself checked.
`Restarts` is off in `context_liveness` and `shutdown`, since restart breaks the
alternation and the refinement by the race that `context_restart` shows. `Reused`, the
games whose pid may be taken over by a new process, is one game in these two and empty in
the others: a game whose pid is taken over is alive to `kill(pid, 0)`, and the properties
of living games would speak of another process. With two games and every pid reused TLC
finds `OptimisedAreRegistered`, `RegisterAnswerHolds`, `ListenersInformed` and
`OnlyDeadExpire` violated. In `shutdown` deadlock is not checked, since the process ends there.

Optimisations: two values of the governor are needed to tell a stale one from the
current one; the other settings have one user value each.

Config: two locations, one of which may use the protected section, give every
precedence and an edit before, at and behind the location that a load is at. Four
locations repeat that. The two contents hold a list that is too long across the files,
a number that is set twice, a number that overflows and the number behind it, a
rejected one and a protected one. Two events make a batch in which the one that counts
is not the first. `MaxEvents` stops edits of watched files while the queue is full; in
the kernel a full queue of thousands loses events, which is not modelled. `config_lock`
has one location because the race is about the lock alone.

Clients: one caller that asks for itself and one that asks for another process give all
three forms of a request. `MaxInbox` is two: one request that was given up and the one
that replaces it, or those of two callers. The three libraries are this one, an older
one with only the required symbols, and none. `Unreliable` is off in `client_swap`
so that nothing but the order of the two pids can be the cause.

Hardware: four cores is the minimum that must be kept, so six let two be parked. The
machines are one with fast and slow cores within and outside the ten per cent, a hybrid
one, lists with a range the wrong way round; the cards have a hole and an AMD card before
the second NVIDIA card, so that the two numberings differ. The value that the user gives
a clock includes -1.

Threads: a thread can start from, end beside and be listed after another with two. One
configuration has a renice out of range and an ioprio of "off", one differs from another
in the levels only, so that a walk with the wrong configuration shows. The main thread
sets a nice level of its own, which its children inherit; the other thread sets I/O
priorities of its own, one that game mode never sets and one that equals a configured
one. Giving every thread every such level takes the run beyond its time and adds no
new kind of collision.

### Fairness

* Context (`FairSpec`): strong fairness on each thread's steps. A thread that can run
  does, critical sections are finite (helpers have a time limit), and a thread waiting
  for the rwlock is not overtaken for ever. The reaper's wait may end by its timeout, so
  it always continues; `CallsAnswered` needs that, since the reaper looks at the flag
  before it takes the mutex and the signal that is to end the wait can come too early.
  Clients and processes have no fairness. `DeadClientsExpire` assumes that clients do not
  call `RefreshConfig` for ever, since each call restarts the wait, and that pids stop
  coming back to life.
* Config: weak fairness on the reaper's check, on the end of a read and on the steps of
  a load: threads run on. Nobody has to edit, read or refresh. That the reaper comes back
  to its check assumes that it is not held up in the loop of `context_supervisor`: with
  `require_supervisor=1` and a dead game it is, and no edit takes effect any more.
* Clients: the daemon answers the requests it has, the bus answers for a daemon that
  cannot, and a caller sends what it has to send. The last is strong fairness, because
  the bound on the inbox, and nothing in the code, may stop it again and again.
  Timeouts, crashes and deaths have no fairness: `CallsReturn` does not need them.
* Hardware: time passes (`TimedOut`), and a helper that may work does. Nobody has to type
  a password, and nothing has to fail.
* Threads: a walk goes on, and the reaper wakes up again and again (`Repin`), under the
  same assumption: it is not held up in the loop of `context_supervisor`. The game's
  threads do nothing that they have to.

## Findings

Each is a run that ends with a counterexample.

1. `restart` tests the refcount before it takes the lock; if the last game expires in
   between, it enters game mode with no game registered, and nothing leaves it again
   before another game comes and goes (`context_restart`).
2. With `require_supervisor=1` the reaper's own unregister of a dead game counts as a
   direct request and is rejected; the scan repeats without end, the game mode stays on
   and the reaper does nothing else (`context_supervisor`).
3. `config_reload` destroys and initialises the configuration's lock while the main
   thread may hold it for reading, in the list checks of a registration. The unlock then
   takes the new count below zero and the reload waits for the write lock for ever,
   holding the context's (`config_lock`).
4. Without pidfds the library sends the game's pid first and the daemon's `ByPID`
   handlers read the caller's first: the launcher is registered in place of the game
   (`client_swap`). A process gives up pidfds for good with its first failed request, and
   a `RestartGamemode` always fails once, as it has no form by pidfds.

What the models show besides. The first four contradict a document, which is quoted; no
run is devoted to them, and the properties say where they make an exception of them:

* `auto_expire` releases the read lock and then reads `client->pid`, twice
  (gamemode-context.c:674-675). If the main thread has unregistered and freed the entry
  in between, the pid may be that of a living game that was registered in the same
  memory, which the reaper then removes. The comment above it (gamemode-context.c:659)
  says "This has to take special care to ensure thread safety and ensuring that our
  pointer is never cached incorrectly". `OnlyDeadExpire` without its exception for
  `misread` is violated in 32 steps: a game dies, the reaper finds it, the main
  thread unregisters it, and the reaper reads the pid of another.
* A signal during enter, leave or the last unregistration leaves the system half
  switched: destroy reads the refcount and leaves without the lock
  (gamemode-context.c:205). A signal that finds the main thread with the write lock may
  block for ever (212). daemon/gamemoded.c:43: "Upon exit, or when all clients have
  stopped running, we put the system back into the default governor policy".
  `CleanExitRestoresDefault` and `SignalledExits` are about the signal that finds the
  main thread polling.
* `disable_splitlock` writes the initial value in both directions and never disables
  the mitigation (gamemode-context.c:239). example/gamemode.ini:45: "Sets whether gamemode
  will disable split lock mitigation when active".
* An `ioprio` of "off" is a number out of range to config_get_ioprio_value and becomes 0,
  and so does "reset", which the code does not know (gamemode-config.c:831).
  example/gamemode.ini:36-37: "or one of the special values "off" (to disable) or "reset" (to
  restore Linux default behavior based on CPU priority)". `LevelsAreConfigured` claims
  nothing for these two.

No document that we found speaks of the others:

* A stored X3D mode is never cleared and is put back by later leaves that did not store
  one (gamemode-context.c:268, 313).
* A GPU offset of -1 is read as "do not set" when it is to be put back. The GPU options
  are never read again by a reload. If the read of an AMD card is killed, the stored
  level is empty and leave writes nothing.
* `cpucorectl` exits with 0 after a core could not be parked. Unpark brings up cores the
  user took away after the info was made. Which cores count as fast depends on the order
  in which they are looked at.
* `run_external_process` returns 0 for a failed fork and for a child that was killed. Its
  kill cannot end a helper that is root; waitpid then waits for it.
* SCHED_ISO is never taken back. A thread that starts behind the walk of unregister keeps
  the level it inherited. A level the game set itself and that equals the configured one
  is reset. Unpinning goes to the cores that were online when the info was made.
* A number that overflows leaves ERANGE in errno, and the numbers behind it in the files
  are rejected until something else sets errno. A change of a file between its parsing
  and its watch is not seen.

## Proofs

Every safety property the passing runs check, invariant or action property, and the
refinement of the registry are theorems. What they are proved from are the named
assumptions on the constants and, in four places, a hypothesis in the theorem itself:

* `Reused = {}` for what is said of living games (`OptimisedAreRegistered`,
  `RegisterAnswerHolds`, `ListenersInformed`, `OnlyDeadExpire`). A pid that comes back
  to life while its dead game is listed takes the game's place: `kill(pid, 0)` cannot
  tell, and the properties would speak of another process. It is how `context_safety`
  sets it.
* `~Restarts` for `EnterLeaveAlternate` and `ImplementsRegistry`, which a restart breaks
  by the race of `context_restart`, and for `CleanExitRestoresDefault`, as the game mode
  that a restart leaves on without a game stays on through destroy. It is how
  `context_liveness` and `shutdown` set it.
* `WholeLibraries` for `ToggleFlips`: a library with `query_status_for` also has
  `request_start_for` and `request_end_for`. With one that can only answer the query
  `gamemoded -r` would learn which way to go and fail to. The library of this
  repository, an older one and none at all satisfy it, which are those of the run.

Each proof module states an inductive invariant, which TLC checked on the run of its
module first, and has one step per action under the lemma that Next preserves it.

**`GameModeContextProofs`**, for any sets of games and supervisors and all settings:
type correctness, `ListMatchesRefcount`, `OneSwitcher`, `OnWhileRegistered` and
`OffWhileIdle`. None is inductive by itself. `IInv` is `ListInv`, the first four of
these, with `ModeInv`; the parts are separate because the signal handler keeps the
first and not the second.

* `LockInv`: who holds the lock is a function of the places of the two threads, and a
  writer excludes all others. With it a step under the write lock has the state alone.
* `PlaceInv`: the place of a thread fits its operation and argument; the reload steps
  of the main thread run only when the reaper has exited.
* `CountInv`: the refcount is the length of the list, except that it is one less after
  an insertion and one more after an unlinking that is not counted yet.
* `UniqueInv`: no pid is listed twice, and a pid that register has looked up and not
  found is still absent when it is inserted. This holds because only the main thread
  inserts; the reaper only removes.
* `ModeInv`: the mode fits the refcount when nobody switches, and the place of the
  thread that does otherwise.

**`ContextGamesProofs`** goes on to the games themselves. `WorkInv` says that the client
a thread works on is in the list between its insertion and the signal, and out of it
after its removal: one thread's work is not undone by the other before it is announced.
`OptimisedInv` says which games are boosted while somebody holds the lock, `DeadInv`
that the entry the reaper has found is that of a dead game until it is freed, and that the
client it is unregistering is dead or its pid was read from a freed entry; without pid
reuse the dead stay dead between the two locks. From these follow that an answer stays
true (`AnswerInv`) and that only the game the main thread is at can have a stale signal (`SignalInv`).
`ContextImplementsRegistry` maps the initial state, and each step by what it does to the
list: the step that gives up the write lock is the registration or unregistration, or
the step changes neither the games nor the flag.

**`GameModeShutdownProofs`**: the handler keeps `ListInv`; a clean shutdown keeps the
main thread at rest and the write lock free, so that the mode fits the refcount when
destroy reads it (`CleanInv`), and destroy leaves exactly when it has to.

**`OptimisationsProofs`** proves `OriginalKept` and `DefaultIsNotOurs` from
`OptimisationsAssumption`, which says that the values the user chooses are told apart
from those GameMode sets. The invariant `KeptInv` says at every point of enter and
leave, and not only out of game mode: a stored original is not GameMode's value, and
a level remembered as default goes with a value that is not GameMode's. A refused
helper keeps the level; the store is guarded by the level; that is why a failed leave
followed by an enter does not lose the original. `InhibitInv` gives
`InhibitionBalanced`: the inhibitor exists only between the two steps that see to it
and under a configuration that asks for it, as a reload leaves game mode under the old
configuration and enters it under the new one. `CleanInv` gives `CleanLeaveRestores`:
as long as nothing failed, what is to be put back is, setting by setting, in the stored
original, in the system, or in both, according to the place.

**`ConfigProofs`**, for any number of locations, contents and events.
`GetterSeesOneConfig` needs `LockInv`: as long as no reload has overtaken a reader the
lock's counter counts the reader and the writer is alone. `NoLostEdit` needs `WatchInv`:
a location that has no watch, or only the directory's although its file is there, is yet
to be looked at (`Pending`) or `unwatched`; and no read of the queue drops the event of a
change without starting a load. `TypeOK` needs `CountInv`: the counter is what it should
be or one less, however often reloads overtake the reader. `ValuesFollowFiles` needs
`FilesInv`: from the first location on, the values are what the positions before the
present location make of them. Under it lies an induction over the lines of a file
(`FileFollows`), in two steps: `ParseUnfolds` shows that the recursive function of
`Parse` has a value for every line and that each is what the handler makes of the one
before, and `LineFollows` that a handled line makes the values follow one more position.
`ListGrows` is the part about lists: the entry of a position stands behind the entries of
the positions before it, by the cardinality theorems.

The induction is `SetInduction`: a set of numbers with 0, and with n + 1 if with n, has
all numbers. The induction theorems of the library take an operator as a parameter,
which no installed prover can instantiate; `SetInduction` takes a set, and follows from
the library's least-element theorem (`WFMin`) and `NatLessThanWellFounded`.

**`ClientRequestsProofs`** proves the type invariant, `ClaimsHold` and
`OnlyAskedFor` for any processes, programs, libraries and any `MaxInbox`, from
`ClientAssumption` and `ReaperAssumption` (the reaper is not a caller). The invariant
`ClientInv` adds `BoundWhenCalled` (the pointer of a call is set, the assertions of
`gamemode_client.h`; a theorem of its own), `QueueInv` (a request that is still awaited
is that of its caller's present call, names the process the call is for, and is the
last its caller sent), `ClaimInv` (a caller with a claim has no change on its way: the
queue is first in, first out, so the answer to its last request comes after all it
gave up) and `AskedInv` (the queue names for registration only what was asked for).
`ToggleFlips` needs `ToggleInv`: a caller that never lost its pidfds waits for every
request it sent (`PidfdInv`), so that what its tool finds and what it then asks for are
about the same game, and that game stays as it was found until the change is answered
(`Turning`).

**`HardwareProofs`** proves the type invariant, `CoresRestored`, `MissingAreRemembered`,
`OtherCardsUntouched` and `GpuRestored` for every machine. `HelperInv` ties the helper to
the step it works for, `CoreInv` says that what is missing is parked by the present info,
and that without trouble nothing is missing beyond the cores a step is at. `GpuInv` says
that the stored and target infos mean the same card. The numbering of cards rests on two
lemmas: `RankGrows` (the rank of an NVIDIA card grows with its number) and
`IndexMeansDevice` (so the card with the index of a device is that device).
`GpuRestored` needs `CardInv`: what a reading helper has printed is what the card is at,
in the order asked (`WorkInv`), and for each attribute the card is as the user left it, or
what he had is in `stored`, or it is among those the helper still has to set
(`RestoreInv`). The type invariant shows that the parser puts every value into its field
and that no limit of `game_mode_initialise_gpu` is exceeded.

**`GameThreadsProofs`** proves `OwnLevelKept` for any threads, any configurations and any
levels of the game's own, equal to configured ones or not. It needs `ReadIsOurs`: a thread
whose level was read and is about to be set has no level of its own, or one that equals
the default or a configured level (`Ours`), or it was given one in between and is in
`raced`. `RemovedIsDefault` and `LevelsAreConfigured` need `LevelsInv`: `PlanInv` says
which walks are left, and `LevelInv`, by the number left and whether the walk at work is
past the thread, whether the thread may, or must, have the configured level; a nice level
must unless the thread is in `denied`. `DocumentedIsBoost` ties the documented values to
what the getters return for them, and to nothing else: for "off", "reset" and numbers out
of range there is no theorem.

What the proofs asked of the models:

* `Parse` is a recursive function over the lines, and the reference definition of
  `ValuesFollowFiles` goes by positions and their ranks in place of selected and
  concatenated sequences. TLC found the two references equal over all pairs of files
  of up to two lines of six kinds, with every list of up to two entries and other values
  right and wrong.
* `Fastest` of `CpuCores` is a closed form of the loop it stands for: a core counts
  if it is within ten per cent of the highest frequency seen until then, and no later
  core resets the list. TLC found it equal to the loop, written as a fold, on about two
  million tables of frequencies.
* In `Form` and `Reply` of `ClientRequests` two arms of a CASE overlapped, and a CASE
  chooses any arm that is true; they exclude each other now.
* `HardwareAssumption` names what the machines of a run had anyway: the vendors that
  exist, whole numbers for the GPU options, and the kinds of the park and pin options.

### Only model-checked

* Liveness: `CallsAnswered`, `DeadClientsExpire`, `SignalledExits`, `EditsTakeEffect`,
  `CallsReturn`, `HelperReturns`, `StaysPinned`. The prover does not handle fairness and
  ENABLED.
* The four runs that end with a counterexample.

## Abstractions

* Executables and the white and blacklists are the sets `Trusted` and `Permitted` in
  `GameModeContext`; how a list is made of files is in `ConfigValues`.
* `config_reload` is a nondeterministic new configuration in `Optimisations`,
  `Hardware` and `GameThreads` and no change of `Trusted` and `Permitted` in
  `GameModeContext`; its steps are in `Config`.
* The reaper's scan looks at entries one by one while processes die, so any dead entry
  may be the first found. The wait mutex of the reaper is not a variable: it is held for
  no time that anybody could notice.
* A game's priorities, I/O class and affinity are one fact in `GameModeContext`,
  "optimised"; `GameThreads` takes one game apart.
* `Optimisations` has the GPU as one value and no parking; `Hardware` has both in detail
  and no other setting. Both keep the order of enter and leave.
* A config line is a key, the form of its text and a number; `whitelist`, `renice`,
  `ioprio` and `gpu_device` stand for the lists, numbers, texts and protected numbers.
* A request carries processes instead of descriptors; D-Bus delivers in order and at most
  once, and tells a caller when its daemon is gone.
* The daemon of `ClientRequests` accepts every executable and has no supervisor rule.
* nvidia-settings and sysfs take and give values, not text; an operation is done, fails,
  or seems done and is not.
* A level is a number; the I/O class is best effort throughout, as the code sets no other.
* Memory: the freed list at shutdown is a flag, and the reaper does not walk it. The
  freed entry that the reaper reads in `auto_expire` is modelled by the values it may
  find there; that such a read may end the process is not.
* `Fastest` of `CpuCores` starts from no cores. In the code the set (gamemode-cpu.c:114) is
  not cleared: if no core has a readable cpuinfo_max_freq, lines 178-179 use what the
  memory held. The machines of `Hardware` all have the file, and no property is about
  the case.
* `Pin` of `GameThreads` pins any thread that exists: that sched_setaffinity fails for
  one (the error path at gamemode-cpu.c:500) is not modelled.

## Not modelled

The portal that the library uses inside a sandbox, object paths and properties of games,
start and end scripts, the walk of the governor helper over the CPUs' files, the
arithmetic of the energy counters and the getter of their threshold, a second signal
during the handler, the loss of inotify events when the kernel's queue is full, Wine's
executable names, option parsing, the self tests, logging, the example and data files.
Reasons are in the notes of `components`.

## Plan

1. The energy difference and its threshold as pure operators with their width, in place
   of the choice in `Optimisations`, and a lemma about their wrapping.
2. Scripts and a signal in the middle of enter, in `Optimisations`; a second signal in
   `GameModeShutdown`.
3. Proofs: lemmas about the getters' clamps (`RenicePriority`, `IoprioLevel`) and the
   choice of cores (what `Keep` never drops below four); which of the properties
   of living games survive a reused pid, with the process told apart from its pid; the
   step simulation of `GameModeRegistry` with restarts as steps of their own.
