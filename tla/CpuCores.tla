------------------------------ MODULE CpuCores ------------------------------
(***************************************************************************)
(* Which cores a game gets (daemon/gamemode-cpu.c): from the options       *)
(* park_cores and pin_cores, the cores that are online and what the kernel *)
(* says of each, game_mode_initialise_cpu chooses between parking, pinning *)
(* and neither, and the cores to keep.  Functions only; Hardware parks     *)
(* cores and GameThreads pins threads by them.                             *)
(*                                                                         *)
(* A list of cores in a file is a sequence of ranges <<from, to>>.  An     *)
(* option is unset, "yes", "no" or such a list.  A machine has for each    *)
(* core the size of its L3 cache and its highest frequency, Unreadable if  *)
(* the kernel does not tell, and lists its P-cores if it is a hybrid one.  *)
(***************************************************************************)
EXTENDS Integers, FiniteSets, SequencesExt

Unreadable == -1
NoInfo == [mode |-> "none"]

\* parse_cpulist, until it returns NULL: a range that is the wrong way round
\* ends the list.
CoresIn(list) ==
  LET Good(i) == \A j \in 1..i : list[j][1] <= list[j][2]
  IN UNION {list[i][1] .. list[i][2] : i \in {j \in DOMAIN list : Good(j)}}

\* park_or_pin.  Pinning wins over parking and is the default; both have to
\* be switched off.
ParkOrPin(options) ==
  CASE options.pin.kind \in {"yes", "list"}                       -> "pin"
    [] options.pin.kind \in {"unset", "no"}
         /\ options.park.kind \in {"yes", "list"}                 -> "park"
    [] options.pin.kind = "no" /\ options.park.kind = "no"        -> "none"
    [] OTHER                                                      -> "pin"

\* walk_sysfs, first half: the cores with the largest L3 cache.
LargestCache(machine, online) ==
  LET known == {c \in online : machine.cache[c] # Unreadable}
  IN {c \in known : \A d \in known : machine.cache[d] <= machine.cache[c]}

\* walk_sysfs, second half: from the first core to the last, one within a
\* tenth of the fastest so far is one of the fast ones, and one more than a
\* tenth ahead of all before it makes them slow.
Fastest(machine, online) ==
  LET known == {c \in online : machine.freq[c] # Unreadable}
      Before(c) == {machine.freq[d] : d \in known \cap (0 .. c - 1)}
      Cutoff(c) == (machine.freq[c] * 10) \div 100
      Near(c) == \A f \in Before(c) : machine.freq[c] + Cutoff(c) >= f
      Ahead(c) == \A f \in Before(c) : f < machine.freq[c] - Cutoff(c)
  IN {c \in known : Near(c) /\ \A d \in known : c < d => ~Ahead(d)}

\* check_pe_cores and walk_sysfs: the P-cores of a hybrid machine, or the
\* cores with the most cache, or if that is the same for all, the fast ones.
\* The kernel lists a P-core only while it is online.
BestCores(machine, online) ==
  LET cached == LargestCache(machine, online)
  IN IF machine.pcores # {} THEN machine.pcores \cap online
     ELSE IF cached \notin {online, {}} THEN cached
     ELSE Fastest(machine, online)

\* walk_string: a list names the cores to park or the cores to pin to.
Keep(machine, online, mode, option) ==
  CASE option.kind \in {"unset", "yes"} -> BestCores(machine, online)
    [] option.kind \in {"no", "list"}   ->
         IF mode = "park" THEN online \ CoresIn(option.list)
                          ELSE online \cap CoresIn(option.list)

\* There is something to park, and four cores are left.
Worthwhile(mode, online, keep) ==
  /\ mode = "park" => keep # online
  /\ Cardinality(keep) >= 4

\* game_mode_initialise_cpu.  NoInfo is the null pointer: nothing is done.
CpuInfo(machine, online, options) ==
  LET mode == ParkOrPin(options)
      keep == Keep(machine, online, mode,
                   IF mode = "park" THEN options.park ELSE options.pin)
  IN IF mode = "none" \/ online \subseteq {0} \/ ~Worthwhile(mode, online, keep)
       THEN NoInfo
       ELSE [mode |-> mode, online |-> online, keep |-> keep]

\* The cores game_mode_park_cpu and game_mode_unpark_cpu write to the list
\* for cpucorectl; none if there is no info or it is for pinning.
Parked(info) == IF info.mode = "park" THEN info.online \ info.keep ELSE {}

=============================================================================
