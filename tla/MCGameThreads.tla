---------------------------- MODULE MCGameThreads ----------------------------
(* Threads and configurations for TLC. *)
EXTENDS GameThreads

Pinning == [mode |-> "pin", online |-> 0..7, keep |-> 0..3]
Parking == [mode |-> "park", online |-> 0..7, keep |-> 2..7]

\* Configurations that differ in everything, one of them out of the documented
\* range, and one that differs from the first in the levels only.
MCConfigs ==
  {[renice |-> 10, ioprio |-> 0, softrealtime |-> TRUE, info |-> Pinning],
   [renice |-> 21, ioprio |-> IoprioDontSet, softrealtime |-> FALSE,
    info |-> Parking],
   [renice |-> 4, ioprio |-> 1, softrealtime |-> FALSE, info |-> Pinning]}

\* The main thread sets a nice level of its own, which its children inherit.
\* The others set I/O priorities: one that game mode never sets, and one that
\* a configuration sets too.
MCOwn == [kind \in Kinds |-> [t \in Tids |->
            CASE kind = "renice" /\ t = Main -> {5}
              [] kind = "ioprio" /\ t # Main -> {1, 6}
              [] OTHER -> {}]]

=============================================================================
