----------------------------- MODULE MCHardware -----------------------------
(* Machines and configurations for TLC. *)
EXTENDS Hardware

MCCores == 0..5

Uniform == [c \in MCCores |-> 10]

\* A machine with slow cores, where some are a tenth slower than others, and
\* a hybrid one.
BigLittle == [cache |-> Uniform, pcores |-> {},
              freq |-> <<31, 33, 35, 36, 10>> @@ (0 :> 35)]
Hybrid == [cache |-> Uniform, pcores |-> 0..3, freq |-> Uniform]

Option(kind) == [kind |-> kind, list |-> <<>>]
Listed(list) == [kind |-> "list", list |-> list]
Unset == Option("unset")

Card(device, core, level) ==
  [apply |-> "accept-responsibility", device |-> device, core |-> core,
   mem |-> DontSet, power |-> DontSet, editable |-> 1, level |-> level]

\* A hole and an AMD card before two NVIDIA cards.
MCCards == (0 :> "none") @@ (1 :> "nvidia") @@ (2 :> "amd") @@ (3 :> "nvidia")

\* One host varies the cores: what is slow is parked, or too many, and its
\* offset is too high.  One has the second NVIDIA card, and nothing to park.
\* One has the AMD card, with parking of listed cores switched on and off.
MCHosts ==
  {[machine |-> BigLittle, cards |-> MCCards, gpu |-> Card(1, CoreLimit + 1, 5),
    choices |-> {[park |-> Option("yes"), pin |-> Unset],
                 [park |-> Listed(<<<<1, 3>>>>), pin |-> Unset],
                 [park |-> Option("no"), pin |-> Option("no")]}],
   [machine |-> Hybrid, cards |-> MCCards, gpu |-> Card(3, 100, Manual),
    choices |-> {[park |-> Option("no"), pin |-> Option("no")]}],
   [machine |-> Hybrid, cards |-> MCCards, gpu |-> Card(2, 100, 5),
    choices |-> {[park |-> Listed(<<<<0, 0>>, <<5, 5>>, <<4, 3>>, <<1, 1>>>>),
                  pin |-> Option("no")],
                 [park |-> Unset, pin |-> Unset]}]}

MCVolatile == {5}
MCClocks == {-1, 2}

=============================================================================
