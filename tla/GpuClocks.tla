----------------------------- MODULE GpuClocks -----------------------------
(***************************************************************************)
(* The GPU that game mode overclocks (daemon/gamemode-gpu.c) and the       *)
(* helper that talks to it (util/gpuclockctl.c): what the options are      *)
(* turned into, which card is meant, and which attributes of the card are  *)
(* read and written in which order.  Functions only; Hardware runs the     *)
(* helper.  "perf" is the query for the highest performance level that     *)
(* comes first on an NVIDIA card.                                          *)
(***************************************************************************)
EXTENDS Integers, FiniteSets, Sequences

\* An NVIDIA card has the first three attributes, an AMD card the last.  A
\* performance level is a number, Empty the empty string.
Attributes == {"core", "mem", "power", "level"}
Empty == 0
Manual == 9
DontSet == -1

NoGpu == [vendor |-> "none"]

CoreLimit == 200
MemLimit == 2000

\* MISTAKE for Sane: both offsets have to be too high.
SaneEither(vendor, options) ==
  /\ vendor = "nvidia" => (options.core <= CoreLimit \/ options.mem <= MemLimit)
  /\ vendor = "amd" => options.level # Manual

\* The values that game_mode_initialise_gpu accepts.
Sane(vendor, options) ==
  /\ vendor = "nvidia" => options.core <= CoreLimit /\ options.mem <= MemLimit
  /\ vendor = "amd" => options.level # Manual

\* game_mode_initialise_gpu.  NoGpu is the null pointer: nothing is done.
\* cards gives the vendor of each DRM card, "none" for a hole.
GpuInfo(cards, options) ==
  IF \/ options.apply # "accept-responsibility"
     \/ options.device \notin DOMAIN cards
     \/ cards[options.device] = "none"
     \/ ~Sane(cards[options.device], options)
    THEN NoGpu
    ELSE [vendor |-> cards[options.device], device |-> options.device,
          editable |-> options.editable,
          core |-> options.core, mem |-> options.mem, power |-> options.power,
          level |-> options.level]

\* MISTAKE for NvidiaIndex: the cards before the device are counted, it is
\* not.
NvidiaIndexBefore(cards, device) ==
  Cardinality({d \in 0 .. device - 1 : cards[d] = "nvidia"}) - 1

\* get_gpu_index_id_nv: nvidia-settings counts the NVIDIA cards alone.
NvidiaIndex(cards, device) ==
  Cardinality({d \in 0..device : cards[d] = "nvidia"}) - 1

\* The card that nvidia-settings means by an index (external), and the one
\* that gpuclockctl writes to or reads.
NvidiaCard(cards, index) ==
  CHOOSE d \in DOMAIN cards : cards[d] = "nvidia"
    /\ Cardinality({e \in 0..d : cards[e] = "nvidia"}) = index + 1
CardOf(cards, gpu) ==
  IF gpu.vendor = "nvidia" THEN NvidiaCard(cards, NvidiaIndex(cards, gpu.device))
                           ELSE gpu.device

\* get_gpu_state_nv, get_gpu_state_amd: what "gpuclockctl get" asks for.
Queries(gpu) ==
  CASE gpu.vendor = "nvidia" -> <<"perf", "core", "mem">>
                                  \o IF gpu.editable = 1 THEN <<"power">> ELSE <<>>
    [] gpu.vendor = "amd"    -> <<"level">>
    [] OTHER                 -> <<>>

\* set_gpu_state_nv, set_gpu_state_amd: what "gpuclockctl set" changes.
Assignments(gpu) ==
  LET Asked(a) == IF gpu[a] # DontSet THEN <<a>> ELSE <<>>
  IN CASE gpu.vendor = "nvidia" ->
            <<"perf">> \o Asked("core") \o Asked("mem")
                       \o IF gpu.editable = 1 THEN Asked("power") ELSE <<>>
       [] gpu.vendor = "amd"    -> IF gpu.level # Empty THEN <<"level">> ELSE <<>>
       [] OTHER                 -> <<>>

\* game_mode_get_gpu: what the helper printed, <<>> if it printed nothing,
\* goes into gpu.  Without the power mode the helper prints a 0 for it.
Parsed(gpu, output) ==
  CASE gpu.vendor = "nvidia" ->
         IF output = <<>> THEN gpu
         ELSE [gpu EXCEPT !.core = output[1], !.mem = output[2],
                          !.power = IF gpu.editable = 1 THEN output[3] ELSE 0]
    [] gpu.vendor = "amd"    ->
         [gpu EXCEPT !.level = IF output = <<>> THEN Empty ELSE output[1]]
    [] OTHER                 -> gpu

=============================================================================
