--------------------------- MODULE MCOptimisations ---------------------------
(* Machines and configurations for TLC. *)
EXTENDS Optimisations

MCValues ==
  Own \cup {Unset, Absent, "0", "1", "schedutil", "ondemand", "balanced",
           "low-power", "frequency", "cache", "stock"}

\* Two governors for the user to choose from, so that a stale one shows.
MCChoices ==
  ("governor" :> {"schedutil", "ondemand"}) @@ ("profile" :> {"balanced"})
    @@ ("splitlock" :> {"1"}) @@ ("x3d" :> {"frequency"})
    @@ ("gpu" :> {"stock"})

NoDefault == [s \in Tracked |-> Unset]
LowPower == [s \in Tracked |-> "low-power"]

\* The configuration file of the example, and one in which all is different.
MCConfigs ==
  {[default |-> NoDefault, splitlock |-> TRUE, inhibit |-> TRUE,
    x3dDesired |-> "cache", x3dDefault |-> Unset],
   [default |-> LowPower, splitlock |-> FALSE, inhibit |-> FALSE,
    x3dDesired |-> Unset, x3dDefault |-> "frequency"]}

=============================================================================
