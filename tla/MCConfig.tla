------------------------------ MODULE MCConfig ------------------------------
(* Two locations, of the administrator and of the user, for TLC. *)
EXTENDS Config

Line(key, form, value) == [key |-> key, form |-> form, value |-> value]

MCProtected == {1}

\* A file that sets a number twice, and one that fills the list and overflows
\* a number of the [gpu] section, which only counts in the first location.
MCContents ==
  {<<Line("whitelist", "ok", 1), Line("renice", "ok", 4),
     Line("renice", "ok", 9), Line("gpu_device", "ok", 1)>>,
   <<Line("whitelist", "ok", 2), Line("whitelist", "toolong", 3),
     Line("whitelist", "ok", 4), Line("ioprio", "ok", IoprioDontSet),
     Line("renice", "ok", 12), Line("renice", "garbage", 0),
     Line("gpu_device", "overflow", 0)>>}

=============================================================================
