---------------------------- MODULE ConfigValues ----------------------------
(***************************************************************************)
(* The values of the configuration and how the lines of the files set them *)
(* (daemon/gamemode-config.c, from append_value_to_list to inih_handler,   *)
(* and the getters that change what they read).  A line is a record: its   *)
(* key, the form of its text and the number that stands for its value.     *)
(* One key stands for each way in which inih_handler treats a value.       *)
(***************************************************************************)
EXTENDS Integers, SequencesExt

CONSTANT ListMax  \* CONFIG_LIST_MAX, the entries a list has room for

ASSUME ListMaxAssumption == ListMax \in Nat \ {0}

\* A list, a number, a text, and a number of the [gpu] section.
Keys == {"whitelist", "renice", "ioprio", "gpu_device"}
Forms == {"ok", "overflow", "garbage", "toolong"}
Lines == [key : Keys, form : Forms, value : Int]

ProtectedKeys == {"gpu_device"}
Numbers == {"renice", "gpu_device"}

Values == [whitelist : Seq(Int), renice : Int, ioprio : Int, gpu_device : Int]

\* The values load_config_files starts from.
Defaults == [whitelist |-> <<>>, renice |-> 0, ioprio |-> 0, gpu_device |-> 0]

-----------------------------------------------------------------------------
(* The handler of one line.  It works on the values and on errno, of which *)
(* only ERANGE matters.                                                    *)

\* MISTAKE for AppendValue: the last entry is written past the end.
AppendValuePastEnd(list, line) ==
  IF Len(list) <= ListMax /\ line.form # "toolong" THEN Append(list, line.value)
                                                  ELSE list

\* append_value_to_list: a full list and a long entry leave it as it is.
AppendValue(list, line) ==
  IF Len(list) < ListMax /\ line.form # "toolong" THEN Append(list, line.value)
                                                 ELSE list

\* get_long_value: strtol sets errno on overflow but nothing clears it, so
\* that the numbers after one that overflowed are rejected like it.
SetNumber(state, line) ==
  IF state.erange \/ line.form = "overflow" THEN [state EXCEPT !.erange = TRUE]
  ELSE IF line.form = "ok" THEN [state EXCEPT !.values[line.key] = line.value]
  ELSE state

\* MISTAKE for HandleLine: the [gpu] section is read from any file.
HandleLineUnprotected(state, protected, line) ==
  CASE line.key = "whitelist" ->
         [state EXCEPT !.values.whitelist = AppendValue(@, line)]
    [] line.key = "ioprio" -> [state EXCEPT !.values.ioprio = line.value]
    [] OTHER -> SetNumber(state, line)

\* inih_handler.
HandleLine(state, protected, line) ==
  CASE line.key = "whitelist" ->
         [state EXCEPT !.values.whitelist = AppendValue(@, line)]
    [] line.key = "ioprio" -> [state EXCEPT !.values.ioprio = line.value]
    [] line.key \in ProtectedKeys /\ ~protected -> state
    [] OTHER -> SetNumber(state, line)

\* ini_parse_file calls the handler for one line after the other.
Parse(state, protected, lines) ==
  LET after[n \in 0..Len(lines)] ==
        IF n = 0 THEN state ELSE HandleLine(after[n - 1], protected, lines[n])
  IN after[Len(lines)]

-----------------------------------------------------------------------------
(* Getters that change what they read. *)

\* config_get_renice_value: a number out of range does not renice.
RenicePriority(value) == IF value \in 1..20 THEN value ELSE 0

\* IOPRIO_RESET_DEFAULT is what the text "default" stands for, and
\* IOPRIO_DONT_SET the text "off".  The "reset" of example/gamemode.ini is no
\* number to atoi, which makes it 0.
IoprioResetDefault == -1
IoprioDontSet == -2

\* config_get_ioprio_value.  IoprioDontSet is a number like any other when
\* it comes to the range.
IoprioLevel(value) ==
  IF value = IoprioResetDefault \/ value < 0 THEN 0
  ELSE IF value > 7 THEN 7 ELSE value

=============================================================================
