--------------------------- MODULE ClientRequests ---------------------------
(***************************************************************************)
(* The client side of GameMode: the wrappers a program compiles in         *)
(* (lib/gamemode_client.h) load the library, the library                   *)
(* (lib/client_impl.c) turns a call into a D-Bus request and sends it      *)
(* again by pids if it fails by pidfds, and the daemon's method handlers   *)
(* (daemon/gamemode-dbus.c) turn the request into an operation of the      *)
(* registry.  The registry itself is GameModeRegistry, which the context   *)
(* of GameModeContext implements.  gamemoded -rPID (daemon/gamemoded.c) is *)
(* one program that makes such calls.                                      *)
(***************************************************************************)
EXTENDS Integers, FiniteSets, SequencesExt

CONSTANTS
  Processes,     \* the processes of the session
  Callers,       \* those that use the library
  Program,       \* the calls each caller may make
  Tools,         \* the callers that may be a gamemoded -rPID
  Libraries,     \* the symbols of each library the host may have
  PidfdSupport,  \* does pidfd_open work?
  Unreliable,    \* may calls time out, the daemon crash, processes die?
  MaxInbox       \* the requests that may wait for the daemon (a bound)

VARIABLES
  alive,       \* processes that exist
  registered,  \* the games the daemon has registered
  active,      \* is it in game mode?
  host,        \* the symbols of the library the host has
  inbox,       \* requests on their way to the daemon
  loaded,      \* internal_libgamemode_loaded: 1 not tried, 0 yes, -1 failed
  bound,       \* the REAL_internal_ pointers that are set
  usePidfds,   \* use_pidfs of gamemode_request
  pc,          \* "idle", "send" or "wait", for each caller
  call,        \* the call it makes
  answer,      \* what the last call of a tool returned
  tool,        \* gamemoded -rPID, if the caller is one
  claims,      \* the last change the caller was told it made, as long as
               \* nobody else touched that game (history only)
  asked        \* the games anybody ever asked to register (history only)

Daemon == INSTANCE GameModeRegistry WITH Games <- Processes

libraryVars == <<host, loaded, bound>>
registryVars == <<registered, active>>
vars == <<alive, registryVars, inbox, libraryVars, usePidfds, pc, call, answer,
          tool, claims, asked>>

Verbs == {"register", "unregister", "query", "restart"}
Changes == {"register", "unregister"}

\* A call is for the caller itself (for_pid 0) or for another process; there
\* is no restart for another process.
Calls == [verb : Verbs, own : BOOLEAN, target : Processes]
CallsOf(c) == {newCall \in Calls :
                 /\ newCall.own => newCall.target = c
                 /\ newCall.verb = "restart" => newCall.own}

\* A symbol of the library is what it is called for.
Symbol(c) == <<c.verb, c.own>>
Symbols == (Verbs \X {TRUE}) \cup ((Verbs \ {"restart"}) \X {FALSE})
                             \cup {<<"error_string", TRUE>>}
Required == {<<"register", TRUE>>, <<"unregister", TRUE>>,
             <<"error_string", TRUE>>}

ASSUME ClientAssumption ==
  /\ Callers \subseteq Processes
  /\ DOMAIN Program = Callers
  /\ \A c \in Callers : Program[c] \subseteq CallsOf(c)
  /\ Tools \subseteq Callers
  /\ Libraries \subseteq SUBSET Symbols
  /\ {PidfdSupport, Unreliable} \subseteq BOOLEAN
  /\ MaxInbox \in Nat \ {0}

\* Who unregisters the dead is no caller.
ASSUME ReaperAssumption == "the reaper" \notin Callers

NoAnswer == 99
NoCall == [verb |-> "none"]
NoClaim == [verb |-> "none"]
NoTool == [step |-> "none"]

-----------------------------------------------------------------------------
(* The wrappers and the library. *)

\* internal_load_libgamemode, once per process: a library without the
\* symbols it must have counts as none.
LoadLibrary(c) ==
  /\ UNCHANGED host
  /\ IF loaded[c] # 1
       THEN UNCHANGED <<loaded, bound>>
       ELSE /\ loaded' = [loaded EXCEPT ![c] = IF Required \subseteq host THEN 0
                                                                        ELSE -1]
            /\ bound' = [bound EXCEPT ![c] = host]

\* The wrapper has the pointer it calls through.
CanCall(c, newCall) == loaded'[c] = 0 /\ Symbol(newCall) \in bound'[c]

\* gamemode_request_start and its like: without the library, or without the
\* symbol in an older one, the call fails before anything is sent.
Begin(c, newCall) ==
  /\ LoadLibrary(c)
  /\ IF CanCall(c, newCall)
       THEN /\ pc' = [pc EXCEPT ![c] = "send"]
            /\ call' = [call EXCEPT ![c] = newCall]
            /\ UNCHANGED answer
            /\ claims' = IF newCall.verb \in Changes
                           THEN [claims EXCEPT ![c] = NoClaim] ELSE claims
            /\ asked' = IF newCall.verb = "register"
                          THEN asked \cup {newCall.target} ELSE asked
       ELSE /\ answer' = IF tool'[c] = NoTool THEN answer
                                              ELSE [answer EXCEPT ![c] = -1]
            /\ UNCHANGED <<pc, call, claims, asked>>
  /\ UNCHANGED <<alive, registryVars, inbox, usePidfds>>

Call(c) ==
  /\ pc[c] = "idle" /\ c \in alive /\ tool[c] = NoTool
  /\ UNCHANGED tool
  /\ \E newCall \in Program[c] : Begin(c, newCall)

\* Where a call ends, with what it returns.  Only a tool goes by it.
Return(c, value) ==
  /\ pc' = [pc EXCEPT ![c] = "idle"]
  /\ call' = [call EXCEPT ![c] = NoCall]
  /\ answer' = IF tool[c] = NoTool THEN answer ELSE [answer EXCEPT ![c] = value]

\* MISTAKE for GiveUpPidfds: pidfds are tried again in the retry.
KeepPidfds(c) == UNCHANGED usePidfds

\* use_pidfs is cleared for the rest of the process.
GiveUpPidfds(c) == usePidfds' = [usePidfds EXCEPT ![c] = FALSE]

\* make_request failed with an error: once more without pidfds, or -1.
RequestFailed(c) ==
  IF usePidfds[c]
    THEN /\ GiveUpPidfds(c)
         /\ pc' = [pc EXCEPT ![c] = "send"]
         /\ UNCHANGED <<call, answer>>
    ELSE Return(c, -1) /\ UNCHANGED usePidfds

\* The form of the method: by pidfds, by one pid, or by two (ByPID).
Form(c) == IF usePidfds[c] THEN "fd" ELSE IF call[c].own THEN "pid" ELSE "pids"

\* MISTAKE for Request: this process first, whatever the form.
RequestSwapped(c) ==
  [verb |-> call[c].verb, form |-> Form(c), from |-> c, wanted |-> TRUE,
   pids |-> IF Form(c) = "pid" THEN <<c>> ELSE <<c, call[c].target>>]

\* pids[0] is the game and pids[1] this process, whatever the form.
Request(c) ==
  [verb |-> call[c].verb, form |-> Form(c), from |-> c, wanted |-> TRUE,
   pids |-> IF Form(c) = "pid" THEN <<c>> ELSE <<call[c].target, c>>]

\* open_pidfds fails for a process that is gone.
CanOpenPidfds(c) == PidfdSupport /\ call[c].target \in alive

Send(c) ==
  /\ pc[c] = "send" /\ c \in alive
  /\ IF usePidfds[c] /\ ~CanOpenPidfds(c)
       THEN RequestFailed(c) /\ UNCHANGED inbox
       ELSE /\ Len(inbox) < MaxInbox
            /\ inbox' = Append(inbox, Request(c))
            /\ pc' = [pc EXCEPT ![c] = "wait"]
            /\ UNCHANGED <<usePidfds, call, answer>>
  /\ UNCHANGED <<alive, registryVars, libraryVars, tool, claims, asked>>

\* dbus_pending_call_unref: a reply that comes late is dropped.
Abandon(c) ==
  [i \in DOMAIN inbox |->
     IF inbox[i].from = c THEN [inbox[i] EXCEPT !.wanted = FALSE] ELSE inbox[i]]

\* No reply in time; the request is still on its way.
Timeout(c) ==
  /\ Unreliable
  /\ pc[c] = "wait" /\ c \in alive
  /\ RequestFailed(c)
  /\ inbox' = Abandon(c)
  /\ UNCHANGED <<alive, registryVars, libraryVars, tool, claims, asked>>

\* The bus answers for a daemon that went away with the request.
NoReply(c) ==
  /\ pc[c] = "wait" /\ c \in alive
  /\ \A i \in DOMAIN inbox : inbox[i].from = c => ~inbox[i].wanted
  /\ RequestFailed(c)
  /\ UNCHANGED <<alive, registryVars, inbox, libraryVars, tool, claims, asked>>

-----------------------------------------------------------------------------
(* The daemon. *)

\* MISTAKE for Client: the pidfds are taken in the order of the pids.
ClientSwapped(r) == IF r.form = "pid" THEN r.pids[1] ELSE r.pids[2]

\* The process a request is about.  The ByPID handlers read the caller's pid
\* before the game's, the others read the game's first.
Client(r) == IF r.form = "pids" THEN r.pids[2] ELSE r.pids[1]
Requester(r) == IF r.form = "fd" THEN r.pids[2] ELSE r.pids[1]

\* pidfds_to_pids: the pidfd of a process that is gone shows no pid.
PidsKnown(r) == r.form = "fd" => ToSet(r.pids) \subseteq alive

\* game_mode_context_find_exe of the requester.
Accepted(r) == PidsKnown(r) /\ (Requester(r) = Client(r) \/ Requester(r) \in alive)

\* MISTAKE for Status: the count of games is returned instead of a flag.
StatusCounts(p) ==
  Cardinality(registered) + (IF p \in registered THEN 1 ELSE 0)

\* game_mode_context_query_status.
Status(p) == IF registered = {} THEN 0 ELSE IF p \in registered THEN 2 ELSE 1

Registers(r) ==
  /\ r.verb = "register" /\ Accepted(r)
  /\ Client(r) \in alive \ registered

Unregisters(r) == r.verb = "unregister" /\ Accepted(r) /\ Client(r) \in registered

\* What the handler replies.  RestartGamemode has no form by pidfds: the bus
\* library replies with an error.
Error == -99
Reply(r) ==
  CASE r.verb = "restart" /\ r.form = "fd" -> Error
    [] Registers(r) \/ Unregisters(r) -> 0
    [] r.verb = "query" /\ Accepted(r) -> Status(Client(r))
    [] r.verb = "restart" /\ r.form # "fd" /\ Client(r) \in alive ->
         IF registered = {} THEN 1 ELSE 0
    [] OTHER -> -1

\* The registration of p changes, and no caller but c had it changed.
Withdraw(p, c) ==
  [d \in Callers |->
     IF d # c /\ claims[d] # NoClaim /\ claims[d].target = p THEN NoClaim
                                                            ELSE claims[d]]
Disturb(p, c) ==
  [d \in Callers |->
     IF d # c /\ tool[d] # NoTool /\ tool[d].target = p
       THEN [tool[d] EXCEPT !.was = "unknown"] ELSE tool[d]]

\* The daemon's operation on the registry.
Perform(r) ==
  CASE Registers(r) ->
         /\ Daemon!Register(Client(r))
         /\ tool' = Disturb(Client(r), r.from)
    [] Unregisters(r) ->
         /\ Daemon!Unregister(Client(r))
         /\ tool' = Disturb(Client(r), r.from)
    [] OTHER -> UNCHANGED <<registryVars, tool>>

\* What the callers may rely on after it.  By two pids the daemon is known to
\* name the wrong process, so that no claim is made.
Claim(r) ==
  LET changes == Registers(r) \/ Unregisters(r)
      others == IF changes THEN Withdraw(Client(r), r.from) ELSE claims
  IN IF changes /\ r.wanted /\ r.form # "pids"
       THEN [others EXCEPT ![r.from] = [verb |-> r.verb,
                                        target |-> call[r.from].target]]
       ELSE others

\* The daemon's main thread answers the oldest request.
Handle ==
  /\ inbox # <<>>
  /\ LET r == Head(inbox)
     IN /\ Perform(r)
        /\ claims' = Claim(r)
        /\ IF ~r.wanted \/ r.from \notin alive
             THEN UNCHANGED <<usePidfds, pc, call, answer>>
             ELSE IF Reply(r) = Error THEN RequestFailed(r.from)
             ELSE Return(r.from, Reply(r)) /\ UNCHANGED usePidfds
  /\ inbox' = Tail(inbox)
  /\ UNCHANGED <<alive, libraryVars, asked>>

\* The reaper unregisters a game that died.
Expire ==
  /\ \E p \in registered \ alive :
       /\ Daemon!Unregister(p)
       /\ claims' = Withdraw(p, "the reaper")
       /\ tool' = Disturb(p, "the reaper")
  /\ UNCHANGED <<alive, inbox, libraryVars, usePidfds, pc, call, answer, asked>>

\* The daemon dies with the requests it was sent; the bus starts another for
\* the next one, which knows of no game.
Crash ==
  /\ Unreliable
  /\ registered' = {} /\ active' = FALSE
  /\ inbox' = <<>>
  /\ claims' = [c \in Callers |-> NoClaim]
  /\ tool' = [c \in Callers |->
                IF tool[c] = NoTool THEN NoTool
                                    ELSE [tool[c] EXCEPT !.was = "unknown"]]
  /\ UNCHANGED <<alive, libraryVars, usePidfds, pc, call, answer, asked>>

Die(p) ==
  /\ Unreliable
  /\ p \in alive
  /\ alive' = alive \ {p}
  /\ UNCHANGED <<registryVars, inbox, libraryVars, usePidfds, pc, call, answer,
                 tool, claims, asked>>

-----------------------------------------------------------------------------
(* gamemoded -rPID, a process of its own: it asks for the status of the     *)
(* game and then for the other one.                                         *)

ToolStart(c) ==
  /\ c \in Tools
  /\ pc[c] = "idle" /\ c \in alive /\ tool[c] = NoTool
  /\ \A i \in DOMAIN inbox : inbox[i].from # c
  /\ \E p \in Processes \ {c} :
       /\ tool' = [tool EXCEPT ![c] =
                     [step |-> "query", target |-> p,
                      was |-> IF p \in registered THEN "in" ELSE "out"]]
       /\ Begin(c, [verb |-> "query", own |-> FALSE, target |-> p])

\* MISTAKE for OppositeOf: a switch that falls through to its first case.
OppositeOfAny(status) == "register"

OppositeOf(status) == IF status = 2 THEN "unregister" ELSE "register"

ToolEnds(c) ==
  /\ tool' = [tool EXCEPT ![c] = NoTool]
  /\ answer' = [answer EXCEPT ![c] = NoAnswer]
  /\ UNCHANGED <<alive, registryVars, inbox, libraryVars, usePidfds, pc, call,
                 claims, asked>>

ToolRequest(c) ==
  /\ pc[c] = "idle" /\ c \in alive /\ tool[c].step = "query"
  /\ IF answer[c] = -1
       THEN ToolEnds(c)
       ELSE /\ tool' = [tool EXCEPT ![c].step = "request"]
            /\ Begin(c, [verb |-> OppositeOf(answer[c]), own |-> FALSE,
                         target |-> tool[c].target])

ToolExit(c) ==
  /\ pc[c] = "idle" /\ tool[c].step = "request"
  /\ ToolEnds(c)

-----------------------------------------------------------------------------
Init ==
  /\ alive = Processes
  /\ Daemon!Init
  /\ inbox = <<>>
  /\ host \in Libraries
  /\ loaded = [c \in Callers |-> 1]
  /\ bound = [c \in Callers |-> {}]
  /\ usePidfds = [c \in Callers |-> TRUE]
  /\ pc = [c \in Callers |-> "idle"]
  /\ call = [c \in Callers |-> NoCall]
  /\ answer = [c \in Callers |-> NoAnswer]
  /\ tool = [c \in Callers |-> NoTool]
  /\ claims = [c \in Callers |-> NoClaim]
  /\ asked = {}

Library(c) == Send(c) \/ Timeout(c) \/ NoReply(c)
Tool(c) == ToolStart(c) \/ ToolRequest(c) \/ ToolExit(c)

Next ==
  \/ \E c \in Callers : Call(c) \/ Library(c) \/ Tool(c)
  \/ Handle \/ Expire \/ Crash
  \/ \E p \in Processes : Die(p)

\* A caller that has a request to send sends it, the daemon answers the
\* requests it has, and the bus answers for a daemon that cannot.  Only the
\* bound on the inbox ever stops a caller from sending, so that strong
\* fairness of Send stands for the weak fairness of a send that never waits.
Fairness ==
  /\ WF_vars(Handle)
  /\ \A c \in Callers : SF_vars(Send(c)) /\ WF_vars(NoReply(c))

Spec == Init /\ [][Next]_vars /\ Fairness

-----------------------------------------------------------------------------
(* Properties. *)

Requests == [verb : Verbs, form : {"fd", "pid", "pids"}, from : Callers,
             wanted : BOOLEAN, pids : UNION {[1..n -> Processes] : n \in 1..2}]

TypeOK ==
  /\ alive \subseteq Processes
  /\ registered \subseteq Processes
  /\ active = (registered # {})
  /\ inbox \in Seq(Requests) /\ Len(inbox) <= MaxInbox
  /\ loaded \in [Callers -> {1, 0, -1}]
  /\ bound \in [Callers -> SUBSET Symbols]
  /\ usePidfds \in [Callers -> BOOLEAN]
  /\ pc \in [Callers -> {"idle", "send", "wait"}]
  /\ call \in [Callers -> Calls \cup {NoCall}]
  /\ answer \in [Callers -> {-1, 0, 1, 2, NoAnswer}]
  /\ asked \subseteq Processes

\* The pointer a wrapper calls through is set, whatever library was found
\* and however old it is: the assertions of gamemode_client.h hold
\* (gamemode_client.h:267, 302).
BoundWhenCalled ==
  \A c \in Callers :
    pc[c] # "idle" => loaded[c] = 0 /\ Symbol(call[c]) \in bound[c]

\* A caller that was told that a game is registered, or is not any more,
\* was told the truth, and it stays true until somebody else changes it:
\* no request of its own that timed out or was repeated undoes it later
\* (client_impl.c:342, gamemode-dbus.c:222).
ClaimsHold ==
  \A c \in Callers :
    claims[c] # NoClaim =>
      (claims[c].verb = "register" <=> claims[c].target \in registered)

\* A process that nobody asked to register is registered only if it gave up
\* its pidfds: without them it names itself when it asks for another one.
OnlyAskedFor ==
  \A p \in registered :
    p \in asked \/ (p \in Callers /\ ~usePidfds[p])

\* The registered processes are those named as the game in a request: "pid[0]
\* is the client, i.e. the game" (client_impl.c:311).
NamesTheGame == registered \subseteq asked

\* gamemoded -rPID leaves the game the other way and says so, if the game
\* lives, nobody else changed it meanwhile and every request was answered
\* (gamemoded.c:228).
ToggleFlips ==
  \A c \in Callers :
    /\ tool[c].step = "request" /\ pc[c] = "idle"
    /\ usePidfds[c] /\ tool[c].was # "unknown" /\ tool[c].target \in alive
    => /\ answer[c] = 0
       /\ (tool[c].target \in registered) = (tool[c].was = "out")

\* Every call returns: the retry happens once (client_impl.c:342).
CallsReturn ==
  \A c \in Callers : pc[c] # "idle" ~> (pc[c] = "idle" \/ c \notin alive)

=============================================================================
