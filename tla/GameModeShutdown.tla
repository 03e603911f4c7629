-------------------------- MODULE GameModeShutdown ---------------------------
(***************************************************************************)
(* SIGINT or SIGTERM reaches the daemon (daemon/gamemoded.c): the handler  *)
(* runs on top of whatever the main thread is doing, calls                 *)
(* game_mode_context_destroy and ends the process.  The reaper thread runs *)
(* on until it is joined.                                                  *)
(***************************************************************************)
EXTENDS GameModeContext

VARIABLES
  handler,  \* where the signal handler is
  freed,    \* has the client list been freed?
  clean     \* was the main thread idle, and has the reaper kept off the
            \* write lock, since the signal? (history only)

handlerVars == <<handler, freed, clean>>
shutdownVars == <<vars, handlerVars>>

HandlerLocs == {"none", "destroy", "leaving", "free", "stop", "stop_signal",
                "join", "exited"}

-----------------------------------------------------------------------------
\* The handler starts; the main thread stays where it is for ever.
Signal ==
  /\ handler = "none"
  /\ handler' = "destroy"
  /\ clean' = (pc["main"] = "idle" /\ writer = NoThread)
  /\ UNCHANGED <<vars, freed>>

\* MISTAKE for DestroyBegin: one registered game does not count
\* (CleanExitRestoresDefault).
DestroyBeginOffByOne ==
  /\ handler = "destroy"
  /\ IF refcount > 1
       THEN mode' = "leaving" /\ handler' = "leaving"
       ELSE handler' = "free" /\ UNCHANGED mode
  /\ UNCHANGED <<alive, clients, refcount, optimised, writer, readers, running,
                 pc, op, arg, reply, announced, restarted, expiryVars, freed,
                 clean>>

\* game_mode_context_destroy reads the refcount and leaves without any lock.
DestroyBegin ==
  /\ handler = "destroy"
  /\ IF refcount > 0
       THEN mode' = "leaving" /\ handler' = "leaving"
       ELSE handler' = "free" /\ UNCHANGED mode
  /\ UNCHANGED <<alive, clients, refcount, optimised, writer, readers, running,
                 pc, op, arg, reply, announced, restarted, expiryVars, freed,
                 clean>>

DestroyLeft ==
  /\ handler = "leaving"
  /\ mode' = "off"
  /\ handler' = "free"
  /\ UNCHANGED <<alive, clients, refcount, optimised, writer, readers, running,
                 pc, op, arg, reply, announced, restarted, expiryVars, freed,
                 clean>>

\* client_unref frees the whole list, again without a lock, and leaves
\* self->client where it points.
DestroyFree ==
  /\ handler = "free"
  /\ freed' = TRUE
  /\ found' = NoPid
  /\ handler' = "stop"
  /\ UNCHANGED <<alive, clients, refcount, mode, optimised, writer, readers,
                 running, pc, op, arg, reply, announced, restarted, misread,
                 clean>>

\* MISTAKE for DestroyStop: the flag stays (SignalledExits).
DestroyStopKeepsRunning ==
  /\ handler = "stop"
  /\ handler' = "stop_signal"
  /\ UNCHANGED <<vars, freed, clean>>

\* end_reaper_thread, once more.
DestroyStop ==
  /\ handler = "stop"
  /\ running' = FALSE
  /\ handler' = "stop_signal"
  /\ UNCHANGED <<alive, clients, refcount, mode, optimised, writer, readers,
                 pc, op, arg, reply, announced, restarted, expiryVars, freed,
                 clean>>

DestroySignal ==
  /\ handler = "stop_signal"
  /\ handler' = "join"
  /\ pc' = [pc EXCEPT !["reaper"] = IF @ = "wait" THEN "woken" ELSE @]
  /\ UNCHANGED <<alive, clients, refcount, mode, optimised, writer, readers,
                 running, op, arg, reply, announced, restarted, expiryVars,
                 freed, clean>>

\* The join, the rest of destroy, and _Exit.
DestroyJoin ==
  /\ handler = "join"
  /\ pc["reaper"] = "exited"
  /\ handler' = "exited"
  /\ UNCHANGED <<vars, freed, clean>>

Handler ==
  DestroyBegin \/ DestroyLeft \/ DestroyFree \/ DestroyStop \/ DestroySignal
    \/ DestroyJoin

-----------------------------------------------------------------------------
InterruptedMain == handler = "none" /\ Main /\ UNCHANGED handlerVars

ReaperRuns ==
  /\ handler # "exited"
  /\ Reaper
  /\ clean' = (clean /\ writer' # "reaper")
  /\ UNCHANGED <<handler, freed>>

ShutdownInit == Init /\ handler = "none" /\ freed = FALSE /\ clean = FALSE

ShutdownNext ==
  \/ handler = "none" /\ Calls /\ UNCHANGED handlerVars
  \/ InterruptedMain
  \/ ReaperRuns
  \/ handler # "exited" /\ Processes /\ UNCHANGED handlerVars
  \/ Signal
  \/ Handler

ShutdownSpec == ShutdownInit /\ [][ShutdownNext]_shutdownVars

\* As in GameModeContext; a handler that runs goes on, and no signal has to
\* arrive.
ShutdownFairSpec ==
  /\ ShutdownSpec
  /\ WF_shutdownVars(Handler)
  /\ SF_shutdownVars(InterruptedMain)
  /\ SF_shutdownVars(ReaperRuns)

-----------------------------------------------------------------------------
\* A signal that finds the main thread polling, and a reaper that does not
\* change the list or the mode meanwhile, leave the system out of game mode.
CleanExitRestoresDefault == handler = "exited" /\ clean => mode = "off"

\* A signal that finds the main thread polling ends the process: the reaper
\* that waits, expires or reloads at that moment finishes and is joined.
SignalledExits ==
  handler # "none" /\ pc["main"] = "idle" ~> handler = "exited"

=============================================================================
