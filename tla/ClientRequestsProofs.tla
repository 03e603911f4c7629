------------------------ MODULE ClientRequestsProofs ------------------------
(***************************************************************************)
(* What a program may rely on when it calls the library, for any number of *)
(* callers and any programs they run, though requests time out and are     *)
(* sent again, and the daemon and the callers may die: no pointer is       *)
(* called that was not bound, no process is registered unasked unless it   *)
(* gave up its pidfds, and what a caller was told stays true until         *)
(* somebody else changes it.                                               *)
(***************************************************************************)
EXTENDS ClientRequests, FiniteSetTheorems, TLAPS

Claims == [verb : Changes, target : Processes]
ToolStates == [step : {"query", "request"}, target : Processes,
               was : {"in", "out", "unknown"}]

\* The types of the state, the history variables and the calls included.
TypeInv ==
  /\ TypeOK
  /\ host \subseteq Symbols
  /\ claims \in [Callers -> Claims \cup {NoClaim}]
  /\ tool \in [Callers -> ToolStates \cup {NoTool}]
  /\ \A c \in Callers : pc[c] # "idle" => call[c] \in CallsOf(c)

\* A request that is waited for is what its caller is at, names the process
\* that it is for, and is the last that this caller has sent.
QueueInv ==
  \A i \in DOMAIN inbox : inbox[i].wanted =>
    LET r == inbox[i]
    IN /\ pc[r.from] = "wait"
       /\ r.verb = call[r.from].verb
       /\ r.form # "pids" => Client(r) = call[r.from].target
       /\ \A j \in DOMAIN inbox : inbox[j].from = r.from => j <= i

\* A caller with a claim has nothing under way that could change what it
\* claims.
ClaimInv ==
  \A c \in Callers : claims[c] # NoClaim =>
    /\ (claims[c].verb = "register") <=> (claims[c].target \in registered)
    /\ \A i \in DOMAIN inbox : inbox[i].from = c => inbox[i].verb \notin Changes
    /\ c \in alive /\ pc[c] # "idle" => call[c].verb \notin Changes

\* A process that a request to register names was asked for, or named itself
\* by two pids.
Named(p) == p \in asked \/ (p \in Callers /\ ~usePidfds[p])
AskedInv ==
  /\ \A p \in registered : Named(p)
  /\ \A c \in Callers : pc[c] # "idle" /\ call[c].verb = "register"
                          => call[c].target \in asked
  /\ \A i \in DOMAIN inbox : inbox[i].verb = "register" => Named(Client(inbox[i]))

-----------------------------------------------------------------------------
(* Types. *)

LEMMA InitType == Init => TypeInv
<1> SUFFICES ASSUME Init PROVE TypeInv
  OBVIOUS
<1>1. registered = {} /\ active = FALSE
  BY DEF Init, Daemon!Init
<1>2. host \subseteq Symbols
  BY ClientAssumption DEF Init
<1>3. inbox \in Seq(Requests) /\ Len(inbox) = 0 /\ MaxInbox \in Nat
  BY ClientAssumption DEF Init
<1>4. active = (registered # {})
  BY <1>1
<1>5. TypeOK
  BY <1>1, <1>3, <1>4 DEF Init, TypeOK
<1> QED
  BY <1>2, <1>5 DEF Init, TypeInv

\* A call that begins is one that the caller may make.
LEMMA BeginType ==
  ASSUME TypeInv, NEW c \in Callers, NEW newCall \in CallsOf(c), Begin(c, newCall),
         tool' \in [Callers -> ToolStates \cup {NoTool}]
  PROVE  TypeInv'
<1> USE DEF TypeInv, TypeOK
<1>1. newCall \in Calls
  BY DEF CallsOf
<1>2. UNCHANGED <<alive, registered, active, inbox, usePidfds, host>>
  BY DEF Begin, LoadLibrary, registryVars
<1>3. loaded' \in [Callers -> {1, 0, -1}] /\ bound' \in [Callers -> SUBSET Symbols]
  BY DEF Begin, LoadLibrary
<1>4. CASE CanCall(c, newCall)
  <2>1. /\ pc' = [pc EXCEPT ![c] = "send"]
        /\ call' = [call EXCEPT ![c] = newCall]
        /\ answer' = answer
        /\ claims' \in {claims, [claims EXCEPT ![c] = NoClaim]}
        /\ asked' \in {asked, asked \cup {newCall.target}}
    BY <1>4 DEF Begin
  <2>2. newCall.target \in Processes
    BY <1>1 DEF Calls
  <2> QED BY <1>1, <1>2, <1>3, <2>1, <2>2
<1>5. CASE ~CanCall(c, newCall)
  <2>1. /\ answer' \in {answer, [answer EXCEPT ![c] = -1]}
        /\ UNCHANGED <<pc, call, claims, asked>>
    BY <1>5 DEF Begin
  <2> QED BY <1>2, <1>3, <2>1
<1> QED BY <1>4, <1>5

\* The parts of the state that RequestFailed and Return change.
CallType ==
  /\ usePidfds \in [Callers -> BOOLEAN]
  /\ pc \in [Callers -> {"idle", "send", "wait"}]
  /\ call \in [Callers -> Calls \cup {NoCall}]
  /\ answer \in [Callers -> {-1, 0, 1, 2, NoAnswer}]
  /\ \A c \in Callers : pc[c] # "idle" => call[c] \in CallsOf(c)

LEMMA ReturnType ==
  ASSUME CallType, NEW c \in Callers, NEW value \in {-1, 0, 1, 2},
         Return(c, value), UNCHANGED usePidfds
  PROVE  CallType'
  BY DEF CallType, Return

LEMMA RequestFailedType ==
  ASSUME CallType, NEW c \in Callers, pc[c] # "idle", RequestFailed(c)
  PROVE  CallType'
<1>1. CASE usePidfds[c]
  BY <1>1 DEF CallType, RequestFailed, GiveUpPidfds
<1>2. CASE ~usePidfds[c]
  BY <1>2, ReturnType DEF RequestFailed
<1> QED BY <1>1, <1>2

\* Sequences of requests.
LEMMA Appended ==
  ASSUME NEW s \in Seq(Requests), NEW r \in Requests
  PROVE  /\ Append(s, r) \in Seq(Requests)
         /\ DOMAIN Append(s, r) = DOMAIN s \cup {Len(s) + 1}
         /\ Len(s) + 1 \notin DOMAIN s
         /\ \A i \in DOMAIN s : i < Len(s) + 1 /\ Append(s, r)[i] = s[i]
         /\ Append(s, r)[Len(s) + 1] = r
  OBVIOUS

LEMMA Taken ==
  ASSUME NEW s \in Seq(Requests), s # <<>>
  PROVE  /\ Head(s) \in Requests /\ Head(s) = s[1] /\ 1 \in DOMAIN s
         /\ Tail(s) \in Seq(Requests) /\ Len(Tail(s)) = Len(s) - 1
         /\ \A i \in DOMAIN Tail(s) :
              i \in Nat /\ i + 1 \in DOMAIN s /\ i + 1 > 1 /\ Tail(s)[i] = s[i + 1]
  OBVIOUS

LEMMA Abandoned ==
  ASSUME inbox \in Seq(Requests), NEW c
  PROVE  /\ Abandon(c) \in Seq(Requests) /\ Len(Abandon(c)) = Len(inbox)
         /\ DOMAIN Abandon(c) = DOMAIN inbox
         /\ \A i \in DOMAIN inbox :
              /\ Abandon(c)[i].verb = inbox[i].verb
              /\ Abandon(c)[i].form = inbox[i].form
              /\ Abandon(c)[i].from = inbox[i].from
              /\ Abandon(c)[i].pids = inbox[i].pids
              /\ Abandon(c)[i].wanted => inbox[i].wanted /\ inbox[i].from # c
<1>1. \A i \in DOMAIN inbox : inbox[i] \in Requests
  OBVIOUS
<1>2. \A r \in Requests : [r EXCEPT !.wanted = FALSE] \in Requests
  BY DEF Requests
<1>3. \A i \in DOMAIN inbox : Abandon(c)[i] \in Requests
  BY <1>1, <1>2 DEF Abandon
<1>4. DOMAIN Abandon(c) = 1..Len(inbox)
  BY DEF Abandon
<1>5. Abandon(c) \in Seq(Requests) /\ Len(Abandon(c)) = Len(inbox)
  BY <1>3, <1>4 DEF Abandon
<1>6. \A i \in DOMAIN inbox :
        Abandon(c)[i] = IF inbox[i].from = c THEN [inbox[i] EXCEPT !.wanted = FALSE]
                                            ELSE inbox[i]
  BY DEF Abandon
<1>7. ASSUME NEW i \in DOMAIN inbox
      PROVE  /\ Abandon(c)[i].verb = inbox[i].verb
             /\ Abandon(c)[i].form = inbox[i].form
             /\ Abandon(c)[i].from = inbox[i].from
             /\ Abandon(c)[i].pids = inbox[i].pids
             /\ Abandon(c)[i].wanted => inbox[i].wanted /\ inbox[i].from # c
  <2>1. inbox[i] \in Requests
    BY <1>1
  <2>2. CASE inbox[i].from = c
    <3>1. Abandon(c)[i] = [inbox[i] EXCEPT !.wanted = FALSE]
      BY <1>6, <2>2
    <3> HIDE DEF Abandon
    <3> QED BY <2>1, <3>1 DEF Requests
  <2>3. CASE inbox[i].from # c
    BY <1>6, <2>3
  <2> QED BY <2>2, <2>3
<1> QED BY <1>4, <1>5, <1>7

LEMMA Queued ==
  ASSUME TypeInv, NEW i \in DOMAIN inbox
  PROVE  /\ inbox[i] \in Requests
         /\ inbox[i].from \in Callers
<1>1. inbox[i] \in Requests
  BY DEF TypeInv, TypeOK
<1> QED BY <1>1 DEF Requests

LEMMA SentIsRequest ==
  ASSUME TypeInv, NEW c \in Callers, pc[c] # "idle"
  PROVE  /\ Request(c) \in Requests
         /\ Request(c).from = c /\ Request(c).wanted
         /\ Request(c).verb = call[c].verb
<1>1. /\ call[c].verb \in Verbs /\ call[c].target \in Processes /\ c \in Processes
  BY ClientAssumption DEF TypeInv, CallsOf, Calls
<1>2. Form(c) \in {"fd", "pid", "pids"}
  BY DEF Form
<1>3. /\ <<c>> \in [1..1 -> Processes]
      /\ <<call[c].target, c>> \in [1..2 -> Processes]
  BY <1>1
<1>4. Request(c).pids \in UNION {[1..n -> Processes] : n \in 1..2}
  BY <1>3 DEF Request
<1>5. Request(c) = [verb |-> call[c].verb, form |-> Form(c), from |-> c,
                    wanted |-> TRUE, pids |-> Request(c).pids]
  BY DEF Request
<1> HIDE DEF Request
<1> DEFINE PidLists == UNION {[1..n -> Processes] : n \in 1..2}
           pids == Request(c).pids
<1>6. Request(c) \in Requests
  <2>1. pids \in PidLists
    BY <1>4
  <2>2. Requests = [verb : Verbs, form : {"fd", "pid", "pids"}, from : Callers,
                    wanted : BOOLEAN, pids : PidLists]
    BY DEF Requests
  <2> HIDE DEF PidLists, pids
  <2>3. [verb |-> call[c].verb, form |-> Form(c), from |-> c,
         wanted |-> TRUE, pids |-> pids] \in Requests
    BY <1>1, <1>2, <2>1, <2>2
  <2> QED BY <1>5, <2>3 DEF pids
<1> QED BY <1>5, <1>6

\* What the daemon replies is no request that failed, or an error.
LEMMA ReplyType ==
  ASSUME NEW r, Reply(r) # Error
  PROVE  Reply(r) \in {-1, 0, 1, 2}
  BY DEF Reply, Status

\* An operation on the registry.
LEMMA PerformType ==
  ASSUME TypeInv, NEW r \in Requests, Perform(r)
  PROVE  /\ registered' \subseteq Processes
         /\ active' = (registered' # {})
         /\ tool' \in [Callers -> ToolStates \cup {NoTool}]
<1>1. \A p, c : Disturb(p, c) \in [Callers -> ToolStates \cup {NoTool}]
  BY DEF Disturb, TypeInv, ToolStates, NoTool
<1>2. registered \subseteq Processes /\ alive \subseteq Processes
      /\ active = (registered # {})
  BY DEF TypeInv, TypeOK
<1>3. CASE Registers(r)
  <2>1. /\ registered' = registered \cup {Client(r)} /\ active' = TRUE
        /\ tool' = Disturb(Client(r), r.from)
    BY <1>3 DEF Perform, Daemon!Register, Registers, Unregisters
  <2>2. Client(r) \in Processes
    BY <1>2, <1>3 DEF Registers
  <2>3. active' = (registered' # {})
    BY <2>1
  <2> QED BY <1>1, <1>2, <2>1, <2>2, <2>3
<1>4. CASE ~Registers(r) /\ Unregisters(r)
  BY <1>1, <1>2, <1>4 DEF Perform, Daemon!Unregister
<1>5. CASE ~Registers(r) /\ ~Unregisters(r)
  BY <1>2, <1>5 DEF Perform, registryVars, TypeInv
<1> QED BY <1>3, <1>4, <1>5

\* A claim is made for what the caller asked for.
LEMMA ClaimType ==
  ASSUME TypeInv, NEW r \in Requests, r.wanted => pc[r.from] # "idle"
  PROVE  Claim(r) \in [Callers -> Claims \cup {NoClaim}]
<1> DEFINE others == IF Registers(r) \/ Unregisters(r)
                       THEN Withdraw(Client(r), r.from) ELSE claims
           claimed == [verb |-> r.verb, target |-> call[r.from].target]
<1>1. others \in [Callers -> Claims \cup {NoClaim}]
  BY DEF Withdraw, TypeInv
<1>2. CASE (Registers(r) \/ Unregisters(r)) /\ r.wanted /\ r.form # "pids"
  <2>1. r.from \in Callers
    BY DEF Requests
  <2>2. call[r.from].target \in Processes
    BY <1>2, <2>1 DEF TypeInv, CallsOf, Calls
  <2>3. r.verb \in Changes
    BY <1>2 DEF Registers, Unregisters, Changes
  <2>4. claimed \in Claims
    BY <2>2, <2>3 DEF Claims
  <2>5. Claim(r) = [others EXCEPT ![r.from] = claimed]
    BY <1>2 DEF Claim
  <2> HIDE DEF others, claimed
  <2> QED BY <1>1, <2>4, <2>5
<1>3. CASE ~((Registers(r) \/ Unregisters(r)) /\ r.wanted /\ r.form # "pids")
  <2>1. Claim(r) = others
    BY <1>3 DEF Claim
  <2> QED BY <1>1, <2>1
<1> QED BY <1>2, <1>3

\* All that changes where a request failed.
LEMMA Failed ==
  ASSUME TypeInv, NEW c \in Callers, pc[c] # "idle", RequestFailed(c)
  PROVE  /\ CallType'
         /\ \A d \in Callers \ {c} : pc'[d] = pc[d] /\ call'[d] = call[d]
         /\ pc'[c] # "idle" => pc'[c] = "send" /\ call'[c] = call[c]
         /\ \A d \in Callers : ~usePidfds[d] => ~usePidfds'[d]
<1>1. CallType'
  BY RequestFailedType DEF TypeInv, TypeOK, CallType
<1>2. CASE usePidfds[c]
  <2>1. /\ usePidfds' = [usePidfds EXCEPT ![c] = FALSE]
        /\ pc' = [pc EXCEPT ![c] = "send"] /\ call' = call
    BY <1>2 DEF RequestFailed, GiveUpPidfds
  <2> QED BY <1>1, <2>1 DEF TypeInv, TypeOK
<1>3. CASE ~usePidfds[c]
  <2>1. /\ usePidfds' = usePidfds
        /\ pc' = [pc EXCEPT ![c] = "idle"] /\ call' = [call EXCEPT ![c] = NoCall]
    BY <1>3 DEF RequestFailed, Return
  <2> QED BY <1>1, <2>1 DEF TypeInv, TypeOK
<1> QED BY <1>2, <1>3

\* The same, and what a call returned.
LEMMA Returned ==
  ASSUME TypeInv, NEW c \in Callers, NEW value \in {-1, 0, 1, 2},
         Return(c, value), UNCHANGED usePidfds
  PROVE  /\ CallType'
         /\ \A d \in Callers \ {c} : pc'[d] = pc[d] /\ call'[d] = call[d]
         /\ pc'[c] = "idle"
<1>1. CallType'
  BY ReturnType DEF TypeInv, TypeOK, CallType
<1> QED BY <1>1 DEF Return, TypeInv, TypeOK

-----------------------------------------------------------------------------
(* Every step keeps what the callers may rely on. *)

ClientInv == TypeInv /\ BoundWhenCalled /\ QueueInv /\ ClaimInv /\ AskedInv

LEMMA InitClient == Init => ClientInv
<1> SUFFICES ASSUME Init PROVE ClientInv
  OBVIOUS
<1>1. TypeInv
  BY InitType
<1>2. registered = {} /\ inbox = <<>>
  BY DEF Init, Daemon!Init
<1>3. \A c \in Callers : pc[c] = "idle" /\ claims[c] = NoClaim
  BY DEF Init
<1> QED
  BY <1>1, <1>2, <1>3 DEF ClientInv, BoundWhenCalled, QueueInv, ClaimInv, AskedInv

\* A call that begins.
LEMMA BeginKeeps ==
  ASSUME ClientInv, NEW c \in Callers, pc[c] = "idle", NEW newCall \in CallsOf(c),
         Begin(c, newCall), tool' \in [Callers -> ToolStates \cup {NoTool}]
  PROVE  ClientInv'
<1>1. TypeInv /\ TypeInv'
  BY BeginType DEF ClientInv
<1>2. UNCHANGED <<alive, registered, inbox, usePidfds>>
  BY DEF Begin, registryVars
<1>3. \A d \in Callers \ {c} : loaded'[d] = loaded[d] /\ bound'[d] = bound[d]
  BY <1>1 DEF Begin, LoadLibrary, TypeInv, TypeOK
<1>4. CASE CanCall(c, newCall)
  <2>1. /\ pc' = [pc EXCEPT ![c] = "send"]
        /\ call' = [call EXCEPT ![c] = newCall]
        /\ claims' = IF newCall.verb \in Changes
                       THEN [claims EXCEPT ![c] = NoClaim] ELSE claims
        /\ asked' = IF newCall.verb = "register"
                      THEN asked \cup {newCall.target} ELSE asked
    BY <1>4 DEF Begin
  <2>2. /\ pc'[c] = "send" /\ call'[c] = newCall
        /\ \A d \in Callers \ {c} : /\ pc'[d] = pc[d] /\ call'[d] = call[d]
                                     /\ claims'[d] = claims[d]
        /\ newCall.verb \in Changes => claims'[c] = NoClaim
        /\ newCall.verb \notin Changes => claims'[c] = claims[c]
        /\ asked \subseteq asked'
        /\ newCall.verb = "register" => newCall.target \in asked'
    BY <1>1, <2>1 DEF TypeInv, TypeOK
  <2>3. BoundWhenCalled'
    BY <1>3, <1>4, <2>2 DEF ClientInv, BoundWhenCalled, CanCall
  <2>4. \A i \in DOMAIN inbox :
          /\ inbox[i].from \in Callers
          /\ inbox[i].wanted => inbox[i].from # c
    BY <1>1, Queued DEF ClientInv, QueueInv
  <2>5. QueueInv'
    BY <1>2, <2>2, <2>4 DEF ClientInv, QueueInv, Client
  <2>6. ClaimInv'
    BY <1>2, <2>2 DEF ClientInv, ClaimInv
  <2>7. AskedInv'
    BY <1>2, <2>2 DEF ClientInv, AskedInv, Named, Client
  <2> QED BY <1>1, <2>3, <2>5, <2>6, <2>7 DEF ClientInv
<1>5. CASE ~CanCall(c, newCall)
  <2>1. UNCHANGED <<pc, call, claims, asked>>
    BY <1>5 DEF Begin
  <2>2. BoundWhenCalled'
    BY <1>3, <2>1 DEF ClientInv, BoundWhenCalled
  <2> QED
    BY <1>1, <1>2, <2>1, <2>2 DEF ClientInv, QueueInv, ClaimInv, AskedInv, Named,
      Client
<1> QED BY <1>4, <1>5

\* A request failed, and nobody waits for the requests of c any more.
LEMMA FailureKeeps ==
  ASSUME ClientInv, NEW c \in Callers, pc[c] # "idle", RequestFailed(c),
         UNCHANGED <<alive, registryVars, libraryVars, tool, claims, asked>>,
         inbox' \in Seq(Requests), Len(inbox') = Len(inbox),
         DOMAIN inbox' = DOMAIN inbox,
         \A i \in DOMAIN inbox :
           /\ inbox'[i].verb = inbox[i].verb
           /\ inbox'[i].form = inbox[i].form
           /\ inbox'[i].from = inbox[i].from
           /\ inbox'[i].pids = inbox[i].pids
           /\ inbox'[i].wanted => inbox[i].wanted /\ inbox[i].from # c
  PROVE  ClientInv'
<1>0. TypeInv
  BY DEF ClientInv
<1>1. /\ CallType'
      /\ \A d \in Callers \ {c} : pc'[d] = pc[d] /\ call'[d] = call[d]
      /\ pc'[c] # "idle" => call'[c] = call[c]
      /\ \A d \in Callers : ~usePidfds[d] => ~usePidfds'[d]
  BY <1>0, Failed
<1>2. TypeInv'
  BY <1>0, <1>1 DEF TypeInv, TypeOK, CallType, registryVars, libraryVars
<1>3. \A i \in DOMAIN inbox : /\ inbox[i].from \in Callers
                              /\ Client(inbox'[i]) = Client(inbox[i])
  BY <1>0, Queued DEF Client
<1>4. BoundWhenCalled'
  BY <1>1 DEF ClientInv, BoundWhenCalled, libraryVars
<1>5. QueueInv'
  BY <1>1, <1>3 DEF ClientInv, QueueInv
<1>6. ClaimInv'
  BY <1>1 DEF ClientInv, ClaimInv, registryVars
<1>7. AskedInv'
  BY <1>1, <1>3 DEF ClientInv, AskedInv, Named, registryVars
<1> QED BY <1>2, <1>4, <1>5, <1>6, <1>7 DEF ClientInv

LEMMA SendKeeps ==
  ASSUME ClientInv, NEW c \in Callers, Send(c)
  PROVE  ClientInv'
<1>0. TypeInv /\ pc[c] = "send" /\ c \in alive
      /\ UNCHANGED <<alive, registryVars, libraryVars, tool, claims, asked>>
  BY DEF ClientInv, Send
<1>1. \A i \in DOMAIN inbox : /\ inbox[i].from \in Callers
                              /\ inbox[i].wanted => inbox[i].from # c
  BY <1>0, Queued DEF ClientInv, QueueInv
<1>2. CASE usePidfds[c] /\ ~CanOpenPidfds(c)
  <2>1. RequestFailed(c) /\ inbox' = inbox
    BY <1>2 DEF Send
  <2> QED
    BY <1>0, <1>1, <2>1, FailureKeeps DEF TypeInv, TypeOK
<1>3. CASE ~(usePidfds[c] /\ ~CanOpenPidfds(c))
  <2> DEFINE r == Request(c)
             n == Len(inbox) + 1
  <2>1. /\ Len(inbox) < MaxInbox
        /\ inbox' = Append(inbox, r)
        /\ pc' = [pc EXCEPT ![c] = "wait"]
        /\ UNCHANGED <<usePidfds, call, answer>>
    BY <1>3 DEF Send
  <2>2. r \in Requests /\ r.from = c /\ r.wanted /\ r.verb = call[c].verb
    BY <1>0, SentIsRequest
  <2>3. /\ inbox' \in Seq(Requests) /\ Len(inbox') <= MaxInbox
        /\ DOMAIN inbox' = DOMAIN inbox \cup {n} /\ n \notin DOMAIN inbox
        /\ \A i \in DOMAIN inbox : i < n /\ inbox'[i] = inbox[i]
        /\ inbox'[n] = r /\ n \in Nat
    BY <1>0, <2>1, <2>2, Appended, ClientAssumption DEF TypeInv, TypeOK
  <2>4. pc'[c] = "wait" /\ \A d \in Callers \ {c} : pc'[d] = pc[d]
    BY <1>0, <2>1 DEF TypeInv, TypeOK
  <2>5. /\ r.form # "pids" => Client(r) = call[c].target
        /\ r.form = "pids" => Client(r) = c /\ ~usePidfds[c]
    <3>1. call[c] \in CallsOf(c)
      BY <1>0 DEF TypeInv
    <3>2. r.form = "pid" => call[c].own /\ call[c].target = c
      BY <3>1 DEF Request, Form, CallsOf
    <3> QED BY <3>2 DEF Request, Form, Client
  <2> HIDE DEF r, n
  <2>6. TypeInv'
    BY <1>0, <2>1, <2>3 DEF TypeInv, TypeOK, registryVars, libraryVars
  <2>7. BoundWhenCalled'
    BY <1>0, <2>1, <2>4 DEF ClientInv, BoundWhenCalled, libraryVars
  <2>8. QueueInv'
    <3>1. ASSUME NEW i \in DOMAIN inbox, inbox[i].wanted
          PROVE  /\ inbox[i].from # c
                 /\ \A j \in DOMAIN inbox' : inbox'[j].from = inbox[i].from => j <= i
      BY <1>1, <2>2, <2>3, <3>1 DEF ClientInv, QueueInv
    <3>2. \A j \in DOMAIN inbox' : j <= n
      BY <2>3, <1>0 DEF TypeInv, TypeOK
    <3> QED
      BY <1>1, <2>1, <2>2, <2>3, <2>4, <2>5, <3>1, <3>2 DEF ClientInv, QueueInv
  <2>9. ClaimInv'
    BY <1>0, <2>1, <2>2, <2>3, <2>4 DEF ClientInv, ClaimInv, registryVars
  <2>10. AskedInv'
    <3>1. r.verb = "register" => Named(Client(r))
      BY <1>0, <2>2, <2>5 DEF ClientInv, AskedInv, Named
    <3> QED
      BY <1>0, <2>1, <2>3, <2>4, <3>1 DEF ClientInv, AskedInv, Named, registryVars
  <2> QED BY <2>6, <2>7, <2>8, <2>9, <2>10 DEF ClientInv
<1> QED BY <1>2, <1>3

LEMMA TimeoutKeeps ==
  ASSUME ClientInv, NEW c \in Callers, Timeout(c) \/ NoReply(c)
  PROVE  ClientInv'
<1>0. /\ inbox \in Seq(Requests) /\ pc[c] = "wait" /\ RequestFailed(c)
      /\ UNCHANGED <<alive, registryVars, libraryVars, tool, claims, asked>>
  BY DEF ClientInv, TypeInv, TypeOK, Timeout, NoReply
<1>1. CASE Timeout(c)
  <2>1. inbox' = Abandon(c)
    BY <1>1 DEF Timeout
  <2> QED BY <1>0, <2>1, Abandoned, FailureKeeps
<1>2. CASE NoReply(c)
  <2>1. /\ inbox' = inbox
        /\ \A i \in DOMAIN inbox : inbox[i].wanted => inbox[i].from # c
    BY <1>2 DEF NoReply
  <2> QED BY <1>0, <2>1, FailureKeeps
<1> QED BY <1>1, <1>2

\* The daemon answers the request that is the first in the queue.
LEMMA HandleKeeps ==
  ASSUME ClientInv, Handle
  PROVE  ClientInv'
<1> DEFINE r == Head(inbox)
           c == r.from
<1>0. /\ TypeInv /\ inbox \in Seq(Requests) /\ inbox # <<>>
      /\ inbox' = Tail(inbox)
      /\ UNCHANGED <<alive, libraryVars, asked>>
      /\ Perform(r) /\ claims' = Claim(r)
  BY DEF ClientInv, TypeInv, TypeOK, Handle
<1>1. /\ r \in Requests /\ r = inbox[1] /\ 1 \in DOMAIN inbox
      /\ c \in Callers
      /\ inbox' \in Seq(Requests) /\ Len(inbox') = Len(inbox) - 1
      /\ \A i \in DOMAIN inbox' : /\ i \in Nat /\ i + 1 \in DOMAIN inbox /\ i + 1 > 1
                                  /\ inbox'[i] = inbox[i + 1]
  BY <1>0, Taken, Queued
<1>2. \/ (~r.wanted \/ c \notin alive) /\ UNCHANGED <<usePidfds, pc, call, answer>>
      \/ r.wanted /\ c \in alive /\ Reply(r) = Error /\ RequestFailed(c)
      \/ r.wanted /\ c \in alive /\ Reply(r) # Error /\ Return(c, Reply(r))
           /\ UNCHANGED usePidfds
  BY DEF Handle
<1> HIDE DEF r, c
<1>3. r.wanted => /\ pc[c] = "wait" /\ r.verb = call[c].verb
                  /\ r.form # "pids" => Client(r) = call[c].target
                  /\ \A i \in DOMAIN inbox : inbox[i].from = c => i <= 1
  BY <1>1 DEF ClientInv, QueueInv, c
<1>4. /\ CallType'
      /\ \A d \in Callers \ {c} : pc'[d] = pc[d] /\ call'[d] = call[d]
      /\ pc'[c] # "idle" => call'[c] = call[c]
      /\ ~r.wanted \/ c \notin alive => pc'[c] = pc[c]
      /\ r.wanted /\ c \in alive /\ Reply(r) # Error => pc'[c] = "idle"
      /\ \A d \in Callers : ~usePidfds[d] => ~usePidfds'[d]
      /\ pc'[c] # "idle" => pc[c] # "idle"
  <2>1. CASE UNCHANGED <<usePidfds, pc, call, answer>> /\ (~r.wanted \/ c \notin alive)
    BY <1>0, <2>1 DEF CallType, TypeInv, TypeOK
  <2>2. CASE r.wanted /\ c \in alive /\ Reply(r) = Error /\ RequestFailed(c)
    BY <1>0, <1>1, <1>3, <2>2, Failed
  <2>3. CASE r.wanted /\ c \in alive /\ Reply(r) # Error /\ Return(c, Reply(r))
               /\ UNCHANGED usePidfds
    BY <1>0, <1>1, <2>3, Returned, ReplyType
  <2> QED BY <1>2, <2>1, <2>2, <2>3
<1>5. /\ registered' \subseteq Processes
      /\ active' = (registered' # {})
      /\ tool' \in [Callers -> ToolStates \cup {NoTool}]
  BY <1>0, <1>1, PerformType
<1>6. claims' \in [Callers -> Claims \cup {NoClaim}]
  BY <1>0, <1>1, <1>3, ClaimType DEF c
<1>7. TypeInv'
  <2>1. Len(inbox') <= MaxInbox
    BY <1>0, <1>1, ClientAssumption DEF TypeInv, TypeOK
  <2>2. /\ alive' \subseteq Processes /\ host' \subseteq Symbols /\ asked' \subseteq Processes
        /\ loaded' \in [Callers -> {1, 0, -1}]
        /\ bound' \in [Callers -> SUBSET Symbols]
    BY <1>0 DEF TypeInv, TypeOK, libraryVars
  <2> QED
    BY <1>1, <1>4, <1>5, <1>6, <2>1, <2>2 DEF TypeInv, TypeOK, CallType
<1>8. BoundWhenCalled'
  BY <1>0, <1>1, <1>4 DEF ClientInv, BoundWhenCalled, libraryVars
<1>9. QueueInv'
  <2> SUFFICES ASSUME NEW i \in DOMAIN inbox', inbox'[i].wanted
               PROVE  LET q == inbox'[i]
                      IN /\ pc'[q.from] = "wait"
                         /\ q.verb = call'[q.from].verb
                         /\ q.form # "pids" => Client(q) = call'[q.from].target
                         /\ \A j \in DOMAIN inbox' : inbox'[j].from = q.from => j <= i
    BY DEF QueueInv, Client
  <2> DEFINE q == inbox[i + 1]
  <2>1. inbox'[i] = q /\ i + 1 \in DOMAIN inbox /\ i + 1 > 1 /\ i \in Nat
    BY <1>1
  <2>2. q.from \in Callers
    BY <1>0, <2>1, Queued
  <2>3. /\ pc[q.from] = "wait"
        /\ q.verb = call[q.from].verb
        /\ q.form # "pids" => Client(q) = call[q.from].target
        /\ \A j \in DOMAIN inbox : inbox[j].from = q.from => j <= i + 1
    BY <2>1 DEF ClientInv, QueueInv
  <2>4. r.wanted => q.from # c
    BY <1>3, <2>1
  <2>5. pc'[q.from] = "wait" /\ call'[q.from] = call[q.from]
    BY <1>4, <2>2, <2>3, <2>4
  <2>6. \A j \in DOMAIN inbox' : inbox'[j].from = q.from => j <= i
    BY <1>1, <2>1, <2>3
  <2> QED BY <2>1, <2>3, <2>5, <2>6
<1>10. \/ Registers(r) /\ ~Unregisters(r) /\ registered' = registered \cup {Client(r)}
       \/ Unregisters(r) /\ ~Registers(r) /\ registered' = registered \ {Client(r)}
       \/ ~Registers(r) /\ ~Unregisters(r) /\ registered' = registered
  BY <1>0 DEF Perform, Registers, Unregisters, Daemon!Register, Daemon!Unregister,
    registryVars
<1>11. ClaimInv'
  <2> SUFFICES ASSUME NEW d \in Callers, claims'[d] # NoClaim
               PROVE  /\ (claims'[d].verb = "register")
                            <=> (claims'[d].target \in registered')
                      /\ \A i \in DOMAIN inbox' :
                           inbox'[i].from = d => inbox'[i].verb \notin Changes
                      /\ d \in alive' /\ pc'[d] # "idle" => call'[d].verb \notin Changes
    BY DEF ClaimInv
  <2>1. CASE (Registers(r) \/ Unregisters(r)) /\ r.wanted /\ r.form # "pids" /\ d = c
    <3>1. claims'[d] = [verb |-> r.verb, target |-> call[c].target]
      BY <1>0, <1>1, <2>1 DEF Claim, Withdraw, TypeInv, c
    <3>2. call[c].target = Client(r)
      BY <1>3, <2>1
    <3>3. (r.verb = "register") <=> (Client(r) \in registered')
      BY <1>10, <2>1 DEF Registers, Unregisters
    <3>4. \A i \in DOMAIN inbox' : inbox'[i].from # d
      BY <1>1, <1>3, <2>1
    <3>5. Reply(r) # Error
      BY <2>1 DEF Reply, Registers, Unregisters, Error
    <3>6. d \in alive => pc'[d] = "idle"
      BY <1>4, <2>1, <3>5
    <3> QED BY <1>0, <3>1, <3>2, <3>3, <3>4, <3>6
  <2>2. CASE ~((Registers(r) \/ Unregisters(r)) /\ r.wanted /\ r.form # "pids" /\ d = c)
    <3>1. /\ claims'[d] = claims[d] /\ claims[d] # NoClaim
          /\ (Registers(r) \/ Unregisters(r)) /\ d # c => claims[d].target # Client(r)
      <4>1. CASE Registers(r) \/ Unregisters(r)
        <5>1. claims'[d] = Withdraw(Client(r), c)[d]
          BY <1>0, <1>1, <2>2, <4>1 DEF Claim, Withdraw, TypeInv, c
        <5> QED BY <5>1 DEF Withdraw
      <4>2. CASE ~(Registers(r) \/ Unregisters(r))
        <5>1. claims'[d] = claims[d]
          BY <1>0, <4>2 DEF Claim
        <5> QED BY <5>1, <4>2
      <4> QED BY <4>1, <4>2
    <3>2. /\ (claims[d].verb = "register") <=> (claims[d].target \in registered)
          /\ \A i \in DOMAIN inbox : inbox[i].from = d => inbox[i].verb \notin Changes
          /\ d \in alive /\ pc[d] # "idle" => call[d].verb \notin Changes
      BY <3>1 DEF ClientInv, ClaimInv
    <3>3. d = c => ~Registers(r) /\ ~Unregisters(r)
      BY <1>1, <3>2 DEF c, Registers, Unregisters, Changes
    <3>4. claims[d].target \in registered' <=> claims[d].target \in registered
      BY <1>10, <3>1, <3>3
    <3>5. \A i \in DOMAIN inbox' : inbox'[i].from = d => inbox'[i].verb \notin Changes
      BY <1>1, <3>2
    <3>6. d \in alive' /\ pc'[d] # "idle" => call'[d].verb \notin Changes
      BY <1>0, <1>4, <3>2
    <3> QED BY <3>1, <3>2, <3>4, <3>5, <3>6
  <2> QED BY <2>1, <2>2
<1>12. AskedInv'
  <2>1. \A p : Named(p) => Named(p)'
    BY <1>0, <1>4 DEF Named
  <2>2. \A p \in registered' : Named(p)
    BY <1>1, <1>10 DEF ClientInv, AskedInv, Registers
  <2>3. \A d \in Callers : pc'[d] # "idle" => pc[d] # "idle" /\ call'[d] = call[d]
    BY <1>1, <1>4
  <2>4. \A i \in DOMAIN inbox' :
          inbox'[i].verb = "register" => Named(Client(inbox'[i]))
    BY <1>1 DEF ClientInv, AskedInv
  <2> QED
    BY <1>0, <2>1, <2>2, <2>3, <2>4 DEF ClientInv, AskedInv
<1> QED BY <1>7, <1>8, <1>9, <1>11, <1>12 DEF ClientInv

\* The reaper unregisters a game, and whoever claimed anything of it does not
\* claim it any more.
LEMMA ExpireKeeps == ClientInv /\ Expire => ClientInv'
<1> SUFFICES ASSUME ClientInv, Expire PROVE ClientInv'
  OBVIOUS
<1>1. PICK p \in registered \ alive :
        /\ registered' = registered \ {p} /\ active' = (registered' # {})
        /\ claims' = Withdraw(p, "the reaper")
        /\ tool' = Disturb(p, "the reaper")
  BY DEF Expire, Daemon!Unregister
<1>2. /\ TypeInv
      /\ UNCHANGED <<alive, inbox, libraryVars, usePidfds, pc, call, answer, asked>>
  BY DEF ClientInv, Expire
<1>3. TypeInv'
  <2>1. /\ claims' \in [Callers -> Claims \cup {NoClaim}]
        /\ tool' \in [Callers -> ToolStates \cup {NoTool}]
    BY <1>1, <1>2 DEF Withdraw, Disturb, TypeInv, ToolStates, NoTool
  <2>2. registered' \subseteq Processes
    BY <1>1, <1>2 DEF TypeInv, TypeOK
  <2> QED
    BY <1>1, <1>2, <2>1, <2>2 DEF TypeInv, TypeOK, libraryVars
<1>4. BoundWhenCalled'
  BY <1>2 DEF ClientInv, BoundWhenCalled, libraryVars
<1>5. QueueInv'
  BY <1>2 DEF ClientInv, QueueInv, Client
<1>6. \A d \in Callers : claims'[d] # NoClaim =>
        claims'[d] = claims[d] /\ claims[d].target # p
  BY <1>1, <1>2, ReaperAssumption DEF Withdraw, TypeInv
<1>7. ClaimInv'
  BY <1>1, <1>2, <1>6 DEF ClientInv, ClaimInv
<1>8. AskedInv'
  BY <1>1, <1>2 DEF ClientInv, AskedInv, Named, Client
<1> QED BY <1>3, <1>4, <1>5, <1>7, <1>8 DEF ClientInv

\* A new daemon knows of no game and of no request.
LEMMA CrashKeeps == ClientInv /\ Crash => ClientInv'
<1> SUFFICES ASSUME ClientInv, Crash PROVE ClientInv'
  OBVIOUS
<1>1. /\ TypeInv
      /\ registered' = {} /\ active' = FALSE /\ inbox' = <<>>
      /\ claims' = [c \in Callers |-> NoClaim]
      /\ UNCHANGED <<alive, libraryVars, usePidfds, pc, call, answer, asked>>
  BY DEF ClientInv, Crash
<1>2. TypeInv'
  <2>1. tool' \in [Callers -> ToolStates \cup {NoTool}]
    BY <1>1 DEF Crash, TypeInv, ToolStates, NoTool
  <2>2. inbox' \in Seq(Requests) /\ Len(inbox') <= MaxInbox
    BY <1>1, ClientAssumption
  <2>3. active' = (registered' # {})
    BY <1>1
  <2> QED
    BY <1>1, <2>1, <2>2, <2>3 DEF TypeInv, TypeOK, libraryVars
<1>3. BoundWhenCalled'
  BY <1>1 DEF ClientInv, BoundWhenCalled, libraryVars
<1> QED
  BY <1>1, <1>2, <1>3 DEF ClientInv, QueueInv, ClaimInv, AskedInv, Named

LEMMA ToolKeeps ==
  ASSUME ClientInv, NEW c \in Callers, Tool(c)
  PROVE  ClientInv'
<1>0. TypeInv
  BY DEF ClientInv
<1>1. CASE ToolStart(c)
  <2>1. PICK p \in Processes \ {c} :
          /\ tool' = [tool EXCEPT ![c] =
                        [step |-> "query", target |-> p,
                         was |-> IF p \in registered THEN "in" ELSE "out"]]
          /\ Begin(c, [verb |-> "query", own |-> FALSE, target |-> p])
    BY <1>1 DEF ToolStart
  <2>2. tool' \in [Callers -> ToolStates \cup {NoTool}]
    BY <1>0, <2>1 DEF TypeInv, ToolStates
  <2>3. [verb |-> "query", own |-> FALSE, target |-> p] \in CallsOf(c)
    BY DEF CallsOf, Calls, Verbs
  <2> QED BY <1>1, <2>1, <2>2, <2>3, BeginKeeps DEF ToolStart
<1>2. CASE ToolEnds(c)
  <2>1. /\ tool' \in [Callers -> ToolStates \cup {NoTool}]
        /\ answer' \in [Callers -> {-1, 0, 1, 2, NoAnswer}]
    BY <1>0, <1>2 DEF ToolEnds, TypeInv, TypeOK
  <2>2. UNCHANGED <<alive, registered, active, inbox, host, loaded, bound, usePidfds,
                    pc, call, claims, asked>>
    BY <1>2 DEF ToolEnds, registryVars, libraryVars
  <2>3. TypeInv'
    BY <1>0, <2>1, <2>2 DEF TypeInv, TypeOK
  <2> QED
    BY <2>2, <2>3 DEF ClientInv, BoundWhenCalled, QueueInv, ClaimInv, AskedInv, Named,
      Client
<1>3. CASE ToolRequest(c) /\ answer[c] # -1
  <2> DEFINE newCall == [verb |-> OppositeOf(answer[c]), own |-> FALSE,
                         target |-> tool[c].target]
  <2>1. /\ tool[c].step = "query" /\ pc[c] = "idle"
        /\ tool' = [tool EXCEPT ![c].step = "request"]
        /\ Begin(c, newCall)
    BY <1>3 DEF ToolRequest
  <2>2. tool[c] \in ToolStates
    BY <1>0, <2>1 DEF TypeInv, NoTool
  <2>3. tool' \in [Callers -> ToolStates \cup {NoTool}]
    BY <1>0, <2>1, <2>2 DEF TypeInv, ToolStates
  <2>4. newCall \in CallsOf(c)
    BY <2>2 DEF ToolStates, CallsOf, Calls, Verbs, OppositeOf
  <2> HIDE DEF newCall
  <2> QED BY <2>1, <2>3, <2>4, BeginKeeps
<1> QED
  BY <1>1, <1>2, <1>3 DEF Tool, ToolRequest, ToolExit

LEMMA NextClient == ClientInv /\ [Next]_vars => ClientInv'
<1> SUFFICES ASSUME ClientInv, [Next]_vars PROVE ClientInv'
  OBVIOUS
<1>0. TypeInv
  BY DEF ClientInv
<1>1. ASSUME NEW c \in Callers, Call(c) PROVE ClientInv'
  <2>1. PICK newCall \in Program[c] : Begin(c, newCall)
    BY <1>1 DEF Call
  <2>2. newCall \in CallsOf(c)
    BY ClientAssumption
  <2>3. tool' \in [Callers -> ToolStates \cup {NoTool}] /\ pc[c] = "idle"
    BY <1>0, <1>1 DEF Call, TypeInv
  <2> QED BY <2>1, <2>2, <2>3, BeginKeeps
<1>2. ASSUME NEW c \in Callers, Library(c) PROVE ClientInv'
  BY <1>2, SendKeeps, TimeoutKeeps DEF Library
<1>3. ASSUME NEW p \in Processes, Die(p) PROVE ClientInv'
  <2>1. /\ alive' \subseteq alive
        /\ UNCHANGED <<registered, active, inbox, host, loaded, bound, usePidfds, pc,
                       call, answer, tool, claims, asked>>
    BY <1>3 DEF Die, registryVars, libraryVars
  <2>2. TypeInv'
    BY <1>0, <2>1 DEF TypeInv, TypeOK
  <2> QED
    BY <2>1, <2>2 DEF ClientInv, BoundWhenCalled, QueueInv, ClaimInv, AskedInv, Named,
      Client
<1>4. CASE UNCHANGED vars
  <2>1. UNCHANGED <<alive, registered, active, inbox, host, loaded, bound, usePidfds,
                    pc, call, answer, tool, claims, asked>>
    BY <1>4 DEF vars, registryVars, libraryVars
  <2>2. TypeInv'
    BY <1>0, <2>1 DEF TypeInv, TypeOK
  <2> QED
    BY <2>1, <2>2 DEF ClientInv, BoundWhenCalled, QueueInv, ClaimInv, AskedInv, Named,
      Client
<1> QED
  BY <1>1, <1>2, <1>3, <1>4, ToolKeeps, HandleKeeps, ExpireKeeps, CrashKeeps DEF Next

LEMMA Invariance == Spec => []ClientInv
  BY InitClient, NextClient, PTL DEF Spec

-----------------------------------------------------------------------------
(* gamemoded -rPID turns a game around.                                     *)

\* A library that has the query for another process has both changes too:
\* so do the one of this repository and one without any of the three.
WholeLibraries ==
  \A symbols \in Libraries :
    <<"query", FALSE>> \in symbols =>
      {<<"register", FALSE>>, <<"unregister", FALSE>>} \subseteq symbols

\* What a caller bound are the symbols of the library of the host.
LibraryInv ==
  /\ host \in Libraries
  /\ \A c \in Callers : loaded[c] = 0 => bound[c] = host

\* A caller that never failed by its pidfds waits for each request it sent,
\* and sent it by pidfds, its own one last.
PidfdInv ==
  \A i \in DOMAIN inbox : usePidfds[inbox[i].from] =>
    LET r == inbox[i]
    IN r.wanted /\ r.form = "fd" /\ DOMAIN r.pids = 1..2 /\ r.pids[2] = r.from

\* A tool that had every request answered, about a game nobody else changed.
Undisturbed(c) == tool[c] # NoTool /\ usePidfds[c] /\ tool[c].was # "unknown"

\* The call the tool is at.
StepVerb(c) == IF tool[c].step = "query" THEN "query"
               ELSE IF tool[c].was = "in" THEN "unregister" ELSE "register"
AtItsCall(c) ==
  /\ call[c].verb = StepVerb(c) /\ ~call[c].own
  /\ call[c].target = tool[c].target

\* Until the change is answered the game is as the tool found it; the answer
\* to the query says so, and the change then does its work on a living game.
Turning(c) ==
  /\ pc[c] # "idle" => AtItsCall(c)
  /\ tool[c].step = "query" \/ pc[c] # "idle" =>
       (tool[c].target \in registered <=> tool[c].was = "in")
  /\ tool[c].step = "query" /\ pc[c] = "idle" /\ answer[c] # -1 =>
       /\ answer[c] = 2 <=> tool[c].was = "in"
       /\ loaded[c] = 0 /\ <<"query", FALSE>> \in bound[c]
  /\ tool[c].step = "request" /\ pc[c] = "idle" /\ tool[c].target \in alive =>
       /\ answer[c] = 0
       /\ tool[c].target \in registered <=> tool[c].was = "out"

ToggleInv == LibraryInv /\ PidfdInv /\ \A c \in Callers : Undisturbed(c) => Turning(c)

LEMMA InitToggle == Init => ToggleInv
<1> SUFFICES ASSUME Init PROVE ToggleInv
  OBVIOUS
<1>1. /\ host \in Libraries /\ inbox = <<>>
      /\ \A c \in Callers : loaded[c] = 1 /\ tool[c] = NoTool
  BY DEF Init
<1> QED
  BY <1>1 DEF ToggleInv, LibraryInv, PidfdInv, Undisturbed

\* What another does is nothing to the tool, or is seen to disturb it.
LEMMA OthersTurn ==
  ASSUME NEW d \in Callers, Undisturbed(d) => Turning(d),
         alive' \subseteq alive,
         usePidfds'[d] = usePidfds[d], pc'[d] = pc[d], call'[d] = call[d],
         answer'[d] = answer[d], loaded'[d] = loaded[d], bound'[d] = bound[d],
         \/ tool'[d].was = "unknown"
         \/ /\ tool'[d] = tool[d]
            /\ tool[d] # NoTool =>
                 (tool[d].target \in registered' <=> tool[d].target \in registered)
  PROVE  Undisturbed(d)' => Turning(d)'
<1>1. CASE tool'[d].was = "unknown"
  BY <1>1 DEF Undisturbed
<1>2. CASE tool'[d] = tool[d] /\ tool[d] # NoTool /\ Undisturbed(d)
  BY <1>2 DEF Undisturbed, Turning, AtItsCall, StepVerb
<1> QED BY <1>1, <1>2 DEF Undisturbed

\* The library is loaded once.
LEMMA LoadKeeps ==
  ASSUME TypeInv, LibraryInv, NEW c \in Callers, LoadLibrary(c)
  PROVE  /\ LibraryInv'
         /\ \A d \in Callers \ {c} : loaded'[d] = loaded[d] /\ bound'[d] = bound[d]
         /\ loaded[c] = 0 => loaded'[c] = 0 /\ bound'[c] = bound[c]
  BY DEF TypeInv, TypeOK, LibraryInv, LoadLibrary

\* A call that begins changes its caller only.
LEMMA BeginLocal ==
  ASSUME TypeInv, NEW c \in Callers, NEW newCall, Begin(c, newCall),
         tool'[c] # NoTool
  PROVE  /\ UNCHANGED <<alive, registered, inbox, usePidfds>>
         /\ \A d \in Callers \ {c} :
              pc'[d] = pc[d] /\ call'[d] = call[d] /\ answer'[d] = answer[d]
         /\ CanCall(c, newCall) => pc'[c] = "send" /\ call'[c] = newCall
         /\ ~CanCall(c, newCall) => pc'[c] = pc[c] /\ answer'[c] = -1
  BY DEF Begin, TypeInv, TypeOK, registryVars

LEMMA CallTurns ==
  ASSUME ClientInv, ToggleInv, NEW c \in Callers, Call(c)
  PROVE  ToggleInv'
<1>1. PICK newCall \in Program[c] : Begin(c, newCall)
  BY DEF Call
<1>2. /\ tool[c] = NoTool /\ tool' = tool
      /\ UNCHANGED <<alive, registered, inbox, usePidfds>>
      /\ LoadLibrary(c)
  BY <1>1 DEF Call, Begin, registryVars
<1>3. \A d \in Callers \ {c} :
        pc'[d] = pc[d] /\ call'[d] = call[d] /\ answer'[d] = answer[d]
  BY <1>1 DEF Begin, ClientInv, TypeInv, TypeOK
<1>4. /\ LibraryInv'
      /\ \A d \in Callers \ {c} : loaded'[d] = loaded[d] /\ bound'[d] = bound[d]
  BY <1>2, LoadKeeps DEF ClientInv, ToggleInv
<1>5. PidfdInv'
  BY <1>2 DEF ToggleInv, PidfdInv
<1>6. \A d \in Callers \ {c} : Undisturbed(d)' => Turning(d)'
  BY <1>2, <1>3, <1>4, OthersTurn DEF ToggleInv
<1>7. ~Undisturbed(c)'
  BY <1>2 DEF Undisturbed
<1> QED BY <1>4, <1>5, <1>6, <1>7 DEF ToggleInv

\* The tool asks, and then asks for the other thing: a library that had the
\* query has the change.
LEMMA ToolTurns ==
  ASSUME WholeLibraries, ClientInv, ToggleInv, NEW c \in Callers, Tool(c)
  PROVE  ToggleInv'
<1>0. TypeInv
  BY DEF ClientInv
<1>1. CASE ToolStart(c)
  <2>1. PICK p \in Processes \ {c} :
          /\ tool' = [tool EXCEPT ![c] =
                        [step |-> "query", target |-> p,
                         was |-> IF p \in registered THEN "in" ELSE "out"]]
          /\ Begin(c, [verb |-> "query", own |-> FALSE, target |-> p])
    BY <1>1 DEF ToolStart
  <2> DEFINE newCall == [verb |-> "query", own |-> FALSE, target |-> p]
  <2>2. /\ tool'[c].step = "query" /\ tool'[c].target = p
        /\ tool'[c].was = IF p \in registered THEN "in" ELSE "out"
        /\ \A d \in Callers \ {c} : tool'[d] = tool[d]
        /\ tool'[c] # NoTool
    BY <1>0, <2>1 DEF TypeInv, NoTool
  <2>3. newCall.verb = "query" /\ ~newCall.own /\ newCall.target = p
    OBVIOUS
  <2>4. Begin(c, newCall) /\ LoadLibrary(c) /\ pc[c] = "idle"
    BY <1>1, <2>1 DEF Begin, ToolStart
  <2> HIDE DEF newCall
  <2>5. /\ UNCHANGED <<alive, registered, inbox, usePidfds>>
        /\ \A d \in Callers \ {c} :
             pc'[d] = pc[d] /\ call'[d] = call[d] /\ answer'[d] = answer[d]
        /\ CanCall(c, newCall) => pc'[c] = "send" /\ call'[c] = newCall
        /\ ~CanCall(c, newCall) => pc'[c] = "idle" /\ answer'[c] = -1
    BY <1>0, <2>2, <2>4, BeginLocal
  <2>6. /\ LibraryInv'
        /\ \A d \in Callers \ {c} : loaded'[d] = loaded[d] /\ bound'[d] = bound[d]
    BY <1>0, <2>4, LoadKeeps DEF ToggleInv
  <2>7. PidfdInv'
    BY <2>5 DEF ToggleInv, PidfdInv
  <2>8. \A d \in Callers \ {c} : Undisturbed(d)' => Turning(d)'
    BY <2>2, <2>5, <2>6, OthersTurn DEF ToggleInv
  <2>9. Turning(c)'
    <3>1. p \in registered' <=> tool'[c].was = "in"
      BY <2>2, <2>5
    <3>2. pc'[c] # "idle" => AtItsCall(c)'
      BY <2>2, <2>3, <2>5 DEF AtItsCall, StepVerb
    <3>3. pc'[c] = "idle" => answer'[c] = -1
      BY <2>5
    <3> QED BY <2>2, <3>1, <3>2, <3>3 DEF Turning
  <2> QED BY <2>6, <2>7, <2>8, <2>9 DEF ToggleInv
<1>2. CASE ToolEnds(c)
  <2>1. /\ UNCHANGED <<alive, registered, inbox, host, loaded, bound, usePidfds, pc, call>>
        /\ tool'[c] = NoTool
        /\ \A d \in Callers \ {c} : tool'[d] = tool[d] /\ answer'[d] = answer[d]
    BY <1>0, <1>2 DEF ToolEnds, registryVars, libraryVars, TypeInv, TypeOK
  <2>2. LibraryInv' /\ PidfdInv'
    BY <2>1 DEF ToggleInv, LibraryInv, PidfdInv
  <2>3. \A d \in Callers \ {c} : Undisturbed(d)' => Turning(d)'
    BY <2>1, OthersTurn DEF ToggleInv
  <2> QED BY <2>1, <2>2, <2>3 DEF ToggleInv, Undisturbed
<1>3. CASE ToolRequest(c) /\ answer[c] # -1
  <2> DEFINE newCall == [verb |-> OppositeOf(answer[c]), own |-> FALSE,
                         target |-> tool[c].target]
  <2>1. /\ tool[c].step = "query" /\ pc[c] = "idle"
        /\ tool' = [tool EXCEPT ![c].step = "request"]
        /\ Begin(c, newCall) /\ LoadLibrary(c)
    BY <1>3 DEF ToolRequest, Begin
  <2>2. tool[c] \in ToolStates
    BY <1>0, <2>1 DEF TypeInv, NoTool
  <2>3. /\ tool'[c].step = "request" /\ tool'[c].target = tool[c].target
        /\ tool'[c].was = tool[c].was
        /\ \A d \in Callers \ {c} : tool'[d] = tool[d]
        /\ tool'[c] # NoTool /\ tool[c] # NoTool
    BY <1>0, <2>1, <2>2 DEF TypeInv, ToolStates, NoTool
  <2>4. /\ newCall.verb = OppositeOf(answer[c]) /\ newCall.own = FALSE
        /\ newCall.target = tool[c].target
    OBVIOUS
  <2> HIDE DEF newCall
  <2>5. /\ UNCHANGED <<alive, registered, inbox, usePidfds>>
        /\ \A d \in Callers \ {c} :
             pc'[d] = pc[d] /\ call'[d] = call[d] /\ answer'[d] = answer[d]
        /\ CanCall(c, newCall) => pc'[c] = "send" /\ call'[c] = newCall
    BY <1>0, <2>1, <2>3, BeginLocal
  <2>6. /\ LibraryInv'
        /\ \A d \in Callers \ {c} : loaded'[d] = loaded[d] /\ bound'[d] = bound[d]
        /\ loaded[c] = 0 => loaded'[c] = 0 /\ bound'[c] = bound[c]
    BY <1>0, <2>1, LoadKeeps DEF ToggleInv
  <2>7. PidfdInv'
    BY <2>5 DEF ToggleInv, PidfdInv
  <2>8. \A d \in Callers \ {c} : Undisturbed(d)' => Turning(d)'
    BY <2>3, <2>5, <2>6, OthersTurn DEF ToggleInv
  <2>9. ASSUME Undisturbed(c)' PROVE Turning(c)'
    <3>1. Undisturbed(c)
      BY <2>3, <2>5, <2>9 DEF Undisturbed
    <3>2. /\ tool[c].target \in registered <=> tool[c].was = "in"
          /\ answer[c] = 2 <=> tool[c].was = "in"
          /\ loaded[c] = 0 /\ <<"query", FALSE>> \in bound[c]
      BY <1>3, <2>1, <3>1 DEF ToggleInv, Turning
    <3>3. bound[c] \in Libraries
      BY <3>2 DEF ToggleInv, LibraryInv
    <3>4. Symbol(newCall) \in bound[c]
      <4>1. Symbol(newCall) \in {<<"register", FALSE>>, <<"unregister", FALSE>>}
        BY <2>4 DEF Symbol, OppositeOf
      <4> QED BY <3>2, <3>3, <4>1 DEF WholeLibraries
    <3>5. CanCall(c, newCall)
      BY <2>6, <3>2, <3>4 DEF CanCall
    <3>6. AtItsCall(c)'
      BY <2>3, <2>4, <2>5, <3>2, <3>5 DEF AtItsCall, StepVerb, OppositeOf
    <3>7. pc'[c] # "idle" /\ tool'[c].step # "query"
      BY <2>3, <2>5, <3>5
    <3> QED BY <2>3, <2>5, <3>2, <3>6, <3>7 DEF Turning
  <2> QED BY <2>6, <2>7, <2>8, <2>9 DEF ToggleInv
<1> QED
  BY <1>1, <1>2, <1>3 DEF Tool, ToolRequest, ToolExit

\* A caller whose request failed goes on without pidfds.
LEMMA PidfdsGivenUp ==
  ASSUME TypeInv, NEW c \in Callers, RequestFailed(c)
  PROVE  /\ ~usePidfds'[c]
         /\ \A d \in Callers \ {c} :
              /\ usePidfds'[d] = usePidfds[d] /\ pc'[d] = pc[d]
              /\ call'[d] = call[d] /\ answer'[d] = answer[d]
<1>1. CASE usePidfds[c]
  BY <1>1 DEF RequestFailed, GiveUpPidfds, TypeInv, TypeOK
<1>2. CASE ~usePidfds[c]
  BY <1>2 DEF RequestFailed, Return, TypeInv, TypeOK
<1> QED BY <1>1, <1>2

LEMMA FailureTurns ==
  ASSUME TypeInv, ToggleInv, NEW c \in Callers, RequestFailed(c),
         UNCHANGED <<alive, registryVars, libraryVars, tool>>,
         DOMAIN inbox' = DOMAIN inbox,
         \A i \in DOMAIN inbox :
           \/ inbox'[i] = inbox[i]
           \/ inbox[i].from = c /\ inbox'[i].from = c
  PROVE  ToggleInv'
<1>1. /\ ~usePidfds'[c]
      /\ \A d \in Callers \ {c} :
           /\ usePidfds'[d] = usePidfds[d] /\ pc'[d] = pc[d]
           /\ call'[d] = call[d] /\ answer'[d] = answer[d]
  BY PidfdsGivenUp
<1>2. LibraryInv'
  BY DEF ToggleInv, LibraryInv, libraryVars
<1>3. PidfdInv'
  <2>1. \A i \in DOMAIN inbox' : usePidfds'[inbox'[i].from] =>
          inbox'[i] = inbox[i] /\ usePidfds[inbox[i].from]
    BY <1>1, Queued
  <2> QED BY <2>1 DEF ToggleInv, PidfdInv
<1>4. \A d \in Callers \ {c} : Undisturbed(d)' => Turning(d)'
  BY <1>1, OthersTurn DEF ToggleInv, registryVars, libraryVars
<1>5. ~Undisturbed(c)'
  BY <1>1 DEF Undisturbed
<1> QED BY <1>2, <1>3, <1>4, <1>5 DEF ToggleInv

LEMMA LibraryTurns ==
  ASSUME ClientInv, ToggleInv, NEW c \in Callers, Library(c)
  PROVE  ToggleInv'
<1>0. TypeInv /\ UNCHANGED <<alive, registryVars, libraryVars, tool>> /\ pc[c] # "idle"
  BY DEF ClientInv, Library, Send, Timeout, NoReply
<1>1. CASE RequestFailed(c) /\ inbox' \in {inbox, Abandon(c)}
  <2>1. /\ DOMAIN inbox' = DOMAIN inbox
        /\ \A i \in DOMAIN inbox : \/ inbox'[i] = inbox[i]
                                   \/ inbox[i].from = c /\ inbox'[i].from = c
    <3>1. CASE inbox' = Abandon(c)
      <4>1. DOMAIN inbox' = DOMAIN inbox /\ \A i \in DOMAIN inbox : inbox'[i].from = inbox[i].from
        BY <1>0, <3>1, Abandoned DEF TypeInv, TypeOK
      <4>2. \A i \in DOMAIN inbox : inbox[i].from # c => inbox'[i] = inbox[i]
        BY <3>1 DEF Abandon
      <4> QED BY <4>1, <4>2
    <3> QED BY <1>1, <3>1
  <2> QED BY <1>0, <1>1, <2>1, FailureTurns
<1>2. CASE /\ Send(c) /\ pc' = [pc EXCEPT ![c] = "wait"]
           /\ inbox' = Append(inbox, Request(c))
           /\ UNCHANGED <<usePidfds, call, answer>>
  <2>1. pc'[c] = "wait" /\ \A d \in Callers \ {c} : pc'[d] = pc[d]
    BY <1>0, <1>2 DEF TypeInv, TypeOK
  <2>2. LibraryInv'
    BY <1>0 DEF ToggleInv, LibraryInv, libraryVars
  <2>3. PidfdInv'
    <3>1. Request(c) \in Requests /\ Request(c).from = c /\ Request(c).wanted
      BY <1>0, SentIsRequest
    <3>2. usePidfds[c] =>
            /\ Request(c).form = "fd"
            /\ DOMAIN Request(c).pids = 1..2 /\ Request(c).pids[2] = c
      <4>1. DOMAIN <<call[c].target, c>> = 1..2 /\ <<call[c].target, c>>[2] = c
        OBVIOUS
      <4>2. usePidfds[c] => Form(c) = "fd"
        BY DEF Form
      <4>3. usePidfds[c] => /\ Request(c).form = "fd"
                            /\ Request(c).pids = <<call[c].target, c>>
        BY <4>2 DEF Request
      <4> HIDE DEF Request
      <4> QED BY <4>1, <4>3
    <3>3. /\ DOMAIN inbox' = DOMAIN inbox \cup {Len(inbox) + 1}
          /\ \A i \in DOMAIN inbox : inbox'[i] = inbox[i]
          /\ inbox'[Len(inbox) + 1] = Request(c)
      BY <1>0, <1>2, <3>1, Appended DEF TypeInv, TypeOK
    <3> QED BY <1>2, <3>1, <3>2, <3>3 DEF ToggleInv, PidfdInv
  <2>4. \A d \in Callers \ {c} : Undisturbed(d)' => Turning(d)'
    BY <1>0, <1>2, <2>1, OthersTurn DEF ToggleInv, registryVars, libraryVars
  <2>5. Undisturbed(c)' => Turning(c)'
    BY <1>0, <1>2, <2>1 DEF ToggleInv, Undisturbed, Turning, AtItsCall, StepVerb,
      registryVars
  <2> QED BY <2>2, <2>3, <2>4, <2>5 DEF ToggleInv
<1> QED BY <1>1, <1>2 DEF Library, Send, Timeout, NoReply

\* What the daemon replies to a change that it makes, and to a query.
LEMMA ReplyToChange ==
  ASSUME NEW r, Registers(r) \/ Unregisters(r)
  PROVE  Reply(r) = 0
<1>1. r.verb # "restart" /\ r.verb # "query"
  BY DEF Registers, Unregisters
<1> QED BY <1>1 DEF Reply

LEMMA ReplyToQuery ==
  ASSUME NEW r, r.verb = "query"
  PROVE  Reply(r) = IF Accepted(r) THEN Status(Client(r)) ELSE -1
<1>1. ~Registers(r) /\ ~Unregisters(r) /\ r.verb # "restart"
  BY DEF Registers, Unregisters
<1>2. CASE Accepted(r)
  <2> HIDE DEF Accepted
  <2> QED BY <1>1, <1>2 DEF Reply
<1>3. CASE ~Accepted(r)
  BY <1>1, <1>3 DEF Reply
<1> QED BY <1>2, <1>3

\* The daemon does what the tool asked for, or one of the two is gone; what
\* it does for another is seen.
LEMMA HandleTurns ==
  ASSUME ClientInv, ToggleInv, Handle
  PROVE  ToggleInv'
<1> DEFINE r == Head(inbox)
           Changed == Registers(r) \/ Unregisters(r)
<1>0. /\ TypeInv /\ inbox \in Seq(Requests) /\ inbox # <<>>
      /\ inbox' = Tail(inbox)
      /\ UNCHANGED <<alive, libraryVars>>
      /\ Perform(r)
  BY DEF ClientInv, TypeInv, TypeOK, Handle
<1>1. /\ r \in Requests /\ r = inbox[1] /\ 1 \in DOMAIN inbox
      /\ r.from \in Callers
      /\ \A i \in DOMAIN inbox' : i + 1 \in DOMAIN inbox /\ inbox'[i] = inbox[i + 1]
  BY <1>0, Taken, Queued
<1> PICK c \in Callers : c = r.from
  BY <1>1
<1>2. \/ (~r.wanted \/ c \notin alive) /\ UNCHANGED <<usePidfds, pc, call, answer>>
      \/ r.wanted /\ c \in alive /\ Reply(r) = Error /\ RequestFailed(c)
      \/ r.wanted /\ c \in alive /\ Reply(r) # Error /\ Return(c, Reply(r))
           /\ UNCHANGED usePidfds
  BY DEF Handle
<1>3. /\ Registers(r) => registered' = registered \cup {Client(r)}
      /\ Unregisters(r) => registered' = registered \ {Client(r)}
      /\ ~Changed => registered' = registered /\ tool' = tool
      /\ Changed => tool' = Disturb(Client(r), c)
  BY <1>0 DEF Perform, Registers, Unregisters, Daemon!Register, Daemon!Unregister,
    registryVars
<1> HIDE DEF r
<1>4. usePidfds[c] => /\ r.wanted /\ r.form = "fd" /\ Requester(r) = c
                      /\ pc[c] = "wait" /\ r.verb = call[c].verb
                      /\ Client(r) = call[c].target
                      /\ Accepted(r) <=> {Client(r), c} \subseteq alive
  <2> SUFFICES ASSUME usePidfds[c]
               PROVE  /\ r.wanted /\ r.form = "fd" /\ Requester(r) = c
                      /\ pc[c] = "wait" /\ r.verb = call[c].verb
                      /\ Client(r) = call[c].target
                      /\ Accepted(r) <=> {Client(r), c} \subseteq alive
    OBVIOUS
  <2>1. r.wanted /\ r.form = "fd" /\ DOMAIN r.pids = 1..2 /\ r.pids[2] = c
    BY <1>1 DEF ToggleInv, PidfdInv
  <2>2. pc[c] = "wait" /\ r.verb = call[c].verb /\ Client(r) = call[c].target
    BY <1>1, <2>1 DEF ClientInv, QueueInv
  <2>3. Requester(r) = c /\ Client(r) = r.pids[1]
    BY <2>1 DEF Requester, Client
  <2>4. ToSet(r.pids) = {Client(r), c}
    BY <2>1, <2>3 DEF ToSet
  <2>5. Accepted(r) <=> {Client(r), c} \subseteq alive
    BY <2>1, <2>3, <2>4 DEF Accepted, PidsKnown
  <2> QED BY <2>1, <2>2, <2>3, <2>5
<1>5. LibraryInv' /\ PidfdInv'
  <2>1. LibraryInv'
    BY <1>0 DEF ToggleInv, LibraryInv, libraryVars
  <2>2. \A d \in Callers : usePidfds'[d] => usePidfds[d]
    BY <1>0, <1>1, <1>2, PidfdsGivenUp
  <2>3. \A i \in DOMAIN inbox' : inbox'[i].from \in Callers
    BY <1>0, <1>1, Queued
  <2>4. PidfdInv'
    BY <1>1, <2>2, <2>3 DEF ToggleInv, PidfdInv
  <2> QED BY <2>1, <2>4
<1>6. \A d \in Callers : Changed /\ d # c /\ tool[d] # NoTool /\ tool[d].target = Client(r)
                           => tool'[d].was = "unknown"
  BY <1>0, <1>3 DEF Disturb, TypeInv, ToolStates
<1>7. \A d \in Callers :
        \/ ~Changed \/ d = c \/ tool[d] = NoTool \/ tool[d].target # Client(r)
        => tool'[d] = tool[d]
  BY <1>3 DEF Disturb, TypeInv
<1>8. \A p : ~Changed \/ p # Client(r) => (p \in registered' <=> p \in registered)
  BY <1>3
<1>9. ASSUME NEW d \in Callers, UNCHANGED <<usePidfds[d], pc[d], call[d], answer[d]>>,
             d = c => ~(r.wanted /\ c \in alive)
      PROVE  Undisturbed(d)' => Turning(d)'
  <2>1. d = c /\ usePidfds[d] => ~Changed
    BY <1>4, <1>9 DEF Registers, Unregisters
  <2>2. UNCHANGED <<alive, loaded[d], bound[d]>>
    BY <1>0 DEF libraryVars
  <2>3. CASE tool'[d].was = "unknown"
    BY <2>3 DEF Undisturbed
  <2>4. CASE tool'[d].was # "unknown" /\ usePidfds[d]
    <3>1. /\ tool'[d] = tool[d]
          /\ tool[d] # NoTool =>
               (tool[d].target \in registered' <=> tool[d].target \in registered)
      BY <1>6, <1>7, <1>8, <2>1, <2>4
    <3> QED BY <1>9, <2>2, <3>1, OthersTurn DEF ToggleInv
  <2>5. CASE ~usePidfds[d]
    BY <1>9, <2>5 DEF Undisturbed
  <2> QED BY <2>3, <2>4, <2>5
<1>10. CASE (~r.wanted \/ c \notin alive) /\ UNCHANGED <<usePidfds, pc, call, answer>>
  BY <1>5, <1>9, <1>10 DEF ToggleInv
<1>11. CASE r.wanted /\ c \in alive /\ Reply(r) = Error /\ RequestFailed(c)
  <2>1. /\ ~usePidfds'[c]
        /\ \A d \in Callers \ {c} :
             /\ usePidfds'[d] = usePidfds[d] /\ pc'[d] = pc[d]
             /\ call'[d] = call[d] /\ answer'[d] = answer[d]
    BY <1>0, <1>1, <1>11, PidfdsGivenUp
  <2> QED BY <1>5, <1>9, <2>1 DEF ToggleInv, Undisturbed
<1>12. CASE r.wanted /\ c \in alive /\ Reply(r) # Error /\ Return(c, Reply(r))
              /\ UNCHANGED usePidfds
  <2>1. /\ \A d \in Callers \ {c} :
             pc'[d] = pc[d] /\ call'[d] = call[d] /\ answer'[d] = answer[d]
        /\ pc'[c] = "idle"
        /\ tool[c] # NoTool => answer'[c] = Reply(r)
    BY <1>0, <1>1, <1>12 DEF Return, TypeInv, TypeOK
  <2>2. ASSUME Undisturbed(c)' PROVE Turning(c)'
    <3> DEFINE t == tool[c].target
    <3>1. tool'[c] = tool[c] /\ tool[c] # NoTool /\ usePidfds[c]
          /\ tool[c].was # "unknown"
      <4>1. tool'[c] = tool[c] /\ usePidfds' = usePidfds
        BY <1>1, <1>7, <1>12
      <4> QED BY <2>2, <4>1 DEF Undisturbed
    <3>2. Undisturbed(c)
      BY <3>1 DEF Undisturbed
    <3>3. /\ r.verb = StepVerb(c) /\ Client(r) = t
          /\ t \in registered <=> tool[c].was = "in"
      BY <1>1, <1>4, <3>1, <3>2 DEF ToggleInv, Turning, AtItsCall
    <3>4. Accepted(r) <=> t \in alive
      BY <1>4, <1>12, <3>1, <3>2, <3>3
    <3>5. /\ loaded'[c] = 0 /\ pc[c] = "wait"
          /\ r.verb = "query" => <<"query", FALSE>> \in bound'[c]
      <4>1. loaded[c] = 0 /\ Symbol(call[c]) \in bound[c]
        BY <1>1, <1>4, <3>1, <3>2 DEF ClientInv, BoundWhenCalled
      <4>2. call[c].own \in BOOLEAN /\ ~call[c].own
        BY <1>0, <1>1, <1>4, <3>1, <3>2 DEF TypeInv, CallsOf, Calls, ToggleInv, Turning,
          AtItsCall
      <4> QED
        BY <1>0, <1>4, <3>1, <3>2, <4>1, <4>2 DEF Symbol, libraryVars
    <3>6. CASE tool[c].step = "query"
      <4>1. r.verb = "query"
        BY <3>3, <3>6 DEF StepVerb
      <4>2. ~Changed /\ registered' = registered
        BY <1>3, <4>1 DEF Registers, Unregisters
      <4>3. answer'[c] # -1 => (answer'[c] = 2 <=> t \in registered)
        BY <2>1, <3>1, <3>2, <3>3, <4>1, <4>2, ReplyToQuery DEF Status
      <4>4. tool'[c].step = "query" /\ pc'[c] = "idle" /\ tool'[c].was = tool[c].was
            /\ tool'[c].target = t /\ <<"query", FALSE>> \in bound'[c]
        BY <2>1, <3>1, <3>5, <3>6, <4>1
      <4>5. t \in registered' <=> tool'[c].was = "in"
        BY <3>3, <4>2, <4>4
      <4> QED
        BY <3>3, <3>5, <4>3, <4>4, <4>5 DEF Turning
    <3>7. CASE tool[c].step # "query"
      <4>1. ASSUME t \in alive
            PROVE  answer'[c] = 0 /\ (t \in registered' <=> tool[c].was = "out")
        <5>1. tool[c].was \in {"in", "out"}
          BY <1>0, <1>1, <3>1, <3>2 DEF TypeInv, ToolStates, Undisturbed
        <5>2. CASE tool[c].was = "in"
          <6>1. Unregisters(r)
            BY <3>3, <3>4, <3>7, <4>1, <5>2 DEF Unregisters, StepVerb
          <6> QED BY <1>3, <2>1, <3>1, <3>2, <3>3, <5>2, <6>1, ReplyToChange
        <5>3. CASE tool[c].was = "out"
          <6>1. Registers(r)
            BY <3>3, <3>4, <3>7, <4>1, <5>3 DEF Registers, StepVerb
          <6> QED BY <1>3, <2>1, <3>1, <3>2, <3>3, <5>3, <6>1, ReplyToChange
        <5> QED BY <5>1, <5>2, <5>3
      <4>2. tool'[c].step # "query" /\ pc'[c] = "idle" /\ tool'[c].was = tool[c].was
            /\ tool'[c].target = t /\ alive' = alive
        BY <1>0, <2>1, <3>1, <3>7
      <4> QED
        BY <4>1, <4>2 DEF Turning
    <3> QED BY <3>6, <3>7
  <2>3. \A d \in Callers \ {c} : UNCHANGED <<usePidfds[d], pc[d], call[d], answer[d]>>
    BY <1>12, <2>1
  <2>4. \A d \in Callers \ {c} : Undisturbed(d)' => Turning(d)'
    BY <1>9, <2>3
  <2> QED BY <1>5, <2>2, <2>4 DEF ToggleInv
<1> QED BY <1>2, <1>10, <1>11, <1>12

\* The reaper's change and the new daemon are seen as well.
LEMMA ReaperTurns == ClientInv /\ ToggleInv /\ (Expire \/ Crash) => ToggleInv'
<1> SUFFICES ASSUME ClientInv, ToggleInv, Expire \/ Crash PROVE ToggleInv'
  OBVIOUS
<1>1. TypeInv /\ UNCHANGED <<alive, libraryVars, usePidfds, pc, call, answer>>
      /\ inbox' \in {inbox, <<>>}
  BY DEF ClientInv, Expire, Crash
<1>2. LibraryInv' /\ PidfdInv'
  BY <1>1 DEF ToggleInv, LibraryInv, PidfdInv, libraryVars
<1>3. \A d \in Callers :
        \/ tool'[d].was = "unknown"
        \/ /\ tool'[d] = tool[d]
           /\ tool[d] # NoTool =>
                (tool[d].target \in registered' <=> tool[d].target \in registered)
  <2>1. CASE Expire
    <3>1. PICK p : registered' = registered \ {p} /\ tool' = Disturb(p, "the reaper")
      BY <2>1 DEF Expire, Daemon!Unregister
    <3> QED BY <1>1, <3>1, ReaperAssumption DEF Disturb, TypeInv, ToolStates
  <2>2. CASE Crash
    BY <1>1, <2>2 DEF Crash, TypeInv, ToolStates
  <2> QED BY <2>1, <2>2
<1>4. \A d \in Callers : Undisturbed(d)' => Turning(d)'
  BY <1>1, <1>3, OthersTurn DEF ToggleInv, libraryVars
<1> QED BY <1>2, <1>4 DEF ToggleInv

LEMMA NextToggle ==
  ASSUME WholeLibraries, ClientInv, ToggleInv, [Next]_vars
  PROVE  ToggleInv'
<1>1. CASE UNCHANGED vars \/ \E p \in Processes : Die(p)
  <2>1. /\ alive' \subseteq alive
        /\ UNCHANGED <<registered, inbox, host, loaded, bound, usePidfds, pc, call,
                       answer, tool>>
    BY <1>1 DEF vars, Die, registryVars, libraryVars
  <2>2. LibraryInv' /\ PidfdInv'
    BY <2>1 DEF ToggleInv, LibraryInv, PidfdInv
  <2>3. \A d \in Callers : Undisturbed(d)' => Turning(d)'
    BY <2>1, OthersTurn DEF ToggleInv
  <2> QED BY <2>2, <2>3 DEF ToggleInv
<1> QED
  BY <1>1, CallTurns, LibraryTurns, ToolTurns, HandleTurns, ReaperTurns DEF Next

-----------------------------------------------------------------------------
(* Theorems. *)

\* The type invariant.
THEOREM TypeCorrectness == Spec => []TypeOK
<1>1. ClientInv => TypeOK
  BY DEF ClientInv, TypeInv
<1> QED BY <1>1, Invariance, PTL

\* The pointer a wrapper calls through is set, whatever library was found
\* and however old it is: the assertions of gamemode_client.h hold
\* (gamemode_client.h:267, 302).
THEOREM PointersAreBound == Spec => []BoundWhenCalled
<1>1. ClientInv => BoundWhenCalled
  BY DEF ClientInv
<1> QED BY <1>1, Invariance, PTL

\* A caller that was told that a game is registered, or is not any more,
\* was told the truth, and it stays true until somebody else changes it:
\* no request of its own that timed out or was repeated undoes it later
\* (client_impl.c:342, gamemode-dbus.c:222).
THEOREM AnswersStayTrue == Spec => []ClaimsHold
<1>1. ClientInv => ClaimsHold
  BY DEF ClientInv, ClaimInv, ClaimsHold
<1> QED BY <1>1, Invariance, PTL

\* A process that nobody asked to register is registered only if it gave up
\* its pidfds: without them it names itself when it asks for another one.
THEOREM NobodyElseIsRegistered == Spec => []OnlyAskedFor
<1>1. ClientInv => OnlyAskedFor
  BY DEF ClientInv, AskedInv, Named, OnlyAskedFor
<1> QED BY <1>1, Invariance, PTL

\* gamemoded -rPID leaves the game the other way and says so, if the game
\* lives, nobody else changed it meanwhile and every request was answered,
\* with any library that has the query together with the changes
\* (gamemoded.c:228).
THEOREM ToggleTurnsAround ==
  ASSUME WholeLibraries
  PROVE  Spec => []ToggleFlips
<1>1. Init => ClientInv /\ ToggleInv
  BY InitClient, InitToggle
<1>2. ClientInv /\ ToggleInv /\ [Next]_vars => (ClientInv /\ ToggleInv)'
  BY NextClient, NextToggle
<1>3. ClientInv /\ ToggleInv => ToggleFlips
  <2> SUFFICES ASSUME ClientInv, ToggleInv, NEW c \in Callers,
                      tool[c].step = "request", pc[c] = "idle", usePidfds[c],
                      tool[c].was # "unknown", tool[c].target \in alive
               PROVE  /\ answer[c] = 0
                      /\ (tool[c].target \in registered) = (tool[c].was = "out")
    BY DEF ToggleFlips
  <2>1. Undisturbed(c)
    BY DEF Undisturbed, NoTool
  <2>2. answer[c] = 0 /\ (tool[c].target \in registered <=> tool[c].was = "out")
    BY <2>1 DEF ToggleInv, Turning
  <2> QED BY <2>2
<1> QED BY <1>1, <1>2, <1>3, PTL DEF Spec

=============================================================================
