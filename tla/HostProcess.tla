----------------------------- MODULE HostProcess -----------------------------
(***************************************************************************)
(* The life of a HOST process (cmd/ulcer-host/main.go): start, serving, the *)
(* orderly stop on a signal, and its end in any other way; with what it     *)
(* leaves on disk (DataDir), the instances it gave credentials to, and      *)
(* their agents (cmd/ulcer-instance, Client.Run), which dial again for ever.*)
(*                                                                          *)
(* What happens on a control stream is in ControlPlane, what a browser sees *)
(* on its event stream in EventBus; here they are what an orderly stop has  *)
(* to wait for.                                                             *)
(***************************************************************************)
EXTENDS DataDir

CONSTANTS
  Agents,    \* instances, each with its agent
  Browsers,  \* clients that keep GET /api/v1/events open
  MaxFaults  \* bound: ends of the process that nobody asked for

ASSUME ProcessConstants ==
  /\ IsFiniteSet(Agents)
  /\ IsFiniteSet(Browsers)
  /\ MaxFaults \in Nat

VARIABLES
  pc,        \* where run() is
  exit,      \* how the last process ended
  deadline,  \* the 10 second context of the stop
  faults,
  ready,     \* auth/operator-ready in the store
  removing,  \* CompleteSetup has committed and not yet removed setup.token
  creds,     \* the credentials that each instance was given
  phase,     \* the phase in the instance's record
  agent,     \* what its agent does
  attached,  \* instances with a control stream in the hub
  marking,   \* instances whose stream has ended and markOffline has not
  watching,  \* browsers with an open event stream
  unmarked,  \* history: a stream of these ended and its mark was lost
  expired    \* the HOST's certificate is past its NotAfter

procVars == <<pc, exit, deadline, faults>>
setupVars == <<ready, removing>>
agentVars == <<creds, phase, agent, attached, marking, unmarked>>
vars == <<dirVars, procVars, setupVars, agentVars, watching, expired>>

\* The HTTP server is up.
Up == {"serving", "draining", "http"}
Stopping == {"draining", "http"}

\* Credentials: who signed the instance's certificate, which authority it was
\* given as ca.crt, and which name its agent expects of the HOST.
Credentials == [signer : Nat, root : Nat, name : Names \cup {NoName}]
NoCredentials == [signer |-> 0, root |-> 0, name |-> NoName]
Enrolled == {a \in Agents : creds[a] # NoCredentials}

TypeOK ==
  /\ DirTypeOK
  /\ pc \in {"down", "starting"} \cup Up
  /\ exit \in {"never", "ok", "late", "error", "killed"}
  /\ deadline \in {"off", "running", "past"}
  /\ faults \in 0..MaxFaults
  /\ ready \in BOOLEAN
  /\ removing \in BOOLEAN
  /\ creds \in [Agents -> Credentials]
  /\ phase \in [Agents -> {"none", "enrolled", "connected", "offline"}]
  /\ agent \in [Agents -> {"none", "dialing", "connected", "waiting"}]
  /\ attached \subseteq Agents
  /\ marking \subseteq Agents
  /\ watching \subseteq Browsers
  /\ unmarked \subseteq Agents
  /\ expired \in BOOLEAN

Init ==
  /\ DirInit
  /\ pc = "down"
  /\ exit = "never"
  /\ deadline = "off"
  /\ faults = 0
  /\ ready = FALSE
  /\ removing = FALSE
  /\ creds = [a \in Agents |-> NoCredentials]
  /\ phase = [a \in Agents |-> "none"]
  /\ agent = [a \in Agents |-> "none"]
  /\ attached = {}
  /\ marking = {}
  /\ watching = {}
  /\ unmarked = {}
  /\ expired = FALSE

-----------------------------------------------------------------------------
(***************************************************************************)
(* The end of the process.                                                  *)
(***************************************************************************)
\* An agent whose stream breaks waits and dials again: the status is neither
\* Unauthenticated nor PermissionDenied.
Broken == [a \in Agents |-> IF a \in attached THEN "waiting" ELSE agent[a]]

\* Streams and handlers end with the process, and nobody marks their records.
Exit(how) ==
  /\ pc' = "down"
  /\ exit' = how
  /\ deadline' = "off"
  /\ removing' = FALSE
  /\ attached' = {}
  /\ marking' = {}
  /\ watching' = {}
  /\ agent' = Broken
  /\ Forget
  /\ UNCHANGED <<fileVars, keys, name, ready, creds, phase, expired>>

\* A start that cannot read a pair returns the error.
StartFails ==
  /\ pc = "starting"
  /\ step = "failed"
  /\ Exit("error")
  /\ UNCHANGED <<faults, unmarked>>

\* SIGKILL, a panic or a lost machine, at any point; a failed write or Listen
\* during the start.  Once a stop was asked for, nobody starts the process again
\* by itself.
Killed ==
  /\ pc # "down"
  /\ faults < MaxFaults
  /\ faults' = faults + 1
  /\ Exit(IF pc \in Stopping THEN "late" ELSE "killed")
  /\ unmarked' = unmarked \cup attached \cup marking

\* SIGINT or SIGTERM before NotifyContext ends the process as it is by default,
\* which systemd takes for a clean end.
Interrupted ==
  /\ pc = "starting"
  /\ faults < MaxFaults
  /\ faults' = faults + 1
  /\ Exit("ok")
  /\ UNCHANGED unmarked

\* One server stops with an error: run returns it at once, without stopping
\* the other.
ServeFails ==
  /\ pc = "serving"
  /\ faults < MaxFaults
  /\ faults' = faults + 1
  /\ Exit("error")
  /\ unmarked' = unmarked \cup attached \cup marking

-----------------------------------------------------------------------------
(***************************************************************************)
(* Start and stop.                                                          *)
(***************************************************************************)
\* HostFromEnv, MkdirAll, store.Open.  The environment file may be another one
\* than last time.
Start ==
  /\ pc = "down"
  /\ pc' = "starting"
  /\ name' \in Names
  /\ BeginStages(ready)
  /\ UNCHANGED <<fileVars, keys, exit, deadline, faults, setupVars, agentVars,
                 watching, expired>>

\* systemd's Restart=on-failure.
Restart == exit \in {"error", "killed"} /\ Start

StartStep ==
  /\ pc = "starting"
  /\ Ensure
  /\ UNCHANGED <<procVars, setupVars, agentVars, watching, expired>>

\* Both listeners are open and both servers run.
Serve ==
  /\ pc = "starting"
  /\ step = "done"
  /\ pc' = "serving"
  /\ UNCHANGED <<dirVars, exit, deadline, faults, setupVars, agentVars,
                 watching, expired>>

\* SIGINT or SIGTERM: the 10 seconds begin and GracefulStop closes the gRPC
\* listener.  A second signal changes nothing.
Signal ==
  /\ pc = "serving"
  /\ pc' = "draining"
  /\ deadline' = "running"
  /\ UNCHANGED <<dirVars, exit, faults, setupVars, agentVars, watching,
                 expired>>

\* The context of the stop ends, whoever looks at it.
DeadlinePasses ==
  /\ deadline = "running"
  /\ deadline' = "past"
  /\ UNCHANGED <<dirVars, pc, exit, faults, setupVars, agentVars, watching,
                 expired>>

\* Mutant: Stop instead of GracefulStop.
DrainedAlways == TRUE

\* GracefulStop waits for every handler of a control stream, its deferred
\* markOffline included, and for as long as that takes.
Drained == attached = {} /\ marking = {}

GracefulStop ==
  /\ pc = "draining"
  /\ Drained
  /\ pc' = "http"
  /\ UNCHANGED <<dirVars, exit, deadline, faults, setupVars, agentVars,
                 watching, expired>>

\* Mutant: Shutdown is given a context that does not end.
TimeUpNever == FALSE

TimeUp == deadline = "past"

\* httpServer.Shutdown returns once the connections are idle, or with its
\* context; an event stream is never idle.  Then the store is closed.
Shutdown ==
  /\ pc = "http"
  /\ \/ watching = {} /\ Exit("ok")
     \/ watching # {} /\ TimeUp /\ Exit("late")
  /\ UNCHANGED <<faults, unmarked>>

-----------------------------------------------------------------------------
(***************************************************************************)
(* What a HOST does while it is up.                                         *)
(***************************************************************************)
\* Setup is completed with the token in memory; the file is removed after the
\* transaction.
CompleteSetup ==
  /\ pc \in Up
  /\ ~ready
  /\ token # 0
  /\ ready' = TRUE
  /\ token' = 0
  /\ removing' = TRUE
  /\ UNCHANGED <<fileVars, startVars, keys, name, procVars, agentVars,
                 watching, expired>>

RemoveToken ==
  /\ removing
  /\ removing' = FALSE
  /\ exists' = exists \ {"setup.token"}
  /\ disk' = [disk EXCEPT !["setup.token"] = Blank]
  /\ UNCHANGED <<startVars, keys, name, token, procVars, ready, agentVars,
                 watching, expired>>

\* An operator's request: IssueInstanceFiles with the authority that was loaded,
\* the record, and an agent that is installed with them.
Enroll(a) ==
  /\ pc \in Up
  /\ ready
  /\ a \notin Enrolled
  /\ creds' = [creds EXCEPT ![a] =
                 [signer |-> disk["ca.key"].key, root |-> disk["ca.crt"].key,
                  name |-> name]]
  /\ phase' = [phase EXCEPT ![a] = "enrolled"]
  /\ agent' = [agent EXCEPT ![a] = "dialing"]
  /\ UNCHANGED <<dirVars, procVars, setupVars, attached, marking, unmarked,
                 watching, expired>>

Watch(b) ==
  /\ pc \in {"serving", "draining"}
  /\ ready
  /\ b \notin watching
  /\ watching' = watching \cup {b}
  /\ UNCHANGED <<dirVars, procVars, setupVars, agentVars, expired>>

Unwatch(b) ==
  /\ b \in watching
  /\ watching' = watching \ {b}
  /\ UNCHANGED <<dirVars, procVars, setupVars, agentVars, expired>>

\* One year after it was issued; Ensure does not look.
Expire ==
  /\ Whole("host.crt")
  /\ ~expired
  /\ expired' = TRUE
  /\ UNCHANGED <<dirVars, procVars, setupVars, agentVars, watching>>

-----------------------------------------------------------------------------
(***************************************************************************)
(* Agents.                                                                  *)
(***************************************************************************)
\* The HOST verifies the agent's certificate with its authority, the agent the
\* HOST's with the ca.crt and for the name it was given.
Fits(a) ==
  /\ a \in Enrolled
  /\ creds[a].signer = disk["ca.crt"].key
  /\ creds[a].root = disk["host.crt"].signer
  /\ creds[a].name = disk["host.crt"].name

Handshake(a) == pc = "serving" /\ Fits(a) /\ ~expired

Connect(a) ==
  /\ agent[a] = "dialing"
  /\ Handshake(a)
  /\ agent' = [agent EXCEPT ![a] = "connected"]
  /\ attached' = attached \cup {a}
  /\ phase' = [phase EXCEPT ![a] = "connected"]
  /\ unmarked' = unmarked \ {a}
  /\ UNCHANGED <<dirVars, procVars, setupVars, creds, marking, watching,
                 expired>>

\* Mutant: any error of the stream is taken for a rejected identity.
AfterFailureStops == "none"

\* Run waits and dials again.
AfterFailure == "waiting"

DialFails(a) ==
  /\ agent[a] = "dialing"
  /\ ~Handshake(a)
  /\ agent' = [agent EXCEPT ![a] = AfterFailure]
  /\ UNCHANGED <<dirVars, procVars, setupVars, creds, phase, attached, marking,
                 unmarked, watching, expired>>

\* The backoff is over.
Redial(a) ==
  /\ agent[a] = "waiting"
  /\ agent' = [agent EXCEPT ![a] = "dialing"]
  /\ UNCHANGED <<dirVars, procVars, setupVars, creds, phase, attached, marking,
                 unmarked, watching, expired>>

\* The stream breaks and the hub detaches it.
Leave(a) ==
  /\ a \in attached \ marking
  /\ attached' = attached \ {a}
  /\ marking' = marking \cup {a}
  /\ agent' = [agent EXCEPT ![a] = "waiting"]
  /\ UNCHANGED <<dirVars, procVars, setupVars, creds, phase, unmarked, watching,
                 expired>>

\* markOffline commits, or meets a conflict and gives up.  An agent that is
\* back already has the mark put over its new phase.
MarkOffline(a) ==
  /\ a \in marking
  /\ marking' = marking \ {a}
  /\ \/ phase' = [phase EXCEPT ![a] = "offline"] /\ UNCHANGED unmarked
     \/ unmarked' = unmarked \cup {a} /\ UNCHANGED phase
  /\ UNCHANGED <<dirVars, procVars, setupVars, creds, agent, attached, watching,
                 expired>>

-----------------------------------------------------------------------------
Stop == GracefulStop \/ Shutdown

Next ==
  \/ Start \/ StartStep \/ StartFails \/ Serve \/ Signal \/ DeadlinePasses
  \/ Stop \/ Killed \/ Interrupted \/ ServeFails
  \/ CompleteSetup \/ RemoveToken \/ Expire
  \/ \E a \in Agents :
       \/ Enroll(a) \/ Connect(a) \/ DialFails(a) \/ Redial(a) \/ Leave(a)
       \/ MarkOffline(a)
  \/ \E b \in Browsers : Watch(b) \/ Unwatch(b)

Spec == Init /\ [][Next]_vars

\* run goes on, time passes, systemd restarts what failed, handlers return,
\* agents dial.  Nobody has to send a signal, leave a stream or a page.
FairSpec ==
  /\ Spec
  /\ WF_vars(StartStep) /\ WF_vars(StartFails) /\ WF_vars(Serve)
  /\ WF_vars(Restart) /\ WF_vars(DeadlinePasses) /\ WF_vars(Stop)
  /\ \A a \in Agents :
       /\ WF_vars(Connect(a)) /\ WF_vars(DialFails(a)) /\ WF_vars(Redial(a))
       /\ WF_vars(MarkOffline(a))

-----------------------------------------------------------------------------
(***************************************************************************)
(* Properties.                                                              *)
(***************************************************************************)
\* How far a start is, and what it has found or written up to there.
StartInv ==
  /\ \A f \in Files \ exists : disk[f] = Blank
  /\ pc = "down" <=> step = "idle"
  /\ pc \in Up => step = "done"
  /\ removing => pc \in Up
  /\ step = "done" => stage = "host" /\ Whole("host.key")
  /\ stage = "host" => Whole("ca.key")
  /\ step \in {"crt.open", "crt.write", "key.open", "key.write"} =>
       /\ made.key # 0
       /\ stage = "ca" => made.signer = made.key
       /\ stage = "host" => made.signer = disk["ca.crt"].key
  /\ step \in {"crt.open", "crt.write"} => ~Whole(Crt[stage])
  /\ step \in {"key.open", "key.write"} =>
       /\ stage # "token"
       /\ Whole(Crt[stage]) /\ disk[Crt[stage]] = made
       /\ ~Whole(Key[stage])
  /\ step = "crt.write" => Crt[stage] \in exists
  /\ step = "key.write" => Key[stage] \in exists

\* The files agree with each other whenever the process ends, in the middle of
\* writing too; a HOST that serves has read whole pairs; and every credential
\* that any run gave out is of the authority on disk.
IdentityIsWhole ==
  /\ FilesAgree
  /\ pc \in Up => Whole("ca.key") /\ Whole("host.key")
  /\ \A a \in Enrolled :
       /\ Whole("ca.key") /\ Whole("host.key")
       /\ creds[a].signer = disk["ca.crt"].key
       /\ creds[a].root = disk["ca.crt"].key

\* IdentityIsWhole with the types and what makes it inductive.
HostInv == TypeOK /\ StartInv /\ IdentityIsWhole

\* Nothing that a HOST handed out loses its worth by a restart, with whatever
\* public name and after whatever end: an instance whose credentials fit keeps
\* fitting, and the setup token an operator has read from the file stays the
\* one that is accepted until the setup is completed.
HandedOutStands ==
  [][/\ \A a \in Agents : Fits(a) => Fits(a)'
     /\ Whole("setup.token") /\ ~ready' =>
          /\ disk'["setup.token"] = disk["setup.token"]
          /\ pc' \in Up => token' = disk["setup.token"].key]_vars

\* A record that says connected with no stream behind it is the trace of a
\* process that was killed or of a mark that met a conflict: an orderly stop
\* waits for every stream and every mark before it turns to the HTTP server
\* and closes the store.
OfflineIsRecorded ==
  /\ pc \notin {"serving", "draining"} => attached = {} /\ marking = {}
  /\ \A a \in Agents :
       phase[a] = "connected" => a \in attached \cup marking \cup unmarked

\* After any failure the HOST is restarted and serves again, unless a signal
\* stops it first or the process ended while it wrote a pair: that pair is never
\* made again nor repaired, and no start gets past it.
ComesUp ==
  (pc = "down" /\ exit \in {"error", "killed"}) ~>
    (pc = "serving" \/ (pc = "down" /\ (exit = "ok" \/ Torn)))

\* Only an agent that stays attached can keep an orderly stop from ending, and
\* it can do so for ever; open pages cannot.
HeldOnlyByAgents ==
  <>[](pc \in Stopping) => <>[](pc = "draining" /\ attached # {})

\* An agent finds back to every HOST that serves, however often and long it was
\* away, while its credentials fit and the HOST's certificate is valid.
AgentReturns ==
  \A a \in Agents :
    []<>(a \in attached \/ ~Handshake(a))
=============================================================================
