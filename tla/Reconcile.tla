------------------------------ MODULE Reconcile ------------------------------
(***************************************************************************)
(* Desired-state reconciliation of one instance: setDesired on the HOST     *)
(* (internal/api/api.go), the outbound queue of its connection              *)
(* (internal/control/hub.go), the stream handler (internal/control/         *)
(* server.go) and the agent that applies generations and reports them       *)
(* (internal/instance/client.go and state.go).  ControlPlane covers         *)
(* enrolment, revocation and the phases; here the instance stays enrolled.  *)
(*                                                                          *)
(* A version is a generation with the digest of its spec; the canonical     *)
(* spec always travels with the digest computed from it, so it is left out. *)
(* A store transaction is one step; one that conflicts changes nothing and  *)
(* ends the request, or the stream, that ran it.                            *)
(***************************************************************************)
EXTENDS Naturals, Sequences, SequencesExt, FiniteSets

CONSTANTS
  Updates,    \* PUT .../desired requests
  Digests,    \* digests of the specs they carry
  Streams,    \* control streams that can be alive at the same time
  Nobody,     \* no stream
  NoDigest,   \* the empty digest of generation 0
  QueueCap,   \* hub.go:42, the outbound buffer (16 in the code)
  MaxUp,      \* bound: statuses in flight on one stream
  MaxFaults   \* bound: broken streams and restarts of either side

ASSUME ReconcileConstants ==
  /\ Nobody \notin Streams
  /\ NoDigest \notin Digests
  /\ QueueCap \in Nat \ {0}
  /\ MaxUp \in Nat \ {0}
  /\ MaxFaults \in Nat

VARIABLES
  desired,   \* DesiredGeneration and DesiredDigest of the instance record
  applied,   \* AppliedGeneration and AppliedDigest of the instance record
  req,       \* each request: idle, the version it has to send, or done
  attached,  \* hub.connections[id]
  pc,        \* the handler of each stream
  open,      \* the streams whose connection is not closed
  snap,      \* the record each Connect read with its hello
  queue,     \* connection.messages
  down,      \* sent by the HOST, not yet received by the agent
  up,        \* sent by the agent, not yet handled by the HOST
  agent,     \* the agent's runtimeState
  agentOn,   \* the stream the agent is using
  faults

hubVars == <<attached, open, queue>>
wireVars == <<down, up>>
agentVars == <<agent, agentOn>>
vars == <<desired, applied, req, hubVars, pc, snap, wireVars, agentVars,
          faults>>

Version == [gen : Nat, digest : Digests \cup {NoDigest}]
Zero == [gen |-> 0, digest |-> NoDigest]
Idle == [pc |-> "idle", msg |-> Zero]

TypeOK ==
  /\ desired \in Version
  /\ applied \in Version
  /\ req \in [Updates -> [pc : {"idle", "send", "done"}, msg : Version]]
  /\ attached \in Streams \cup {Nobody}
  /\ pc \in [Streams -> {"idle", "hello", "activate", "snapshot", "loop",
                         "detach", "ended"}]
  /\ open \in SUBSET Streams
  /\ snap \in [Streams -> Version]
  /\ queue \in [Streams -> Seq(Version)]
  /\ \A s \in Streams : Len(queue[s]) <= QueueCap
  /\ down \in [Streams -> Seq(Version)]
  /\ up \in [Streams -> Seq(Version)]
  /\ agent \in Version
  /\ agentOn \in Streams \cup {Nobody}
  /\ faults \in 0..MaxFaults

Init ==
  /\ desired = Zero
  /\ applied = Zero
  /\ req = [u \in Updates |-> Idle]
  /\ attached = Nobody
  /\ pc = [s \in Streams |-> "idle"]
  /\ open = {}
  /\ snap = [s \in Streams |-> Zero]
  /\ queue = [s \in Streams |-> <<>>]
  /\ down = [s \in Streams |-> <<>>]
  /\ up = [s \in Streams |-> <<>>]
  /\ agent = Zero
  /\ agentOn = Nobody
  /\ faults = 0

-----------------------------------------------------------------------------
(***************************************************************************)
(* setDesired: the transaction, then Hub.Send of what it returned.          *)
(***************************************************************************)
Goto(s, l) == pc' = [pc EXCEPT ![s] = l]

\* Mutant: the generation is not advanced when the digest changes.
NextVersionSameGen(v, digest) == [v EXCEPT !.digest = digest]

\* The closure of setDesired: a new digest takes the next generation.
NextVersion(v, digest) ==
  IF v.digest = digest THEN v ELSE [gen |-> v.gen + 1, digest |-> digest]

SetDesired(u, digest) ==
  /\ req[u].pc = "idle"
  /\ desired' = NextVersion(desired, digest)
  /\ req' = [req EXCEPT ![u] = [pc |-> "send", msg |-> desired']]
  /\ UNCHANGED <<applied, hubVars, pc, snap, wireVars, agentVars, faults>>

\* The send of the select in Hub.Send can proceed.
HasRoom(s) == Len(queue[s]) < QueueCap

\* Mutant: a message that finds the buffer full is dropped.
OverflowDrops(s) == open

\* Its default case: the connection is closed.
Overflow(s) == open \ {s}

HubSend(u) ==
  /\ req[u].pc = "send"
  /\ req' = [req EXCEPT ![u] = [pc |-> "done", msg |-> Zero]]
  /\ IF attached \in open
     THEN IF HasRoom(attached)
          THEN /\ queue' = [queue EXCEPT ![attached] = Append(@, req[u].msg)]
               /\ UNCHANGED open
          ELSE open' = Overflow(attached) /\ UNCHANGED queue
     ELSE UNCHANGED <<open, queue>>
  /\ UNCHANGED <<desired, applied, attached, pc, snap, wireVars, agentVars,
                 faults>>

-----------------------------------------------------------------------------
(***************************************************************************)
(* Server.Connect.  A stream is reused once its handler has returned and    *)
(* the agent has left it.                                                   *)
(***************************************************************************)
Dial(s) ==
  /\ agentOn = Nobody
  /\ pc[s] \in {"idle", "ended"}
  /\ agentOn' = s
  /\ Goto(s, "hello")
  /\ down' = [down EXCEPT ![s] = <<>>]
  /\ up' = [up EXCEPT ![s] = <<>>]
  /\ queue' = [queue EXCEPT ![s] = <<>>]
  /\ snap' = [snap EXCEPT ![s] = Zero]
  /\ UNCHANGED <<desired, applied, req, attached, open, agent, faults>>

\* UpdateInstance with the hello; the record it returns is kept for later.
Hello(s) ==
  /\ pc[s] = "hello"
  /\ snap' = [snap EXCEPT ![s] = desired]
  /\ Goto(s, "activate")
  /\ UNCHANGED <<desired, applied, req, hubVars, wireVars, agentVars, faults>>

Activate(s) ==
  /\ pc[s] = "activate"
  /\ attached' = s
  /\ open' = (open \ {attached}) \cup {s}
  /\ Goto(s, "snapshot")
  /\ UNCHANGED <<desired, applied, req, queue, snap, wireVars, agentVars,
                 faults>>

\* Mutant: the first generation is taken for no generation.
HasSpecLate(v) == v.gen > 1

\* There is a desired state to send.
HasSpec(v) == v.gen > 0

SendSnapshot(s) ==
  /\ pc[s] = "snapshot"
  /\ down' = IF HasSpec(snap[s]) THEN [down EXCEPT ![s] = Append(@, snap[s])]
             ELSE down
  /\ Goto(s, "loop")
  /\ UNCHANGED <<desired, applied, req, hubVars, snap, up, agentVars, faults>>

Outbound(s) ==
  /\ pc[s] = "loop"
  /\ s \in open
  /\ queue[s] # <<>>
  /\ down' = [down EXCEPT ![s] = Append(@, Head(queue[s]))]
  /\ queue' = [queue EXCEPT ![s] = Tail(@)]
  /\ UNCHANGED <<desired, applied, req, attached, open, pc, snap, up,
                 agentVars, faults>>

\* Mutant: only the current digest is accepted.
StatusAcceptedExact(m) ==
  /\ m.gen <= desired.gen
  /\ m.gen > 0 => m.digest = desired.digest

\* What the closure of handleMessage accepts.
StatusAccepted(m) ==
  /\ m.gen <= desired.gen
  /\ (m.gen = desired.gen /\ m.gen > 0) => m.digest = desired.digest

\* The select may take a status although the connection is closed.
HandleStatus(s) ==
  /\ pc[s] = "loop"
  /\ up[s] # <<>>
  /\ up' = [up EXCEPT ![s] = Tail(@)]
  /\ IF StatusAccepted(Head(up[s]))
     THEN applied' = Head(up[s]) /\ UNCHANGED pc
     ELSE Goto(s, "detach") /\ UNCHANGED applied
  /\ UNCHANGED <<desired, req, hubVars, snap, down, agentVars, faults>>

\* The connection was closed (replaced, or its buffer overflowed), or the agent
\* left: the handler leaves its loop.
StreamEnds(s) ==
  /\ pc[s] \in {"snapshot", "loop"}
  /\ s \notin open \/ agentOn # s
  /\ Goto(s, "detach")
  /\ UNCHANGED <<desired, applied, req, hubVars, snap, wireVars, agentVars,
                 faults>>

Detach(s) ==
  /\ pc[s] = "detach"
  /\ attached' = IF attached = s THEN Nobody ELSE attached
  /\ open' = open \ {s}
  /\ Goto(s, "ended")
  /\ UNCHANGED <<desired, applied, req, queue, snap, wireVars, agentVars,
                 faults>>

-----------------------------------------------------------------------------
(***************************************************************************)
(* The agent: Client.connect and stateStore.apply.                          *)
(***************************************************************************)
\* Mutant: an older generation is applied like any other.
RegressedNever(m) == FALSE

\* "desired generation regressed"
Regressed(m) == m.gen < agent.gen

\* "digest changed without a new generation"
DigestChanged(m) ==
  m.gen = agent.gen /\ agent.digest # NoDigest /\ m.digest # agent.digest

\* Apply the next message and report; an error ends the stream.
AgentReceive(s) ==
  /\ agentOn = s
  /\ down[s] # <<>>
  /\ down' = [down EXCEPT ![s] = Tail(@)]
  /\ IF Regressed(Head(down[s])) \/ DigestChanged(Head(down[s]))
     THEN agentOn' = Nobody /\ UNCHANGED <<agent, up>>
     ELSE /\ Len(up[s]) < MaxUp
          /\ agent' = Head(down[s])
          /\ up' = [up EXCEPT ![s] = Append(@, Head(down[s]))]
          /\ UNCHANGED agentOn
  /\ UNCHANGED <<desired, applied, req, hubVars, pc, snap, faults>>

Heartbeat(s) ==
  /\ agentOn = s
  /\ Len(up[s]) < MaxUp
  /\ up' = [up EXCEPT ![s] = Append(@, agent)]
  /\ UNCHANGED <<desired, applied, req, hubVars, pc, snap, down, agentVars,
                 faults>>

\* The handler returned: the agent sees the end of the stream, before or after
\* it has read what was sent on it, and dials again.
AgentLeaves(s) ==
  /\ agentOn = s
  /\ pc[s] = "ended"
  /\ agentOn' = Nobody
  /\ UNCHANGED <<desired, applied, req, hubVars, pc, snap, wireVars, agent,
                 faults>>

-----------------------------------------------------------------------------
(***************************************************************************)
(* Faults.                                                                  *)
(***************************************************************************)
Fault == faults < MaxFaults /\ faults' = faults + 1

Drop ==
  /\ Fault
  /\ agentOn # Nobody
  /\ agentOn' = Nobody
  /\ UNCHANGED <<desired, applied, req, hubVars, pc, snap, wireVars, agent>>

\* A conflicting commit: Connect ends with Internal, handleMessage with
\* InvalidArgument, and the status is lost.
Conflict(s) ==
  /\ Fault
  /\ \/ pc[s] = "hello" /\ UNCHANGED up
     \/ pc[s] = "loop" /\ up[s] # <<>> /\ up' = [up EXCEPT ![s] = Tail(@)]
  /\ Goto(s, "detach")
  /\ UNCHANGED <<desired, applied, req, hubVars, snap, down, agentVars>>

\* newStateStore opens an in-memory database: a restart forgets the state.
AgentRestart ==
  /\ Fault
  /\ agent' = Zero
  /\ agentOn' = Nobody
  /\ UNCHANGED <<desired, applied, req, hubVars, pc, snap, wireVars>>

HostRestart ==
  /\ Fault
  /\ req' = [u \in Updates |->
              IF req[u].pc = "idle" THEN Idle ELSE [pc |-> "done", msg |-> Zero]]
  /\ attached' = Nobody
  /\ open' = {}
  /\ queue' = [s \in Streams |-> <<>>]
  /\ pc' = [s \in Streams |-> IF pc[s] = "idle" THEN "idle" ELSE "ended"]
  /\ snap' = [s \in Streams |-> Zero]
  /\ up' = [s \in Streams |-> <<>>]
  /\ UNCHANGED <<desired, applied, down, agentVars>>

-----------------------------------------------------------------------------
Handler(s) ==
  \/ Hello(s) \/ Activate(s) \/ SendSnapshot(s) \/ Outbound(s)
  \/ HandleStatus(s) \/ StreamEnds(s) \/ Detach(s)

Next ==
  \/ \E u \in Updates : HubSend(u) \/ \E g \in Digests : SetDesired(u, g)
  \/ \E s \in Streams :
       Handler(s) \/ Dial(s) \/ AgentReceive(s) \/ Heartbeat(s)
         \/ AgentLeaves(s) \/ Conflict(s)
  \/ Drop \/ AgentRestart \/ HostRestart

Spec == Init /\ [][Next]_vars

\* Goroutines run, the select of Go picks a ready case at random, so none of
\* its cases is passed over for ever; messages on a live stream arrive; the
\* agent redials and its ticker ticks.  Requests and faults need not happen.
Fairness ==
  /\ \A u \in Updates : WF_vars(HubSend(u))
  /\ \A s \in Streams :
       /\ WF_vars(Hello(s) \/ Activate(s) \/ SendSnapshot(s) \/ Detach(s))
       /\ SF_vars(Outbound(s))
       /\ SF_vars(HandleStatus(s))
       /\ SF_vars(StreamEnds(s))
       /\ WF_vars(AgentLeaves(s))
       /\ SF_vars(AgentReceive(s))
       /\ WF_vars(Heartbeat(s))
  /\ WF_vars(\E s \in Streams : Dial(s))

FairSpec == Spec /\ Fairness

-----------------------------------------------------------------------------
(***************************************************************************)
(* Properties.                                                              *)
(***************************************************************************)
\* Every version held anywhere: in the record, in requests between commit and
\* send, in snapshots, in buffers, on the wire and in the agent.
Versions ==
  {desired, applied, agent}
    \cup {req[u].msg : u \in Updates}
    \cup {snap[s] : s \in Streams}
    \cup UNION {Range(queue[s]) \cup Range(down[s]) \cup Range(up[s]) :
                  s \in Streams}

\* A generation never refers to two digests (readme.md:76), wherever its copies
\* are and whatever restarted in between, and no copy is newer than the record.
OneDigestPerGeneration ==
  \A v, w \in Versions :
    /\ v.gen = w.gen => v.digest = w.digest
    /\ v.gen <= desired.gen

\* The same with the types: no buffer holds more than QueueCap messages.
VersionsInv == TypeOK /\ OneDigestPerGeneration

\* A status of the agent is never refused with InvalidArgument: however late it
\* is handled, and on whichever of two overlapping streams, the checks of
\* handleMessage accept it.
StatusesAccepted ==
  \A s \in Streams : \A m \in Range(up[s]) : StatusAccepted(m)

\* The agent never steps back to an older generation while it runs, although
\* two requests may send their generations in the wrong order and a stale
\* snapshot may follow a newer message: only a restart resets it.
AgentNeverRegresses ==
  [][agent'.gen >= agent.gen \/ faults' > faults]_vars

\* What is in the buffer of the agent's stream, or is about to be sent while that
\* stream is attached, reaches the agent unless the stream ends: a send that
\* finds the buffer full ends it, so that no stream lives on without a message.
DeliveredIsApplied ==
  \A s \in Streams : \A n \in 1..Cardinality(Updates) :
    (/\ agentOn = s
     /\ \/ \E m \in Range(queue[s]) : m.gen = n
        \/ attached = s /\ s \in open
             /\ \E u \in Updates : req[u].pc = "send" /\ req[u].msg.gen = n)
      ~> (agent.gen >= n \/ agentOn # s)

\* A stream whose hello read the current record brings the agent up to date,
\* unless the record changes again or the stream ends: a lost delivery heals
\* at the next reconnect.
ReconnectConverges ==
  \A s \in Streams :
    (agentOn = s /\ pc[s] = "activate" /\ snap[s] = desired)
      ~> (agent = desired \/ snap[s] # desired \/ agentOn # s)

\* The agent ends up with the desired state (readme.md:80, level-triggered):
\* once the requests are over, desired and applied agree for ever.
Converges == <>[](agent = desired)
=============================================================================
