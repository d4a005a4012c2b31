--------------------------- MODULE ReconcileProofs ---------------------------
(***************************************************************************)
(* Proofs about Reconcile: for every set of requests, streams and digests,  *)
(* every queue capacity and every number of faults, a generation names one  *)
(* digest, the HOST refuses no status of the agent, and the agent never     *)
(* applies an older generation.                                             *)
(***************************************************************************)
EXTENDS Reconcile, SequenceTheorems, TLAPS

(***************************************************************************)
(* Copies of versions.  Holds(A) says that every place of the system that   *)
(* can hold a version holds one of A; no step makes a version up, except    *)
(* SetDesired, which makes desired'.                                        *)
(***************************************************************************)
Holds(A) ==
  /\ desired \in A
  /\ applied \in A
  /\ agent \in A
  /\ req \in [Updates -> [pc : {"idle", "send", "done"}, msg : A]]
  /\ snap \in [Streams -> A]
  /\ queue \in [Streams -> Seq(A)]
  /\ down \in [Streams -> Seq(A)]
  /\ up \in [Streams -> Seq(A)]

\* The part of TypeOK about everything else.
ControlOK ==
  /\ attached \in Streams \cup {Nobody}
  /\ pc \in [Streams -> {"idle", "hello", "activate", "snapshot", "loop",
                         "detach", "ended"}]
  /\ open \in SUBSET Streams
  /\ \A s \in Streams : Len(queue[s]) <= QueueCap
  /\ agentOn \in Streams \cup {Nobody}
  /\ faults \in 0..MaxFaults

\* A set of versions in which a generation has one digest.
Coherent(A) == \A v, w \in A : v.gen = w.gen => v.digest = w.digest

\* The inductive invariant.  Zero belongs to it although no place may hold it:
\* a restart of either side brings it back.
ReconcileInv ==
  /\ TypeOK
  /\ Coherent(Versions \cup {Zero})
  /\ \A v \in Versions : v.gen <= desired.gen

\* A sequence over A is a sequence over the elements it has.
LEMMA SeqOverRange ==
  ASSUME NEW A, NEW B, NEW q \in Seq(A), Range(q) \subseteq B
  PROVE  q \in Seq(B)
  BY DEF Range

\* TypeOK separates into the versions and the rest.
LEMMA TypeSplits == TypeOK <=> Holds(Version) /\ ControlOK
  BY DEF TypeOK, Holds, ControlOK

\* Under the types, to hold versions of A only is to have Versions in A.
LEMMA HoldsIsVersions ==
  ASSUME TypeOK, NEW A
  PROVE  Holds(A) <=> Versions \subseteq A
<1>1. ASSUME Versions \subseteq A
      PROVE  Holds(A)
  <2>1. desired \in A /\ applied \in A /\ agent \in A
    BY <1>1 DEF Versions
  <2>2. \A u \in Updates : req[u].msg \in A
    BY <1>1 DEF Versions
  <2>3. req \in [Updates -> [pc : {"idle", "send", "done"}, msg : A]]
    BY <2>2 DEF TypeOK
  <2>4. snap \in [Streams -> A]
    BY <1>1 DEF Versions, TypeOK
  <2>5. \A s \in Streams : /\ Range(queue[s]) \subseteq A
                           /\ Range(down[s]) \subseteq A
                           /\ Range(up[s]) \subseteq A
    BY <1>1 DEF Versions
  <2>6. \A s \in Streams : /\ queue[s] \in Seq(A)
                           /\ down[s] \in Seq(A)
                           /\ up[s] \in Seq(A)
    BY <2>5, SeqOverRange DEF TypeOK
  <2>7. queue \in [Streams -> Seq(A)] /\ down \in [Streams -> Seq(A)]
          /\ up \in [Streams -> Seq(A)]
    BY <2>6 DEF TypeOK
  <2> QED BY <2>1, <2>3, <2>4, <2>7 DEF Holds
<1>2. ASSUME Holds(A)
      PROVE  Versions \subseteq A
  <2>1. \A u \in Updates : req[u].msg \in A
    BY <1>2 DEF Holds
  <2>2. \A s \in Streams : snap[s] \in A
    BY <1>2 DEF Holds
  <2>3. \A s \in Streams : /\ queue[s] \in Seq(A)
                           /\ down[s] \in Seq(A)
                           /\ up[s] \in Seq(A)
    BY <1>2 DEF Holds
  <2>4. \A q \in Seq(A) : Range(q) \subseteq A
    BY DEF Range
  <2> QED BY <1>2, <2>1, <2>2, <2>3, <2>4 DEF Holds, Versions
<1> QED BY <1>1, <1>2

-----------------------------------------------------------------------------
(***************************************************************************)
(* One step.                                                                *)
(***************************************************************************)
\* Taking the first of a sequence over A and appending one of A.
LEMMA SeqFacts ==
  ASSUME NEW A, NEW q \in Seq(A)
  PROVE  /\ \A e \in A : /\ Append(q, e) \in Seq(A)
                         /\ Len(Append(q, e)) = Len(q) + 1
         /\ q # <<>> => /\ Head(q) \in A
                        /\ Head(q) \in Range(q)
                        /\ Tail(q) \in Seq(A)
                        /\ Len(Tail(q)) = Len(q) - 1
         /\ <<>> \in Seq(A)
         /\ Len(q) \in Nat
  BY DEF Range

\* What setDesired writes is the record it read, or the next generation.
LEMMA DesiredStep ==
  ASSUME TypeOK, Next
  PROVE  \/ desired' = desired
         \/ desired' \in Version /\ desired'.gen = desired.gen + 1
<1>1. CASE \E u \in Updates, g \in Digests : SetDesired(u, g)
  BY <1>1 DEF SetDesired, NextVersion, TypeOK, Version
<1>2. CASE \E u \in Updates : HubSend(u)
  BY <1>2 DEF HubSend, Overflow
<1>3. CASE \E s \in Streams : Handler(s)
  BY <1>3 DEF Handler, Hello, Activate, SendSnapshot, Outbound, HandleStatus,
              StreamEnds, Detach
<1>4. CASE \E s \in Streams : Dial(s) \/ AgentReceive(s) \/ Heartbeat(s)
                                \/ AgentLeaves(s) \/ Conflict(s)
  BY <1>4 DEF Dial, AgentReceive, Heartbeat, AgentLeaves, Conflict
<1>5. CASE Drop \/ AgentRestart \/ HostRestart
  BY <1>5 DEF Drop, AgentRestart, HostRestart
<1> QED BY <1>1, <1>2, <1>3, <1>4, <1>5 DEF Next

\* No step puts into any place a version that is not one the system held, the
\* new record or Zero.
LEMMA HoldsStep ==
  ASSUME NEW A, Holds(A), Zero \in A, desired' \in A, Next,
         attached \in Streams \cup {Nobody}, open \subseteq Streams
  PROVE  Holds(A)'
<1> USE DEF Holds
<1>1. ASSUME NEW u \in Updates, NEW g \in Digests, SetDesired(u, g)
      PROVE  Holds(A)'
  BY <1>1 DEF SetDesired, hubVars, wireVars, agentVars
<1>2. ASSUME NEW u \in Updates, HubSend(u)
      PROVE  Holds(A)'
  <2>1. req[u].msg \in A
    OBVIOUS
  <2>2. req' \in [Updates -> [pc : {"idle", "send", "done"}, msg : A]]
    BY <1>2 DEF HubSend, Overflow
  <2>3. ASSUME attached \in open
        PROVE  attached \in Streams /\ Append(queue[attached], req[u].msg) \in Seq(A)
    BY <2>1, <2>3, SeqFacts
  <2>4. queue' \in [Streams -> Seq(A)]
    BY <1>2, <2>3 DEF HubSend, Overflow
  <2> QED BY <1>2, <2>2, <2>4 DEF HubSend, Overflow, wireVars, agentVars
<1>3. ASSUME NEW s \in Streams, Hello(s) \/ Activate(s) \/ StreamEnds(s) \/ Detach(s)
      PROVE  Holds(A)'
  BY <1>3 DEF Hello, Activate, StreamEnds, Detach, hubVars, wireVars, agentVars
<1>4. ASSUME NEW s \in Streams, SendSnapshot(s)
      PROVE  Holds(A)'
  <2>1. Append(down[s], snap[s]) \in Seq(A)
    BY SeqFacts
  <2> QED BY <1>4, <2>1 DEF SendSnapshot, hubVars, agentVars
<1>5. ASSUME NEW s \in Streams, Outbound(s)
      PROVE  Holds(A)'
  <2>1. Head(queue[s]) \in A /\ Tail(queue[s]) \in Seq(A)
    BY <1>5, SeqFacts DEF Outbound
  <2>2. Append(down[s], Head(queue[s])) \in Seq(A)
    BY <2>1, SeqFacts
  <2> QED BY <1>5, <2>1, <2>2 DEF Outbound, agentVars
<1>6. ASSUME NEW s \in Streams, HandleStatus(s)
      PROVE  Holds(A)'
  <2>1. Head(up[s]) \in A /\ Tail(up[s]) \in Seq(A)
    BY <1>6, SeqFacts DEF HandleStatus
  <2>2. up' \in [Streams -> Seq(A)] /\ applied' \in A
    BY <1>6, <2>1 DEF HandleStatus
  <2> QED BY <1>6, <2>2 DEF HandleStatus, hubVars, agentVars
<1>7. ASSUME NEW s \in Streams, Dial(s)
      PROVE  Holds(A)'
  BY <1>7 DEF Dial
<1>8. ASSUME NEW s \in Streams, AgentReceive(s)
      PROVE  Holds(A)'
  <2>1. Head(down[s]) \in A /\ Tail(down[s]) \in Seq(A)
    BY <1>8, SeqFacts DEF AgentReceive
  <2>2. Append(up[s], Head(down[s])) \in Seq(A)
    BY <2>1, SeqFacts
  <2>3. agent' \in A /\ up' \in [Streams -> Seq(A)]
    BY <1>8, <2>1, <2>2 DEF AgentReceive
  <2> QED BY <1>8, <2>1, <2>3 DEF AgentReceive, hubVars
<1>9. ASSUME NEW s \in Streams, Heartbeat(s) \/ AgentLeaves(s)
      PROVE  Holds(A)'
  <2>1. Append(up[s], agent) \in Seq(A)
    BY SeqFacts
  <2> QED BY <1>9, <2>1 DEF Heartbeat, AgentLeaves, hubVars, wireVars, agentVars
<1>10. ASSUME NEW s \in Streams, Conflict(s)
       PROVE  Holds(A)'
  <2>1. up[s] # <<>> => Tail(up[s]) \in Seq(A)
    BY SeqFacts
  <2>2. up' \in [Streams -> Seq(A)]
    BY <1>10, <2>1 DEF Conflict
  <2> QED BY <1>10, <2>2 DEF Conflict, hubVars, agentVars
<1>11. ASSUME Drop \/ AgentRestart
       PROVE  Holds(A)'
  BY <1>11 DEF Drop, AgentRestart, hubVars, wireVars
<1>12. ASSUME HostRestart
       PROVE  Holds(A)'
  <2>1. req' \in [Updates -> [pc : {"idle", "send", "done"}, msg : A]]
    BY <1>12 DEF HostRestart, Idle
  <2> QED BY <1>12, <2>1 DEF HostRestart, agentVars
<1> QED BY <1>1, <1>2, <1>3, <1>4, <1>5, <1>6, <1>7, <1>8, <1>9, <1>10, <1>11,
           <1>12 DEF Next, Handler

\* The types of the control state, and the capacity of the buffers.
LEMMA ControlStep ==
  ASSUME TypeOK, Next
  PROVE  ControlOK'
<1> USE ReconcileConstants DEF TypeOK, ControlOK
<1>1. ASSUME NEW u \in Updates, NEW g \in Digests, SetDesired(u, g)
      PROVE  ControlOK'
  BY <1>1 DEF SetDesired, hubVars, wireVars, agentVars
<1>2. ASSUME NEW u \in Updates, HubSend(u)
      PROVE  ControlOK'
  <2>1. ASSUME attached \in open
        PROVE  /\ attached \in Streams
               /\ Len(Append(queue[attached], req[u].msg)) = Len(queue[attached]) + 1
               /\ Len(queue[attached]) \in Nat
    BY <2>1, SeqFacts
  <2>2. \A s \in Streams : Len(queue'[s]) <= QueueCap
    <3>1. CASE attached \in open /\ HasRoom(attached)
      <4>1. queue' = [queue EXCEPT ![attached] =
                        Append(queue[attached], req[u].msg)]
        BY <1>2, <3>1 DEF HubSend, Overflow
      <4>2. Len(queue[attached]) + 1 <= QueueCap
        BY <2>1, <3>1 DEF HasRoom
      <4> QED BY <2>1, <3>1, <4>1, <4>2
    <3>2. CASE ~(attached \in open /\ HasRoom(attached))
      BY <1>2, <3>2 DEF HubSend, Overflow
    <3> QED BY <3>1, <3>2
  <2> QED BY <1>2, <2>2 DEF HubSend, Overflow, wireVars, agentVars
<1>3. ASSUME NEW s \in Streams,
             \/ Hello(s) \/ Activate(s) \/ StreamEnds(s) \/ Detach(s)
             \/ SendSnapshot(s) \/ HandleStatus(s)
      PROVE  ControlOK'
  BY <1>3 DEF Hello, Activate, StreamEnds, Detach, SendSnapshot, HandleStatus,
              Goto, hubVars, wireVars, agentVars
<1>4. ASSUME NEW s \in Streams, Outbound(s)
      PROVE  ControlOK'
  <2>1. Len(Tail(queue[s])) = Len(queue[s]) - 1 /\ Len(queue[s]) \in Nat
    BY <1>4, SeqFacts DEF Outbound
  <2> QED BY <1>4, <2>1 DEF Outbound, agentVars
<1>5. ASSUME NEW s \in Streams, Dial(s)
      PROVE  ControlOK'
  BY <1>5 DEF Dial, Goto
<1>6. ASSUME NEW s \in Streams,
             AgentReceive(s) \/ Heartbeat(s) \/ AgentLeaves(s)
      PROVE  ControlOK'
  BY <1>6 DEF AgentReceive, Heartbeat, AgentLeaves, hubVars, wireVars,
              agentVars
<1>7. ASSUME NEW s \in Streams, Conflict(s)
      PROVE  ControlOK'
  BY <1>7 DEF Conflict, Fault, Goto, hubVars, agentVars
<1>8. ASSUME Drop \/ AgentRestart \/ HostRestart
      PROVE  ControlOK'
  BY <1>8 DEF Drop, AgentRestart, HostRestart, Fault, hubVars, wireVars,
              agentVars
<1> QED BY <1>1, <1>2, <1>3, <1>4, <1>5, <1>6, <1>7, <1>8 DEF Next, Handler

-----------------------------------------------------------------------------
(***************************************************************************)
(* The invariant and what follows from it.                                  *)
(***************************************************************************)
LEMMA ReconcileInvInit == Init => ReconcileInv
<1> SUFFICES ASSUME Init PROVE ReconcileInv
  OBVIOUS
<1>1. TypeOK
  BY ReconcileConstants DEF Init, TypeOK, Version, Zero, Idle
<1>2. Holds({Zero})
  BY DEF Init, Holds, Idle
<1>3. Versions \subseteq {Zero}
  BY <1>1, <1>2, HoldsIsVersions
<1> QED BY <1>1, <1>3 DEF ReconcileInv, Coherent, Init, Zero

\* Every step keeps the invariant: its versions are old ones or the new record.
LEMMA ReconcileInvStep == ReconcileInv /\ [Next]_vars => ReconcileInv'
<1> SUFFICES ASSUME ReconcileInv, [Next]_vars PROVE ReconcileInv'
  OBVIOUS
<1>1. CASE UNCHANGED vars
  <2>1. TypeOK' = TypeOK /\ Versions' = Versions /\ desired' = desired
    BY <1>1 DEF TypeOK, Versions, vars, hubVars, wireVars, agentVars
  <2> QED BY <2>1 DEF ReconcileInv, Coherent
<1>2. CASE Next
  <2>1. TypeOK /\ Zero \in Version
    BY DEF ReconcileInv, Zero, Version
  <2>2. PICK A : A = Versions \cup {Zero, desired'}
    OBVIOUS
  <2>3. /\ desired' = desired \/ desired'.gen = desired.gen + 1
        /\ desired' \in Version
    BY <1>2, <2>1, DesiredStep DEF TypeOK
  <2>4. TypeOK'
    <3>1. Holds(Version)'
      BY <1>2, <2>1, <2>3, HoldsStep, TypeSplits DEF TypeOK
    <3>2. ControlOK'
      BY <1>2, <2>1, ControlStep
    <3>3. (Holds(Version) /\ ControlOK)' => TypeOK'
      BY DEF TypeOK, Holds, ControlOK
    <3> QED BY <3>1, <3>2, <3>3
  <2>5. Holds(A)
    BY <2>1, <2>2, HoldsIsVersions
  <2>6. Holds(A)'
    BY <1>2, <2>1, <2>2, <2>5, HoldsStep DEF TypeOK
  <2>7. Versions' \subseteq A
    <3>1. (TypeOK /\ Holds(A) => Versions \subseteq A)'
      BY HoldsIsVersions, PTL
    <3> QED BY <2>4, <2>6, <3>1
  <2>8. \A v \in Versions \cup {Zero} : v \in Version /\ v.gen <= desired.gen
    <3>1. Versions \subseteq Version
      BY <2>1, TypeSplits, HoldsIsVersions
    <3> QED BY <2>1, <3>1 DEF ReconcileInv, Zero, TypeOK, Version
  <2>9. \A v \in A : v.gen <= desired'.gen
    BY <2>1, <2>2, <2>3, <2>8 DEF Version, TypeOK
  <2>10. Coherent(A)
    <3>1. CASE desired' = desired
      <4>1. A = Versions \cup {Zero}
        BY <3>1, <2>2 DEF Versions
      <4> QED BY <4>1 DEF ReconcileInv
    <3>2. CASE desired'.gen = desired.gen + 1
      <4>1. \A v \in Versions \cup {Zero} : v.gen # desired'.gen
        BY <3>2, <2>1, <2>8 DEF Version, TypeOK
      <4> QED BY <4>1, <2>2 DEF ReconcileInv, Coherent
    <3> QED BY <3>1, <3>2, <2>3
  <2> QED BY <2>2, <2>4, <2>7, <2>9, <2>10 DEF ReconcileInv, Coherent
<1> QED BY <1>1, <1>2

\* The inductive invariant holds in every reachable state.
LEMMA ReconcileInvHolds == Spec => []ReconcileInv
  BY ReconcileInvInit, ReconcileInvStep, PTL DEF Spec

\* The checks of handleMessage accept every version that exists anywhere.
LEMMA EveryVersionIsAccepted ==
  ASSUME ReconcileInv, NEW m \in Versions
  PROVE  StatusAccepted(m)
  BY DEF ReconcileInv, Coherent, StatusAccepted, Versions

\* A generation never refers to two digests and no copy is newer than the
\* record, for any number of requests, overlapping streams and restarts; no
\* buffer exceeds its capacity.
THEOREM OneDigest == Spec => []VersionsInv
<1>1. ReconcileInv => VersionsInv
  BY DEF ReconcileInv, VersionsInv, OneDigestPerGeneration, Coherent
<1> QED BY <1>1, ReconcileInvHolds, PTL

\* handleMessage never refuses a status that the agent sent, however late and
\* on whichever stream it is handled.
THEOREM NoStatusRefused == Spec => []StatusesAccepted
<1>1. ReconcileInv => StatusesAccepted
  <2> SUFFICES ASSUME ReconcileInv, NEW s \in Streams, NEW m \in Range(up[s])
               PROVE  StatusAccepted(m)
    BY DEF StatusesAccepted
  <2>1. m \in Versions
    BY DEF Versions
  <2> QED BY <2>1, EveryVersionIsAccepted
<1> QED BY <1>1, ReconcileInvHolds, PTL

\* The agent never applies a generation older than the one it has; only a
\* fault, its own restart, takes it back.
THEOREM NoRegression == Spec => AgentNeverRegresses
<1>1. ReconcileInv /\ [Next]_vars
        => [agent'.gen >= agent.gen \/ faults' > faults]_vars
  <2> SUFFICES ASSUME ReconcileInv, Next
               PROVE  agent'.gen >= agent.gen \/ faults' > faults
    OBVIOUS
  <2>1. agent.gen \in Nat /\ faults \in Nat
    BY ReconcileConstants DEF ReconcileInv, TypeOK, Version
  <2>2. CASE agent' = agent
    BY <2>1, <2>2
  <2>3. CASE AgentRestart
    BY <2>1, <2>3 DEF AgentRestart, Fault
  <2>4. ASSUME NEW s \in Streams, AgentReceive(s)
        PROVE  agent'.gen >= agent.gen
    <3>1. CASE agent' = agent
      BY <2>1, <3>1
    <3>2. CASE agent' # agent
      <4>1. agent' = Head(down[s]) /\ ~Regressed(Head(down[s])) /\ down[s] # <<>>
        BY <2>4, <3>2 DEF AgentReceive
      <4>2. Head(down[s]) \in Version
        BY <4>1, SeqFacts DEF ReconcileInv, TypeOK
      <4> QED BY <2>1, <4>1, <4>2 DEF Regressed, Version
    <3> QED BY <3>1, <3>2
  <2>5. \/ agent' = agent
        \/ AgentRestart
        \/ \E s \in Streams : AgentReceive(s)
    BY DEF Next, Handler, SetDesired, HubSend, Overflow, Hello, Activate,
           SendSnapshot, Outbound, HandleStatus, StreamEnds, Detach, Dial,
           Heartbeat, AgentLeaves, Conflict, Drop, HostRestart, agentVars
  <2> QED BY <2>2, <2>3, <2>4, <2>5
<1> QED BY <1>1, ReconcileInvHolds, PTL DEF Spec, AgentNeverRegresses
=============================================================================
