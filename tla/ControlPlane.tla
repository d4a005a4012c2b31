---------------------------- MODULE ControlPlane ----------------------------
(***************************************************************************)
(* The life of one enrolled instance on the HOST: the connection hub        *)
(* (internal/control/hub.go), the handler of its control stream             *)
(* (internal/control/server.go), the REST handlers that create it, change   *)
(* its desired state and delete it (internal/api/api.go), the instance      *)
(* record in Badger (internal/store/store.go) and the way the agent reacts  *)
(* to the end of a stream (internal/instance/client.go).                    *)
(*                                                                          *)
(* Every map of the hub and every store key used here is indexed by the     *)
(* instance id and no operation touches two ids, so the module fixes one.   *)
(* What the other ids do shows up in two places only: an event append or a  *)
(* meter transaction may conflict with theirs on a key they share.          *)
(*                                                                          *)
(* One step is one critical section of hub.mu, one read of the store or one *)
(* commit.  The sections that run store calls while they hold hub.mu        *)
(* (IfNotRevoked) are several steps with mu held in between.                *)
(***************************************************************************)
EXTENDS Integers, FiniteSets

CONSTANTS
  Streams,         \* control streams that can be alive at the same time
  Deletes,         \* DELETE /api/v1/instances/{id} requests
  Updates,         \* PUT .../desired requests
  Creator,         \* the POST /api/v1/instances request
  Nobody,          \* no stream, no lock holder
  Kinds,           \* what the agent sends: "status", "meters"
  QueueCap,        \* hub.go:42, the outbound buffer (16 in the code)
  DeleteAttempts,  \* store.go:207, tries of DeleteInstance (8 in the code)
  MaxDrops,        \* bound: streams the network breaks
  MaxCrashes       \* bound: restarts of the HOST process

Procs == Streams \cup Deletes \cup Updates \cup {Creator}

ASSUME ProcsDisjoint ==
  /\ Streams \cap Deletes = {}
  /\ Streams \cap Updates = {}
  /\ Deletes \cap Updates = {}
  /\ Creator \notin Streams \cup Deletes \cup Updates
  /\ Nobody \notin Procs

ASSUME DeletesFinite == IsFiniteSet(Deletes)

ASSUME KindsKnown == Kinds \subseteq {"status", "meters"}

ASSUME BoundsAreNat ==
  /\ QueueCap \in Nat \ {0}
  /\ DeleteAttempts \in Nat \ {0}
  /\ MaxDrops \in Nat
  /\ MaxCrashes \in Nat

Absent == "absent"

\* model.Instance.Phase; "reported" stands for what the agent reports
\* ("idle", "stopped", "unsupported").
Phases == {"enrolled", "connected", "offline", "reported"}

Guarded == {"connected", "status", "traffic", "disconnected", "desired"}
Events == Guarded \cup {"enrolled", "deleted"}

VARIABLES
  record,    \* store: the phase in the instance record, or Absent
  fresh,     \* processes whose transaction read the record's last version
  mu,        \* hub.mu while it is held across steps
  blocked,   \* hub.blocked[id]
  attached,  \* hub.connections[id]: the stream whose connection it is
  pending,   \* hub.pending[id]: the streams that hold a reservation
  conn,      \* the connection of each stream: none, open or closed
  queue,     \* messages buffered in connection.messages
  pc,        \* where each handler is
  op,        \* what a stream handler is doing: hello, status, meters, outbound
  denied,    \* handlers that are about to return PermissionDenied
  tries,     \* conflicts a DeleteInstance has met
  inbox,     \* message of the agent on each stream, not yet handled
  agentOn,   \* the stream the agent is using
  stopped,   \* client.Run returned ErrIdentityRejected
  late,      \* history: events appended when the record was already gone
  drops,
  crashes

hubVars == <<blocked, attached, pending, conn, queue>>
storeVars == <<record, fresh>>
agentVars == <<inbox, agentOn, stopped, drops>>
vars == <<storeVars, mu, hubVars, pc, op, denied, tries, agentVars, late,
          crashes>>
aux == <<tries, late, crashes>>

\* The processes that run UpdateInstance and publish if enrolled.
Publishers == Streams \cup Updates

StreamPcs ==
  {"idle", "reserve", "read", "commit", "lookup", "cancel", "activate",
   "pubLock", "pubCheck", "pubAppend", "abort", "send", "top", "select",
   "detach", "offLock", "offRead", "offCommit", "offAppend"}
DeletePcs ==
  {"idle", "revoke", "delRead", "delCommit", "delPublish", "release", "done"}
UpdatePcs ==
  {"idle", "read", "commit", "lookup", "hubSend", "pubLock", "pubCheck",
   "pubAppend", "done"}
CreatorPcs == {"idle", "put", "done", "lost"}

TypeOK ==
  /\ record \in Phases \cup {Absent}
  /\ fresh \in SUBSET Procs
  /\ mu \in Procs \cup {Nobody}
  /\ blocked \in Int
  /\ attached \in Streams \cup {Nobody}
  /\ pending \in SUBSET Streams
  /\ conn \in [Streams -> {"none", "open", "closed"}]
  /\ queue \in [Streams -> 0..QueueCap]
  /\ pc \in [Procs -> StreamPcs \cup DeletePcs \cup UpdatePcs \cup CreatorPcs]
  /\ \A s \in Streams : pc[s] \in StreamPcs
  /\ \A d \in Deletes : pc[d] \in DeletePcs
  /\ \A u \in Updates : pc[u] \in UpdatePcs
  /\ pc[Creator] \in CreatorPcs
  /\ op \in [Publishers ->
              {"hello", "status", "meters", "outbound", "desired"}]
  /\ \A s \in Streams : op[s] # "desired"
  /\ \A u \in Updates : op[u] = "desired"
  /\ denied \in SUBSET Streams
  /\ tries \in [Deletes -> 0..DeleteAttempts]
  /\ inbox \in [Streams -> {"none"} \cup Kinds]
  /\ agentOn \in Streams \cup {Nobody}
  /\ stopped \in BOOLEAN
  /\ late \subseteq Events
  /\ drops \in 0..MaxDrops
  /\ crashes \in 0..MaxCrashes

Init ==
  /\ record = Absent
  /\ fresh = {}
  /\ mu = Nobody
  /\ blocked = 0
  /\ attached = Nobody
  /\ pending = {}
  /\ conn = [s \in Streams |-> "none"]
  /\ queue = [s \in Streams |-> 0]
  /\ pc = [p \in Procs |-> "idle"]
  /\ op = [p \in Publishers |-> IF p \in Updates THEN "desired" ELSE "hello"]
  /\ denied = {}
  /\ tries = [d \in Deletes |-> 0]
  /\ inbox = [s \in Streams |-> "none"]
  /\ agentOn = Nobody
  /\ stopped = FALSE
  /\ late = {}
  /\ drops = 0
  /\ crashes = 0

-----------------------------------------------------------------------------
(***************************************************************************)
(* Helpers.                                                                 *)
(***************************************************************************)
At(p, l) == pc[p] = l
Goto(p, l) == pc' = [pc EXCEPT ![p] = l]

\* closeConnection: close done and messages once.
Closed(c, s) == [c EXCEPT ![s] = "closed"]

\* A transaction of p reads the record; Badger's conflict check fails its
\* commit if another commit wrote the record since.
TxnRead(p) == fresh' = fresh \cup {p}

\* Mutant: transactions without conflict detection.
TxnCommitAlways(p, value) ==
  /\ record' = value
  /\ fresh' = {}

TxnCommit(p, value) ==
  /\ p \in fresh
  /\ record' = value
  /\ fresh' = {}

\* Bus.Publish, its error ignored by every caller: the append of the event
\* commits, or conflicts with another append and the event is lost.
Publish(e) ==
  \/ late' = IF record = Absent THEN late \cup {e} ELSE late
  \/ UNCHANGED late

-----------------------------------------------------------------------------
(***************************************************************************)
(* createInstance.  The credentials reach the agent with the response,      *)
(* after the event is published.                                            *)
(***************************************************************************)
CreatePut ==
  /\ At(Creator, "idle")
  /\ record' = "enrolled"
  /\ fresh' = {}
  /\ Goto(Creator, "put")
  /\ UNCHANGED <<mu, hubVars, op, denied, agentVars, aux>>

CreatePublish ==
  /\ At(Creator, "put")
  /\ Publish("enrolled")
  /\ Goto(Creator, "done")
  /\ UNCHANGED <<storeVars, mu, hubVars, op, denied, tries, agentVars, crashes>>

-----------------------------------------------------------------------------
(***************************************************************************)
(* The agent: client.Run opens a stream, sends its hello and then status    *)
(* messages; a stream may break under it, and it opens another one while    *)
(* the HOST still serves the old one.                                       *)
(***************************************************************************)
Dial(s) ==
  /\ At(Creator, "done")
  /\ ~stopped
  /\ agentOn = Nobody
  /\ At(s, "idle")
  /\ agentOn' = s
  /\ Goto(s, "reserve")
  /\ op' = [op EXCEPT ![s] = "hello"]
  /\ UNCHANGED <<storeVars, mu, hubVars, denied, inbox, stopped, drops, aux>>

AgentSend(s) ==
  /\ agentOn = s
  /\ inbox[s] = "none"
  /\ \E k \in Kinds : inbox' = [inbox EXCEPT ![s] = k]
  /\ UNCHANGED <<storeVars, mu, hubVars, pc, op, denied, agentOn, stopped,
                 drops, aux>>

Drop ==
  /\ agentOn # Nobody
  /\ drops < MaxDrops
  /\ drops' = drops + 1
  /\ agentOn' = Nobody
  /\ UNCHANGED <<storeVars, mu, hubVars, pc, op, denied, inbox, stopped, aux>>

\* The handler of s returns, its connection object dies with it and its stream
\* ends.  The agent, if it is still on s, stops for good on PermissionDenied
\* and retries on any other code; a send of its own that fails first hides the
\* code from it, and it retries too.
Return(s) ==
  /\ Goto(s, "idle")
  /\ conn' = [conn EXCEPT ![s] = "none"]
  /\ queue' = [queue EXCEPT ![s] = 0]
  /\ inbox' = [inbox EXCEPT ![s] = "none"]
  /\ denied' = denied \ {s}
  /\ agentOn' = IF agentOn = s THEN Nobody ELSE agentOn
  /\ \/ /\ stopped' = (stopped \/ (agentOn = s /\ s \in denied))
        /\ UNCHANGED drops
     \/ /\ agentOn = s /\ s \in denied /\ drops < MaxDrops
        /\ drops' = drops + 1
        /\ UNCHANGED stopped

-----------------------------------------------------------------------------
(***************************************************************************)
(* Server.Connect up to the attachment.                                     *)
(***************************************************************************)
Reserve(s) ==
  /\ At(s, "reserve")
  /\ mu = Nobody
  /\ blocked = 0
  /\ pending' = pending \cup {s}
  /\ conn' = [conn EXCEPT ![s] = "open"]
  /\ Goto(s, "read")
  /\ UNCHANGED <<storeVars, mu, blocked, attached, queue, op, denied,
                 agentVars, aux>>

ReserveRefused(s) ==
  /\ At(s, "reserve")
  /\ mu = Nobody
  /\ blocked > 0
  /\ Return(s)
  /\ UNCHANGED <<storeVars, mu, blocked, attached, pending, op, aux>>

\* Mutant: every failure of the store is answered with PermissionDenied.
TxnFailedDenies(p, notFound) ==
  /\ Goto(p, CASE op[p] = "hello" -> "cancel"
               [] op[p] = "desired" -> "done"
               [] OTHER -> "detach")
  /\ denied' = IF p \in Streams THEN denied \cup {p} ELSE denied

\* Mutant: ErrNotFound is a retryable error like the others.
TxnFailedRetries(p, notFound) ==
  /\ Goto(p, CASE op[p] = "hello" -> "cancel"
               [] op[p] = "desired" -> "done"
               [] OTHER -> "detach")
  /\ UNCHANGED denied

\* UpdateInstance or ApplyMeters failed.  Connect gives its reservation back,
\* handleMessage ends the loop, setDesired answers 404 or 500; a stream returns
\* PermissionDenied if the error is ErrNotFound.
TxnFailed(p, notFound) ==
  /\ Goto(p, CASE op[p] = "hello" -> "cancel"
               [] op[p] = "desired" -> "done"
               [] OTHER -> "detach")
  /\ denied' = IF notFound /\ p \in Streams THEN denied \cup {p} ELSE denied

\* The transaction of UpdateInstance (hello, status, desired) or ApplyMeters.
Read(p) ==
  /\ At(p, "read")
  /\ IF record = Absent
     THEN TxnFailed(p, TRUE) /\ UNCHANGED fresh
     ELSE Goto(p, "commit") /\ TxnRead(p) /\ UNCHANGED denied
  /\ UNCHANGED <<record, mu, hubVars, op, agentVars, aux>>

\* Mutant: a status does not write the phase.
NewPhaseKept(p) ==
  CASE op[p] = "hello" /\ record \in {"enrolled", "offline"} -> "connected"
    [] OTHER -> record

\* The phase the closure passed to UpdateInstance leaves in the record.
NewPhase(p) ==
  CASE op[p] = "hello" /\ record \in {"enrolled", "offline"} -> "connected"
    [] op[p] = "status" -> "reported"
    [] OTHER -> record

Commit(p) ==
  /\ At(p, "commit")
  /\ op[p] # "meters"
  /\ TxnCommit(p, NewPhase(p))
  /\ Goto(p, CASE op[p] = "hello" -> "activate"
               [] op[p] = "desired" -> "hubSend"
               [] OTHER -> "pubLock")
  /\ UNCHANGED <<mu, hubVars, op, denied, agentVars, aux>>

\* ApplyMeters reads the record and writes other keys.
CommitMeters(s) ==
  /\ At(s, "commit")
  /\ op[s] = "meters"
  /\ s \in fresh
  /\ fresh' = fresh \ {s}
  /\ Goto(s, "send")
  /\ UNCHANGED <<record, mu, hubVars, op, denied, agentVars, aux>>

\* ErrConflict: on the record, or for meters on the usage total that all
\* instances share.
Conflict(p) ==
  /\ At(p, "commit")
  /\ p \notin fresh \/ op[p] = "meters"
  /\ fresh' = fresh \ {p}
  /\ Goto(p, "lookup")
  /\ UNCHANGED <<record, mu, hubVars, op, denied, agentVars, aux>>

\* The second look after a conflict: ErrNotFound if the record is gone.
Lookup(p) ==
  /\ At(p, "lookup")
  /\ TxnFailed(p, record = Absent)
  /\ UNCHANGED <<storeVars, mu, hubVars, op, agentVars, aux>>

\* Mutant: the reservation is not taken out of hub.pending.
CancelKeepsReservation(s) ==
  /\ At(s, "cancel")
  /\ mu = Nobody
  /\ Return(s)
  /\ UNCHANGED <<storeVars, mu, blocked, attached, pending, op, aux>>

Cancel(s) ==
  /\ At(s, "cancel")
  /\ mu = Nobody
  /\ pending' = pending \ {s}
  /\ Return(s)
  /\ UNCHANGED <<storeVars, mu, blocked, attached, op, aux>>

\* Mutant: the reservation is taken at its word.
MayActivateAlways(s) == TRUE

\* The reservation is still there, not canceled, and the id not revoked.
MayActivate(s) == s \in pending /\ blocked = 0

Activate(s) ==
  /\ At(s, "activate")
  /\ mu = Nobody
  /\ MayActivate(s)
  /\ pending' = pending \ {s}
  /\ conn' = IF attached = Nobody THEN conn ELSE Closed(conn, attached)
  /\ attached' = s
  /\ Goto(s, "pubLock")
  /\ UNCHANGED <<storeVars, mu, blocked, queue, op, denied, agentVars, aux>>

ActivateRefused(s) ==
  /\ At(s, "activate")
  /\ mu = Nobody
  /\ ~MayActivate(s)
  /\ pending' = pending \ {s}
  /\ Return(s)
  /\ UNCHANGED <<storeVars, mu, blocked, attached, op, aux>>

-----------------------------------------------------------------------------
(***************************************************************************)
(* publishIfEnrolled, and the same section in setDesired: under hub.mu,     *)
(* unless the instance is revoked, look up the record and append the event. *)
(***************************************************************************)
EventOf(p) ==
  CASE op[p] = "hello" -> "connected"
    [] op[p] = "status" -> "status"
    [] op[p] = "desired" -> "desired"
    [] OTHER -> "traffic"

\* Nothing was published: Connect undoes the attachment, handleMessage returns
\* PermissionDenied, setDesired answers 404.
PubFailed(p) ==
  /\ Goto(p, CASE op[p] = "hello" -> "abort"
               [] op[p] = "desired" -> "done"
               [] OTHER -> "detach")
  /\ denied' = IF op[p] \in {"status", "meters"} THEN denied \cup {p}
               ELSE denied

\* Mutant: the check of the block and the publication are two sections.
PubLockUnheld(p) ==
  /\ At(p, "pubLock")
  /\ mu = Nobody
  /\ blocked = 0
  /\ Goto(p, "pubCheck")
  /\ UNCHANGED <<storeVars, mu, hubVars, op, denied, agentVars, aux>>

PubLock(p) ==
  /\ At(p, "pubLock")
  /\ mu = Nobody
  /\ blocked = 0
  /\ mu' = p
  /\ Goto(p, "pubCheck")
  /\ UNCHANGED <<storeVars, hubVars, op, denied, agentVars, aux>>

PubRevoked(p) ==
  /\ At(p, "pubLock")
  /\ mu = Nobody
  /\ blocked > 0
  /\ PubFailed(p)
  /\ UNCHANGED <<storeVars, mu, hubVars, op, agentVars, aux>>

PubCheck(p) ==
  /\ At(p, "pubCheck")
  /\ IF record = Absent
     THEN PubFailed(p) /\ mu' = Nobody
     ELSE Goto(p, "pubAppend") /\ UNCHANGED <<denied, mu>>
  /\ UNCHANGED <<storeVars, hubVars, op, agentVars, aux>>

PubAppend(p) ==
  /\ At(p, "pubAppend")
  /\ Publish(EventOf(p))
  /\ mu' = Nobody
  /\ Goto(p, CASE op[p] = "hello" -> "send"
               [] op[p] = "desired" -> "done"
               [] OTHER -> "top")
  /\ UNCHANGED <<storeVars, hubVars, op, denied, tries, agentVars, crashes>>

\* Connect published nothing: detach() without markOffline, then Aborted.
Abort(s) ==
  /\ At(s, "abort")
  /\ mu = Nobody
  /\ attached' = IF attached = s THEN Nobody ELSE attached
  /\ Return(s)
  /\ UNCHANGED <<storeVars, mu, blocked, pending, op, aux>>

-----------------------------------------------------------------------------
(***************************************************************************)
(* The loop of Connect: the check of disconnected at the top, then select.  *)
(***************************************************************************)
\* sendWhileConnected: the snapshot, a queued message, or a meter ack.  A send
\* on a stream that broke, or was closed meanwhile, may succeed or fail.
Send(s) ==
  /\ At(s, "send")
  /\ Goto(s, IF op[s] = "meters" THEN "pubLock" ELSE "top")
  /\ UNCHANGED <<storeVars, mu, hubVars, op, denied, agentVars, aux>>

LoopTop(s) ==
  /\ At(s, "top")
  /\ conn[s] # "closed"
  /\ Goto(s, "select")
  /\ UNCHANGED <<storeVars, mu, hubVars, op, denied, agentVars, aux>>

\* disconnected (or outbound) is closed, or, where the code looks at it, the
\* stream broke.
StreamEnds(s) ==
  /\ \/ pc[s] \in {"top", "select", "send"} /\ conn[s] = "closed"
     \/ pc[s] \in {"select", "send"} /\ agentOn # s
  /\ Goto(s, "detach")
  /\ UNCHANGED <<storeVars, mu, hubVars, op, denied, agentVars, aux>>

\* A message may win the select even when the connection is closed already.
SelectMessage(s) ==
  /\ At(s, "select")
  /\ inbox[s] # "none"
  /\ op' = [op EXCEPT ![s] = inbox[s]]
  /\ inbox' = [inbox EXCEPT ![s] = "none"]
  /\ Goto(s, "read")
  /\ UNCHANGED <<storeVars, mu, hubVars, denied, agentOn, stopped, drops, aux>>

SelectOutbound(s) ==
  /\ At(s, "select")
  /\ queue[s] > 0
  /\ queue' = [queue EXCEPT ![s] = @ - 1]
  /\ op' = [op EXCEPT ![s] = "outbound"]
  /\ Goto(s, IF conn[s] = "closed" THEN "detach" ELSE "send")
  /\ UNCHANGED <<storeVars, mu, blocked, attached, pending, conn, denied,
                 agentVars, aux>>

-----------------------------------------------------------------------------
(***************************************************************************)
(* The deferred detach of Connect and markOffline.                          *)
(***************************************************************************)
Detach(s) ==
  /\ At(s, "detach")
  /\ mu = Nobody
  /\ attached = s
  /\ attached' = Nobody
  /\ conn' = Closed(conn, s)
  /\ Goto(s, "offLock")
  /\ UNCHANGED <<storeVars, mu, blocked, pending, queue, op, denied, agentVars,
                 aux>>

OfflineLock(s) ==
  /\ At(s, "offLock")
  /\ mu = Nobody
  /\ blocked = 0
  /\ mu' = s
  /\ Goto(s, "offRead")
  /\ UNCHANGED <<storeVars, hubVars, op, denied, agentVars, aux>>

OfflineRead(s) ==
  /\ At(s, "offRead")
  /\ record # Absent
  /\ TxnRead(s)
  /\ Goto(s, "offCommit")
  /\ UNCHANGED <<record, mu, hubVars, op, denied, agentVars, aux>>

OfflineCommit(s) ==
  /\ At(s, "offCommit")
  /\ TxnCommit(s, "offline")
  /\ Goto(s, "offAppend")
  /\ UNCHANGED <<mu, hubVars, op, denied, agentVars, aux>>

\* Mutant: markOffline returns with hub.mu locked.
OfflineAppendKeepsLock(s) ==
  /\ At(s, "offAppend")
  /\ Publish("disconnected")
  /\ Return(s)
  /\ UNCHANGED <<storeVars, mu, blocked, attached, pending, op, tries, crashes>>

OfflineAppend(s) ==
  /\ At(s, "offAppend")
  /\ Publish("disconnected")
  /\ mu' = Nobody
  /\ Return(s)
  /\ UNCHANGED <<storeVars, blocked, attached, pending, op, tries, crashes>>

\* detach() returned false, the instance is revoked, or the UpdateInstance of
\* markOffline failed on a missing record or a conflict: no event.
NoOffline(s) ==
  /\ \/ At(s, "detach") /\ mu = Nobody /\ attached # s /\ UNCHANGED mu
     \/ At(s, "offLock") /\ mu = Nobody /\ blocked > 0 /\ UNCHANGED mu
     \/ At(s, "offRead") /\ record = Absent /\ mu' = Nobody
     \/ At(s, "offCommit") /\ s \notin fresh /\ mu' = Nobody
  /\ Return(s)
  /\ UNCHANGED <<storeVars, blocked, attached, pending, op, aux>>

-----------------------------------------------------------------------------
(***************************************************************************)
(* deleteInstance: the request, Revoke, DeleteInstance, publish, release.   *)
(***************************************************************************)
DeleteBegin(d) ==
  /\ At(d, "idle")
  /\ ~At(Creator, "idle")
  /\ Goto(d, "revoke")
  /\ UNCHANGED <<storeVars, mu, hubVars, op, denied, agentVars, aux>>

Revoke(d) ==
  /\ At(d, "revoke")
  /\ mu = Nobody
  /\ blocked' = blocked + 1
  /\ conn' = [s \in Streams |->
               IF s \in pending \cup {attached} THEN "closed" ELSE conn[s]]
  /\ pending' = {}
  /\ attached' = Nobody
  /\ Goto(d, "delRead")
  /\ UNCHANGED <<storeVars, mu, queue, op, denied, agentVars, aux>>

DeleteRead(d) ==
  /\ At(d, "delRead")
  /\ IF record = Absent
     THEN Goto(d, "release") /\ UNCHANGED fresh
     ELSE Goto(d, "delCommit") /\ TxnRead(d)
  /\ UNCHANGED <<record, mu, hubVars, op, denied, agentVars, aux>>

DeleteCommit(d) ==
  /\ At(d, "delCommit")
  /\ TxnCommit(d, Absent)
  /\ Goto(d, "delPublish")
  /\ UNCHANGED <<mu, hubVars, op, denied, agentVars, aux>>

DeleteConflict(d) ==
  /\ At(d, "delCommit")
  /\ d \notin fresh
  /\ tries[d] < DeleteAttempts
  /\ tries' = [tries EXCEPT ![d] = @ + 1]
  /\ Goto(d, IF tries[d] + 1 < DeleteAttempts THEN "delRead" ELSE "release")
  /\ UNCHANGED <<storeVars, mu, hubVars, op, denied, agentVars, late, crashes>>

DeletePublish(d) ==
  /\ At(d, "delPublish")
  /\ Publish("deleted")
  /\ Goto(d, "release")
  /\ UNCHANGED <<storeVars, mu, hubVars, op, denied, tries, agentVars, crashes>>

\* Mutant: the first release lifts the block of every deletion.
ReleaseAll(d) ==
  /\ At(d, "release")
  /\ mu = Nobody
  /\ blocked' = 0
  /\ Goto(d, "done")
  /\ UNCHANGED <<storeVars, mu, attached, pending, conn, queue, op, denied,
                 agentVars, aux>>

Release(d) ==
  /\ At(d, "release")
  /\ mu = Nobody
  /\ blocked' = blocked - 1
  /\ Goto(d, "done")
  /\ UNCHANGED <<storeVars, mu, attached, pending, conn, queue, op, denied,
                 agentVars, aux>>

-----------------------------------------------------------------------------
(***************************************************************************)
(* setDesired: the request, and Hub.Send after its UpdateInstance.          *)
(***************************************************************************)
DesiredBegin(u) ==
  /\ At(u, "idle")
  /\ ~At(Creator, "idle")
  /\ Goto(u, "read")
  /\ UNCHANGED <<storeVars, mu, hubVars, op, denied, agentVars, aux>>

\* Mutant: room for one message more than the buffer has.
AcceptsOneMore(s) == queue[s] <= QueueCap

\* The send of the select in Hub.Send can proceed.
Accepts(s) == queue[s] < QueueCap

Online(s) == attached = s /\ conn[s] = "open"

HubSend(u) ==
  /\ At(u, "hubSend")
  /\ mu = Nobody
  /\ queue' = [s \in Streams |->
                IF Online(s) /\ Accepts(s) THEN queue[s] + 1 ELSE queue[s]]
  /\ conn' = [s \in Streams |->
               IF Online(s) /\ ~Accepts(s) THEN "closed" ELSE conn[s]]
  /\ Goto(u, "pubLock")
  /\ UNCHANGED <<storeVars, mu, blocked, attached, pending, op, denied,
                 agentVars, aux>>

-----------------------------------------------------------------------------
(***************************************************************************)
(* The HOST process dies and starts again: the store survives, NewHub is    *)
(* empty, every request and every stream is gone.                           *)
(***************************************************************************)
Crash ==
  /\ crashes < MaxCrashes
  /\ crashes' = crashes + 1
  /\ fresh' = {}
  /\ mu' = Nobody
  /\ blocked' = 0
  /\ attached' = Nobody
  /\ pending' = {}
  /\ conn' = [s \in Streams |-> "none"]
  /\ queue' = [s \in Streams |-> 0]
  /\ pc' = [p \in Procs |->
             CASE p \in Streams \/ pc[p] = "idle" -> "idle"
               [] p = Creator /\ pc[p] = "put" -> "lost"
               [] p = Creator /\ pc[p] \in {"done", "lost"} -> pc[p]
               [] OTHER -> "done"]
  /\ denied' = {}
  /\ inbox' = [s \in Streams |-> "none"]
  /\ agentOn' = Nobody
  /\ UNCHANGED <<record, op, tries, stopped, drops, late>>

-----------------------------------------------------------------------------
Update(p) ==
  \/ Read(p) \/ Commit(p) \/ Conflict(p) \/ Lookup(p)
  \/ PubLock(p) \/ PubRevoked(p) \/ PubCheck(p) \/ PubAppend(p)

Attend(s) ==
  \/ CommitMeters(s) \/ Reserve(s) \/ ReserveRefused(s) \/ Cancel(s)
  \/ Activate(s) \/ ActivateRefused(s) \/ Abort(s)
  \/ Send(s) \/ LoopTop(s) \/ StreamEnds(s)
  \/ SelectMessage(s) \/ SelectOutbound(s)
  \/ Detach(s) \/ OfflineLock(s) \/ OfflineRead(s) \/ OfflineCommit(s)
  \/ OfflineAppend(s) \/ NoOffline(s)

Handler(s) == Update(s) \/ Attend(s)

Deletion(d) ==
  \/ Revoke(d) \/ DeleteRead(d) \/ DeleteCommit(d) \/ DeleteConflict(d)
  \/ DeletePublish(d) \/ Release(d)

SetDesired(u) == Update(u) \/ HubSend(u)

Next ==
  \/ CreatePut \/ CreatePublish
  \/ \E s \in Streams : Dial(s) \/ AgentSend(s) \/ Handler(s)
  \/ Drop
  \/ \E d \in Deletes : DeleteBegin(d) \/ Deletion(d)
  \/ \E u \in Updates : DesiredBegin(u) \/ SetDesired(u)
  \/ Crash

Spec == Init /\ [][Next]_vars

\* Go runs every runnable goroutine and its mutex hands itself to the longest
\* waiter after 1ms, so a handler is never passed over for ever (strong
\* fairness); the agent redials and its heartbeat ticks.  Requests, breaks and
\* crashes need never happen.
Fairness ==
  /\ WF_vars(CreatePublish)
  /\ \A s \in Streams : SF_vars(Handler(s)) /\ WF_vars(AgentSend(s))
  /\ WF_vars(\E s \in Streams : Dial(s))
  /\ \A d \in Deletes : SF_vars(Deletion(d))
  /\ \A u \in Updates : SF_vars(SetDesired(u))

FairSpec == Spec /\ Fairness

-----------------------------------------------------------------------------
(***************************************************************************)
(* Properties.                                                              *)
(***************************************************************************)
\* A DELETE between the return of Revoke and the call of release.
InDeletion(d) == pc[d] \in {"delRead", "delCommit", "delPublish", "release"}

Deleting == {d \in Deletes : InDeletion(d)}

\* A connection is in the hub only while the instance is enrolled: a stream
\* that updated the store before a deletion cannot attach in the gap before
\* the record goes (the comment at api.go:397), nor after it is gone.
AttachedIsEnrolled == attached # Nobody => record # Absent

\* hub.blocked counts the deletions that have revoked and not yet released,
\* and while there is one neither a connection nor a reservation is in the
\* hub, whatever two overlapping DELETEs and their releases do (hub.go:103).
RevocationHolds ==
  /\ blocked = Cardinality(Deleting)
  /\ blocked > 0 => attached = Nobody /\ pending = {}

\* No connection is lost track of: one that is open is reserved or attached,
\* so a later Activate or Revoke can close it and at most one stream is served
\* after attachment; and what the hub holds belongs to a handler that still
\* runs, so nothing is left behind by an early return of Connect.
HubOwnsConnections ==
  /\ \A s \in Streams : conn[s] = "open" => s \in pending \cup {attached}
  /\ \A s \in pending : ~At(s, "idle") /\ s # attached
  /\ attached # Nobody => ~At(attached, "idle")

\* Once the record is gone no connected, status, traffic, disconnected or
\* desired event is appended for the instance: the check and the append of
\* publishIfEnrolled, markOffline and setDesired cannot be split by a deletion.
SilentOnceDeleted == late \cap Guarded = {}

\* An agent stops for good (client.go:69) only after an operator asked for a
\* deletion: no conflict, replacement, lost stream or restart of the HOST is
\* ever answered with PermissionDenied.
StopsOnlyOnDeletion == stopped => \E d \in Deletes : ~At(d, "idle")

\* The agent of a deleted instance is told so and stops: it does not redial
\* for ever, whether the deletion met it connecting, connected or away.
DeletedAgentStops == (record = Absent /\ At(Creator, "done")) ~> stopped

\* A deletion always comes to its end: the hub lock it needs is released by
\* every section that holds it over store calls, and the retries are bounded.
DeletionEnds == \A d \in Deletes : At(d, "revoke") ~> At(d, "done")

\* The offline phase that a detached stream writes after its successor
\* attached does not stay while the instance is connected: a later status of
\* the agent overwrites it.
OfflineHeals ==
  (attached # Nobody /\ record = "offline")
    ~> (attached = Nobody \/ record # "offline")
-----------------------------------------------------------------------------
(***************************************************************************)
(* The inductive invariant behind the safety properties.                    *)
(***************************************************************************)
Asked == \E d \in Deletes : ~At(d, "idle")

\* hub.mu is held across steps exactly by the handler inside a section of
\* IfNotRevoked, and the instance is not revoked while it is.
LockInv ==
  /\ mu # Nobody => blocked = 0
  /\ \A p \in Procs :
       mu = p <=> pc[p] \in {"pubCheck", "pubAppend", "offRead", "offCommit",
                             "offAppend"}

\* Where the code goes on as if the record were there, it is.
EnrolledInv ==
  /\ fresh # {} => record # Absent
  /\ \A s \in pending : At(s, "activate") => record # Absent
  /\ \A p \in Procs :
       pc[p] \in {"pubAppend", "offCommit", "offAppend"} => record # Absent

\* Which part of Connect a reserved and an attached stream can be in.
PlaceInv ==
  /\ \A s \in Streams : At(s, "reserve") => op[s] = "hello"
  /\ \A s \in pending :
       /\ pc[s] \in {"read", "commit", "lookup", "cancel", "activate"}
       /\ op[s] = "hello"
  /\ \A s \in Streams :
       attached = s =>
         \/ pc[s] \in {"pubLock", "pubCheck", "pubAppend", "abort", "send",
                       "top", "select", "detach"}
         \/ pc[s] \in {"read", "commit", "lookup"} /\ op[s] # "hello"

\* A missing record, a refusal and a stopped agent each need a deletion.
RejectInv ==
  /\ record = Absent => At(Creator, "idle") \/ Asked
  /\ At(Creator, "idle") => record = Absent /\ ~Asked
  /\ \A s \in Streams : ~At(s, "idle") => ~At(Creator, "idle")
  /\ denied # {} \/ stopped => Asked

\* The invariant that every step of the module preserves: the safety
\* properties above with what makes them inductive.
IndInv ==
  /\ TypeOK
  /\ LockInv
  /\ RevocationHolds
  /\ EnrolledInv
  /\ AttachedIsEnrolled
  /\ PlaceInv
  /\ HubOwnsConnections
  /\ RejectInv

-----------------------------------------------------------------------------
(***************************************************************************)
(* What all this promises: Enrollment.                                      *)
(***************************************************************************)
Life ==
  CASE record # Absent -> "live"
    [] record = Absent /\ At(Creator, "idle") -> "new"
    [] OTHER -> "gone"

Promise ==
  INSTANCE Enrollment WITH
    life <- Life, online <- attached # Nobody, asked <- Asked,
    dismissed <- stopped

\* The handlers, the hub and the store together implement Enrollment.  Above
\* all, a deletion is final: no transaction of a stream or of setDesired that
\* was open when the record went can write it back (store.go:285), and none
\* lets a connection in afterwards.
ImplementsEnrollment == Promise!Spec
=============================================================================
