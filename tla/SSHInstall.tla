----------------------------- MODULE SSHInstall -----------------------------
(***************************************************************************)
(* Automatic installation over SSH: ProbeHostKey and the operator who       *)
(* confirms what it shows, Installer.Install with its slots, its wait for   *)
(* the agent and its rollback (internal/sshinstall), next to an operator    *)
(* who deletes the instance meanwhile (deleteInstance), the agent that was  *)
(* installed, and a HOST that may die.  Every install enrolls an instance   *)
(* of its own.  A name may resolve differently every time it is asked for,  *)
(* and any machine may answer at an address.                                *)
(*                                                                          *)
(* The hub is reduced to what Install sees of it: whether the instance is   *)
(* online and how many deletions block it; ControlPlane has the rest, and   *)
(* the conflicts of DeleteInstance, which here removes the record or fails. *)
(* The events of an install are what EventBus appends.                      *)
(***************************************************************************)
EXTENDS Integers, FiniteSets

CONSTANTS
  Installs,   \* POST /api/v1/instances/ssh requests, and their instances
  Slots,      \* install.go:23, installations at the same time (2 in the code)
  Families,   \* of the addresses that host names resolve to
  HostKeys,   \* SSH host keys that machines present
  None,       \* no address, no host key
  MaxCrashes  \* bound: restarts of the HOST

ASSUME InstallConstants ==
  /\ IsFiniteSet(Installs)
  /\ Slots \in Nat \ {0}
  /\ Families \subseteq {"v4", "v6", "mapped"}
  /\ None \notin HostKeys
  /\ MaxCrashes \in Nat

VARIABLES
  pc,       \* where each Install is
  slots,    \* how many entries the channel slots holds
  confirmed,\* the host key the operator confirmed for each request
  target,   \* the address Install has resolved
  dialed,   \* history: the addresses that were dialed
  sent,     \* history: which host keys each request's credentials went to
  record,   \* the instances whose record is in the store
  touched,  \* installs with remoteTouched set
  remote,   \* what is on the remote machine
  online,   \* instances with an open connection in the hub
  blocked,  \* hub.blocked
  undeleted,\* history: installs whose rollback could not delete the record
  outcome,  \* what the caller was told
  del,      \* the operator's DELETE of each instance
  crashes

hubVars == <<online, blocked>>
sshVars == <<confirmed, target, dialed, sent>>
vars == <<pc, slots, sshVars, record, touched, remote, hubVars, undeleted,
          outcome, del, crashes>>

\* An address by what netip says of it.  "mapped" is a v4 address in v6 form;
\* 0.0.0.0/8 ("zero") and 255.255.255.255 ("broadcast") exist in v4 only.
Kinds(family) ==
  {"unicast", "unspecified", "loopback", "linklocal", "multicast"}
    \cup (IF family = "v6" THEN {} ELSE {"zero", "broadcast"})
Addresses ==
  UNION {[family : {f}, kind : Kinds(f)] : f \in Families}

\* netip.Addr.Unmap.
Unmap(a) == IF a.family = "mapped" THEN [a EXCEPT !.family = "v4"] ELSE a
Targets == {Unmap(a) : a \in Addresses}

\* A request that failed before anything was enrolled, waits or is over.
Outside == {"idle", "returned", "dead"}
Installing == {"packages", "upload", "start", "wait", "confirm", "answer"}
RollingBack == {"cleanup", "reconnect", "remove", "release"}

TypeOK ==
  /\ pc \in [Installs ->
              Outside \cup Installing \cup RollingBack
                \cup {"resolve", "connect", "enroll", "revoke"}]
  /\ slots \in 0..Slots
  /\ confirmed \in [Installs -> HostKeys \cup {None}]
  /\ target \in [Installs -> Targets \cup {None}]
  /\ dialed \subseteq Targets
  /\ sent \in [Installs -> SUBSET HostKeys]
  /\ record \subseteq Installs
  /\ touched \subseteq Installs
  /\ remote \in [Installs -> {"none", "files", "running", "stopped"}]
  /\ online \subseteq Installs
  /\ blocked \in [Installs -> Nat]
  /\ undeleted \subseteq Installs
  /\ outcome \in [Installs -> {"none", "refused", "failed", "succeeded"}]
  /\ del \in [Installs -> {"idle", "remove", "release", "abort", "done"}]
  /\ crashes \in 0..MaxCrashes

Init ==
  /\ pc = [i \in Installs |-> "idle"]
  /\ slots = 0
  /\ confirmed = [i \in Installs |-> None]
  /\ target = [i \in Installs |-> None]
  /\ dialed = {}
  /\ sent = [i \in Installs |-> {}]
  /\ record = {}
  /\ touched = {}
  /\ remote = [i \in Installs |-> "none"]
  /\ online = {}
  /\ blocked = [i \in Installs |-> 0]
  /\ undeleted = {}
  /\ outcome = [i \in Installs |-> "none"]
  /\ del = [i \in Installs |-> "idle"]
  /\ crashes = 0

-----------------------------------------------------------------------------
(***************************************************************************)
(* Install up to the answer.                                                *)
(***************************************************************************)
Goto(i, l) == pc' = [pc EXCEPT ![i] = l]

\* Mutant: the slot is not given back.
FreedNever(n) == n

\* The deferred receive from slots.
Freed(n) == n - 1

\* Install returns; its deferred calls have run.
Return(i, answer) ==
  /\ Goto(i, "returned")
  /\ outcome' = [outcome EXCEPT ![i] = answer]
  /\ slots' = Freed(slots)

\* The send to slots can proceed.
SlotFree == slots < Slots

\* The request is valid and gets a slot, or ErrBusy or a validation error; a
\* fingerprint is part of every request.
Begin(i) ==
  /\ pc[i] = "idle"
  /\ \/ /\ SlotFree
        /\ confirmed[i] # None
        /\ slots' = slots + 1
        /\ Goto(i, "resolve")
        /\ UNCHANGED outcome
     \/ /\ Goto(i, "returned")
        /\ outcome' = [outcome EXCEPT ![i] = "refused"]
        /\ UNCHANGED slots
  /\ UNCHANGED <<sshVars, record, touched, remote, hubVars, undeleted, del,
                 crashes>>

AllowedTargetAddress(a) ==
  /\ a.kind \notin {"unspecified", "loopback", "linklocal", "multicast"}
  /\ a.family # "mapped"
  /\ a.family = "v4" => a.kind \notin {"zero", "broadcast"}

\* Mutant: one address that is allowed is enough.
AcceptedSome(found) == \E a \in found : AllowedTargetAddress(a)

\* resolveTarget refuses a name if it has any address that is not allowed.
Accepted(found) == \A a \in found : AllowedTargetAddress(a)

\* What it may return: the first of the addresses it found.
Resolutions ==
  {a \in Targets : \E b \in Targets : Accepted({a, b})}

\* ProbeHostKey resolves, dials and hangs up when it has seen the key; the
\* operator confirms it.
Probe(i) ==
  /\ pc[i] = "idle"
  /\ confirmed[i] = None
  /\ \E a \in Resolutions, k \in HostKeys :
       /\ dialed' = dialed \cup {a}
       /\ confirmed' = [confirmed EXCEPT ![i] = k]
  /\ UNCHANGED <<pc, slots, target, sent, record, touched, remote, hubVars,
                 undeleted, outcome, del, crashes>>

\* The authentication method is parsed and the name resolved, again; both may
\* fail.
Resolve(i) ==
  /\ pc[i] = "resolve"
  /\ \/ /\ \E a \in Resolutions : target' = [target EXCEPT ![i] = a]
        /\ Goto(i, "connect")
        /\ UNCHANGED <<slots, outcome>>
     \/ Return(i, "refused") /\ UNCHANGED target
  /\ UNCHANGED <<confirmed, dialed, sent, record, touched, remote, hubVars,
                 undeleted, del, crashes>>

\* fingerprintCallback: authentication begins only with the confirmed key.
HostKeyAccepted(i, k) == k = confirmed[i]

\* connect: the machine at the target presents key k.
Dial(i, k) ==
  /\ dialed' = dialed \cup {target[i]}
  /\ sent' = IF HostKeyAccepted(i, k) THEN [sent EXCEPT ![i] = @ \cup {k}]
             ELSE sent
  /\ UNCHANGED <<confirmed, target>>

\* Dialing, the host key, authentication, preflight, rendering, certificate:
\* any of them may fail, with nothing enrolled yet.
Connect(i) ==
  /\ pc[i] = "connect"
  /\ \E k \in HostKeys :
       /\ Dial(i, k)
       /\ \/ /\ HostKeyAccepted(i, k)
             /\ Goto(i, "enroll")
             /\ UNCHANGED <<slots, outcome>>
          \/ Return(i, "refused")
  /\ UNCHANGED <<record, touched, remote, hubVars, undeleted, del, crashes>>

\* PutInstance, which may fail.
Enroll(i) ==
  /\ pc[i] = "enroll"
  /\ \/ /\ record' = record \cup {i}
        /\ Goto(i, "packages")
        /\ UNCHANGED <<slots, outcome>>
     \/ Return(i, "refused") /\ UNCHANGED record
  /\ UNCHANGED <<sshVars, touched, remote, hubVars, undeleted, del, crashes>>

\* A command on the remote machine: it runs, or it fails, or the connection
\* is lost (the timeout and a canceled request close it) before or after it
\* took effect.
Packages(i) ==
  /\ pc[i] = "packages"
  /\ \/ Goto(i, "upload") /\ touched' = touched \cup {i}
     \/ Goto(i, "revoke") /\ UNCHANGED touched
  /\ UNCHANGED <<sshVars, slots, record, remote, hubVars, undeleted, outcome,
                 del, crashes>>

\* prepareRemote, the five files and podman pull.
Upload(i) ==
  /\ pc[i] = "upload"
  /\ remote' \in {remote, [remote EXCEPT ![i] = "files"]}
  /\ \/ Goto(i, "start") /\ remote'[i] = "files"
     \/ Goto(i, "revoke")
  /\ UNCHANGED <<sshVars, slots, record, touched, hubVars, undeleted, outcome,
                 del, crashes>>

\* systemctl enable --now.
Start(i) ==
  /\ pc[i] = "start"
  /\ remote' \in {remote, [remote EXCEPT ![i] = "running"]}
  /\ \/ Goto(i, "wait") /\ remote'[i] = "running"
     \/ Goto(i, "revoke")
  /\ UNCHANGED <<sshVars, slots, record, touched, hubVars, undeleted, outcome,
                 del, crashes>>

\* waitOnline polls Hub.Online.
SeenOnline(i) ==
  /\ pc[i] = "wait"
  /\ i \in online
  /\ Goto(i, "confirm")
  /\ UNCHANGED <<sshVars, slots, record, touched, remote, hubVars, undeleted,
                 outcome, del, crashes>>

\* Mutant: waitOnline has no timer.
TimesOutNever(i) == FALSE

\* waitOnline gives up after onlineTimeout, or with its context.
TimesOut(i) == pc[i] = "wait"

NotOnline(i) ==
  /\ TimesOut(i)
  /\ Goto(i, "revoke")
  /\ UNCHANGED <<sshVars, slots, record, touched, remote, hubVars, undeleted,
                 outcome, del, crashes>>

\* Mutant: what waitOnline saw is taken for granted.
StillOnlineAlways(i) == TRUE

\* IfOnline runs its action, and the action finds the record.
StillOnline(i) == blocked[i] = 0 /\ i \in online /\ i \in record

\* The decision, with hub.mu held from the check to the event
\* instance.ssh_install.succeeded: enrolled = false takes back the rollback.
\* A store that cannot read the record is no success either.
Confirm(i) ==
  /\ pc[i] = "confirm"
  /\ \/ StillOnline(i) /\ Goto(i, "answer")
     \/ Goto(i, "revoke")
  /\ UNCHANGED <<sshVars, slots, record, touched, remote, hubVars, undeleted,
                 outcome, del, crashes>>

\* Without hub.mu, Install returns the record it read and the caller is told.
Answer(i) ==
  /\ pc[i] = "answer"
  /\ Return(i, "succeeded")
  /\ UNCHANGED <<sshVars, record, touched, remote, hubVars, undeleted, del,
                 crashes>>

-----------------------------------------------------------------------------
(***************************************************************************)
(* The deferred rollback.                                                   *)
(***************************************************************************)
Revoked(i) ==
  /\ blocked' = [blocked EXCEPT ![i] = @ + 1]
  /\ online' = online \ {i}

Revoke(i) ==
  /\ pc[i] = "revoke"
  /\ Revoked(i)
  /\ Goto(i, IF i \in touched THEN "cleanup" ELSE "remove")
  /\ UNCHANGED <<sshVars, slots, record, touched, remote, undeleted, outcome,
                 del, crashes>>

\* cleanupRemote on the connection of the install.
Cleanup(i) ==
  /\ pc[i] = "cleanup"
  /\ \/ remote' = [remote EXCEPT ![i] = "none"] /\ Goto(i, "remove")
     \/ /\ remote' \in {remote, [remote EXCEPT ![i] = "none"]}
        /\ Goto(i, "reconnect")
  /\ UNCHANGED <<sshVars, slots, record, touched, hubVars, undeleted, outcome,
                 del, crashes>>

\* Once more on a new connection to the same address, with the same callback; a
\* second failure is ignored.
Reconnect(i) ==
  /\ pc[i] = "reconnect"
  /\ \E k \in HostKeys :
       /\ Dial(i, k)
       /\ \/ UNCHANGED remote
          \/ HostKeyAccepted(i, k) /\ remote' = [remote EXCEPT ![i] = "none"]
  /\ Goto(i, "remove")
  /\ UNCHANGED <<slots, record, touched, hubVars, undeleted, outcome, del,
                 crashes>>

\* Mutant: the rollback keeps the record.
RemovedNever(i) == record

\* DeleteInstance without an error, or with ErrNotFound.
Removed(i) == record \ {i}

\* It may also fail, after eight conflicts or with an error of the store: the
\* error is dropped and the record stays.
Remove(i) ==
  /\ pc[i] = "remove"
  /\ \/ record' = Removed(i) /\ UNCHANGED undeleted
     \/ undeleted' = undeleted \cup {i} /\ UNCHANGED record
  /\ Goto(i, "release")
  /\ UNCHANGED <<sshVars, slots, touched, remote, hubVars, outcome, del,
                 crashes>>

Unblocked(i) == [blocked EXCEPT ![i] = @ - 1]

Release(i) ==
  /\ pc[i] = "release"
  /\ blocked' = Unblocked(i)
  /\ Return(i, "failed")
  /\ UNCHANGED <<sshVars, record, touched, remote, online, undeleted, del,
                 crashes>>

-----------------------------------------------------------------------------
(***************************************************************************)
(* The operator deletes the instance, which is listed from Enroll on.       *)
(***************************************************************************)
DeleteBegin(i) ==
  /\ del[i] = "idle"
  /\ i \in record
  /\ Revoked(i)
  /\ del' = [del EXCEPT ![i] = "remove"]
  /\ UNCHANGED <<pc, sshVars, slots, record, touched, remote, undeleted,
                 outcome, crashes>>

\* DeleteInstance: done or not found, or failed and answered with an error.
DeleteRemove(i) ==
  /\ del[i] = "remove"
  /\ \/ record' = record \ {i} /\ del' = [del EXCEPT ![i] = "release"]
     \/ UNCHANGED record /\ del' = [del EXCEPT ![i] = "abort"]
  /\ UNCHANGED <<pc, sshVars, slots, touched, remote, hubVars, undeleted,
                 outcome, crashes>>

\* The deferred release; a DELETE that failed may be asked for again.
DeleteRelease(i) ==
  /\ del[i] \in {"release", "abort"}
  /\ blocked' = [blocked EXCEPT ![i] = @ - 1]
  /\ del' = [del EXCEPT ![i] = IF @ = "release" THEN "done" ELSE "idle"]
  /\ UNCHANGED <<pc, sshVars, slots, record, touched, remote, online,
                 undeleted, outcome, crashes>>

-----------------------------------------------------------------------------
(***************************************************************************)
(* The installed agent.                                                     *)
(***************************************************************************)
AgentAttaches(i) ==
  /\ remote[i] = "running"
  /\ i \in record \ online
  /\ blocked[i] = 0
  /\ online' = online \cup {i}
  /\ UNCHANGED <<pc, sshVars, slots, record, touched, remote, blocked,
                 undeleted, outcome, del, crashes>>

\* Its stream breaks, or the machine was cleaned up under it.
AgentLeaves(i) ==
  /\ i \in online
  /\ online' = online \ {i}
  /\ UNCHANGED <<pc, sshVars, slots, record, touched, remote, blocked,
                 undeleted, outcome, del, crashes>>

\* Mutant: PermissionDenied is an error like any other.
RejectedNever(i) == FALSE

\* identityRejected: the HOST knows no such instance.
Rejected(i) == i \notin record

\* It stops without an error, and systemd restarts it on failures only.
AgentStops(i) ==
  /\ remote[i] = "running"
  /\ Rejected(i)
  /\ blocked[i] = 0
  /\ remote' = [remote EXCEPT ![i] = "stopped"]
  /\ UNCHANGED <<pc, sshVars, slots, record, touched, hubVars, undeleted,
                 outcome, del, crashes>>

\* The HOST dies: store and remote machines keep what they have.
Crash ==
  /\ crashes < MaxCrashes
  /\ crashes' = crashes + 1
  /\ pc' = [i \in Installs |-> IF pc[i] \in Outside THEN pc[i] ELSE "dead"]
  /\ slots' = 0
  /\ online' = {}
  /\ blocked' = [i \in Installs |-> 0]
  /\ del' = [i \in Installs |->
              IF del[i] \in {"release", "done"} THEN "done" ELSE "idle"]
  /\ UNCHANGED <<sshVars, record, touched, remote, undeleted, outcome>>

-----------------------------------------------------------------------------
Install(i) ==
  \/ Resolve(i) \/ Connect(i) \/ Enroll(i)
  \/ Packages(i) \/ Upload(i) \/ Start(i)
  \/ SeenOnline(i) \/ NotOnline(i) \/ Confirm(i) \/ Answer(i)
  \/ Revoke(i) \/ Cleanup(i) \/ Reconnect(i) \/ Remove(i) \/ Release(i)

Deletion(i) == DeleteRemove(i) \/ DeleteRelease(i)

Next ==
  \/ \E i \in Installs :
       \/ Probe(i) \/ Begin(i) \/ Install(i) \/ DeleteBegin(i) \/ Deletion(i)
       \/ AgentAttaches(i) \/ AgentLeaves(i) \/ AgentStops(i)
  \/ Crash

Spec == Init /\ [][Next]_vars

\* Every remote command ends: with the command, or with installTimeout, which
\* closes the connection.  The agent redials.  Nobody has to ask for anything.
FairSpec ==
  /\ Spec
  /\ \A i \in Installs :
       /\ WF_vars(Install(i))
       /\ WF_vars(Deletion(i))
       /\ WF_vars(AgentStops(i))

-----------------------------------------------------------------------------
(***************************************************************************)
(* Properties.                                                              *)
(***************************************************************************)
\* An install is all or nothing as far as the store lets it: a request that was
\* refused left no record, one that reported a failure left one only if the
\* rollback's DeleteInstance failed itself, and one that was decided to be a
\* success has its record, until it is told and after, unless an operator
\* deleted it; whatever deletion, broken stream or restart it met.
AllOrNothing ==
  \A i \in Installs :
    /\ outcome[i] = "refused" => i \notin record
    /\ outcome[i] = "failed" /\ i \in record => i \in undeleted
    /\ (pc[i] = "answer" \/ outcome[i] = "succeeded")
         /\ del[i] \notin {"release", "done"} => i \in record

\* An install is never decided to be a success, and its success published, while
\* a DELETE of the instance is under way or after one removed it: what
\* waitOnline saw is checked again under hub.mu.  A DELETE that comes after the
\* decision, before the caller has the answer too, finds a finished install.
NoSuccessOnceDeleted ==
  [][\A i \in Installs :
       del[i] # "idle" /\ pc'[i] = "answer" => pc[i] = "answer"]_vars

\* Slots and blocks are given back on every path: the channel holds one entry
\* for each install under way, the hub one block for each rollback or deletion
\* under way.
NothingIsHeld ==
  /\ slots = Cardinality({i \in Installs : pc[i] \notin Outside})
  /\ \A i \in Installs :
       blocked[i] = (IF pc[i] \in RollingBack THEN 1 ELSE 0)
                      + (IF del[i] \in {"remove", "release", "abort"}
                         THEN 1 ELSE 0)

\* What the program keeps, of the types it may have, with nothing held too long.
InstallInv == TypeOK /\ NothingIsHeld

\* Every install comes to an end, with an agent that never connects too.
InstallEnds == \A i \in Installs : (pc[i] = "enroll") ~> (pc[i] \in Outside)

\* An agent that runs without a record stops by itself, however it came to
\* that: a rollback whose both attempts at cleaning up failed, an operator who
\* deleted what a HOST that died during the install had left behind.
OrphanStops ==
  \A i \in Installs : (i \notin record) ~> (remote[i] # "running")

\* Whatever names resolve to between the probe, the install and the cleanup,
\* and whoever answers: only unicast addresses are ever dialed, loopback and
\* link-local ones excluded, and credentials go only to a machine that presents
\* the key the operator confirmed.  (The HOST's own public address is unicast.)
OnlyConfirmedMachines ==
  /\ \A a \in dialed : a.kind = "unicast"
  /\ \A i \in Installs : sent[i] \subseteq {confirmed[i]}
=============================================================================
