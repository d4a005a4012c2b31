# TLA+ models of Ulcer

Ulcer is a control plane: one `HOST` process (`src/cmd/ulcer-host`) manages
`INSTANCE` agents (`src/cmd/ulcer-instance`) over mutually authenticated gRPC
streams and serves a REST and event API to one operator. This directory models
the parts of it that keep state and run concurrently, checks them with TLC on
small instances, and proves with TLAPS every safety property the runs check.

Conventions: a definition whose comment starts with "Mutant:" is a plausible bug
used to see that a property notices it; it is not part of any specification.
`PROJECT.json` lists the runs, maps every definition to the lines it models and
lists the hazards the properties are aimed at.

## The system

| Component | State | Operations | Talks to |
|---|---|---|---|
| Connection hub (`internal/control/hub.go`) | under `hub.mu`: `connections`, `pending`, `blocked` by instance id; a buffered channel for each connection | `Reserve`, `Cancel`, `Activate`, detach, `Revoke` and its release, `IfNotRevoked`, `Online`, `IfOnline`, `Send` | stream handler, REST handlers, installer |
| Control stream handler (`internal/control/server.go`) | one goroutine for each stream | `Connect`, `handleMessage`, `sendWhileConnected`, `markOffline`, `publishIfEnrolled` | hub, store, bus, agent |
| Instance REST handlers (`internal/api/api.go`) | one goroutine for each request | `createInstance`, `deleteInstance`, `setDesired`, `installInstanceSSH` | hub, store, bus, installer |
| Store (`internal/store/store.go`) | Badger keys: instance records, acknowledgements, usage total, event ledger, operator keys, sessions | optimistic transactions; a commit fails with `ErrConflict` if a key it read was written since | Badger (external) |
| Event bus and stream (`internal/events/bus.go`, `eventStream`) | subscribers with bounded channels, under `bus.mu` | `Publish`, `Subscribe`, `EventsAfter`, server-sent events | store, browsers |
| Agent (`internal/instance`) | generation and digest in memory, one stream at a time | dial, hello, heartbeat, `stateStore.apply`, stop on `PermissionDenied` | `HOST` |
| Operator access (`internal/auth/auth.go`, store) | setup token in memory; secret, consumed step, recovery codes and sessions in the store | bootstrap start and completion, login, logout | store |
| Login limiter (`internal/api/limiter.go`) | failures and end of the block, under a mutex | `allowed`, `failed`, `succeeded` | auth handlers |
| SSH installer (`internal/sshinstall/install.go`) | a channel of slots; what is on the remote machine | `Install`, its rollback | hub, store, bus, a remote machine |
| SSH targets (`internal/sshinstall/target.go`) | none; what a lookup and a machine answer | `ProbeHostKey`, `resolveTarget`, the host key callback | DNS, a remote machine, installer |
| Certificate authority (`internal/pki`) | `ca.crt`, `ca.key`, `host.crt`, `host.key` | `Ensure`, `IssueInstanceFiles` | file system, agents |
| Process lifecycle (`cmd/ulcer-host/main.go`) | `setup.token`, the files above, listeners, the store | start, serve, `GracefulStop`, `Shutdown`; systemd restarts it | everything |

The rest (configuration, build information, rendering of unit files, protobuf
definitions, the web console, build and release scripts) computes values or
renders them and keeps no state that other parts race for.

### What is hard

* **Deletion against everything else.** A stream may have updated the record and
  not attached yet, be attached, be reporting, or be on its way out when an
  operator deletes the instance; two operators may delete it at once. `Revoke`,
  the count in `hub.blocked` and the sections of `IfNotRevoked`, which keep
  `hub.mu` over store calls, are meant to keep these apart.
* **Overlapping streams of one agent.** The agent redials while the `HOST` still
  serves the stream it left; detach and `markOffline` of the old one race with
  the new one.
* **Optimistic transactions.** A conflict must not be taken for a missing record
  (which stops the agent for good), nor a missing record for a conflict.
* **Copies of the desired state** in the record, requests, snapshots, buffers,
  the wire and the agent, delivered at most once and possibly out of order.
* **Shared keys.** One usage total and one event sequence for all instances.
* **Slow consumers.** A full buffer closes a connection or a subscription;
  what was lost has to come back another way.
* **Check, then act.** Bootstrap, recovery codes and TOTP steps, the limiter and
  the installer check in one step and act in another.
* **Restarts.** The store survives, everything else is new; the agent keeps
  nothing over a restart of its own.
* **Files made once.** A start makes the setup token, the authority and the
  `HOST` certificate if they are missing, write by write; whatever a process
  that ended in between left behind is what every later start finds.
* **The orderly stop.** `GracefulStop` waits for agents that need not leave,
  `Shutdown` for browsers that never do, under a deadline only one of the two
  looks at.
* **Names and addresses.** What an operator confirmed about a machine has to
  hold for the lookup and the connection that come later.

## Modules

| Module | Models | Status |
|---|---|---|
| `ControlPlane` | hub, stream handler, `createInstance`, `deleteInstance`, `setDesired`, instance record, the agent's reaction to the end of a stream | checked and proved |
| `ControlPlaneProofs` | theorems about `ControlPlane`, which implements `Enrollment` | proved |
| `Enrollment` | what hub, store and handlers promise about one instance | abstract |
| `Reconcile` | desired state from `setDesired` to the agent and its status back | checked and proved |
| `ReconcileProofs` | theorems about `Reconcile` | proved |
| `MeterLedger` | what traffic accounting promises, without transactions | abstract |
| `MeterStore` | `ApplyMeters` and the deletion of acknowledgements as transactions | checked and proved to implement `MeterLedger` |
| `MeterStoreProofs` | theorems about `MeterStore`, and about folds and sums | proved |
| `EventBus` | `AppendEvent`, `Publish`, `Subscribe`, `eventStream`, reconnecting browsers | checked and proved |
| `EventBusProofs` | theorems about `EventBus` | proved |
| `Auth` | bootstrap, login, logout, sessions | checked and proved |
| `AuthProofs` | theorems about `Auth` | proved |
| `LoginLimiter` | the failure limiter | checked and proved |
| `LoginLimiterProofs` | theorems about `LoginLimiter` | proved |
| `SSHInstall` | `ProbeHostKey`, target resolution, `Install`, rollback, a concurrent `DELETE`, the installed agent | checked and proved |
| `SSHInstallProofs` | theorems about `SSHInstall` | proved |
| `DataDir` | `auth.New`'s setup token and `pki.Ensure`, file by file | checked and proved as part of `HostProcess` |
| `HostProcess` | `run` of the `HOST` from start to end, its credentials, its agents' redial loop | checked and proved |
| `HostProcessProofs` | theorems about `HostProcess` | proved |

`MCControlPlane`, `MCReconcile`, `MCMeterStore` and `MCAuth` add what TLC needs:
symmetry sets, and for `MCMeterStore` the logs and the batches.

### How they fit together

`ControlPlane` is the core. `Reconcile` looks at the same streams with the
instance enrolled for good and follows the data that `ControlPlane` leaves out
(a queued message is only counted there). `MeterStore` has the transaction
behind the "meters" message of `ControlPlane`, with other instances that share
the total. `EventBus` has the publication that is one step in `ControlPlane`
and `SSHInstall`. `LoginLimiter` stands in front of the handlers of `Auth`: a
refused request does nothing. `SSHInstall` sees of the hub whether an instance
is online and how many deletions block it. `HostProcess` runs `DataDir`; of a
control stream and an event stream it keeps only what an orderly stop has to
wait for, and it gives the reason for the crashes of all the other modules.

### ControlPlane

One instance id: every map of the hub and every key used here is indexed by the
id, and no operation touches two. One step is one critical section of `hub.mu`,
one read of the store or one commit.

| Variable | Code |
|---|---|
| `record`, `fresh` | the instance record (its phase, or absent); the open transactions that have read its last version |
| `mu` | `hub.mu` while it is held from one step to the next (`IfNotRevoked`) |
| `blocked`, `attached`, `pending`, `conn`, `queue` | `hub.blocked`, `hub.connections`, `hub.pending`, the connection of each stream and how many messages its channel holds |
| `pc`, `op`, `denied`, `tries` | where each handler is, what it works on, whether it will return `PermissionDenied`, the conflicts of `DeleteInstance` |
| `inbox`, `agentOn`, `stopped` | a message on its way, the stream the agent uses, `client.Run` returned `ErrIdentityRejected` |
| `late` | history: events appended when the record was already gone |

`Connect` is `Reserve`, `Read`, `Commit` (or `Conflict`, `Lookup`, `Cancel`),
`Activate`, `PubLock`, `PubCheck`, `PubAppend` (or `Abort`), `Send`, then the
loop `LoopTop`, `SelectMessage`, `SelectOutbound`, `StreamEnds`, and the
deferred `Detach`, `OfflineLock` ... `OfflineAppend`. `deleteInstance` is
`DeleteBegin`, `Revoke`, `DeleteRead`, `DeleteCommit` or `DeleteConflict`, `DeletePublish`,
`Release`. `setDesired` shares the transaction and the publication with the
stream (`Update`) and has `HubSend` of its own. `Drop` breaks a stream, `Crash`
restarts the `HOST`.

Left out: `authorizeInstance` (a stream that fails it touches nothing), messages
no agent sends (a second hello, a foreign id), I/O errors of Badger other than
`ErrConflict` and `ErrNotFound`.

### Enrollment

Four variables: the life of the instance (`new`, `live`, `gone`), whether it is
online, whether its removal was asked for, whether its agent was dismissed. The
mapping takes the life from the record and from whether `createInstance` has
run, `online` from `attached`, `asked` from the DELETEs that have begun and
`dismissed` from `stopped`. What it rules out is a deletion that does not last:
an update that read the record before the deletion writes all of it back
(`store.go:289`), and only Badger's conflict check is in its way.

### Reconcile

A version is a generation with a digest; the specification travels with the
digest computed from it and is left out. `SetDesired` is the transaction of the
request, `HubSend` what follows it; `Hello` reads the record, `SendSnapshot`
sends what was read; `AgentReceive` is `stateStore.apply` with its answer,
`HandleStatus` the checks of `handleMessage`. `HostRestart` and `AgentRestart`
keep the store and nothing, respectively. `readme.md:78` says that the agent
persists the snapshot; the code keeps it in memory (`state.go:27`), and so does
the model.

### MeterLedger and MeterStore

`MeterStore` runs the loop of `ApplyMeters` as a fold over a batch, inside a
transaction that reads the record, the acknowledgement and the shared total and
goes stale when one of them is written. The refinement mapping gives the number
of counted deltas as the acknowledgement, or for a deleted instance as the
acknowledgement its deletion removed (history variable `settled`).

### EventBus

An event is its id. `AppendRead` and `AppendCommit` are the transaction of
`AppendEvent`, `Deliver` is the rest of `Publish`; a browser connects with its
last id, subscribes, reads the history and then its channel. The history is the
set of the newer events of the ledger, written oldest first, which is the order
`EventsAfter` iterates in. Two history variables: `received`, every id written to
a browser in the order of writing, so that one written twice is seen, and
`overtaken`, the events a newer one was delivered before.

### Auth and LoginLimiter

A TOTP code is a pair of a secret and a step, so codes of different secrets
never collide; time moves in units of 30 seconds, the period of a code and the
unit of the limiter. Every transaction of the store is a read step and a commit
step. Setup tokens are right or wrong; random values never collide.

### SSHInstall

Each remote command may succeed or fail; what matters afterwards is what is on
the machine (`none`, `files`, `running`, `stopped`) and whether the record
exists. Wiping of credentials and the text of the shell commands are left out.

Before that comes the target. An address has a family (v4, or v4 mapped into v6)
and a kind (unicast, loopback, link-local and so on); a lookup answers with any set
of them, each time anew, and any machine may answer at an address, each with a
host key of its own; any unicast address may be dialed, a public one of the
`HOST` itself too. The operator confirms a fingerprint from `ProbeHostKey`;
`Install` resolves again, refuses the target if one address is not allowed, and
its connections, the second one of the rollback too, accept the confirmed key
only.

`DeleteInstance` is one step that may fail (its eight tries are in
`ControlPlane`). The rollback drops the error (`install.go:162`): the record
stays, and the history variable `undeleted` remembers it. A DELETE that fails
says so and may be repeated. `Confirm` is the decision, taken with `hub.mu` held
and after which nothing is rolled back; `Answer`, a step of its own, tells the
caller, and a DELETE may come in between.

### DataDir and HostProcess

| Variable | Code |
|---|---|
| `exists`, `disk` | the five files and what they hold: a key, who signed it, for which name; an empty file holds `Blank` |
| `stage`, `step`, `made` | which file `auth.New` or `pki.Ensure` is at, how far, and what it writes |
| `name`, `token` | `configuration.PublicName` of this run, `Service.setupToken` |
| `pc`, `exit`, `deadline` | where `run` is, how the last process ended, the 10 second context |
| `ready`, `removing` | `auth/operator-ready`; `CompleteSetup` has committed and not removed the file |
| `creds`, `phase`, `agent` | what each instance was given, the phase in its record, its agent |
| `attached`, `marking`, `watching` | control streams, streams whose `markOffline` is due, event streams |
| `unmarked` | history: the mark of these was lost |

`os.WriteFile` is two steps, the truncation and the write, and the certificate
is written before the key; `Stat` looks for the certificate only, and a pair
that is there is never made again. `Killed` may happen between any two steps,
during a start too; a signal that comes before `NotifyContext` ends the process
by default and for good (`Interrupted`); `ServeFails` is one server returning an error while the
other serves. `Signal`, `GracefulStop`, `Shutdown` are the orderly stop; with a
restart the environment may have another public name.

## Runs

All are listed in `PROJECT.json` and run as `tlc -config X.cfg M`.

| Run | Bounds | Shows |
|---|---|---|
| `control_safety` | 1 stream, 2 DELETEs, 2 updates, buffer of 1, 2 tries of `DeleteInstance`, 1 restart | `IndInv`, the inductive invariant of the proofs, the limit of the buffer included; `RevocationHolds`: the block counts the deletions under way and lets nothing in; `HubOwnsConnections`: nothing in the hub is lost track of; `StopsOnlyOnDeletion`: no conflict, replacement or restart stops an agent for good |
| `control_live` | 2 streams, 1 DELETE, 1 broken stream, fair | `ImplementsEnrollment`: every step is one of the abstract life of an instance; `AttachedIsEnrolled`; `SilentOnceDeleted`; `DeletionEnds`; `DeletedAgentStops`; `OfflineHeals` |
| `reconcile_safety` | 2 updates, 2 digests, 2 streams, 2 faults | `VersionsInv`: one digest for each generation over all copies; `StatusesAccepted`, `AgentNeverRegresses` |
| `reconcile_live` | the same without faults, fair | `DeliveredIsApplied`: what is sent to an attached stream is applied unless the stream ends, as it does when the buffer is full; `ReconnectConverges` |
| `reconcile_converge` | 1 update, no fault, fair | violated: see Findings |
| `meter_store` | 2 instances, 3 concurrent calls, logs of 3 deltas, batches of up to 2, counters that overflow | `ImplementsLedger`; `StoreInv`: a deleted instance has no acknowledgement; `AcknowledgedIsCounted`, `RunsAreAcknowledged` |
| `event_bus` | 2 publishers, 1 browser, ledger of 2, channel of 1, 5 events, 1 fault, fair | `BusInv`: the ledger is a window without gaps; `InOrder`: no id is written twice or behind a newer one; `NothingMissed`, `CatchesUp` |
| `auth` | 2 concurrent requests, 2 secrets, 1 recovery code, 2 moments, 1 restart | `OneOperator`; `SessionsInv`: every session was earned; `CodesAreSpent`: recovery codes once, TOTP steps once unless a start interferes |
| `auth_late_start` | the same without restart | violated: see Findings |
| `login_limiter` | 3 requests, the code's constants, 2 restarts, fair | `LimiterInv`: the bound of a burst; `BlockEnds` |
| `ssh_install` | 2 installs, 1 slot, 2 families of addresses, 2 host keys, 1 restart, fair | `OnlyConfirmedMachines`: credentials reach no machine but one with the confirmed key, and only unicast addresses are dialed; `AllOrNothing`, but for a rollback whose `DeleteInstance` fails; `InstallInv`: slots and blocks are given back; `NoSuccessOnceDeleted`: no success is decided against a DELETE; `InstallEnds`, `OrphanStops` |
| `host_process` | 1 agent, 1 browser, 2 public names, 2 faults, fair | `HostInv`: files agree after an end at any point, and what was given out is of the authority on disk; `OfflineIsRecorded`: an orderly stop marks every record; `HandedOutStands`: no restart devalues credentials or setup token; `ComesUp`: a torn pair or a signal is all that keeps a `HOST` down; `HeldOnlyByAgents`: an attached agent is all that holds a stop; `AgentReturns` |

### Why the bounds are enough

* Two of a kind are what a race needs: two streams of one agent, two DELETEs, two
  updates, two publishers, two requests with one code. That more change nothing
  is proved for everything but liveness, where it rests on the processes being
  alike.
* Buffers and the ledger are as small as they can be (1, 1, 2), so that they are
  full early; 5 events let the ledger of 2 slide several times.
* Two tries of `DeleteInstance` give one conflict that is retried and one that
  is final. `login_limiter` uses the code's own numbers.
* In `MCMeterStore` the logs of two instances together exceed the counter and
  one log does not, so overflow depends on the interleaving.
* One fault at any point covers every single failure; two in `reconcile_safety`
  let one side restart while the other recovers, and in `host_process` let the
  start after a failed start fail too. Nothing there makes two agents or two
  browsers wait for each other, and the safety is proved for any number.
* `v4` and `mapped` addresses have every kind that `allowedTargetAddress` tells
  apart; plain v6 addresses lack two of them and add none.

Most runs stop TLC from reporting deadlock: when the bounded requests are used
up and the agent has stopped, or an install has returned, the system rests.
`Reconcile` and `LoginLimiter` never rest and are checked for deadlock.

### Fairness

Requests, broken streams, restarts and publications are never required. What is
required, and why the code provides it:

* goroutines that can run do run, and Go's mutex hands itself to the longest
  waiter after a millisecond: strong fairness for the handlers in `ControlPlane`
  that compete for `hub.mu`, weak fairness where nothing can disable the step;
* `select` picks among its ready cases at random: strong fairness for each case
  of the loop in `Reconcile`;
* the agent redials after a bounded backoff and its heartbeat is a ticker: weak
  fairness of `Dial`, `AgentSend`, `Heartbeat`;
* the browser's `EventSource` reconnects: weak fairness of `Connect`, as part of
  `Streaming`, in `EventBus`;
* remote commands end, with `installTimeout` if nothing else: weak fairness of
  the steps of `Install`;
* time passes: `Tick` in `LoginLimiter`, `DeadlinePasses` in `HostProcess`;
* a `HOST` that failed is started again: `Restart=on-failure`
  (`deploy/quadlet/ulcer-host.container:24`), which does not hold for one that
  was told to stop. Nobody has to send a signal, leave a stream or close a page.

## Proofs

`ControlPlaneProofs` proves, for every set of streams, updates and buffer size,
every finite set of deletions and every bound on conflicts, breaks and restarts:

| Theorem | Statement |
|---|---|
| `IndInvHolds` | `Spec => []IndInv` |
| `TypeCorrect` | types, the bound of the outbound buffer included |
| `AttachedStaysEnrolled` | a connection is attached only while the record exists |
| `RevocationIsExact` | `hub.blocked` is the number of deletions under way, and while there is one the hub holds neither connection nor reservation |
| `NoConnectionLeaks` | every open connection is reserved or attached; everything in the hub belongs to a running handler |
| `NoSpuriousRejection` | an agent stops for good only after a deletion was asked for |
| `SilenceAfterDeletion` | no guarded event is appended once the record is gone |

Assumptions, all in `ControlPlane`: the processes are distinct
(`ProcsDisjoint`), the DELETEs are finitely many, as their number is counted
(`DeletesFinite`), the agent sends statuses and meters (`KindsKnown`), bounds
are natural numbers and buffer and retries positive (`BoundsAreNat`).

None of the safety properties is inductive alone. `IndInv` adds:

* `LockInv`: `hub.mu` is held exactly by the handlers inside a section of
  `IfNotRevoked`, and the instance is not revoked meanwhile. Without it a
  deletion could commit between the check and the append of an event.
* `EnrolledInv`: the record exists where the code goes on as if it did: in a
  transaction that read its last version, for a reservation about to be
  activated, and inside the sections above. The first part is what Badger's
  conflict check gives; the second is why `Activate` may trust what `Connect`
  wrote earlier: a deletion has to empty `pending` first.
* `PlaceInv`: which part of `Connect` a reserved or attached stream is in, so
  that `Cancel`, `Activate` and detach find what they expect.
* `RejectInv`: a missing record, a pending refusal and a stopped agent each need
  a deletion that was asked for.

The argument: only `DeleteCommit` removes the record; it runs inside a deletion,
so by `RevocationHolds` the block is positive, `pending` and `attached` are
empty, and by `LockInv` no section is open. So nothing that `EnrolledInv` or
`AttachedIsEnrolled` speaks of exists at that moment. Each part of `IndInv` has
a lemma with one step for each action; `IndInvInductive` puts them together.
The count in `RevocationHolds` uses the cardinality facts of
`FiniteSetTheorems`: `Revoke` adds one deletion, `Release` removes one, and
`OthersKeepDeleting` says that no other handler changes the set.

The last part of the module proves `EnrollmentIsKept`, `Spec =>
ImplementsEnrollment`, under the same assumptions. Initial states map to initial
states, and a lemma for each kind of handler shows that its steps are steps of
`Enrollment` or stutter: `CreatePut` is `Enroll`, `Activate` is `Attach`
(`EnrolledInv` gives the record), `Detach`, `Abort`, `Revoke` and `Crash` are
`Leave`, `DeleteBegin` is `Ask`, `DeleteCommit` is `Remove` (`RevocationHolds`
gives that nobody is attached), the end of a refused stream is `Dismiss`
(`RejectInv` gives that the removal was asked for). That a commit of
`UpdateInstance` or `markOffline` is a stutter is the first part of
`EnrolledInv`: a transaction that read the last version read a record.

`HostProcessProofs` proves, for every finite set of agents, browsers and names
and every number of faults:

| Theorem | Statement |
|---|---|
| `HostInvHolds` | `Spec => []HostInv` |
| `NoMarkIsLost` | `Spec => []OfflineIsRecorded` |
| `NothingHandedOutIsLost` | `Spec => HandedOutStands` |

Its constants are assumed finite and the name of no file distinct from the
names (`DataDirConstants`, `ProcessConstants`). `HostInv` is types, `StartInv`
and `IdentityIsWhole`. That the files agree is not inductive: between two writes
one has to know what is in memory. `StartInv` says it: what is being written was
signed by the authority on disk, the file it goes to was missing or empty, and
a start that is at the `HOST` certificate has read a whole authority. So no
whole file is ever overwritten, which is all `HandedOutStands` needs of the
files; for the token the proof adds `TokenInForce`: the token in memory is the
one in the file as long as there is no operator.

### Reconciliation

`ReconcileProofs` proves `OneDigest` (`[]VersionsInv`), `NoStatusRefused`
(`[]StatusesAccepted`) and `NoRegression` (`AgentNeverRegresses`) for every set
of requests, streams and digests, every buffer and number of faults. The
assumptions (`ReconcileConstants`) are that the bounds are numbers, the buffers
positive, and that the names for "no stream" and "no digest" are none.

`ReconcileInv` strengthens `VersionsInv` by the empty version that a restart of
the agent or a new record brings back. That a generation names one digest is a
statement about pairs of copies in eight places; to avoid a case for each pair of
places, `Holds(A)` says that all copies are in a set `A`, and `HoldsStep` shows
for an arbitrary `A` that a step adds at most the new record. Applied to the set
of copies before the step it gives the set after it, and the new record has a
generation no copy has.

### Traffic accounting

`MeterStoreProofs` proves, for every finite set of instances, any workers, logs,
width of the counters and batches:

| Theorem | Statement |
|---|---|
| `CountsEveryDeltaOnce` | `Spec => ImplementsLedger` |
| `AcknowledgedNeverLost` | `Spec => []AcknowledgedIsCounted` |
| `WholeRunOrNothing` | `Spec => []RunsAreAcknowledged` |
| `StoreIsConsistent` | `Spec => []StoreInv` |

`MeterConstants` assumes that each instance has numbered its deltas and sends a
number always with the same bytes (the agent owns its log), and that a batch is
a sequence of such numbers, zeros and nils.

`MeterInv` adds that the total is the sum of what was counted (the invariant of
the ledger itself) and `Fresh`: a transaction that no commit has made stale
finds its instance enrolled, acknowledges no less than the store does, and
would write the present total grown by exactly the deltas in between. The
second half is what `ErrConflict` protects; with a conflict check that forgets
the shared total the proof fails at the commit of `ApplyMeters`. That commit is
`Count` of the ledger, or a stutter if the batch brought nothing new.

Underneath are facts about what the fold of the loop and the sums over logs and
instances compute. The provers cannot instantiate an induction principle, so
each is proved by a least counterexample: `LeastNat` (from the well-foundedness
of `<`) gives the shortest part of a batch, or with `SmallestSet` the smallest
set, for which a statement fails. `FoldExists` shows that a fold over a finite
set is defined at all; `SumSplit`, `SumAgree` and `SumChange` that a sum does not
depend on the order of summation and changes by what one of its terms changes;
`ApplyIs` that `Apply` is the last of the iterations, one for each delta.

### Events

`EventBusProofs` proves `LedgerIsAWindow` (`[]BusInv`), `NoEventMissed`
(`[]NothingMissed`) and `EventsInOrder` (`[]InOrder`) for any publishers and
browsers, any retention limit, capacity and number of events and faults
(`BusConstants`: they are numbers, limit and capacity positive).

`BusInv` is inductive. The others need `StreamInv`: `Bounds` (nothing is newer
than the ledger), `InOrder` with `Positions` (what a handler will write is newer
than all its browser has, so `OrderStep` may append it), and `Accounted`, which
says for each event of the ledger and each browser where it is: seen or
overtaken, still to be read from the ledger, in the history, in the channel with
nothing newer before it, or on its way to a channel in which all is older; or
the channel was closed and the browser will ask again from before the event. The
seam between history and channel is `ReadHistory`: the handler has subscribed
before it, so an event that is appended too late for the history finds the
channel there when it is delivered.

### Operator access

`AuthProofs` proves `EverySessionIsEarned` (`[]SessionsInv`), `EveryCodeIsSpent`
(`[]CodesAreSpent`) and `TheOperatorStays` (`OneOperator`) for any requests,
recovery codes, secrets, steps and restarts. Besides the bounds
(`AuthConstants`) it assumes `AuthNames`: no code is both a TOTP code, which is
six digits, and a recovery code, which has a hyphen (`auth.go:88`), and "none"
is neither a secret nor a step.

`AuthInv` adds `OperatorOK` (before setup there is nothing to log in with),
`RequestOK` (what the place of a request says of its code, and that a
transaction no commit has made stale still sees what it read) and `CodeOK`: a
recovery code in the store is unused, and a TOTP code that was accepted as often
as there were starts is not newer than the consumed step. The last is why a
start that erases the step allows one more use and no second.

`LoginLimiterProofs` proves `GuessesAreBounded` (`[]LimiterInv`) for every finite
set of requests, every threshold, longest block and number of restarts.
`BurstInv` splits the bound in two: while nobody is blocked the failures are
counted and below the threshold; once somebody is, the failures and the requests
still inside together are below the bound, and no request comes in.

### Installation

`SSHInstallProofs` proves `NothingIsHeldTooLong` (`[]InstallInv`),
`InstallIsAllOrNothing` (`[]AllOrNothing`), `CredentialsStayHome`
(`[]OnlyConfirmedMachines`) and `DeletedNeverSucceeds` (`NoSuccessOnceDeleted`)
for every finite set of installs, any slots, host keys and restarts
(`InstallConstants`). The inductive invariant `IInv` says of each install what
its place implies (`Placed`): no record before it is written, none at the end of
a rollback unless it is `undeleted`, none after a DELETE removed it, no answer
before the end, and once past the resolution a unicast target. The decision
needs that a DELETE under way blocks the instance, which is the count of
`NothingIsHeld`, and that one that is over left no record. Installs share only
the slots, so each step needs the proof for its own install and `OthersSame` for
the rest; the slots are counted with the cardinality facts of
`FiniteSetTheorems`.

### Only model-checked

The liveness properties (`DeletedAgentStops`, `DeletionEnds`, `OfflineHeals`,
`DeliveredIsApplied`, `ReconnectConverges`, `CatchesUp`, `BlockEnds`,
`InstallEnds`, `OrphanStops`, `ComesUp`, `HeldOnlyByAgents`, `AgentReturns`):
they rest on fairness, and so on `ENABLED`, which the prover does not handle.
Every other property of a passing run is a theorem.

## Findings

* **An update between hello and attachment is not delivered**
  (`reconcile_converge`). The snapshot is the record read before `Activate`; a
  PUT that commits in between finds no connection to send to. The agent stays on
  the old state while the stream lives, although `readme.md:77` promises the
  current snapshot after every reconnect and `readme.md:80` level-triggered
  state. `ReconnectConverges` shows that the next reconnect heals it.
* **A late bootstrap start makes a TOTP step usable again**
  (`auth_late_start`). `SetPendingTOTP` deletes the consumed step without
  reading anything; a start that checked before the setup was completed and
  writes after it erases the step. `CodesAreSpent` shows that this is the only
  way.

Seen while modelling, without a run of their own, as no text of the repository
says otherwise:

* `PermissionDenied` is sent while an instance is revoked and still enrolled. If
  the `HOST` dies, or the deletion gives up, before the record goes, the
  instance stays enrolled and its agent has stopped. `StopsOnlyOnDeletion` is
  what holds.
* A process that ends inside `writePair` leaves a pair no later start can read
  or repairs (`ComesUp` allows for exactly this); one that ends between the
  truncation and the content of `setup.token` leaves an empty token, with which
  no setup can be completed.
* `host.crt` keeps the name of the first start and expires after a year without
  renewal: instances enrolled under a new name cannot connect, and the others
  not after that year.
* An attached agent holds `GracefulStop` for ever (`HeldOnlyByAgents`); the 10
  seconds are used up meanwhile.
* A kill between `CompleteOperator` and the removal of `setup.token` leaves the
  file; it is not looked at once there is an operator.
* The rollback of an install drops the error of `DeleteInstance`
  (`install.go:162`): after eight conflicts or an error of the store the caller
  is told that the install failed, while the record, and an agent the cleanup
  did not reach, stay until the operator deletes the instance. `AllOrNothing`
  allows for exactly this; `OrphanStops` is what holds then.
* `hub.mu` is released before an install answers: a caller may be told of the
  success of an instance that was deleted in between. `NoSuccessOnceDeleted` is
  about the decision.
* A server that fails ends `run` while streams are attached, and their records
  say connected until the agents are back (`unmarked`).

## Not modelled

* Power loss: a write that returned is on disk.
* Cryptography: a certificate is who signed it for which name.
* `ULCER_SETUP_TOKEN`: the token is taken from the file.
* The length of backoffs and of timeouts; only that they end.
* `normalizeHost`, the decoding of fingerprints, rendering of units,
  configuration, protobuf code, the console, build and release scripts: parsing
  and formatting without state.

## Plan

Done, in this order: `ControlPlane` with its proofs, `Reconcile`, `MeterStore`
over `MeterLedger`, `EventBus`, `Auth`, `LoginLimiter`, `SSHInstall`,
`HostProcess` over `DataDir` with its proofs, `Enrollment` and the proof that
`ControlPlane` implements it; then the proofs of `Reconcile`, `EventBus`,
`SSHInstall`, `LoginLimiter`, `Auth` and `MeterStore` with its refinement of
`MeterLedger`.

Next, in the proofs: what the liveness properties rest on and is safety, such as
that each waiting handler has a step to wait for; that `Enrollment` and
`MeterLedger` have the properties their names promise, from their own
specifications.

Next, in the models: the events of `ControlPlane` published through `EventBus`,
to bound what an operator can see out of order around a deletion; `Enrollment`
in place of the reduced hub of `SSHInstall`.
