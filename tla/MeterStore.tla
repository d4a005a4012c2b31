----------------------------- MODULE MeterStore -----------------------------
(***************************************************************************)
(* Traffic accounting as internal/store/store.go does it: ApplyMeters and   *)
(* DeleteInstance are optimistic Badger transactions over the instance      *)
(* record, the acknowledgement of the instance and one usage total shared   *)
(* by all instances.  A transaction reads a snapshot; its commit fails with *)
(* ErrConflict if a key it read was written after that.                     *)
(***************************************************************************)
EXTENDS Naturals, Sequences, SequencesExt

CONSTANTS
  Instances,
  LogLength,   \* how many deltas an instance produces
  Log,         \* Log[i][n]: the bytes of delta n of instance i
  MaxCounter,  \* the largest value of a counter (2^64 - 1 in the code)
  Workers,     \* concurrent store calls (stream handlers, DELETE requests)
  Batches,     \* batches of sequence numbers that arrive; Nil is a nil delta
  Nil

ASSUME MeterConstants ==
  /\ MaxCounter \in Nat
  /\ LogLength \in Nat
  /\ Log \in [Instances -> [1..LogLength -> [up : Nat, down : Nat]]]
  /\ Nil \notin Workers \cup Instances
  /\ IsFiniteSet(Instances)
  /\ Batches \subseteq Seq((0..LogLength) \cup {Nil})

VARIABLES
  status,  \* of the instance record: new, enrolled or deleted
  usage,   \* traffic/total
  ack,     \* meter-ack/<id>; 0 when the key is missing
  txn,     \* the transaction of each worker
  stale,   \* workers whose transaction read a key that was written since
  told,    \* the largest acknowledgement sent to each instance
  settled  \* history: the acknowledgement a deletion removed

vars == <<status, usage, ack, txn, stale, told, settled>>

Idle == [kind |-> "idle"]
Counter == 0..MaxCounter
Transactions ==
  {Idle} \cup [kind : {"delete"}, id : Instances]
    \cup [kind : {"meters"}, id : Instances, ack : 0..LogLength,
          usage : [up : Counter, down : Counter]]

TypeOK ==
  /\ status \in [Instances -> {"new", "enrolled", "deleted"}]
  /\ ack \in [Instances -> 0..LogLength]
  /\ told \in [Instances -> 0..LogLength]
  /\ settled \in [Instances -> 0..LogLength]
  /\ usage \in [up : Counter, down : Counter]
  /\ stale \in SUBSET Workers
  /\ txn \in [Workers -> Transactions]

Init ==
  /\ status = [i \in Instances |-> "new"]
  /\ usage = [up |-> 0, down |-> 0]
  /\ ack = [i \in Instances |-> 0]
  /\ txn = [w \in Workers |-> Idle]
  /\ stale = {}
  /\ told = [i \in Instances |-> 0]
  /\ settled = [i \in Instances |-> 0]

-----------------------------------------------------------------------------
(***************************************************************************)
(* The loop of ApplyMeters over a batch, as a fold.                         *)
(***************************************************************************)
\* Already acknowledged: continue.
Skips(state, seq) == seq <= state.ack

\* Mutant: a gap in the sequence is jumped over.
BreaksNever(state, seq) == FALSE

\* Not the next one: break.
Breaks(state, seq) == seq # state.ack + 1

Overflows(state, delta) ==
  \/ MaxCounter - state.usage.up < delta.up
  \/ MaxCounter - state.usage.down < delta.down

\* One iteration for delta seq of log i; "done" after a break, "error" after a
\* return with an error.
Step(i, state, seq) ==
  CASE state.loop # "run" -> state
    [] state.loop = "run" /\ seq = Nil -> [state EXCEPT !.loop = "error"]
    [] OTHER ->
         IF Skips(state, seq) THEN state
         ELSE IF Breaks(state, seq) THEN [state EXCEPT !.loop = "done"]
         ELSE IF Overflows(state, Log[i][seq])
              THEN [state EXCEPT !.loop = "error"]
         ELSE [state EXCEPT !.ack = seq,
                            !.usage.up = @ + Log[i][seq].up,
                            !.usage.down = @ + Log[i][seq].down]

Apply(i, batch, a, u) ==
  FoldLeft(LAMBDA state, seq : Step(i, state, seq),
           [loop |-> "run", ack |-> a, usage |-> u], batch)

-----------------------------------------------------------------------------
\* PutInstance of a fresh id.
Enroll(i) ==
  /\ status[i] = "new"
  /\ status' = [status EXCEPT ![i] = "enrolled"]
  /\ UNCHANGED <<usage, ack, txn, stale, told, settled>>

\* Mutant: a snapshot is checked only against writes to its own instance.
ReadersOwn(written, self) ==
  {w \in Workers \ {self} : txn[w] # Idle /\ txn[w].id = written.id}

\* Mutant: only the record is checked for conflicts.
ReadersOfRecord(written, self) ==
  {w \in Workers \ {self} :
    txn[w] # Idle /\ "record" \in written.keys /\ txn[w].id = written.id}

\* The open transactions, other than self, that read a key that is written:
\* the record of an instance is read by all that work on it, its ack and the
\* usage total by ApplyMeters.
Readers(written, self) ==
  {w \in Workers \ {self} :
    /\ txn[w] # Idle
    /\ \/ "record" \in written.keys /\ txn[w].id = written.id
       \/ "ack" \in written.keys /\ txn[w].id = written.id
            /\ txn[w].kind = "meters"
       \/ "usage" \in written.keys /\ txn[w].kind = "meters"}

Writes(id, keys) == [id |-> id, keys |-> keys]

\* The end of a transaction of w: it is closed and the readers of what it
\* wrote go stale.
Close(w, readers) ==
  /\ txn' = [txn EXCEPT ![w] = Idle]
  /\ stale' = (stale \cup readers) \ {w}

\* UpdateInstance rewrites the record (hello, status, desired state).
Touch(i) ==
  /\ status[i] = "enrolled"
  /\ stale' = stale \cup Readers(Writes(i, {"record"}), Nil)
  /\ UNCHANGED <<status, usage, ack, txn, told, settled>>

\* What handleMessage lets through: a batch starts with a numbered delta.
WellFormed(batch) == batch # <<>> => batch[1] \notin {0, Nil}

\* The closure of ApplyMeters runs on a snapshot.  A missing record or an
\* error in the loop ends it here, with nothing written.
MetersRead(w, i, batch) ==
  /\ txn[w] = Idle
  /\ WellFormed(batch)
  /\ status[i] = "enrolled"
  /\ LET result == Apply(i, batch, ack[i], usage)
     IN  /\ result.loop # "error"
         /\ txn' = [txn EXCEPT ![w] =
                     [kind |-> "meters", id |-> i, ack |-> result.ack,
                      usage |-> result.usage]]
  /\ UNCHANGED <<status, usage, ack, stale, told, settled>>

\* The commit; handleMessage then sends the acknowledgement.
MetersCommit(w) ==
  /\ txn[w].kind = "meters"
  /\ w \notin stale
  /\ LET i == txn[w].id
     IN  /\ ack' = [ack EXCEPT ![i] = txn[w].ack]
         /\ usage' = txn[w].usage
         /\ told' = [told EXCEPT ![i] = IF txn[w].ack > @ THEN txn[w].ack ELSE @]
         /\ Close(w, Readers(Writes(i, {"ack", "usage"}), w))
  /\ UNCHANGED <<status, settled>>

\* Mutant: the acknowledgement of the deleted instance stays behind.
AckDeletedKept(a, i) == a

\* txn.Delete of the acknowledgement.
AckDeleted(a, i) == [a EXCEPT ![i] = 0]

DeleteRead(w, i) ==
  /\ txn[w] = Idle
  /\ status[i] = "enrolled"
  /\ txn' = [txn EXCEPT ![w] = [kind |-> "delete", id |-> i]]
  /\ UNCHANGED <<status, usage, ack, stale, told, settled>>

DeleteCommit(w) ==
  /\ txn[w].kind = "delete"
  /\ w \notin stale
  /\ status' = [status EXCEPT ![txn[w].id] = "deleted"]
  /\ ack' = AckDeleted(ack, txn[w].id)
  /\ settled' = [settled EXCEPT ![txn[w].id] = ack[txn[w].id]]
  /\ Close(w, Readers(Writes(txn[w].id, {"record", "ack"}), w))
  /\ UNCHANGED <<usage, told>>

\* ErrConflict: nothing is written.  ApplyMeters reports it, or ErrNotFound if
\* the record is gone; DeleteInstance reads again (ControlPlane has its bound).
TxnConflict(w) ==
  /\ txn[w] # Idle
  /\ w \in stale
  /\ Close(w, {})
  /\ UNCHANGED <<status, usage, ack, told, settled>>

Next ==
  \/ \E i \in Instances : Enroll(i) \/ Touch(i)
  \/ \E w \in Workers, i \in Instances :
       DeleteRead(w, i) \/ \E b \in Batches : MetersRead(w, i, b)
  \/ \E w \in Workers : MetersCommit(w) \/ DeleteCommit(w) \/ TxnConflict(w)

Spec == Init /\ [][Next]_vars

-----------------------------------------------------------------------------
(***************************************************************************)
(* Properties.                                                              *)
(***************************************************************************)
\* How many deltas of each instance the store has counted.
Counted == [i \in Instances |-> IF status[i] = "deleted" THEN settled[i] ELSE ack[i]]

Ledger == INSTANCE MeterLedger WITH counted <- Counted

\* The transactions implement the ledger: every delta is counted exactly once
\* in the total, in order and without a gap, however batches are repeated,
\* overlap, arrive out of order or run concurrently, for whichever instances,
\* and whatever commits in between (readme.md:45, "replay-safe, contiguous
\* traffic acknowledgements"); a deletion leaves the total alone.
ImplementsLedger == Ledger!Spec

\* Deleting an instance removes its acknowledgement, and a meter transaction
\* that overlaps the deletion does not bring it back (readme.md:236).
DeletedHasNoAck == \A i \in Instances : status[i] = "deleted" => ack[i] = 0

\* The same with the types: usage and acknowledgements keep their width.
StoreInv == TypeOK /\ DeletedHasNoAck

\* The HOST never acknowledges a delta that is not in the total, so an agent
\* may forget what was acknowledged.
AcknowledgedIsCounted == \A i \in Instances : told[i] <= Counted[i]

\* For the batches this protocol sends, a run first..last of the log, the loop
\* acknowledges max(ack, last) if the run leaves no gap and nothing otherwise,
\* or fails as a whole.
RunsAreAcknowledged ==
  \A i \in Instances : \A first, last \in 1..LogLength :
    LET run == [k \in 1..(last - first + 1) |-> first + k - 1]
        result == Apply(i, run, ack[i], usage)
    IN  first <= last /\ result.loop # "error" =>
          result.ack = IF first <= ack[i] + 1 /\ last > ack[i] THEN last
                       ELSE ack[i]
=============================================================================
