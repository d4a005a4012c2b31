------------------------------ MODULE EventBus ------------------------------
(***************************************************************************)
(* The event ledger and its live stream: AppendEvent and EventsAfter        *)
(* (internal/store/store.go), Bus.Publish and Bus.Subscribe                 *)
(* (internal/events/bus.go), the SSE handler eventStream                    *)
(* (internal/api/api.go) and a browser that reconnects with the id of the   *)
(* last event it received.  An event is its id.                             *)
(***************************************************************************)
EXTENDS Naturals, Sequences

CONSTANTS
  Publishers,  \* concurrent calls of Bus.Publish
  Clients,     \* browsers with an EventSource
  Limit,       \* store.go defaultEventLimit, events kept (500 in the code)
  SubCap,      \* bus.go:43, buffer of a subscriber (32 in the code)
  MaxEvents,   \* bound: events appended
  MaxFaults    \* bound: broken responses and restarts of the HOST

ASSUME BusConstants ==
  /\ Limit \in Nat \ {0}
  /\ SubCap \in Nat \ {0}
  /\ MaxEvents \in Nat
  /\ MaxFaults \in Nat

VARIABLES
  sequence,  \* meta/event-sequence
  ledger,    \* the ids under event/
  pub,       \* each Publish: where it is, and the id it works with
  sub,       \* each client's subscription: none, open or closed by the bus
  chan,      \* its channel
  pc,        \* each client's eventStream handler
  history,   \* what EventsAfter returned and was not written yet
  after,     \* the handler's variable after
  lastId,    \* the browser's last event id
  received,  \* every event written to the browser, in the order of the writes
  overtaken, \* history: events a newer one was delivered before
  faults

storeVars == <<sequence, ledger>>
busVars == <<sub, chan>>
clientVars == <<pc, history, after, lastId, received>>
vars == <<storeVars, pub, busVars, clientVars, overtaken, faults>>

Ids == 0..MaxEvents

TypeOK ==
  /\ sequence \in Ids
  /\ ledger \in SUBSET Ids
  /\ pub \in [Publishers -> [pc : {"idle", "append", "deliver"}, id : Ids]]
  /\ sub \in [Clients -> {"none", "open", "closed"}]
  /\ chan \in [Clients -> Seq(Ids)]
  /\ \A c \in Clients : Len(chan[c]) <= SubCap
  /\ pc \in [Clients -> {"away", "subscribed", "history", "loop"}]
  /\ history \in [Clients -> SUBSET Ids]
  /\ after \in [Clients -> Ids]
  /\ lastId \in [Clients -> Ids]
  /\ received \in [Clients -> Seq(Ids)]
  /\ overtaken \subseteq Ids
  /\ faults \in 0..MaxFaults

Init ==
  /\ sequence = 0
  /\ ledger = {}
  /\ pub = [p \in Publishers |-> [pc |-> "idle", id |-> 0]]
  /\ sub = [c \in Clients |-> "none"]
  /\ chan = [c \in Clients |-> <<>>]
  /\ pc = [c \in Clients |-> "away"]
  /\ history = [c \in Clients |-> {}]
  /\ after = [c \in Clients |-> 0]
  /\ lastId = [c \in Clients |-> 0]
  /\ received = [c \in Clients |-> <<>>]
  /\ overtaken = {}
  /\ faults = 0

-----------------------------------------------------------------------------
(***************************************************************************)
(* Bus.Publish: the transaction of AppendEvent, then the delivery.          *)
(***************************************************************************)
PublishTo(p, l, id) == pub' = [pub EXCEPT ![p] = [pc |-> l, id |-> id]]

AppendRead(p) ==
  /\ pub[p].pc = "idle"
  /\ sequence < MaxEvents
  /\ PublishTo(p, "append", sequence + 1)
  /\ UNCHANGED <<storeVars, busVars, clientVars, overtaken, faults>>

\* The event that leaves the ledger when id enters it.
Evicted(id) == id - Limit

\* Mutant: the conflict on the sequence goes unnoticed.
AppendIsCurrentAlways(p) == TRUE

\* No append committed since AppendRead read the sequence.
AppendIsCurrent(p) == pub[p].id = sequence + 1

AppendCommit(p) ==
  /\ pub[p].pc = "append"
  /\ AppendIsCurrent(p)
  /\ sequence' = pub[p].id
  /\ ledger' = (ledger \cup {pub[p].id})
                 \ (IF pub[p].id > Limit THEN {Evicted(pub[p].id)} ELSE {})
  /\ PublishTo(p, "deliver", pub[p].id)
  /\ UNCHANGED <<busVars, clientVars, overtaken, faults>>

\* ErrConflict: the event is lost, every caller ignores the error.
AppendConflict(p) ==
  /\ pub[p].pc = "append"
  /\ ~AppendIsCurrent(p)
  /\ PublishTo(p, "idle", 0)
  /\ UNCHANGED <<storeVars, busVars, clientVars, overtaken, faults>>

\* The send of the select in Publish can proceed.
HasRoom(c) == Len(chan[c]) < SubCap

\* Under bus.mu: a subscriber whose channel is full is closed and forgotten.
Deliver(p) ==
  /\ pub[p].pc = "deliver"
  /\ chan' = [c \in Clients |->
               IF sub[c] = "open" /\ HasRoom(c)
               THEN Append(chan[c], pub[p].id) ELSE chan[c]]
  /\ sub' = [c \in Clients |->
              IF sub[c] = "open" /\ ~HasRoom(c)
              THEN "closed" ELSE sub[c]]
  /\ overtaken' = overtaken \cup
                    {pub[q].id : q \in {q \in Publishers :
                       pub[q].pc = "deliver" /\ pub[q].id < pub[p].id}}
  /\ PublishTo(p, "idle", 0)
  /\ UNCHANGED <<storeVars, clientVars, faults>>

-----------------------------------------------------------------------------
(***************************************************************************)
(* eventStream and its browser.                                             *)
(***************************************************************************)
Goto(c, l) == pc' = [pc EXCEPT ![c] = l]

\* The request: Last-Event-ID, then Subscribe, before the ledger is read.
Connect(c) ==
  /\ pc[c] = "away"
  /\ after' = [after EXCEPT ![c] = lastId[c]]
  /\ sub' = [sub EXCEPT ![c] = "open"]
  /\ chan' = [chan EXCEPT ![c] = <<>>]
  /\ Goto(c, "subscribed")
  /\ UNCHANGED <<storeVars, pub, history, lastId, received, overtaken, faults>>

\* Mutant: Seek starts one event too late.
EventsAfterNext(id) == {e \in ledger : e > id + 1}

\* EventsAfter: the ledger holds no more than the limit it is called with.  The
\* events come in the order of their ids, which is how WriteHistory takes them.
EventsAfter(id) == {e \in ledger : e > id}

ReadHistory(c) ==
  /\ pc[c] = "subscribed"
  /\ history' = [history EXCEPT ![c] = EventsAfter(after[c])]
  /\ Goto(c, "history")
  /\ UNCHANGED <<storeVars, pub, busVars, after, lastId, received, overtaken,
                 faults>>

\* writeEvent: the browser gets the event and remembers its id.
WriteEvent(c, id) ==
  /\ after' = [after EXCEPT ![c] = id]
  /\ lastId' = [lastId EXCEPT ![c] = id]
  /\ received' = [received EXCEPT ![c] = Append(@, id)]

WriteHistory(c) ==
  /\ pc[c] = "history"
  /\ \E id \in history[c] :
       /\ \A e \in history[c] : id <= e
       /\ WriteEvent(c, id)
       /\ history' = [history EXCEPT ![c] = @ \ {id}]
  /\ UNCHANGED <<storeVars, pub, busVars, pc, overtaken, faults>>

HistoryDone(c) ==
  /\ pc[c] = "history"
  /\ history[c] = {}
  /\ Goto(c, "loop")
  /\ UNCHANGED <<storeVars, pub, busVars, history, after, lastId, received,
                 overtaken, faults>>

\* Mutant: the last event of the history is written again from the channel.
IsNewOrLast(c, id) == id >= after[c]

IsNew(c, id) == id > after[c]

Receive(c) ==
  /\ pc[c] = "loop"
  /\ chan[c] # <<>>
  /\ chan' = [chan EXCEPT ![c] = Tail(@)]
  /\ IF IsNew(c, Head(chan[c])) THEN WriteEvent(c, Head(chan[c]))
     ELSE UNCHANGED <<after, lastId, received>>
  /\ UNCHANGED <<storeVars, pub, sub, pc, history, overtaken, faults>>

\* The handler returns: unsubscribe, and the browser will connect again.
Leave(c) ==
  /\ Goto(c, "away")
  /\ sub' = [sub EXCEPT ![c] = "none"]
  /\ chan' = [chan EXCEPT ![c] = <<>>]
  /\ history' = [history EXCEPT ![c] = {}]

\* The bus closed the channel and it is drained.
ChannelClosed(c) ==
  /\ pc[c] = "loop"
  /\ sub[c] = "closed"
  /\ chan[c] = <<>>
  /\ Leave(c)
  /\ UNCHANGED <<storeVars, pub, after, lastId, received, overtaken, faults>>

Fault == faults < MaxFaults /\ faults' = faults + 1

Break(c) ==
  /\ Fault
  /\ pc[c] # "away"
  /\ Leave(c)
  /\ UNCHANGED <<storeVars, pub, after, lastId, received, overtaken>>

\* The ledger survives a restart of the HOST; publications under way do not.
Restart ==
  /\ Fault
  /\ pub' = [p \in Publishers |-> [pc |-> "idle", id |-> 0]]
  /\ sub' = [c \in Clients |-> "none"]
  /\ chan' = [c \in Clients |-> <<>>]
  /\ pc' = [c \in Clients |-> "away"]
  /\ history' = [c \in Clients |-> {}]
  /\ UNCHANGED <<storeVars, after, lastId, received, overtaken>>

-----------------------------------------------------------------------------
Publishing(p) == AppendCommit(p) \/ AppendConflict(p) \/ Deliver(p)

Streaming(c) ==
  \/ Connect(c) \/ ReadHistory(c) \/ WriteHistory(c) \/ HistoryDone(c)
  \/ Receive(c) \/ ChannelClosed(c)

Next ==
  \/ \E p \in Publishers : AppendRead(p) \/ Publishing(p)
  \/ \E c \in Clients : Streaming(c) \/ Break(c)
  \/ Restart

Spec == Init /\ [][Next]_vars

\* A Publish that started finishes, a handler runs, a browser reconnects;
\* nobody has to publish.
FairSpec ==
  /\ Spec
  /\ \A p \in Publishers : WF_vars(Publishing(p))
  /\ \A c \in Clients : WF_vars(Streaming(c))

-----------------------------------------------------------------------------
(***************************************************************************)
(* Properties.                                                              *)
(***************************************************************************)
\* The ledger is exactly the last Limit events, without a gap, however appends
\* race and conflict: two never take the same id and none evicts too much.
LedgerIsWindow ==
  ledger = {e \in 1..sequence : e + Limit > sequence}

\* The same with the types: no channel holds more than its capacity.
BusInv == TypeOK /\ LedgerIsWindow

\* A browser is sent ids in increasing order and none twice: no write, across
\* the seam between history and live events and across reconnects, repeats an
\* earlier one or goes back behind it.
InOrder ==
  \A c \in Clients : \A j, k \in 1..Len(received[c]) :
    j < k => received[c][j] < received[c][k]

\* What a browser has received.
Seen(c) == {received[c][k] : k \in 1..Len(received[c])}

\* A browser misses an event only if a newer one was delivered before it: any
\* other event still in the ledger and not newer than its last id is one it
\* received, whether it was slow, disconnected or reading the history while the
\* event was published.  Publications under hub.mu do not overtake each other.
NothingMissed ==
  \A c \in Clients : \A e \in ledger :
    e <= lastId[c] => e \in Seen(c) \cup overtaken

\* Every browser catches up with the newest event: one closed for being slow,
\* broken or overtaken by a restart reads the rest from the ledger.
CatchesUp == \A c \in Clients : <>[](lastId[c] = sequence)
=============================================================================
