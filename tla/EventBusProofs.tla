---------------------------- MODULE EventBusProofs ----------------------------
(***************************************************************************)
(* Proofs about EventBus: for any number of publishers and browsers, any    *)
(* retention limit and channel capacity, the ledger is the window of the    *)
(* last events, a browser gets its events in order and once, and it misses  *)
(* none that was not overtaken.                                             *)
(***************************************************************************)
EXTENDS EventBus, TLAPS

-----------------------------------------------------------------------------
(***************************************************************************)
(* The inductive invariant.                                                 *)
(***************************************************************************)
\* No event anywhere is newer than the ledger.
Bounds ==
  /\ \A p \in Publishers : pub[p].pc = "deliver" => pub[p].id <= sequence
  /\ \A c \in Clients :
       /\ lastId[c] <= sequence
       /\ \A h \in history[c] : h <= sequence
       /\ \A k \in 1..Len(chan[c]) : chan[c][k] <= sequence

\* What a handler has left to write is newer than all its browser has, and the
\* handler's own position is the browser's.
Positions ==
  \A c \in Clients :
    /\ \A e \in Seen(c) : e <= lastId[c]
    /\ pc[c] # "away" => after[c] = lastId[c] /\ sub[c] # "none"
    /\ \A h \in history[c] : h > lastId[c]
    /\ pc[c] # "history" => history[c] = {}

\* Every event in the channel of c is older than e.
Behind(c, e) == \A k \in 1..Len(chan[c]) : chan[c][k] < e

\* e is in the channel of c and nothing newer is before it.
InChannel(c, e) ==
  \E k \in 1..Len(chan[c]) :
    chan[c][k] = e /\ \A j \in 1..(k - 1) : chan[c][j] < e

\* e has still to come to a handler that has read the history, and will not
\* come too late: it is in the channel, or on its way to it, or the bus closed
\* the channel and the browser will ask again from before e.
Ahead(c, e) ==
  /\ e > lastId[c]
  /\ \A h \in history[c] : h < e
  /\ \/ InChannel(c, e)
     \/ /\ Behind(c, e)
        /\ \/ sub[c] = "closed"
           \/ \E p \in Publishers : pub[p].pc = "deliver" /\ pub[p].id = e

\* Where each event of the ledger is for client c.
Accounted(c, e) ==
  \/ e \in Seen(c) \cup overtaken
  \/ pc[c] \in {"away", "subscribed"} /\ e > lastId[c]
  \/ pc[c] \in {"history", "loop"} /\ (e \in history[c] \/ Ahead(c, e))

StreamInv ==
  /\ BusInv
  /\ Bounds
  /\ Positions
  /\ InOrder
  /\ \A c \in Clients : \A e \in ledger : Accounted(c, e)

-----------------------------------------------------------------------------
(***************************************************************************)
(* BusInv is inductive as it stands.                                        *)
(***************************************************************************)
\* The sequence operations of the channels.
LEMMA ChanFacts ==
  ASSUME NEW A, NEW q \in Seq(A)
  PROVE  /\ Len(q) \in Nat
         /\ \A k \in 1..Len(q) : q[k] \in A
         /\ \A e \in A : /\ Append(q, e) \in Seq(A)
                         /\ Len(Append(q, e)) = Len(q) + 1
                         /\ \A k \in 1..Len(q) : Append(q, e)[k] = q[k]
                         /\ Append(q, e)[Len(q) + 1] = e
         /\ q # <<>> => /\ Len(q) > 0
                        /\ Head(q) \in A
                        /\ Head(q) = q[1]
                        /\ Tail(q) \in Seq(A)
                        /\ Len(Tail(q)) = Len(q) - 1
                        /\ \A k \in 1..(Len(q) - 1) : Tail(q)[k] = q[k + 1]
  OBVIOUS

\* It holds initially.
LEMMA BusInvInit == Init => BusInv
  BY BusConstants DEF Init, BusInv, TypeOK, LedgerIsWindow, Ids

\* Every step keeps the types.
LEMMA TypeStep ==
  ASSUME TypeOK, Next
  PROVE  TypeOK'
<1> USE BusConstants DEF TypeOK, storeVars, busVars, clientVars
<1>1. ASSUME NEW p \in Publishers, AppendRead(p) \/ AppendConflict(p)
      PROVE  TypeOK'
  <2>1. sequence < MaxEvents => sequence + 1 \in Ids
    BY DEF Ids
  <2>2. 0 \in Ids
    BY DEF Ids
  <2>3. \E l \in {"idle", "append"}, id \in Ids : PublishTo(p, l, id)
    BY <1>1, <2>1, <2>2 DEF AppendRead, AppendConflict
  <2>4. pub' \in [Publishers -> [pc : {"idle", "append", "deliver"}, id : Ids]]
    BY <2>3 DEF PublishTo
  <2> QED BY <1>1, <2>4 DEF AppendRead, AppendConflict
<1>2. ASSUME NEW p \in Publishers, AppendCommit(p)
      PROVE  TypeOK'
  BY <1>2 DEF AppendCommit, PublishTo
<1>3. ASSUME NEW p \in Publishers, Deliver(p)
      PROVE  TypeOK'
  <2>1. \A c \in Clients : /\ Append(chan[c], pub[p].id) \in Seq(Ids)
                           /\ Len(Append(chan[c], pub[p].id)) = Len(chan[c]) + 1
                           /\ Len(chan[c]) \in Nat
    BY ChanFacts
  <2>2. /\ chan' \in [Clients -> Seq(Ids)]
        /\ \A c \in Clients : Len(chan'[c]) <= SubCap
    <3>1. chan' \in [Clients -> Seq(Ids)]
      BY <1>3, <2>1 DEF Deliver
    <3>2. ASSUME NEW c \in Clients
          PROVE  Len(chan'[c]) <= SubCap
      <4>1. CASE sub[c] = "open" /\ HasRoom(c)
        <5>1. chan'[c] = Append(chan[c], pub[p].id)
          BY <1>3, <4>1 DEF Deliver
        <5>2. Len(chan[c]) < SubCap
          BY <4>1 DEF HasRoom
        <5> QED BY <2>1, <5>1, <5>2
      <4>2. CASE ~(sub[c] = "open" /\ HasRoom(c))
        <5>1. chan'[c] = chan[c]
          BY <1>3, <4>2 DEF Deliver
        <5> QED BY <5>1
      <4> QED BY <4>1, <4>2
    <3> QED BY <3>1, <3>2
  <2>3. overtaken' \subseteq Ids
    BY <1>3 DEF Deliver
  <2>4. sub' \in [Clients -> {"none", "open", "closed"}]
    BY <1>3 DEF Deliver
  <2>5. pub' \in [Publishers -> [pc : {"idle", "append", "deliver"}, id : Ids]]
    BY <1>3 DEF Deliver, PublishTo, Ids
  <2> QED BY <1>3, <2>2, <2>3, <2>4, <2>5 DEF Deliver
<1>4. ASSUME NEW c \in Clients, Connect(c)
      PROVE  TypeOK'
  BY <1>4 DEF Connect, Goto
<1>5. ASSUME NEW c \in Clients, ReadHistory(c) \/ HistoryDone(c)
      PROVE  TypeOK'
  <2>1. EventsAfter(after[c]) \in SUBSET Ids
    BY DEF EventsAfter
  <2>2. history' \in [Clients -> SUBSET Ids]
    BY <1>5, <2>1 DEF ReadHistory, HistoryDone
  <2>3. pc' \in [Clients -> {"away", "subscribed", "history", "loop"}]
    BY <1>5 DEF ReadHistory, HistoryDone, Goto
  <2> QED BY <1>5, <2>2, <2>3 DEF ReadHistory, HistoryDone
<1>6. ASSUME NEW c \in Clients, WriteHistory(c)
      PROVE  TypeOK'
  BY <1>6 DEF WriteHistory, WriteEvent
<1>7. ASSUME NEW c \in Clients, Receive(c)
      PROVE  TypeOK'
  <2>1. /\ Head(chan[c]) \in Ids
        /\ Tail(chan[c]) \in Seq(Ids)
        /\ Len(Tail(chan[c])) = Len(chan[c]) - 1
        /\ Len(chan[c]) \in Nat
    BY <1>7, ChanFacts DEF Receive
  <2>2. /\ after' \in [Clients -> Ids]
        /\ lastId' \in [Clients -> Ids]
        /\ received' \in [Clients -> Seq(Ids)]
    <3>1. CASE WriteEvent(c, Head(chan[c]))
      BY <2>1, <3>1 DEF WriteEvent
    <3>2. CASE UNCHANGED <<after, lastId, received>>
      BY <3>2
    <3> QED BY <1>7, <3>1, <3>2 DEF Receive
  <2>3. /\ chan' \in [Clients -> Seq(Ids)]
        /\ \A d \in Clients : Len(chan'[d]) <= SubCap
    BY <1>7, <2>1 DEF Receive
  <2> QED BY <1>7, <2>2, <2>3 DEF Receive
<1>8. ASSUME NEW c \in Clients, ChannelClosed(c) \/ Break(c)
      PROVE  TypeOK'
  <2>1. faults' \in 0..MaxFaults
    BY <1>8 DEF ChannelClosed, Break, Fault
  <2>2. <<>> \in Seq(Ids) /\ Len(<<>>) <= SubCap
    OBVIOUS
  <2>3. Leave(c) /\ UNCHANGED <<storeVars, pub, after, lastId, received, overtaken>>
    BY <1>8 DEF ChannelClosed, Break
  <2> QED BY <2>1, <2>2, <2>3 DEF Leave, Goto
<1>9. ASSUME Restart
      PROVE  TypeOK'
  <2>1. pub' \in [Publishers -> [pc : {"idle", "append", "deliver"}, id : Ids]]
    BY <1>9 DEF Restart, Ids
  <2> QED BY <1>9, <2>1 DEF Restart, Fault
<1> QED BY <1>1, <1>2, <1>3, <1>4, <1>5, <1>6, <1>7, <1>8, <1>9
        DEF Next, Publishing, Streaming

\* Only a commit moves the window, by one event at each end.
LEMMA WindowStep ==
  ASSUME TypeOK, LedgerIsWindow, Next
  PROVE  LedgerIsWindow'
<1>1. ASSUME NEW p \in Publishers, AppendCommit(p)
      PROVE  LedgerIsWindow'
  <2> DEFINE id == pub[p].id
  <2>1. /\ sequence \in Nat
        /\ id = sequence + 1
        /\ sequence' = id
        /\ ledger' = (ledger \cup {id}) \ (IF id > Limit THEN {id - Limit} ELSE {})
    BY <1>1 DEF AppendCommit, AppendIsCurrent, Evicted, TypeOK, Ids
  <2> HIDE DEF id
  <2>2. ASSUME NEW e
        PROVE  e \in ledger' <=> e \in 1..sequence' /\ e + Limit > sequence'
    <3>1. Limit \in Nat /\ Limit > 0
      BY BusConstants
    <3>2. e \in ledger <=> e \in 1..sequence /\ e + Limit > sequence
      BY DEF LedgerIsWindow
    <3>3. CASE e \in 1..(sequence + 1)
      BY <2>1, <3>1, <3>2, <3>3
    <3>4. CASE e \notin 1..(sequence + 1)
      BY <2>1, <3>2, <3>4
    <3> QED BY <3>3, <3>4
  <2> QED BY <2>2 DEF LedgerIsWindow
<1>2. \/ UNCHANGED storeVars
      \/ \E p \in Publishers : AppendCommit(p)
  BY DEF Next, Publishing, Streaming, AppendRead, AppendConflict, Deliver,
         Connect, ReadHistory, WriteHistory, HistoryDone, Receive,
         ChannelClosed, Break, Restart
<1>3. CASE UNCHANGED storeVars
  BY <1>3 DEF LedgerIsWindow, storeVars
<1> QED BY <1>1, <1>2, <1>3

\* Every step keeps both.
LEMMA BusInvStep == BusInv /\ [Next]_vars => BusInv'
<1>1. ASSUME BusInv, UNCHANGED vars
      PROVE  BusInv'
  BY <1>1 DEF BusInv, TypeOK, LedgerIsWindow, vars, storeVars, busVars,
              clientVars
<1> QED BY <1>1, TypeStep, WindowStep DEF BusInv

\* The ledger holds exactly the last Limit events and no channel more than its
\* capacity, however appends race, conflict and restart.
THEOREM LedgerIsAWindow == Spec => []BusInv
  BY BusInvInit, BusInvStep, PTL DEF Spec

-----------------------------------------------------------------------------
(***************************************************************************)
(* Order: bounds and positions.                                             *)
(***************************************************************************)
\* Ids are natural numbers, in the channels too.
LEMMA IdFacts ==
  ASSUME TypeOK
  PROVE  /\ sequence \in Nat
         /\ Ids \subseteq Nat
         /\ \A c \in Clients : /\ Len(chan[c]) \in Nat
                               /\ \A k \in 1..Len(chan[c]) : chan[c][k] \in Nat
                               /\ lastId[c] \in Nat
                               /\ history[c] \subseteq Nat
                               /\ Seen(c) \subseteq Nat
         /\ \A p \in Publishers : pub[p].id \in Nat
<1>1. Ids \subseteq Nat
  BY DEF Ids
<1>2. \A c \in Clients : /\ Len(chan[c]) \in Nat
                         /\ \A k \in 1..Len(chan[c]) : chan[c][k] \in Ids
  BY ChanFacts DEF TypeOK
<1>3. \A c \in Clients : Seen(c) \subseteq Ids
  BY ChanFacts DEF TypeOK, Seen
<1> QED BY <1>1, <1>2, <1>3 DEF TypeOK

\* What Receive takes from the channel, and what it leaves.
LEMMA ReceiveFacts ==
  ASSUME TypeOK, NEW c \in Clients, Receive(c)
  PROVE  /\ Len(chan[c]) > 0
         /\ Head(chan[c]) = chan[c][1]
         /\ chan[c][1] \in Nat
         /\ Len(chan'[c]) = Len(chan[c]) - 1
         /\ \A k \in 1..(Len(chan[c]) - 1) : chan'[c][k] = chan[c][k + 1]
         /\ \A d \in Clients : d # c => chan'[d] = chan[d]
<1>1. chan'[c] = Tail(chan[c]) /\ chan[c] # <<>> /\ chan[c] \in Seq(Ids)
  BY DEF Receive, TypeOK
<1>2. /\ Len(chan[c]) > 0
      /\ Head(chan[c]) = chan[c][1]
      /\ Len(Tail(chan[c])) = Len(chan[c]) - 1
      /\ \A k \in 1..(Len(chan[c]) - 1) : Tail(chan[c])[k] = chan[c][k + 1]
      /\ Len(chan[c]) \in Nat
  BY <1>1, ChanFacts
<1>3. \A d \in Clients : d # c => chan'[d] = chan[d]
  BY DEF Receive, TypeOK
<1> QED BY <1>1, <1>2, <1>3, IdFacts

\* What Deliver appends.
LEMMA DeliverFacts ==
  ASSUME TypeOK, NEW p \in Publishers, Deliver(p), NEW c \in Clients
  PROVE  /\ sub'[c] = "none" => sub[c] = "none"
         /\ sub[c] = "closed" => sub'[c] = "closed" /\ chan'[c] = chan[c]
         /\ \/ /\ chan'[c] = chan[c]
               /\ sub[c] = "open" => sub'[c] = "closed"
            \/ /\ Len(chan'[c]) = Len(chan[c]) + 1
               /\ \A k \in 1..Len(chan[c]) : chan'[c][k] = chan[c][k]
               /\ chan'[c][Len(chan[c]) + 1] = pub[p].id
<1>1. /\ chan'[c] = IF sub[c] = "open" /\ HasRoom(c)
                    THEN Append(chan[c], pub[p].id) ELSE chan[c]
      /\ sub'[c] = IF sub[c] = "open" /\ ~HasRoom(c) THEN "closed" ELSE sub[c]
  BY DEF Deliver
<1>2. /\ Len(Append(chan[c], pub[p].id)) = Len(chan[c]) + 1
      /\ \A k \in 1..Len(chan[c]) : Append(chan[c], pub[p].id)[k] = chan[c][k]
      /\ Append(chan[c], pub[p].id)[Len(chan[c]) + 1] = pub[p].id
  BY ChanFacts DEF TypeOK
<1>3. CASE sub[c] = "open" /\ HasRoom(c)
  BY <1>1, <1>2, <1>3
<1>4. CASE ~(sub[c] = "open" /\ HasRoom(c))
  BY <1>1, <1>4
<1> QED BY <1>3, <1>4

\* What an event adds to what a browser has received.
LEMMA WriteFacts ==
  ASSUME TypeOK, NEW c \in Clients, NEW id \in Ids, WriteEvent(c, id)
  PROVE  /\ received' \in [Clients -> Seq(Ids)]
         /\ Len(received'[c]) = Len(received[c]) + 1
         /\ \A k \in 1..Len(received[c]) : received'[c][k] = received[c][k]
         /\ received'[c][Len(received[c]) + 1] = id
         /\ Seen(c)' = Seen(c) \cup {id}
         /\ \A d \in Clients : d # c => received'[d] = received[d]
<1>1. /\ received'[c] = Append(received[c], id)
      /\ received' = [received EXCEPT ![c] = Append(@, id)]
      /\ received[c] \in Seq(Ids)
      /\ received \in [Clients -> Seq(Ids)]
  BY DEF WriteEvent, TypeOK
<1>2. /\ Len(received[c]) \in Nat
      /\ received'[c] \in Seq(Ids)
      /\ Len(received'[c]) = Len(received[c]) + 1
      /\ \A k \in 1..Len(received[c]) : received'[c][k] = received[c][k]
      /\ received'[c][Len(received[c]) + 1] = id
  BY <1>1, ChanFacts
<1>3. Seen(c)' = Seen(c) \cup {id}
  <2>1. \A k \in 1..Len(received'[c]) :
          k \in 1..Len(received[c]) \/ k = Len(received[c]) + 1
    BY <1>2
  <2>2. /\ Len(received[c]) + 1 \in 1..Len(received'[c])
        /\ \A k \in 1..Len(received[c]) : k \in 1..Len(received'[c])
    BY <1>2
  <2> QED BY <1>2, <2>1, <2>2 DEF Seen
<1>4. \A d \in Clients : d # c => received'[d] = received[d]
  BY <1>1
<1>5. received' \in [Clients -> Seq(Ids)]
  BY <1>1, <1>2
<1> QED BY <1>2, <1>3, <1>4, <1>5

\* A browser that is sent nothing has received what it had.
LEMMA SeenFrame ==
  ASSUME NEW c \in Clients, received'[c] = received[c]
  PROVE  Seen(c)' = Seen(c)
  BY DEF Seen

\* Every step keeps Bounds.
LEMMA BoundsStep ==
  ASSUME TypeOK, LedgerIsWindow, Bounds, Next
  PROVE  Bounds'
<1> USE DEF Bounds, storeVars, busVars, clientVars
<1>0. /\ sequence \in Nat
      /\ \A c \in Clients : Len(chan[c]) \in Nat /\ lastId[c] \in Nat
                              /\ history[c] \subseteq Nat
  BY IdFacts
<1>1. ASSUME NEW p \in Publishers, AppendRead(p) \/ AppendConflict(p)
      PROVE  Bounds'
  <2>1. \E l \in {"idle", "append"}, id \in Nat : PublishTo(p, l, id)
    BY <1>0, <1>1 DEF AppendRead, AppendConflict
  <2>2. \A q \in Publishers : pub'[q].pc = "deliver" => pub'[q] = pub[q]
    BY <2>1 DEF PublishTo, TypeOK
  <2> QED BY <1>1, <2>2 DEF AppendRead, AppendConflict
<1>2. ASSUME NEW p \in Publishers, AppendCommit(p)
      PROVE  Bounds'
  <2>1. sequence' = sequence + 1 /\ pub'[p].id = sequence + 1
    BY <1>2 DEF AppendCommit, AppendIsCurrent, PublishTo, TypeOK
  <2>2. \A q \in Publishers : q # p => pub'[q] = pub[q]
    BY <1>2 DEF AppendCommit, PublishTo, TypeOK
  <2>3. \A q \in Publishers : pub'[q].pc = "deliver" => pub'[q].id <= sequence'
    BY <1>0, <2>1, <2>2, IdFacts
  <2>4. \A c \in Clients : \A k \in 1..Len(chan[c]) : chan[c][k] \in Nat
    BY IdFacts
  <2> QED BY <1>0, <1>2, <2>1, <2>3, <2>4 DEF AppendCommit
<1>3. ASSUME NEW p \in Publishers, Deliver(p)
      PROVE  Bounds'
  <2>1. \A q \in Publishers : pub'[q].pc = "deliver" => pub'[q] = pub[q]
    BY <1>3 DEF Deliver, PublishTo, TypeOK
  <2>2. pub[p].id <= sequence
    BY <1>3 DEF Deliver
  <2>3. ASSUME NEW c \in Clients, NEW k \in 1..Len(chan'[c])
        PROVE  chan'[c][k] <= sequence
    BY <1>0, <1>3, <2>2, <2>3, DeliverFacts
  <2> QED BY <1>3, <2>1, <2>3 DEF Deliver
<1>4. ASSUME NEW c \in Clients, Connect(c) \/ HistoryDone(c)
      PROVE  Bounds'
  <2>1. \A d \in Clients : chan'[d] = chan[d] \/ chan'[d] = <<>>
    BY <1>4 DEF Connect, HistoryDone, TypeOK
  <2> QED BY <1>4, <2>1 DEF Connect, HistoryDone
<1>5. ASSUME NEW c \in Clients, ReadHistory(c)
      PROVE  Bounds'
  <2>1. \A e \in ledger : e <= sequence
    BY <1>0 DEF LedgerIsWindow
  <2>2. \A d \in Clients : \A h \in history'[d] : h <= sequence
    BY <1>5, <2>1 DEF ReadHistory, EventsAfter, TypeOK
  <2> QED BY <1>5, <2>2 DEF ReadHistory
<1>6. ASSUME NEW c \in Clients, WriteHistory(c)
      PROVE  Bounds'
  <2>1. PICK id \in history[c] : /\ WriteEvent(c, id)
                                 /\ history' = [history EXCEPT ![c] = @ \ {id}]
    BY <1>6 DEF WriteHistory
  <2>2. \A d \in Clients : lastId'[d] <= sequence
                             /\ history'[d] \subseteq history[d]
    BY <2>1 DEF WriteEvent, TypeOK
  <2> QED BY <1>6, <2>2 DEF WriteHistory
<1>7. ASSUME NEW c \in Clients, Receive(c)
      PROVE  Bounds'
  <2>1. \A d \in Clients : lastId'[d] <= sequence
    <3>1. chan[c][1] <= sequence
      BY <1>0, <1>7, ReceiveFacts
    <3>2. CASE WriteEvent(c, Head(chan[c]))
      BY <1>7, <3>1, <3>2, ReceiveFacts DEF WriteEvent, TypeOK
    <3>3. CASE UNCHANGED lastId
      BY <3>3
    <3> QED BY <1>7, <3>2, <3>3 DEF Receive
  <2>2. ASSUME NEW d \in Clients, NEW k \in 1..Len(chan'[d])
        PROVE  chan'[d][k] <= sequence
    <3>1. CASE d # c
      <4>1. chan'[d] = chan[d]
        BY <1>7, <3>1, ReceiveFacts
      <4> QED BY <4>1
    <3>2. CASE d = c
      <4>1. Len(chan'[c]) = Len(chan[c]) - 1 /\ Len(chan[c]) \in Nat
        BY <1>0, <1>7, ReceiveFacts
      <4>2. k + 1 \in 1..Len(chan[c]) /\ k \in 1..(Len(chan[c]) - 1)
        BY <3>2, <4>1
      <4>3. chan'[c][k] = chan[c][k + 1]
        BY <1>7, <4>2, ReceiveFacts
      <4> QED BY <3>2, <4>2, <4>3
    <3> QED BY <3>1, <3>2
  <2> QED BY <1>7, <2>1, <2>2 DEF Receive
<1>8. ASSUME NEW c \in Clients, ChannelClosed(c) \/ Break(c)
      PROVE  Bounds'
  <2>1. Leave(c) /\ UNCHANGED <<sequence, pub, lastId>>
    BY <1>8 DEF ChannelClosed, Break
  <2>2. \A d \in Clients : /\ chan'[d] = chan[d] \/ chan'[d] = <<>>
                           /\ history'[d] = history[d] \/ history'[d] = {}
    BY <2>1 DEF Leave, TypeOK
  <2> QED BY <2>1, <2>2
<1>9. ASSUME Restart
      PROVE  Bounds'
  BY <1>9 DEF Restart
<1> QED BY <1>1, <1>2, <1>3, <1>4, <1>5, <1>6, <1>7, <1>8, <1>9
        DEF Next, Publishing, Streaming

\* Every step keeps Positions: what is written next is never older than lastId.
LEMMA PositionsStep ==
  ASSUME TypeOK, Positions, Next
  PROVE  Positions'
<1> USE DEF Positions, storeVars, busVars, clientVars
<1>0. /\ \A c \in Clients : lastId[c] \in Nat /\ history[c] \subseteq Nat
                              /\ Seen(c) \subseteq Nat
      /\ Ids \subseteq Nat
  BY IdFacts
<1>00. \A d \in Clients : received'[d] = received[d] => Seen(d)' = Seen(d)
  BY SeenFrame
<1>1. ASSUME NEW p \in Publishers,
             AppendRead(p) \/ AppendCommit(p) \/ AppendConflict(p)
      PROVE  Positions'
  BY <1>00, <1>1 DEF AppendRead, AppendConflict, AppendCommit
<1>2. ASSUME NEW p \in Publishers, Deliver(p)
      PROVE  Positions'
  <2>1. \A c \in Clients : sub'[c] = "none" => sub[c] = "none"
    BY <1>2, DeliverFacts
  <2> QED BY <1>00, <1>2, <2>1 DEF Deliver
<1>3. ASSUME NEW c \in Clients, Connect(c)
      PROVE  Positions'
  BY <1>00, <1>3 DEF Connect, Goto, TypeOK
<1>4. ASSUME NEW c \in Clients, ReadHistory(c)
      PROVE  Positions'
  <2>1. \A h \in history'[c] : h > lastId[c]
    BY <1>4 DEF ReadHistory, EventsAfter, TypeOK
  <2>2. pc'[c] = "history" /\ pc[c] # "away"
    BY <1>4 DEF ReadHistory, Goto, TypeOK
  <2>3. \A d \in Clients : d # c => history'[d] = history[d] /\ pc'[d] = pc[d]
    BY <1>4 DEF ReadHistory, Goto, TypeOK
  <2> QED BY <1>00, <1>4, <2>1, <2>2, <2>3 DEF ReadHistory
<1>5. ASSUME NEW c \in Clients, WriteHistory(c)
      PROVE  Positions'
  <2>1. PICK id \in history[c] : /\ \A e \in history[c] : id <= e
                                 /\ WriteEvent(c, id)
                                 /\ history' = [history EXCEPT ![c] = @ \ {id}]
    BY <1>5 DEF WriteHistory
  <2>2. /\ lastId'[c] = id
        /\ after'[c] = id
        /\ Seen(c)' = Seen(c) \cup {id}
        /\ history'[c] = history[c] \ {id}
    BY <2>1, WriteFacts DEF WriteEvent, TypeOK
  <2>3. id > lastId[c] /\ id \in Nat
    BY <1>0, <2>1
  <2>4. /\ \A e \in Seen(c)' : e <= lastId'[c]
        /\ \A h \in history'[c] : h > lastId'[c]
    BY <1>0, <2>1, <2>2, <2>3
  <2>5. \A d \in Clients : d # c => /\ history'[d] = history[d]
                                    /\ lastId'[d] = lastId[d]
                                    /\ after'[d] = after[d]
                                    /\ received'[d] = received[d]
    BY <2>1 DEF WriteEvent, TypeOK
  <2> QED BY <1>00, <1>5, <2>2, <2>4, <2>5 DEF WriteHistory
<1>6. ASSUME NEW c \in Clients, HistoryDone(c)
      PROVE  Positions'
  BY <1>00, <1>6 DEF HistoryDone, Goto, TypeOK
<1>7. ASSUME NEW c \in Clients, Receive(c)
      PROVE  Positions'
  <2>1. CASE IsNew(c, Head(chan[c]))
    <3>1. WriteEvent(c, Head(chan[c]))
      BY <1>7, <2>1 DEF Receive
    <3>2. chan[c][1] > lastId[c] /\ chan[c][1] \in Nat /\ Head(chan[c]) = chan[c][1]
      BY <1>7, <2>1, ReceiveFacts DEF IsNew, Receive
    <3>0. Head(chan[c]) \in Ids
      BY <1>7, ChanFacts DEF Receive, TypeOK
    <3>3. /\ lastId'[c] = chan[c][1]
          /\ after'[c] = chan[c][1]
          /\ Seen(c)' = Seen(c) \cup {chan[c][1]}
      <4>1. Seen(c)' = Seen(c) \cup {Head(chan[c])}
        BY <3>0, <3>1, WriteFacts
      <4>2. lastId'[c] = Head(chan[c]) /\ after'[c] = Head(chan[c])
        BY <3>1 DEF WriteEvent, TypeOK
      <4> QED BY <3>2, <4>1, <4>2
    <3>4. \A e \in Seen(c)' : e <= lastId'[c]
      BY <1>0, <3>2, <3>3
    <3>5. \A d \in Clients : d # c => /\ lastId'[d] = lastId[d]
                                      /\ after'[d] = after[d]
                                      /\ received'[d] = received[d]
      BY <3>1 DEF WriteEvent, TypeOK
    <3> QED BY <1>00, <1>7, <3>3, <3>4, <3>5 DEF Receive
  <2>2. CASE ~IsNew(c, Head(chan[c]))
    BY <1>00, <1>7, <2>2 DEF Receive
  <2> QED BY <2>1, <2>2
<1>8. ASSUME NEW c \in Clients, ChannelClosed(c) \/ Break(c)
      PROVE  Positions'
  <2>1. Leave(c) /\ UNCHANGED <<after, lastId, received>>
    BY <1>8 DEF ChannelClosed, Break
  <2> QED BY <1>00, <2>1 DEF Leave, Goto, TypeOK
<1>9. ASSUME Restart
      PROVE  Positions'
  BY <1>00, <1>9 DEF Restart
<1> QED BY <1>1, <1>2, <1>3, <1>4, <1>5, <1>6, <1>7, <1>8, <1>9
        DEF Next, Publishing, Streaming

\* Every step keeps the order: what is written is newer than lastId, and with it
\* than all that was written before.
LEMMA OrderStep ==
  ASSUME TypeOK, Positions, InOrder, Next
  PROVE  InOrder'
<1>0. \A c \in Clients : /\ Len(received[c]) \in Nat
                         /\ lastId[c] \in Nat
                         /\ Seen(c) \subseteq Nat
  BY IdFacts, ChanFacts DEF TypeOK
<1>1. ASSUME NEW c \in Clients, NEW id \in Ids, WriteEvent(c, id),
             id > lastId[c]
      PROVE  InOrder'
  <2>1. ASSUME NEW k \in 1..Len(received[c])
        PROVE  received[c][k] < id
    <3>1. received[c][k] \in Seen(c)
      BY DEF Seen
    <3>2. received[c][k] <= lastId[c] /\ received[c][k] \in Nat
      BY <1>0, <3>1 DEF Positions
    <3> QED BY <1>0, <1>1, <3>2 DEF Ids
  <2>2. ASSUME NEW j \in 1..Len(received'[c]), NEW k \in 1..Len(received'[c]),
               j < k
        PROVE  received'[c][j] < received'[c][k]
    <3>1. /\ Len(received'[c]) = Len(received[c]) + 1
          /\ \A i \in 1..Len(received[c]) : received'[c][i] = received[c][i]
          /\ received'[c][Len(received[c]) + 1] = id
      BY <1>1, WriteFacts
    <3>2. j \in 1..Len(received[c])
      BY <1>0, <2>2, <3>1
    <3>3. CASE k \in 1..Len(received[c])
      BY <2>2, <3>1, <3>2, <3>3 DEF InOrder
    <3>4. CASE k = Len(received[c]) + 1
      BY <2>1, <3>1, <3>2, <3>4
    <3> QED BY <1>0, <3>1, <3>3, <3>4
  <2>3. \A d \in Clients : d # c => received'[d] = received[d]
    BY <1>1, WriteFacts
  <2> QED BY <2>2, <2>3 DEF InOrder
<1>2. CASE UNCHANGED received
  BY <1>2 DEF InOrder
<1>3. ASSUME NEW c \in Clients, WriteHistory(c)
      PROVE  InOrder'
  <2>1. PICK id \in history[c] : WriteEvent(c, id)
    BY <1>3 DEF WriteHistory
  <2>2. id > lastId[c] /\ id \in Ids
    BY DEF Positions, TypeOK
  <2> QED BY <1>1, <2>1, <2>2
<1>4. ASSUME NEW c \in Clients, Receive(c), IsNew(c, Head(chan[c]))
      PROVE  InOrder'
  <2>1. WriteEvent(c, Head(chan[c])) /\ Head(chan[c]) > lastId[c]
    BY <1>4 DEF Receive, IsNew, Positions
  <2>2. Head(chan[c]) \in Ids
    BY <1>4, ChanFacts DEF Receive, TypeOK
  <2> QED BY <1>1, <2>1, <2>2
<1>5. \/ UNCHANGED received
      \/ \E c \in Clients : WriteHistory(c)
      \/ \E c \in Clients : Receive(c) /\ IsNew(c, Head(chan[c]))
  BY DEF Next, Publishing, Streaming, AppendRead, AppendConflict,
         AppendCommit, Deliver, Connect, ReadHistory, HistoryDone, Receive,
         ChannelClosed, Break, Restart, clientVars
<1> QED BY <1>2, <1>3, <1>4, <1>5

-----------------------------------------------------------------------------
(***************************************************************************)
(* Completeness: every event of the ledger stays accounted for.             *)
(***************************************************************************)
\* A step that leaves a client and the deliveries under way alone.
LEMMA AccountedFrame ==
  ASSUME NEW c \in Clients, NEW e, Accounted(c, e),
         /\ pc'[c] = pc[c]
         /\ history'[c] = history[c]
         /\ lastId'[c] = lastId[c]
         /\ received'[c] = received[c]
         /\ sub'[c] = sub[c]
         /\ chan'[c] = chan[c],
         overtaken \subseteq overtaken',
         \A p \in Publishers : pub[p].pc = "deliver" => pub'[p] = pub[p]
  PROVE  Accounted(c, e)'
<1>1. (InChannel(c, e))' <=> InChannel(c, e)
  BY DEF InChannel
<1>2. (Behind(c, e))' <=> Behind(c, e)
  BY DEF Behind
<1>3. Ahead(c, e) => Ahead(c, e)'
  BY <1>1, <1>2 DEF Ahead
<1> QED BY <1>3, SeenFrame DEF Accounted

\* A publication is delivered: it reaches the channel behind older events
\* only, or closes it, or finds one that a newer event passed, and is then one
\* of the overtaken.
LEMMA AccountedDeliver ==
  ASSUME TypeOK, Positions, NEW p \in Publishers, Deliver(p),
         NEW c \in Clients, NEW e \in ledger, Accounted(c, e)
  PROVE  Accounted(c, e)'
<1>1. /\ UNCHANGED <<pc, history, lastId>>
      /\ Seen(c)' = Seen(c)
      /\ overtaken \subseteq overtaken'
  BY SeenFrame DEF Deliver, clientVars
<1>2. CASE ~Ahead(c, e)
  BY <1>1, <1>2 DEF Accounted
<1>3. CASE Ahead(c, e)
  <2>0. /\ e \in Nat
        /\ Len(chan[c]) \in Nat
        /\ \A k \in 1..Len(chan[c]) : chan[c][k] \in Nat
        /\ pub[p].id \in Nat
    BY IdFacts DEF TypeOK
  <2>1. CASE InChannel(c, e)
    <3>1. PICK k \in 1..Len(chan[c]) :
            chan[c][k] = e /\ \A j \in 1..(k - 1) : chan[c][j] < e
      BY <2>1 DEF InChannel
    <3>2. Len(chan'[c]) \in Nat /\ Len(chan'[c]) >= Len(chan[c])
            /\ \A j \in 1..Len(chan[c]) : chan'[c][j] = chan[c][j]
      <4>1. \/ chan'[c] = chan[c]
            \/ /\ Len(chan'[c]) = Len(chan[c]) + 1
               /\ \A j \in 1..Len(chan[c]) : chan'[c][j] = chan[c][j]
        BY DeliverFacts
      <4> QED BY <2>0, <4>1
    <3>3. (InChannel(c, e))'
      <4>1. k \in 1..Len(chan'[c]) /\ chan'[c][k] = e
        BY <2>0, <3>1, <3>2
      <4>2. \A j \in 1..(k - 1) : chan'[c][j] < e
        BY <2>0, <3>1, <3>2
      <4> QED BY <4>1, <4>2 DEF InChannel
    <3> QED BY <1>1, <1>3, <3>3 DEF Ahead, Accounted
  <2>2. CASE Behind(c, e) /\ sub[c] = "closed"
    <3>1. (Behind(c, e))' /\ sub'[c] = "closed"
      BY <2>2, DeliverFacts DEF Behind
    <3> QED BY <1>1, <1>3, <3>1 DEF Ahead, Accounted
  <2>3. CASE pc[c] = "away"
    BY <1>1, <1>3, <2>3 DEF Ahead, Accounted
  <2>4. CASE /\ Behind(c, e)
             /\ pc[c] # "away"
             /\ sub[c] # "closed"
             /\ \E q \in Publishers : pub[q].pc = "deliver" /\ pub[q].id = e
    <3>0. sub[c] = "open"
      BY <2>4 DEF Positions, TypeOK
    <3>1. PICK q \in Publishers : pub[q].pc = "deliver" /\ pub[q].id = e
      BY <2>4
    <3>2. CASE pub[p].id = e
      <4>1. CASE chan'[c] = chan[c]
        <5>1. (Behind(c, e))' /\ sub'[c] = "closed"
          BY <2>4, <3>0, <4>1, DeliverFacts DEF Behind
        <5> QED BY <1>1, <1>3, <5>1 DEF Ahead, Accounted
      <4>2. CASE /\ Len(chan'[c]) = Len(chan[c]) + 1
                 /\ \A k \in 1..Len(chan[c]) : chan'[c][k] = chan[c][k]
                 /\ chan'[c][Len(chan[c]) + 1] = e
        <5>1. \A j \in 1..Len(chan[c]) : chan'[c][j] < e
          BY <2>4, <4>2 DEF Behind
        <5>2. PICK k : k = Len(chan[c]) + 1
          OBVIOUS
        <5>3. k \in 1..Len(chan'[c]) /\ chan'[c][k] = e /\ k - 1 = Len(chan[c])
          BY <2>0, <4>2, <5>2
        <5>4. (InChannel(c, e))'
          BY <5>1, <5>3 DEF InChannel
        <5> QED BY <1>1, <1>3, <5>4 DEF Ahead, Accounted
      <4> QED BY <3>2, <4>1, <4>2, DeliverFacts
    <3>3. CASE pub[p].id > e
      <4>1. e \in overtaken'
        BY <3>1, <3>3 DEF Deliver
      <4> QED BY <4>1 DEF Accounted
    <3>4. CASE pub[p].id < e
      <4>1. q # p /\ pub'[q] = pub[q]
        BY <2>0, <3>1, <3>4 DEF Deliver, PublishTo, TypeOK
      <4>2. ASSUME NEW k \in 1..Len(chan'[c])
            PROVE  chan'[c][k] < e
        BY <2>0, <2>4, <3>4, DeliverFacts DEF Behind
      <4>3. (Behind(c, e))'
        BY <4>2 DEF Behind
      <4>4. (Ahead(c, e))'
        BY <1>1, <1>3, <3>1, <4>1, <4>3 DEF Ahead
      <4> QED BY <1>1, <4>4, <1>3 DEF Accounted, Ahead
    <3> QED BY <2>0, <3>2, <3>3, <3>4
  <2> QED BY <1>3, <2>1, <2>2, <2>3, <2>4 DEF Ahead
<1> QED BY <1>2, <1>3

\* The handler takes the next event of its channel.
LEMMA AccountedReceive ==
  ASSUME TypeOK, Positions, NEW c \in Clients, Receive(c),
         NEW e \in ledger, Accounted(c, e)
  PROVE  Accounted(c, e)'
<1>0. /\ e \in Nat
      /\ Len(chan[c]) \in Nat
      /\ \A k \in 1..Len(chan[c]) : chan[c][k] \in Nat
      /\ lastId[c] \in Nat
  BY IdFacts DEF TypeOK
<1>1. /\ UNCHANGED <<pc, history, pub, sub, overtaken>>
      /\ pc[c] = "loop"
      /\ history[c] = {}
      /\ after[c] = lastId[c]
  BY DEF Receive, Positions
<1>2. /\ Seen(c) \subseteq Seen(c)'
      /\ lastId'[c] = lastId[c] \/ lastId'[c] = chan[c][1]
      /\ chan[c][1] > lastId[c] => chan[c][1] \in Seen(c)'
  <2>1. Head(chan[c]) = chan[c][1]
    BY ReceiveFacts
  <2>2. CASE IsNew(c, Head(chan[c]))
    <3>1. WriteEvent(c, Head(chan[c])) /\ Head(chan[c]) \in Ids
      BY <2>2, ChanFacts DEF Receive, TypeOK
    <3>2. Seen(c)' = Seen(c) \cup {Head(chan[c])}
      BY <3>1, WriteFacts
    <3> QED BY <2>1, <3>1, <3>2 DEF WriteEvent, TypeOK
  <2>3. CASE ~IsNew(c, Head(chan[c]))
    <3>1. UNCHANGED <<lastId, received>>
      BY <2>3 DEF Receive
    <3> QED BY <1>1, <2>1, <2>3, <3>1, SeenFrame DEF IsNew
  <2> QED BY <2>2, <2>3
<1>3. CASE e \in Seen(c) \cup overtaken
  BY <1>1, <1>2, <1>3 DEF Accounted
<1>4. CASE Ahead(c, e)
  <2>1. /\ Len(chan[c]) > 0
        /\ Len(chan'[c]) = Len(chan[c]) - 1
        /\ \A k \in 1..(Len(chan[c]) - 1) : chan'[c][k] = chan[c][k + 1]
    BY ReceiveFacts
  <2>2. CASE chan[c][1] = e
    <3>1. e \in Seen(c)'
      BY <1>2, <1>4, <2>2 DEF Ahead
    <3> QED BY <3>1 DEF Accounted
  <2>3. CASE chan[c][1] < e /\ InChannel(c, e)
    <3>1. PICK k \in 1..Len(chan[c]) :
            chan[c][k] = e /\ \A j \in 1..(k - 1) : chan[c][j] < e
      BY <2>3 DEF InChannel
    <3>2. PICK i : i = k - 1
      OBVIOUS
    <3>3. i \in 1..Len(chan'[c]) /\ i + 1 = k /\ chan'[c][i] = e
      <4>1. k # 1
        BY <1>0, <2>3, <3>1
      <4>2. i \in 1..(Len(chan[c]) - 1) /\ i + 1 = k
        BY <1>0, <3>1, <3>2, <4>1
      <4> QED BY <2>1, <3>1, <4>2
    <3>4. ASSUME NEW j \in 1..(i - 1)
          PROVE  chan'[c][j] < e
      <4>1. j \in 1..(Len(chan[c]) - 1) /\ j + 1 \in 1..(k - 1)
        BY <1>0, <2>1, <3>1, <3>3
      <4> QED BY <2>1, <3>1, <4>1
    <3>5. (InChannel(c, e))'
      BY <3>3, <3>4 DEF InChannel
    <3> QED BY <1>0, <1>1, <1>2, <1>4, <2>3, <3>5 DEF Ahead, Accounted
  <2>4. CASE Behind(c, e)
    <3>1. chan[c][1] < e
      BY <1>0, <2>1, <2>4 DEF Behind
    <3>2. ASSUME NEW k \in 1..Len(chan'[c])
          PROVE  chan'[c][k] < e
      <4>1. k \in 1..(Len(chan[c]) - 1) /\ k + 1 \in 1..Len(chan[c])
        BY <1>0, <2>1
      <4> QED BY <2>1, <2>4, <4>1 DEF Behind
    <3>3. (Behind(c, e))'
      BY <3>2 DEF Behind
    <3>4. CASE InChannel(c, e)
      BY <1>0, <2>4, <3>4 DEF InChannel, Behind
    <3>5. CASE sub[c] = "closed"
                \/ \E p \in Publishers : pub[p].pc = "deliver" /\ pub[p].id = e
      <4>1. /\ e > lastId'[c]
            /\ \A h \in history'[c] : h < e
        BY <1>0, <1>1, <1>2, <1>4, <3>1 DEF Ahead
      <4> QED BY <1>1, <3>3, <3>5, <4>1 DEF Ahead, Accounted
    <3> QED BY <1>4, <3>4, <3>5 DEF Ahead
  <2>5. InChannel(c, e) => chan[c][1] = e \/ chan[c][1] < e
    BY <1>0 DEF InChannel
  <2> QED BY <1>4, <2>2, <2>3, <2>4, <2>5 DEF Ahead
<1> QED BY <1>1, <1>3, <1>4 DEF Accounted

\* Every step accounts for every event of the ledger, the appended one too.
LEMMA AccountedStep ==
  ASSUME StreamInv, Next, NEW c \in Clients, NEW e \in ledger'
  PROVE  Accounted(c, e)'
<1> USE DEF storeVars, busVars, clientVars
<1>0. /\ TypeOK /\ Positions /\ Bounds /\ LedgerIsWindow
      /\ e \in ledger => Accounted(c, e)
      /\ lastId[c] \in Nat
      /\ history[c] \subseteq Nat
      /\ sequence \in Nat
      /\ e \in ledger => e \in Nat
  BY IdFacts DEF StreamInv, BusInv, TypeOK
<1>1. ASSUME NEW p \in Publishers, AppendRead(p) \/ AppendConflict(p)
      PROVE  Accounted(c, e)'
  <2>1. \A q \in Publishers : pub[q].pc = "deliver" => pub'[q] = pub[q]
    BY <1>0, <1>1 DEF AppendRead, AppendConflict, PublishTo, TypeOK
  <2> QED BY <1>0, <1>1, <2>1, AccountedFrame DEF AppendRead, AppendConflict
<1>2. ASSUME NEW p \in Publishers, AppendCommit(p)
      PROVE  Accounted(c, e)'
  <2>1. CASE e \in ledger
    <3>1. \A q \in Publishers : pub[q].pc = "deliver" => pub'[q] = pub[q]
      BY <1>0, <1>2 DEF AppendCommit, PublishTo, TypeOK
    <3> QED BY <1>0, <1>2, <2>1, <3>1, AccountedFrame DEF AppendCommit
  <2>2. CASE e \notin ledger
    <3>1. /\ e = sequence + 1
          /\ pub'[p].pc = "deliver"
          /\ pub'[p].id = e
      BY <1>0, <1>2, <2>2 DEF AppendCommit, AppendIsCurrent, PublishTo, TypeOK
    <3>2. \A k \in 1..Len(chan[c]) : chan[c][k] \in Nat /\ chan[c][k] <= sequence
      BY <1>0, IdFacts DEF Bounds
    <3>3. Behind(c, e)'
      BY <1>0, <1>2, <3>1, <3>2 DEF AppendCommit, Behind
    <3>4. /\ e > lastId'[c]
          /\ \A h \in history'[c] : h < e
      BY <1>0, <1>2, <3>1 DEF AppendCommit, Bounds
    <3>5. Ahead(c, e)'
      BY <3>1, <3>3, <3>4 DEF Ahead
    <3> QED BY <1>0, <1>2, <3>4, <3>5 DEF AppendCommit, Accounted, TypeOK
  <2> QED BY <2>1, <2>2
<1>3. ASSUME NEW p \in Publishers, Deliver(p)
      PROVE  Accounted(c, e)'
  BY <1>0, <1>3, AccountedDeliver DEF Deliver
<1>4. ASSUME NEW d \in Clients, d # c, Streaming(d) \/ Break(d)
      PROVE  Accounted(c, e)'
  <2>1. /\ pc'[c] = pc[c]
        /\ history'[c] = history[c]
        /\ lastId'[c] = lastId[c]
        /\ received'[c] = received[c]
        /\ sub'[c] = sub[c]
        /\ chan'[c] = chan[c]
    <3>1. CASE Connect(d) \/ ReadHistory(d) \/ HistoryDone(d)
      BY <1>0, <1>4, <3>1 DEF Connect, ReadHistory, HistoryDone, Goto, TypeOK
    <3>2. CASE WriteHistory(d)
      BY <1>0, <1>4, <3>2 DEF WriteHistory, WriteEvent, TypeOK
    <3>3. CASE Receive(d)
      BY <1>0, <1>4, <3>3 DEF Receive, WriteEvent, TypeOK
    <3>4. CASE ChannelClosed(d) \/ Break(d)
      BY <1>0, <1>4, <3>4 DEF ChannelClosed, Break, Leave, Goto, TypeOK
    <3> QED BY <1>4, <3>1, <3>2, <3>3, <3>4 DEF Streaming
  <2>2. UNCHANGED <<ledger, pub, overtaken>>
    BY <1>4 DEF Streaming, Connect, ReadHistory, HistoryDone, WriteHistory,
                Receive, ChannelClosed, Break
  <2> QED BY <1>0, <2>1, <2>2, AccountedFrame
<1>5. ASSUME Connect(c)
      PROVE  Accounted(c, e)'
  <2>1. pc'[c] = "subscribed" /\ pc[c] = "away"
    BY <1>0, <1>5 DEF Connect, Goto, TypeOK
  <2>2. Seen(c)' = Seen(c)
    BY <1>5, SeenFrame DEF Connect
  <2> QED BY <1>0, <1>5, <2>1, <2>2 DEF Connect, Accounted
<1>6. ASSUME ReadHistory(c)
      PROVE  Accounted(c, e)'
  <2>1. /\ pc'[c] = "history"
        /\ pc[c] = "subscribed"
        /\ e > lastId[c] => e \in history'[c]
    BY <1>0, <1>6 DEF ReadHistory, EventsAfter, Goto, TypeOK, Positions
  <2>2. Seen(c)' = Seen(c)
    BY <1>6, SeenFrame DEF ReadHistory
  <2> QED BY <1>0, <1>6, <2>1, <2>2 DEF ReadHistory, Accounted
<1>7. ASSUME WriteHistory(c)
      PROVE  Accounted(c, e)'
  <2>1. PICK id \in history[c] : /\ \A h \in history[c] : id <= h
                                 /\ WriteEvent(c, id)
                                 /\ history' = [history EXCEPT ![c] = @ \ {id}]
    BY <1>7 DEF WriteHistory
  <2>2. /\ lastId'[c] = id
        /\ Seen(c)' = Seen(c) \cup {id}
        /\ history'[c] = history[c] \ {id}
        /\ pc[c] = "history"
        /\ UNCHANGED <<pc, chan, sub, pub, overtaken, ledger>>
    BY <1>0, <1>7, <2>1, WriteFacts DEF WriteHistory, WriteEvent, TypeOK
  <2>3. CASE Ahead(c, e)
    <3>1. e > lastId'[c] /\ \A h \in history'[c] : h < e
      BY <2>1, <2>2, <2>3 DEF Ahead
    <3>2. /\ (InChannel(c, e))' <=> InChannel(c, e)
          /\ (Behind(c, e))' <=> Behind(c, e)
      BY <2>2 DEF InChannel, Behind
    <3>3. Ahead(c, e)'
      BY <2>2, <2>3, <3>1, <3>2 DEF Ahead
    <3> QED BY <2>2, <3>3 DEF Accounted
  <2>4. CASE ~Ahead(c, e)
    BY <1>0, <2>2, <2>4 DEF Accounted
  <2> QED BY <2>3, <2>4
<1>8. ASSUME HistoryDone(c)
      PROVE  Accounted(c, e)'
  <2>1. /\ pc'[c] = "loop" /\ pc[c] = "history"
        /\ UNCHANGED <<history, lastId, chan, sub, pub, overtaken, ledger>>
        /\ Seen(c)' = Seen(c)
    BY <1>0, <1>8, SeenFrame DEF HistoryDone, Goto, TypeOK
  <2>2. Ahead(c, e) => Ahead(c, e)'
    BY <2>1 DEF Ahead, InChannel, Behind
  <2> QED BY <1>0, <2>1, <2>2 DEF Accounted
<1>9. ASSUME Receive(c)
      PROVE  Accounted(c, e)'
  BY <1>0, <1>9, AccountedReceive DEF Receive
<1>10. ASSUME ChannelClosed(c) \/ Break(c) \/ Restart
       PROVE  Accounted(c, e)'
  <2>1. /\ pc'[c] = "away"
        /\ UNCHANGED <<lastId, overtaken, ledger>>
        /\ Seen(c)' = Seen(c)
    BY <1>0, <1>10, SeenFrame DEF ChannelClosed, Break, Restart, Leave, Goto, TypeOK
  <2>2. Accounted(c, e) => e \in Seen(c) \cup overtaken \/ e > lastId[c]
    BY <1>0 DEF Accounted, Ahead, Positions
  <2> QED BY <1>0, <2>1, <2>2 DEF Accounted
<1>11. \/ \E p \in Publishers : AppendRead(p) \/ AppendConflict(p)
                                  \/ AppendCommit(p) \/ Deliver(p)
       \/ \E d \in Clients : Streaming(d) \/ Break(d)
       \/ Restart
  BY DEF Next, Publishing
<1>12. ASSUME Streaming(c) \/ Break(c)
       PROVE  Accounted(c, e)'
  BY <1>5, <1>6, <1>7, <1>8, <1>9, <1>10, <1>12 DEF Streaming
<1> QED BY <1>1, <1>2, <1>3, <1>4, <1>10, <1>11, <1>12

-----------------------------------------------------------------------------
(***************************************************************************)
(* The theorems.                                                            *)
(***************************************************************************)
LEMMA StreamInvHolds == Spec => []StreamInv
<1>1. Init => StreamInv
  <2> SUFFICES ASSUME Init PROVE StreamInv
    OBVIOUS
  <2>1. Bounds /\ Positions /\ InOrder
    BY DEF Init, Bounds, Positions, InOrder, Seen
  <2> QED BY <2>1, BusInvInit DEF Init, StreamInv
<1>2. StreamInv /\ [Next]_vars => StreamInv'
  <2> SUFFICES ASSUME StreamInv, [Next]_vars PROVE StreamInv'
    OBVIOUS
  <2>1. BusInv'
    BY BusInvStep DEF StreamInv
  <2>2. CASE Next
    <3>1. Bounds' /\ Positions' /\ InOrder'
      BY <2>2, BoundsStep, PositionsStep, OrderStep DEF StreamInv, BusInv
    <3>2. \A c \in Clients : \A e \in ledger' : Accounted(c, e)'
      BY <2>2, AccountedStep
    <3> QED BY <2>1, <3>1, <3>2 DEF StreamInv
  <2>3. CASE UNCHANGED vars
    <3>1. Bounds' /\ Positions' /\ InOrder'
      BY <2>3 DEF StreamInv, Bounds, Positions, InOrder, Seen, vars, storeVars,
                  busVars, clientVars
    <3>2. \A c \in Clients : \A e \in ledger' : Accounted(c, e)'
      BY <2>3, AccountedFrame DEF StreamInv, vars, storeVars, busVars, clientVars
    <3> QED BY <2>1, <3>1, <3>2 DEF StreamInv
  <2> QED BY <2>2, <2>3
<1> QED BY <1>1, <1>2, PTL DEF Spec

\* A browser misses an event of the ledger only if a newer one was delivered
\* before it: not by reading the history while events are published, not by
\* being slow, and not by losing its connection.
THEOREM NoEventMissed == Spec => []NothingMissed
<1>1. StreamInv => NothingMissed
  <2> SUFFICES ASSUME StreamInv, NEW c \in Clients, NEW e \in ledger,
                      e <= lastId[c]
               PROVE  e \in Seen(c) \cup overtaken
    BY DEF NothingMissed
  <2>1. /\ Accounted(c, e)
        /\ \A h \in history[c] : h > lastId[c]
        /\ e \in Nat /\ lastId[c] \in Nat
    BY IdFacts DEF StreamInv, BusInv, Positions, TypeOK
  <2> QED BY <2>1 DEF Accounted, Ahead
<1> QED BY <1>1, StreamInvHolds, PTL

\* No event is written to a browser twice or behind a newer one, across the
\* seam of history and live events and across reconnects.
THEOREM EventsInOrder == Spec => []InOrder
<1>1. StreamInv => InOrder
  BY DEF StreamInv
<1> QED BY <1>1, StreamInvHolds, PTL
===============================================================================
