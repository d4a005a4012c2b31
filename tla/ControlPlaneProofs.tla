------------------------- MODULE ControlPlaneProofs -------------------------
(***************************************************************************)
(* Proofs about ControlPlane, for every number of streams, deletions and    *)
(* updates and every bound.                                                 *)
(***************************************************************************)
EXTENDS ControlPlane, FiniteSetTheorems, TLAPS

USE ProcsDisjoint, KindsKnown, BoundsAreNat

\* What the end of a handler leaves behind has the right types.
LEMMA ReturnTypes ==
  ASSUME TypeOK, NEW s \in Streams, Return(s)
  PROVE  /\ conn' \in [Streams -> {"none", "open", "closed"}]
         /\ queue' \in [Streams -> 0..QueueCap]
         /\ pc' = [pc EXCEPT ![s] = "idle"]
         /\ inbox' \in [Streams -> {"none"} \cup Kinds]
         /\ denied' \in SUBSET Streams
         /\ agentOn' \in Streams \cup {Nobody}
         /\ stopped' \in BOOLEAN
         /\ drops' \in 0..MaxDrops
<1>1. stopped' \in BOOLEAN
  BY Zenon DEF Return, TypeOK
<1>2. drops' \in 0..MaxDrops
  BY DEF Return, TypeOK
<1> QED
  BY <1>1, <1>2 DEF Return, TypeOK, Goto

\* Every step keeps the types.
LEMMA TypeOKInductive == TypeOK /\ [Next]_vars => TypeOK'
<1> SUFFICES ASSUME TypeOK, [Next]_vars
             PROVE  TypeOK'
  OBVIOUS
<1> USE DEF TypeOK, Procs, Publishers, StreamPcs, DeletePcs, UpdatePcs,
            CreatorPcs, Phases, Events, Guarded, Absent, At, Goto,
            hubVars, storeVars, agentVars, aux
<1>1. CASE CreatePut
  BY <1>1 DEF CreatePut
<1>2. CASE CreatePublish
  BY <1>2 DEF CreatePublish, Publish
<1>3. CASE Drop
  BY <1>3 DEF Drop
<1>4. CASE Crash
  BY <1>4 DEF Crash
<1>5. ASSUME NEW s \in Streams, Dial(s) \/ AgentSend(s)
      PROVE  TypeOK'
  <2>1. CASE Dial(s)
    BY <2>1 DEF Dial
  <2>2. CASE AgentSend(s)
    BY <2>2 DEF AgentSend
  <2> QED
    BY <1>5, <2>1, <2>2
<1>6. ASSUME NEW p \in Publishers, Update(p)
      PROVE  TypeOK'
  <2>1. CASE Read(p)
    BY <2>1 DEF Read, TxnFailed, TxnRead
  <2>2. CASE Commit(p)
    BY <2>2 DEF Commit, TxnCommit, NewPhase
  <2>3. CASE Conflict(p)
    BY <2>3 DEF Conflict
  <2>4. CASE Lookup(p)
    BY <2>4 DEF Lookup, TxnFailed
  <2>5. CASE PubLock(p)
    BY <2>5 DEF PubLock
  <2>6. CASE PubRevoked(p)
    BY <2>6 DEF PubRevoked, PubFailed
  <2>7. CASE PubCheck(p)
    BY <2>7 DEF PubCheck, PubFailed
  <2>8. CASE PubAppend(p)
    BY <2>8 DEF PubAppend, Publish, EventOf
  <2> QED
    BY <1>6, <2>1, <2>2, <2>3, <2>4, <2>5, <2>6, <2>7, <2>8 DEF Update
<1>7. ASSUME NEW s \in Streams, Attend(s)
      PROVE  TypeOK'
  <2>1. CASE CommitMeters(s)
    BY <2>1 DEF CommitMeters
  <2>2. CASE Reserve(s)
    BY <2>2 DEF Reserve
  <2>3. CASE ReserveRefused(s)
    BY <2>3, ReturnTypes DEF ReserveRefused
  <2>4. CASE Cancel(s)
    BY <2>4, ReturnTypes DEF Cancel
  <2>5. CASE Activate(s)
    BY <2>5 DEF Activate, Closed, MayActivate
  <2>6. CASE ActivateRefused(s)
    BY <2>6, ReturnTypes DEF ActivateRefused
  <2>7. CASE Abort(s)
    BY <2>7, ReturnTypes DEF Abort
  <2>8. CASE Send(s)
    BY <2>8 DEF Send
  <2>9. CASE LoopTop(s)
    BY <2>9 DEF LoopTop
  <2>10. CASE StreamEnds(s)
    BY <2>10 DEF StreamEnds
  <2>11. CASE SelectMessage(s)
    <3>1. inbox[s] \in {"status", "meters"}
      BY <2>11 DEF SelectMessage
    <3>2. op' \in [Publishers -> {"hello", "status", "meters", "outbound",
                                  "desired"}]
      BY <2>11, <3>1 DEF SelectMessage
    <3> QED
      BY <2>11, <3>1, <3>2 DEF SelectMessage
  <2>12. CASE SelectOutbound(s)
    BY <2>12 DEF SelectOutbound
  <2>13. CASE Detach(s)
    BY <2>13 DEF Detach, Closed
  <2>14. CASE OfflineLock(s)
    BY <2>14 DEF OfflineLock
  <2>15. CASE OfflineRead(s)
    BY <2>15 DEF OfflineRead, TxnRead
  <2>16. CASE OfflineCommit(s)
    BY <2>16 DEF OfflineCommit, TxnCommit
  <2>17. CASE OfflineAppend(s)
    <3>1. late' \subseteq Events
      <4>1. late' \subseteq late \cup {"disconnected"}
        BY ONLY <2>17 DEF OfflineAppend, Publish
      <4> QED
        BY <4>1
    <3>2. UNCHANGED <<storeVars, blocked, attached, pending, op, tries, crashes>>
      BY <2>17 DEF OfflineAppend
    <3>3. mu' = Nobody /\ Return(s)
      BY <2>17 DEF OfflineAppend
    <3> QED
      BY <3>1, <3>2, <3>3, ReturnTypes
  <2>18. CASE NoOffline(s)
    BY <2>18, ReturnTypes DEF NoOffline
  <2> QED
    BY <1>7, <2>1, <2>2, <2>3, <2>4, <2>5, <2>6, <2>7, <2>8, <2>9, <2>10,
       <2>11, <2>12, <2>13, <2>14, <2>15, <2>16, <2>17, <2>18 DEF Attend
<1>8. ASSUME NEW d \in Deletes, DeleteBegin(d) \/ Deletion(d)
      PROVE  TypeOK'
  <2>1. CASE DeleteBegin(d)
    BY <2>1 DEF DeleteBegin
  <2>2. CASE Revoke(d)
    BY <2>2 DEF Revoke
  <2>3. CASE DeleteRead(d)
    BY <2>3 DEF DeleteRead, TxnRead
  <2>4. CASE DeleteCommit(d)
    BY <2>4 DEF DeleteCommit, TxnCommit
  <2>5. CASE DeleteConflict(d)
    BY <2>5 DEF DeleteConflict
  <2>6. CASE DeletePublish(d)
    BY <2>6 DEF DeletePublish, Publish
  <2>7. CASE Release(d)
    BY <2>7 DEF Release
  <2> QED
    BY <1>8, <2>1, <2>2, <2>3, <2>4, <2>5, <2>6, <2>7 DEF Deletion
<1>9. ASSUME NEW u \in Updates, DesiredBegin(u) \/ HubSend(u)
      PROVE  TypeOK'
  <2>1. CASE DesiredBegin(u)
    BY <2>1 DEF DesiredBegin
  <2>2. CASE HubSend(u)
    BY <2>2 DEF HubSend, Online, Accepts
  <2> QED
    BY <1>9, <2>1, <2>2
<1>10. CASE UNCHANGED vars
  BY <1>10 DEF vars, hubVars, storeVars, agentVars, aux
<1> QED
  BY <1>1, <1>2, <1>3, <1>4, <1>5, <1>6, <1>7, <1>8, <1>9, <1>10 DEF Next,
     Handler, SetDesired, Publishers

-----------------------------------------------------------------------------
\* A step of another process leaves the running deletions as they are.
LEMMA OthersKeepDeleting ==
  ASSUME TypeOK, NEW p \in Procs \ Deletes, NEW l, Goto(p, l)
  PROVE  Deleting' = Deleting
BY DEF TypeOK, Goto, Deleting, InDeletion

\* While a deletion runs the hub is blocked, so no section of IfNotRevoked is
\* open and neither a connection nor a reservation is in the hub.
LEMMA DeletionBlocks ==
  ASSUME TypeOK, LockInv, RevocationHolds, NEW d \in Deletes, InDeletion(d)
  PROVE  blocked > 0 /\ mu = Nobody /\ attached = Nobody /\ pending = {}
<1>1. IsFiniteSet(Deleting) /\ Deleting # {}
  BY DeletesFinite, FS_Subset DEF Deleting
<1>2. Cardinality(Deleting) \in Nat /\ Cardinality(Deleting) # 0
  BY <1>1, FS_CardinalityType, FS_EmptySet
<1> QED
  BY <1>2 DEF RevocationHolds, LockInv, TypeOK

\* The hub is blocked only while a deletion runs.
LEMMA BlockedByDeletion ==
  ASSUME RevocationHolds, blocked > 0
  PROVE  Asked
<1>1. Deleting # {}
  BY FS_EmptySet DEF RevocationHolds
<1> QED
  BY <1>1 DEF Asked, Deleting, InDeletion, At

\* Every step keeps the count of running deletions and what it excludes.
LEMMA RevocationInductive ==
  TypeOK /\ RevocationHolds /\ [Next]_vars => RevocationHolds'
<1> SUFFICES ASSUME TypeOK, RevocationHolds, [Next]_vars
             PROVE  RevocationHolds'
  OBVIOUS
<1>a. IsFiniteSet(Deleting)
  BY DeletesFinite, FS_Subset DEF Deleting
<1> USE OthersKeepDeleting DEF RevocationHolds, TypeOK, Procs, Publishers,
            hubVars, storeVars, agentVars, aux
<1>1. CASE CreatePut
  BY <1>1 DEF CreatePut
<1>2. CASE CreatePublish
  BY <1>2 DEF CreatePublish, Publish
<1>3. CASE Drop
  BY <1>3 DEF Drop, RevocationHolds, Deleting, InDeletion
<1>4. CASE Crash
  <2>1. Deleting' = {}
    BY <1>4 DEF Crash, Deleting, InDeletion, Procs
  <2> QED
    BY <1>4, <2>1, FS_EmptySet DEF Crash, RevocationHolds
<1>5. ASSUME NEW s \in Streams, Dial(s) \/ AgentSend(s)
      PROVE  RevocationHolds'
  <2>1. CASE Dial(s)
    BY <2>1 DEF Dial
  <2>2. CASE AgentSend(s)
    BY <2>2 DEF AgentSend, RevocationHolds, Deleting, InDeletion
  <2> QED
    BY <1>5, <2>1, <2>2
<1>6. ASSUME NEW p \in Publishers, Update(p)
      PROVE  RevocationHolds'
  <2>1. CASE Read(p)
    BY <2>1 DEF Read, TxnFailed, TxnRead
  <2>2. CASE Commit(p)
    BY <2>2 DEF Commit, TxnCommit, NewPhase
  <2>3. CASE Conflict(p)
    BY <2>3 DEF Conflict
  <2>4. CASE Lookup(p)
    BY <2>4 DEF Lookup, TxnFailed
  <2>5. CASE PubLock(p)
    BY <2>5 DEF PubLock
  <2>6. CASE PubRevoked(p)
    BY <2>6 DEF PubRevoked, PubFailed
  <2>7. CASE PubCheck(p)
    BY <2>7 DEF PubCheck, PubFailed
  <2>8. CASE PubAppend(p)
    BY <2>8 DEF PubAppend, Publish, EventOf
  <2> QED
    BY <1>6, <2>1, <2>2, <2>3, <2>4, <2>5, <2>6, <2>7, <2>8 DEF Update
<1>7. ASSUME NEW s \in Streams, Attend(s)
      PROVE  RevocationHolds'
  <2>1. CASE CommitMeters(s)
    BY <2>1 DEF CommitMeters
  <2>2. CASE Reserve(s)
    <3>1. Deleting' = Deleting
      BY <2>2 DEF Reserve
    <3>2. blocked' = blocked /\ ~(blocked' > 0)
      BY <2>2 DEF Reserve
    <3> QED
      BY <3>1, <3>2
  <2>3. CASE ReserveRefused(s)
    BY <2>3 DEF ReserveRefused, Return
  <2>4. CASE Cancel(s)
    BY <2>4 DEF Cancel, Return
  <2>5. CASE Activate(s)
    BY <2>5 DEF Activate, Closed, MayActivate
  <2>6. CASE ActivateRefused(s)
    BY <2>6 DEF ActivateRefused, Return, MayActivate
  <2>7. CASE Abort(s)
    BY <2>7 DEF Abort, Return
  <2>8. CASE Send(s)
    BY <2>8 DEF Send
  <2>9. CASE LoopTop(s)
    BY <2>9 DEF LoopTop
  <2>10. CASE StreamEnds(s)
    BY <2>10 DEF StreamEnds
  <2>11. CASE SelectMessage(s)
    BY <2>11 DEF SelectMessage
  <2>12. CASE SelectOutbound(s)
    BY <2>12 DEF SelectOutbound
  <2>13. CASE Detach(s)
    BY <2>13 DEF Detach, Closed
  <2>14. CASE OfflineLock(s)
    BY <2>14 DEF OfflineLock
  <2>15. CASE OfflineRead(s)
    BY <2>15 DEF OfflineRead, TxnRead
  <2>16. CASE OfflineCommit(s)
    BY <2>16 DEF OfflineCommit, TxnCommit
  <2>17. CASE OfflineAppend(s)
    BY <2>17 DEF OfflineAppend, Return, Publish
  <2>18. CASE NoOffline(s)
    BY <2>18 DEF NoOffline, Return
  <2> QED
    BY <1>7, <2>1, <2>2, <2>3, <2>4, <2>5, <2>6, <2>7, <2>8, <2>9, <2>10,
       <2>11, <2>12, <2>13, <2>14, <2>15, <2>16, <2>17, <2>18 DEF Attend
<1>8. ASSUME NEW d \in Deletes, DeleteBegin(d) \/ Deletion(d)
      PROVE  RevocationHolds'
  <2>1. CASE DeleteBegin(d)
    <3>1. Deleting' = Deleting
      BY <2>1 DEF DeleteBegin, At, Goto, InDeletion, Deleting, TypeOK, Procs
    <3> QED
      BY <2>1, <3>1 DEF DeleteBegin, RevocationHolds, TypeOK
  <2>2. CASE Revoke(d)
    <3>1. Deleting' = Deleting \cup {d} /\ d \notin Deleting
      BY <2>2 DEF Revoke, At, Goto, Deleting, InDeletion, TypeOK, Procs
    <3>2. Cardinality(Deleting') = Cardinality(Deleting) + 1
      BY <3>1, <1>a, FS_AddElement
    <3> QED
      BY <2>2, <3>2 DEF Revoke, RevocationHolds
  <2>3. CASE DeleteRead(d)
    <3>1. Deleting' = Deleting
      BY <2>3 DEF DeleteRead, TxnRead, At, Goto, InDeletion, Deleting, TypeOK,
         Procs
    <3> QED
      BY <2>3, <3>1 DEF DeleteRead, TxnRead, RevocationHolds, TypeOK
  <2>4. CASE DeleteCommit(d)
    <3>1. Deleting' = Deleting
      BY <2>4 DEF DeleteCommit, TxnCommit, At, Goto, InDeletion, Deleting,
         TypeOK, Procs
    <3> QED
      BY <2>4, <3>1 DEF DeleteCommit, TxnCommit, RevocationHolds, TypeOK
  <2>5. CASE DeleteConflict(d)
    <3>1. Deleting' = Deleting
      BY <2>5 DEF DeleteConflict, At, Goto, InDeletion, Deleting, TypeOK, Procs
    <3> QED
      BY <2>5, <3>1 DEF DeleteConflict, RevocationHolds, TypeOK
  <2>6. CASE DeletePublish(d)
    <3>1. Deleting' = Deleting
      BY <2>6 DEF DeletePublish, Publish, At, Goto, InDeletion, Deleting,
         TypeOK, Procs
    <3> QED
      BY <2>6, <3>1 DEF DeletePublish, Publish, RevocationHolds, TypeOK
  <2>7. CASE Release(d)
    <3>1. Deleting' = Deleting \ {d} /\ d \in Deleting
      BY <2>7 DEF Release, At, Goto, Deleting, InDeletion, TypeOK, Procs
    <3>2. Cardinality(Deleting') = Cardinality(Deleting) - 1
      BY <3>1, <1>a, FS_RemoveElement
    <3> QED
      BY <2>7, <3>2 DEF Release, RevocationHolds, TypeOK
  <2> QED
    BY <1>8, <2>1, <2>2, <2>3, <2>4, <2>5, <2>6, <2>7 DEF Deletion
<1>9. ASSUME NEW u \in Updates, DesiredBegin(u) \/ HubSend(u)
      PROVE  RevocationHolds'
  <2>1. CASE DesiredBegin(u)
    BY <2>1 DEF DesiredBegin
  <2>2. CASE HubSend(u)
    BY <2>2 DEF HubSend, Online, Accepts
  <2> QED
    BY <1>9, <2>1, <2>2
<1>10. CASE UNCHANGED vars
  BY <1>10 DEF Deleting, InDeletion, vars, hubVars, storeVars, agentVars, aux
<1> QED
  BY <1>1, <1>2, <1>3, <1>4, <1>5, <1>6, <1>7, <1>8, <1>9, <1>10 DEF Next,
     Handler, SetDesired, Publishers

\* Every step keeps the discipline of hub.mu.
LEMMA LockInductive ==
  ASSUME TypeOK, TypeOK', LockInv, [Next]_vars
  PROVE  LockInv'
<1> USE DEF LockInv, TypeOK, Procs, Publishers, StreamPcs, DeletePcs, UpdatePcs,
            CreatorPcs, At, Goto,
            hubVars, storeVars, agentVars, aux
<1>1. CASE CreatePut
  BY <1>1 DEF CreatePut
<1>2. CASE CreatePublish
  BY <1>2 DEF CreatePublish, Publish
<1>3. CASE Drop
  BY <1>3 DEF Drop
<1>4. CASE Crash
  BY <1>4 DEF Crash
<1>5. ASSUME NEW s \in Streams, Dial(s) \/ AgentSend(s)
      PROVE  LockInv'
  <2>1. CASE Dial(s)
    BY <2>1 DEF Dial
  <2>2. CASE AgentSend(s)
    BY <2>2 DEF AgentSend
  <2> QED
    BY <1>5, <2>1, <2>2
<1>6. ASSUME NEW p \in Publishers, Update(p)
      PROVE  LockInv'
  <2>1. CASE Read(p)
    BY <2>1 DEF Read, TxnFailed, TxnRead
  <2>2. CASE Commit(p)
    BY <2>2 DEF Commit, TxnCommit, NewPhase
  <2>3. CASE Conflict(p)
    BY <2>3 DEF Conflict
  <2>4. CASE Lookup(p)
    BY <2>4 DEF Lookup, TxnFailed
  <2>5. CASE PubLock(p)
    BY <2>5 DEF PubLock
  <2>6. CASE PubRevoked(p)
    BY <2>6 DEF PubRevoked, PubFailed
  <2>7. CASE PubCheck(p)
    BY <2>7 DEF PubCheck, PubFailed
  <2>8. CASE PubAppend(p)
    BY <2>8 DEF PubAppend, Publish, EventOf
  <2> QED
    BY <1>6, <2>1, <2>2, <2>3, <2>4, <2>5, <2>6, <2>7, <2>8 DEF Update
<1>7. ASSUME NEW s \in Streams, Attend(s)
      PROVE  LockInv'
  <2>1. CASE CommitMeters(s)
    BY <2>1 DEF CommitMeters
  <2>2. CASE Reserve(s)
    BY <2>2 DEF Reserve
  <2>3. CASE ReserveRefused(s)
    BY <2>3 DEF ReserveRefused, Return
  <2>4. CASE Cancel(s)
    BY <2>4 DEF Cancel, Return
  <2>5. CASE Activate(s)
    BY <2>5 DEF Activate, Closed, MayActivate
  <2>6. CASE ActivateRefused(s)
    BY <2>6 DEF ActivateRefused, Return, MayActivate
  <2>7. CASE Abort(s)
    BY <2>7 DEF Abort, Return
  <2>8. CASE Send(s)
    BY <2>8 DEF Send
  <2>9. CASE LoopTop(s)
    BY <2>9 DEF LoopTop
  <2>10. CASE StreamEnds(s)
    BY <2>10 DEF StreamEnds
  <2>11. CASE SelectMessage(s)
    BY <2>11 DEF SelectMessage
  <2>12. CASE SelectOutbound(s)
    BY <2>12 DEF SelectOutbound
  <2>13. CASE Detach(s)
    BY <2>13 DEF Detach, Closed
  <2>14. CASE OfflineLock(s)
    BY <2>14 DEF OfflineLock
  <2>15. CASE OfflineRead(s)
    BY <2>15 DEF OfflineRead, TxnRead
  <2>16. CASE OfflineCommit(s)
    BY <2>16 DEF OfflineCommit, TxnCommit
  <2>17. CASE OfflineAppend(s)
    BY <2>17 DEF OfflineAppend, Return, Publish
  <2>18. CASE NoOffline(s)
    BY <2>18 DEF NoOffline, Return
  <2> QED
    BY <1>7, <2>1, <2>2, <2>3, <2>4, <2>5, <2>6, <2>7, <2>8, <2>9, <2>10,
       <2>11, <2>12, <2>13, <2>14, <2>15, <2>16, <2>17, <2>18 DEF Attend
<1>8. ASSUME NEW d \in Deletes, DeleteBegin(d) \/ Deletion(d)
      PROVE  LockInv'
  <2>1. CASE DeleteBegin(d)
    BY <2>1 DEF DeleteBegin
  <2>2. CASE Revoke(d)
    BY <2>2 DEF Revoke
  <2>3. CASE DeleteRead(d)
    BY <2>3 DEF DeleteRead, TxnRead
  <2>4. CASE DeleteCommit(d)
    BY <2>4 DEF DeleteCommit, TxnCommit
  <2>5. CASE DeleteConflict(d)
    BY <2>5 DEF DeleteConflict
  <2>6. CASE DeletePublish(d)
    BY <2>6 DEF DeletePublish, Publish
  <2>7. CASE Release(d)
    BY <2>7 DEF Release
  <2> QED
    BY <1>8, <2>1, <2>2, <2>3, <2>4, <2>5, <2>6, <2>7 DEF Deletion
<1>9. ASSUME NEW u \in Updates, DesiredBegin(u) \/ HubSend(u)
      PROVE  LockInv'
  <2>1. CASE DesiredBegin(u)
    BY <2>1 DEF DesiredBegin
  <2>2. CASE HubSend(u)
    BY <2>2 DEF HubSend, Online, Accepts
  <2> QED
    BY <1>9, <2>1, <2>2
<1>10. CASE UNCHANGED vars
  BY <1>10 DEF vars, hubVars, storeVars, agentVars, aux
<1> QED
  BY <1>1, <1>2, <1>3, <1>4, <1>5, <1>6, <1>7, <1>8, <1>9, <1>10 DEF Next,
     Handler, SetDesired, Publishers

\* Every step keeps the record there where the code relies on it: only a
\* deletion removes it, and then no handler is at such a place.
LEMMA EnrolledInductive ==
  ASSUME TypeOK, TypeOK', LockInv, RevocationHolds,
         PlaceInv, EnrolledInv, [Next]_vars
  PROVE  EnrolledInv'
<1> USE DEF EnrolledInv, TypeOK, Absent, Procs, Publishers, StreamPcs,
            DeletePcs, UpdatePcs,
            CreatorPcs, At, Goto,
            hubVars, storeVars, agentVars, aux
<1>1. CASE CreatePut
  BY <1>1 DEF CreatePut
<1>2. CASE CreatePublish
  BY <1>2 DEF CreatePublish, Publish
<1>3. CASE Drop
  BY <1>3 DEF Drop
<1>4. CASE Crash
  BY <1>4 DEF Crash
<1>5. ASSUME NEW s \in Streams, Dial(s) \/ AgentSend(s)
      PROVE  EnrolledInv'
  <2>1. CASE Dial(s)
    BY <2>1 DEF Dial
  <2>2. CASE AgentSend(s)
    BY <2>2 DEF AgentSend
  <2> QED
    BY <1>5, <2>1, <2>2
<1>6. ASSUME NEW p \in Publishers, Update(p)
      PROVE  EnrolledInv'
  <2>1. CASE Read(p)
    BY <2>1 DEF Read, TxnFailed, TxnRead
  <2>2. CASE Commit(p)
    BY <2>2 DEF Commit, TxnCommit, NewPhase
  <2>3. CASE Conflict(p)
    BY <2>3 DEF Conflict
  <2>4. CASE Lookup(p)
    BY <2>4 DEF Lookup, TxnFailed
  <2>5. CASE PubLock(p)
    BY <2>5 DEF PubLock
  <2>6. CASE PubRevoked(p)
    BY <2>6 DEF PubRevoked, PubFailed
  <2>7. CASE PubCheck(p)
    BY <2>7 DEF PubCheck, PubFailed
  <2>8. CASE PubAppend(p)
    BY <2>8 DEF PubAppend, Publish, EventOf
  <2> QED
    BY <1>6, <2>1, <2>2, <2>3, <2>4, <2>5, <2>6, <2>7, <2>8 DEF Update
<1>7. ASSUME NEW s \in Streams, Attend(s)
      PROVE  EnrolledInv'
  <2>1. CASE CommitMeters(s)
    BY <2>1 DEF CommitMeters
  <2>2. CASE Reserve(s)
    BY <2>2 DEF Reserve
  <2>3. CASE ReserveRefused(s)
    BY <2>3 DEF ReserveRefused, Return
  <2>4. CASE Cancel(s)
    BY <2>4 DEF Cancel, Return
  <2>5. CASE Activate(s)
    BY <2>5 DEF Activate, Closed, MayActivate
  <2>6. CASE ActivateRefused(s)
    BY <2>6 DEF ActivateRefused, Return, MayActivate
  <2>7. CASE Abort(s)
    BY <2>7 DEF Abort, Return
  <2>8. CASE Send(s)
    BY <2>8 DEF Send
  <2>9. CASE LoopTop(s)
    BY <2>9 DEF LoopTop
  <2>10. CASE StreamEnds(s)
    BY <2>10 DEF StreamEnds
  <2>11. CASE SelectMessage(s)
    BY <2>11 DEF SelectMessage
  <2>12. CASE SelectOutbound(s)
    BY <2>12 DEF SelectOutbound
  <2>13. CASE Detach(s)
    BY <2>13 DEF Detach, Closed
  <2>14. CASE OfflineLock(s)
    BY <2>14 DEF OfflineLock
  <2>15. CASE OfflineRead(s)
    BY <2>15 DEF OfflineRead, TxnRead
  <2>16. CASE OfflineCommit(s)
    BY <2>16 DEF OfflineCommit, TxnCommit
  <2>17. CASE OfflineAppend(s)
    BY <2>17 DEF OfflineAppend, Return, Publish
  <2>18. CASE NoOffline(s)
    BY <2>18 DEF NoOffline, Return
  <2> QED
    BY <1>7, <2>1, <2>2, <2>3, <2>4, <2>5, <2>6, <2>7, <2>8, <2>9, <2>10,
       <2>11, <2>12, <2>13, <2>14, <2>15, <2>16, <2>17, <2>18 DEF Attend
<1>8. ASSUME NEW d \in Deletes, DeleteBegin(d) \/ Deletion(d)
      PROVE  EnrolledInv'
  <2>1. CASE DeleteBegin(d)
    BY <2>1 DEF DeleteBegin
  <2>2. CASE Revoke(d)
    BY <2>2 DEF Revoke
  <2>3. CASE DeleteRead(d)
    BY <2>3 DEF DeleteRead, TxnRead
  <2>4. CASE DeleteCommit(d)
    BY <2>4, DeletionBlocks
       DEF DeleteCommit, TxnCommit, InDeletion, LockInv
  <2>5. CASE DeleteConflict(d)
    BY <2>5 DEF DeleteConflict
  <2>6. CASE DeletePublish(d)
    BY <2>6 DEF DeletePublish, Publish
  <2>7. CASE Release(d)
    BY <2>7 DEF Release
  <2> QED
    BY <1>8, <2>1, <2>2, <2>3, <2>4, <2>5, <2>6, <2>7 DEF Deletion
<1>9. ASSUME NEW u \in Updates, DesiredBegin(u) \/ HubSend(u)
      PROVE  EnrolledInv'
  <2>1. CASE DesiredBegin(u)
    BY <2>1 DEF DesiredBegin
  <2>2. CASE HubSend(u)
    BY <2>2 DEF HubSend, Online, Accepts
  <2> QED
    BY <1>9, <2>1, <2>2
<1>10. CASE UNCHANGED vars
  BY <1>10 DEF vars, hubVars, storeVars, agentVars, aux
<1> QED
  BY <1>1, <1>2, <1>3, <1>4, <1>5, <1>6, <1>7, <1>8, <1>9, <1>10 DEF Next,
     Handler, SetDesired, Publishers

\* Every step keeps an attached connection enrolled.
LEMMA AttachedInductive ==
  ASSUME TypeOK, TypeOK', LockInv, RevocationHolds,
         EnrolledInv, AttachedIsEnrolled, [Next]_vars
  PROVE  AttachedIsEnrolled'
<1> USE DEF AttachedIsEnrolled, EnrolledInv, TypeOK, Absent, At, Goto,
            hubVars, storeVars, agentVars, aux
<1>1. CASE CreatePut
  BY <1>1 DEF CreatePut
<1>2. CASE CreatePublish
  BY <1>2 DEF CreatePublish, Publish
<1>3. CASE Drop
  BY <1>3 DEF Drop
<1>4. CASE Crash
  BY <1>4 DEF Crash
<1>5. ASSUME NEW s \in Streams, Dial(s) \/ AgentSend(s)
      PROVE  AttachedIsEnrolled'
  <2>1. CASE Dial(s)
    BY <2>1 DEF Dial
  <2>2. CASE AgentSend(s)
    BY <2>2 DEF AgentSend
  <2> QED
    BY <1>5, <2>1, <2>2
<1>6. ASSUME NEW p \in Publishers, Update(p)
      PROVE  AttachedIsEnrolled'
  <2>1. CASE Read(p)
    BY <2>1 DEF Read, TxnFailed, TxnRead
  <2>2. CASE Commit(p)
    BY <2>2 DEF Commit, TxnCommit, NewPhase
  <2>3. CASE Conflict(p)
    BY <2>3 DEF Conflict
  <2>4. CASE Lookup(p)
    BY <2>4 DEF Lookup, TxnFailed
  <2>5. CASE PubLock(p)
    BY <2>5 DEF PubLock
  <2>6. CASE PubRevoked(p)
    BY <2>6 DEF PubRevoked, PubFailed
  <2>7. CASE PubCheck(p)
    BY <2>7 DEF PubCheck, PubFailed
  <2>8. CASE PubAppend(p)
    BY <2>8 DEF PubAppend, Publish, EventOf
  <2> QED
    BY <1>6, <2>1, <2>2, <2>3, <2>4, <2>5, <2>6, <2>7, <2>8 DEF Update
<1>7. ASSUME NEW s \in Streams, Attend(s)
      PROVE  AttachedIsEnrolled'
  <2>1. CASE CommitMeters(s)
    BY <2>1 DEF CommitMeters
  <2>2. CASE Reserve(s)
    BY <2>2 DEF Reserve
  <2>3. CASE ReserveRefused(s)
    BY <2>3 DEF ReserveRefused, Return
  <2>4. CASE Cancel(s)
    BY <2>4 DEF Cancel, Return
  <2>5. CASE Activate(s)
    BY <2>5 DEF Activate, Closed, MayActivate
  <2>6. CASE ActivateRefused(s)
    BY <2>6 DEF ActivateRefused, Return, MayActivate
  <2>7. CASE Abort(s)
    BY <2>7 DEF Abort, Return
  <2>8. CASE Send(s)
    BY <2>8 DEF Send
  <2>9. CASE LoopTop(s)
    BY <2>9 DEF LoopTop
  <2>10. CASE StreamEnds(s)
    BY <2>10 DEF StreamEnds
  <2>11. CASE SelectMessage(s)
    BY <2>11 DEF SelectMessage
  <2>12. CASE SelectOutbound(s)
    BY <2>12 DEF SelectOutbound
  <2>13. CASE Detach(s)
    BY <2>13 DEF Detach, Closed
  <2>14. CASE OfflineLock(s)
    BY <2>14 DEF OfflineLock
  <2>15. CASE OfflineRead(s)
    BY <2>15 DEF OfflineRead, TxnRead
  <2>16. CASE OfflineCommit(s)
    BY <2>16 DEF OfflineCommit, TxnCommit
  <2>17. CASE OfflineAppend(s)
    BY <2>17 DEF OfflineAppend, Return, Publish
  <2>18. CASE NoOffline(s)
    BY <2>18 DEF NoOffline, Return
  <2> QED
    BY <1>7, <2>1, <2>2, <2>3, <2>4, <2>5, <2>6, <2>7, <2>8, <2>9, <2>10,
       <2>11, <2>12, <2>13, <2>14, <2>15, <2>16, <2>17, <2>18 DEF Attend
<1>8. ASSUME NEW d \in Deletes, DeleteBegin(d) \/ Deletion(d)
      PROVE  AttachedIsEnrolled'
  <2>1. CASE DeleteBegin(d)
    BY <2>1 DEF DeleteBegin
  <2>2. CASE Revoke(d)
    BY <2>2 DEF Revoke
  <2>3. CASE DeleteRead(d)
    BY <2>3 DEF DeleteRead, TxnRead
  <2>4. CASE DeleteCommit(d)
    BY <2>4, DeletionBlocks DEF DeleteCommit, TxnCommit, InDeletion
  <2>5. CASE DeleteConflict(d)
    BY <2>5 DEF DeleteConflict
  <2>6. CASE DeletePublish(d)
    BY <2>6 DEF DeletePublish, Publish
  <2>7. CASE Release(d)
    BY <2>7 DEF Release
  <2> QED
    BY <1>8, <2>1, <2>2, <2>3, <2>4, <2>5, <2>6, <2>7 DEF Deletion
<1>9. ASSUME NEW u \in Updates, DesiredBegin(u) \/ HubSend(u)
      PROVE  AttachedIsEnrolled'
  <2>1. CASE DesiredBegin(u)
    BY <2>1 DEF DesiredBegin
  <2>2. CASE HubSend(u)
    BY <2>2 DEF HubSend, Online, Accepts
  <2> QED
    BY <1>9, <2>1, <2>2
<1>10. CASE UNCHANGED vars
  BY <1>10 DEF vars, hubVars, storeVars, agentVars, aux
<1> QED
  BY <1>1, <1>2, <1>3, <1>4, <1>5, <1>6, <1>7, <1>8, <1>9, <1>10 DEF Next,
     Handler, SetDesired, Publishers

\* Every step keeps reserved and attached streams in their part of Connect.
LEMMA PlaceInductive ==
  ASSUME TypeOK, TypeOK', PlaceInv, [Next]_vars
  PROVE  PlaceInv'
<1> USE DEF PlaceInv, TypeOK, Procs, Publishers, StreamPcs, DeletePcs,
            UpdatePcs,
            CreatorPcs, At, Goto,
            hubVars, storeVars, agentVars, aux
<1>1. CASE CreatePut
  BY <1>1 DEF CreatePut
<1>2. CASE CreatePublish
  BY <1>2 DEF CreatePublish, Publish
<1>3. CASE Drop
  BY <1>3 DEF Drop
<1>4. CASE Crash
  BY <1>4 DEF Crash
<1>5. ASSUME NEW s \in Streams, Dial(s) \/ AgentSend(s)
      PROVE  PlaceInv'
  <2>1. CASE Dial(s)
    BY <2>1 DEF Dial
  <2>2. CASE AgentSend(s)
    BY <2>2 DEF AgentSend
  <2> QED
    BY <1>5, <2>1, <2>2
<1>6. ASSUME NEW p \in Publishers, Update(p)
      PROVE  PlaceInv'
  <2>1. CASE Read(p)
    BY <2>1 DEF Read, TxnFailed, TxnRead
  <2>2. CASE Commit(p)
    BY <2>2 DEF Commit, TxnCommit, NewPhase
  <2>3. CASE Conflict(p)
    BY <2>3 DEF Conflict
  <2>4. CASE Lookup(p)
    BY <2>4 DEF Lookup, TxnFailed
  <2>5. CASE PubLock(p)
    BY <2>5 DEF PubLock
  <2>6. CASE PubRevoked(p)
    BY <2>6 DEF PubRevoked, PubFailed
  <2>7. CASE PubCheck(p)
    BY <2>7 DEF PubCheck, PubFailed
  <2>8. CASE PubAppend(p)
    BY <2>8 DEF PubAppend, Publish, EventOf
  <2> QED
    BY <1>6, <2>1, <2>2, <2>3, <2>4, <2>5, <2>6, <2>7, <2>8 DEF Update
<1>7. ASSUME NEW s \in Streams, Attend(s)
      PROVE  PlaceInv'
  <2>1. CASE CommitMeters(s)
    BY <2>1 DEF CommitMeters
  <2>2. CASE Reserve(s)
    BY <2>2 DEF Reserve
  <2>3. CASE ReserveRefused(s)
    BY <2>3 DEF ReserveRefused, Return
  <2>4. CASE Cancel(s)
    BY <2>4 DEF Cancel, Return
  <2>5. CASE Activate(s)
    BY <2>5 DEF Activate, Closed, MayActivate
  <2>6. CASE ActivateRefused(s)
    BY <2>6 DEF ActivateRefused, Return, MayActivate
  <2>7. CASE Abort(s)
    BY <2>7 DEF Abort, Return
  <2>8. CASE Send(s)
    BY <2>8 DEF Send
  <2>9. CASE LoopTop(s)
    BY <2>9 DEF LoopTop
  <2>10. CASE StreamEnds(s)
    BY <2>10 DEF StreamEnds
  <2>11. CASE SelectMessage(s)
    BY <2>11 DEF SelectMessage
  <2>12. CASE SelectOutbound(s)
    BY <2>12 DEF SelectOutbound
  <2>13. CASE Detach(s)
    BY <2>13 DEF Detach, Closed
  <2>14. CASE OfflineLock(s)
    BY <2>14 DEF OfflineLock
  <2>15. CASE OfflineRead(s)
    BY <2>15 DEF OfflineRead, TxnRead
  <2>16. CASE OfflineCommit(s)
    BY <2>16 DEF OfflineCommit, TxnCommit
  <2>17. CASE OfflineAppend(s)
    BY <2>17 DEF OfflineAppend, Return, Publish
  <2>18. CASE NoOffline(s)
    BY <2>18 DEF NoOffline, Return
  <2> QED
    BY <1>7, <2>1, <2>2, <2>3, <2>4, <2>5, <2>6, <2>7, <2>8, <2>9, <2>10,
       <2>11, <2>12, <2>13, <2>14, <2>15, <2>16, <2>17, <2>18 DEF Attend
<1>8. ASSUME NEW d \in Deletes, DeleteBegin(d) \/ Deletion(d)
      PROVE  PlaceInv'
  <2>1. CASE DeleteBegin(d)
    BY <2>1 DEF DeleteBegin
  <2>2. CASE Revoke(d)
    BY <2>2 DEF Revoke
  <2>3. CASE DeleteRead(d)
    BY <2>3 DEF DeleteRead, TxnRead
  <2>4. CASE DeleteCommit(d)
    BY <2>4 DEF DeleteCommit, TxnCommit
  <2>5. CASE DeleteConflict(d)
    BY <2>5 DEF DeleteConflict
  <2>6. CASE DeletePublish(d)
    BY <2>6 DEF DeletePublish, Publish
  <2>7. CASE Release(d)
    BY <2>7 DEF Release
  <2> QED
    BY <1>8, <2>1, <2>2, <2>3, <2>4, <2>5, <2>6, <2>7 DEF Deletion
<1>9. ASSUME NEW u \in Updates, DesiredBegin(u) \/ HubSend(u)
      PROVE  PlaceInv'
  <2>1. CASE DesiredBegin(u)
    BY <2>1 DEF DesiredBegin
  <2>2. CASE HubSend(u)
    BY <2>2 DEF HubSend, Online, Accepts
  <2> QED
    BY <1>9, <2>1, <2>2
<1>10. CASE UNCHANGED vars
  BY <1>10 DEF vars, hubVars, storeVars, agentVars, aux
<1> QED
  BY <1>1, <1>2, <1>3, <1>4, <1>5, <1>6, <1>7, <1>8, <1>9, <1>10 DEF Next,
     Handler, SetDesired, Publishers

\* Every step keeps the hub the owner of all open connections.
LEMMA HubInductive ==
  ASSUME TypeOK, TypeOK', PlaceInv, HubOwnsConnections, [Next]_vars
  PROVE  HubOwnsConnections'
<1> USE DEF HubOwnsConnections, PlaceInv, TypeOK, Procs, Publishers,
            StreamPcs, DeletePcs, UpdatePcs,
            CreatorPcs, At, Goto,
            hubVars, storeVars, agentVars, aux
<1>1. CASE CreatePut
  BY <1>1 DEF CreatePut
<1>2. CASE CreatePublish
  BY <1>2 DEF CreatePublish, Publish
<1>3. CASE Drop
  BY <1>3 DEF Drop
<1>4. CASE Crash
  BY <1>4 DEF Crash
<1>5. ASSUME NEW s \in Streams, Dial(s) \/ AgentSend(s)
      PROVE  HubOwnsConnections'
  <2>1. CASE Dial(s)
    BY <2>1 DEF Dial
  <2>2. CASE AgentSend(s)
    BY <2>2 DEF AgentSend
  <2> QED
    BY <1>5, <2>1, <2>2
<1>6. ASSUME NEW p \in Publishers, Update(p)
      PROVE  HubOwnsConnections'
  <2>1. CASE Read(p)
    BY <2>1 DEF Read, TxnFailed, TxnRead
  <2>2. CASE Commit(p)
    BY <2>2 DEF Commit, TxnCommit, NewPhase
  <2>3. CASE Conflict(p)
    BY <2>3 DEF Conflict
  <2>4. CASE Lookup(p)
    BY <2>4 DEF Lookup, TxnFailed
  <2>5. CASE PubLock(p)
    BY <2>5 DEF PubLock
  <2>6. CASE PubRevoked(p)
    BY <2>6 DEF PubRevoked, PubFailed
  <2>7. CASE PubCheck(p)
    BY <2>7 DEF PubCheck, PubFailed
  <2>8. CASE PubAppend(p)
    BY <2>8 DEF PubAppend, Publish, EventOf
  <2> QED
    BY <1>6, <2>1, <2>2, <2>3, <2>4, <2>5, <2>6, <2>7, <2>8 DEF Update
<1>7. ASSUME NEW s \in Streams, Attend(s)
      PROVE  HubOwnsConnections'
  <2>1. CASE CommitMeters(s)
    BY <2>1 DEF CommitMeters
  <2>2. CASE Reserve(s)
    BY <2>2 DEF Reserve
  <2>3. CASE ReserveRefused(s)
    BY <2>3 DEF ReserveRefused, Return
  <2>4. CASE Cancel(s)
    BY <2>4 DEF Cancel, Return
  <2>5. CASE Activate(s)
    BY <2>5 DEF Activate, Closed, MayActivate
  <2>6. CASE ActivateRefused(s)
    BY <2>6 DEF ActivateRefused, Return, MayActivate
  <2>7. CASE Abort(s)
    BY <2>7 DEF Abort, Return
  <2>8. CASE Send(s)
    BY <2>8 DEF Send
  <2>9. CASE LoopTop(s)
    BY <2>9 DEF LoopTop
  <2>10. CASE StreamEnds(s)
    BY <2>10 DEF StreamEnds
  <2>11. CASE SelectMessage(s)
    BY <2>11 DEF SelectMessage
  <2>12. CASE SelectOutbound(s)
    BY <2>12 DEF SelectOutbound
  <2>13. CASE Detach(s)
    BY <2>13 DEF Detach, Closed
  <2>14. CASE OfflineLock(s)
    BY <2>14 DEF OfflineLock
  <2>15. CASE OfflineRead(s)
    BY <2>15 DEF OfflineRead, TxnRead
  <2>16. CASE OfflineCommit(s)
    BY <2>16 DEF OfflineCommit, TxnCommit
  <2>17. CASE OfflineAppend(s)
    BY <2>17 DEF OfflineAppend, Return, Publish
  <2>18. CASE NoOffline(s)
    BY <2>18 DEF NoOffline, Return
  <2> QED
    BY <1>7, <2>1, <2>2, <2>3, <2>4, <2>5, <2>6, <2>7, <2>8, <2>9, <2>10,
       <2>11, <2>12, <2>13, <2>14, <2>15, <2>16, <2>17, <2>18 DEF Attend
<1>8. ASSUME NEW d \in Deletes, DeleteBegin(d) \/ Deletion(d)
      PROVE  HubOwnsConnections'
  <2>1. CASE DeleteBegin(d)
    BY <2>1 DEF DeleteBegin
  <2>2. CASE Revoke(d)
    BY <2>2 DEF Revoke
  <2>3. CASE DeleteRead(d)
    BY <2>3 DEF DeleteRead, TxnRead
  <2>4. CASE DeleteCommit(d)
    BY <2>4 DEF DeleteCommit, TxnCommit
  <2>5. CASE DeleteConflict(d)
    BY <2>5 DEF DeleteConflict
  <2>6. CASE DeletePublish(d)
    BY <2>6 DEF DeletePublish, Publish
  <2>7. CASE Release(d)
    BY <2>7 DEF Release
  <2> QED
    BY <1>8, <2>1, <2>2, <2>3, <2>4, <2>5, <2>6, <2>7 DEF Deletion
<1>9. ASSUME NEW u \in Updates, DesiredBegin(u) \/ HubSend(u)
      PROVE  HubOwnsConnections'
  <2>1. CASE DesiredBegin(u)
    BY <2>1 DEF DesiredBegin
  <2>2. CASE HubSend(u)
    BY <2>2 DEF HubSend, Online, Accepts
  <2> QED
    BY <1>9, <2>1, <2>2
<1>10. CASE UNCHANGED vars
  BY <1>10 DEF vars, hubVars, storeVars, agentVars, aux
<1> QED
  BY <1>1, <1>2, <1>3, <1>4, <1>5, <1>6, <1>7, <1>8, <1>9, <1>10 DEF Next,
     Handler, SetDesired, Publishers

\* Every step keeps refusals tied to a deletion.
LEMMA RejectInductive ==
  ASSUME TypeOK, TypeOK', RevocationHolds, EnrolledInv,
         RejectInv, [Next]_vars
  PROVE  RejectInv'
<1> USE DEF RejectInv, Asked, TypeOK, Absent, Procs, Publishers, StreamPcs,
            DeletePcs, UpdatePcs,
            CreatorPcs, At, Goto,
            hubVars, storeVars, agentVars, aux
<1>1. CASE CreatePut
  BY <1>1 DEF CreatePut
<1>2. CASE CreatePublish
  BY <1>2 DEF CreatePublish, Publish
<1>3. CASE Drop
  BY <1>3 DEF Drop
<1>4. CASE Crash
  BY <1>4 DEF Crash
<1>5. ASSUME NEW s \in Streams, Dial(s) \/ AgentSend(s)
      PROVE  RejectInv'
  <2>1. CASE Dial(s)
    BY <2>1 DEF Dial
  <2>2. CASE AgentSend(s)
    BY <2>2 DEF AgentSend
  <2> QED
    BY <1>5, <2>1, <2>2
<1>6. ASSUME NEW p \in Publishers, Update(p)
      PROVE  RejectInv'
  <2>1. CASE Read(p)
    BY <2>1 DEF Read, TxnFailed, TxnRead
  <2>2. CASE Commit(p)
    BY <2>2 DEF Commit, TxnCommit, NewPhase
  <2>3. CASE Conflict(p)
    BY <2>3 DEF Conflict
  <2>4. CASE Lookup(p)
    BY <2>4 DEF Lookup, TxnFailed
  <2>5. CASE PubLock(p)
    BY <2>5 DEF PubLock
  <2>6. CASE PubRevoked(p)
    BY <2>6, BlockedByDeletion DEF PubRevoked, PubFailed
  <2>7. CASE PubCheck(p)
    BY <2>7 DEF PubCheck, PubFailed
  <2>8. CASE PubAppend(p)
    BY <2>8 DEF PubAppend, Publish, EventOf
  <2> QED
    BY <1>6, <2>1, <2>2, <2>3, <2>4, <2>5, <2>6, <2>7, <2>8 DEF Update
<1>7. ASSUME NEW s \in Streams, Attend(s)
      PROVE  RejectInv'
  <2>1. CASE CommitMeters(s)
    BY <2>1 DEF CommitMeters
  <2>2. CASE Reserve(s)
    BY <2>2 DEF Reserve
  <2>3. CASE ReserveRefused(s)
    BY <2>3 DEF ReserveRefused, Return
  <2>4. CASE Cancel(s)
    BY <2>4 DEF Cancel, Return
  <2>5. CASE Activate(s)
    BY <2>5 DEF Activate, Closed, MayActivate
  <2>6. CASE ActivateRefused(s)
    BY <2>6 DEF ActivateRefused, Return, MayActivate
  <2>7. CASE Abort(s)
    BY <2>7 DEF Abort, Return
  <2>8. CASE Send(s)
    BY <2>8 DEF Send
  <2>9. CASE LoopTop(s)
    BY <2>9 DEF LoopTop
  <2>10. CASE StreamEnds(s)
    BY <2>10 DEF StreamEnds
  <2>11. CASE SelectMessage(s)
    BY <2>11 DEF SelectMessage
  <2>12. CASE SelectOutbound(s)
    BY <2>12 DEF SelectOutbound
  <2>13. CASE Detach(s)
    BY <2>13 DEF Detach, Closed
  <2>14. CASE OfflineLock(s)
    BY <2>14 DEF OfflineLock
  <2>15. CASE OfflineRead(s)
    BY <2>15 DEF OfflineRead, TxnRead
  <2>16. CASE OfflineCommit(s)
    BY <2>16 DEF OfflineCommit, TxnCommit
  <2>17. CASE OfflineAppend(s)
    BY <2>17 DEF OfflineAppend, Return, Publish
  <2>18. CASE NoOffline(s)
    BY <2>18 DEF NoOffline, Return
  <2> QED
    BY <1>7, <2>1, <2>2, <2>3, <2>4, <2>5, <2>6, <2>7, <2>8, <2>9, <2>10,
       <2>11, <2>12, <2>13, <2>14, <2>15, <2>16, <2>17, <2>18 DEF Attend
<1>8. ASSUME NEW d \in Deletes, DeleteBegin(d) \/ Deletion(d)
      PROVE  RejectInv'
  <2>1. CASE DeleteBegin(d)
    BY <2>1 DEF DeleteBegin
  <2>2. CASE Revoke(d)
    BY <2>2 DEF Revoke
  <2>3. CASE DeleteRead(d)
    BY <2>3 DEF DeleteRead, TxnRead
  <2>4. CASE DeleteCommit(d)
    BY <2>4 DEF DeleteCommit, TxnCommit
  <2>5. CASE DeleteConflict(d)
    BY <2>5 DEF DeleteConflict
  <2>6. CASE DeletePublish(d)
    BY <2>6 DEF DeletePublish, Publish
  <2>7. CASE Release(d)
    BY <2>7 DEF Release
  <2> QED
    BY <1>8, <2>1, <2>2, <2>3, <2>4, <2>5, <2>6, <2>7 DEF Deletion
<1>9. ASSUME NEW u \in Updates, DesiredBegin(u) \/ HubSend(u)
      PROVE  RejectInv'
  <2>1. CASE DesiredBegin(u)
    BY <2>1 DEF DesiredBegin
  <2>2. CASE HubSend(u)
    BY <2>2 DEF HubSend, Online, Accepts
  <2> QED
    BY <1>9, <2>1, <2>2
<1>10. CASE UNCHANGED vars
  BY <1>10 DEF vars, hubVars, storeVars, agentVars, aux
<1> QED
  BY <1>1, <1>2, <1>3, <1>4, <1>5, <1>6, <1>7, <1>8, <1>9, <1>10 DEF Next,
     Handler, SetDesired, Publishers

-----------------------------------------------------------------------------

\* The initial state satisfies the invariant.
LEMMA InitIndInv == Init => IndInv
<1> SUFFICES ASSUME Init PROVE IndInv
  OBVIOUS
<1>1. TypeOK
  <2>1. op \in [Publishers ->
                  {"hello", "status", "meters", "outbound", "desired"}]
    BY DEF Init
  <2>2. /\ \A s \in Streams : op[s] # "desired"
        /\ \A u \in Updates : op[u] = "desired"
    BY DEF Init, Publishers
  <2>3. /\ pc \in [Procs -> StreamPcs \cup DeletePcs \cup UpdatePcs \cup CreatorPcs]
        /\ \A s \in Streams : pc[s] \in StreamPcs
        /\ \A d \in Deletes : pc[d] \in DeletePcs
        /\ \A u \in Updates : pc[u] \in UpdatePcs
        /\ pc[Creator] \in CreatorPcs
    BY DEF Init, Procs, StreamPcs, DeletePcs, UpdatePcs, CreatorPcs
  <2>4. /\ queue \in [Streams -> 0..QueueCap]
        /\ tries \in [Deletes -> 0..DeleteAttempts]
        /\ drops \in 0..MaxDrops
        /\ crashes \in 0..MaxCrashes
    BY DEF Init
  <2>5. stopped \in BOOLEAN
    BY DEF Init
  <2> QED
    BY <2>1, <2>2, <2>3, <2>4, <2>5 DEF Init, TypeOK
<1>2. Deleting = {}
  BY DEF Init, Deleting, InDeletion, Procs
<1>3. RevocationHolds
  BY <1>2, FS_EmptySet DEF Init, RevocationHolds
<1>4. LockInv /\ EnrolledInv /\ AttachedIsEnrolled /\ PlaceInv
  BY DEF Init, LockInv, EnrolledInv, AttachedIsEnrolled, PlaceInv, Procs, At
<1>5. HubOwnsConnections /\ RejectInv
  BY DEF Init, HubOwnsConnections, RejectInv, Asked, Procs, At
<1> QED
  BY <1>1, <1>3, <1>4, <1>5 DEF IndInv

\* Every step keeps the whole invariant.
LEMMA IndInvInductive == IndInv /\ [Next]_vars => IndInv'
<1> SUFFICES ASSUME IndInv, [Next]_vars PROVE IndInv'
  OBVIOUS
<1>1. TypeOK'
  BY TypeOKInductive DEF IndInv
<1>2. RevocationHolds'
  BY RevocationInductive DEF IndInv
<1>3. LockInv'
  BY <1>1, LockInductive DEF IndInv
<1>4. EnrolledInv'
  BY <1>1, EnrolledInductive DEF IndInv
<1>5. AttachedIsEnrolled'
  BY <1>1, AttachedInductive DEF IndInv
<1>6. PlaceInv'
  BY <1>1, PlaceInductive DEF IndInv
<1>7. HubOwnsConnections'
  BY <1>1, HubInductive DEF IndInv
<1>8. RejectInv'
  BY <1>1, RejectInductive DEF IndInv
<1> QED
  BY <1>1, <1>2, <1>3, <1>4, <1>5, <1>6, <1>7, <1>8 DEF IndInv

\* The inductive invariant holds in every reachable state, for any number of
\* streams, deletions and updates (hub.go, server.go, deleteInstance,
\* setDesired).
THEOREM IndInvHolds == Spec => []IndInv
BY InitIndInv, IndInvInductive, PTL DEF Spec

\* Type correctness of the hub, the record and the handlers.
THEOREM TypeCorrect == Spec => []TypeOK
<1>1. IndInv => TypeOK
  BY DEF IndInv
<1> QED
  BY <1>1, IndInvHolds, PTL

\* A connection is attached only while its instance is enrolled: Revoke before
\* DeleteInstance closes the gap that the comment at api.go:397 speaks of.
THEOREM AttachedStaysEnrolled == Spec => []AttachedIsEnrolled
<1>1. IndInv => AttachedIsEnrolled
  BY DEF IndInv
<1> QED
  BY <1>1, IndInvHolds, PTL

\* hub.blocked counts the running deletions, and while there is one the hub
\* holds neither a connection nor a reservation of the instance.
THEOREM RevocationIsExact == Spec => []RevocationHolds
<1>1. IndInv => RevocationHolds
  BY DEF IndInv
<1> QED
  BY <1>1, IndInvHolds, PTL

\* Every open connection is reserved or attached, and everything in the hub
\* belongs to a running handler: no early return of Connect leaks one.
THEOREM NoConnectionLeaks == Spec => []HubOwnsConnections
<1>1. IndInv => HubOwnsConnections
  BY DEF IndInv
<1> QED
  BY <1>1, IndInvHolds, PTL

\* PermissionDenied, which stops an agent for good, is only ever returned once
\* an operator asked for the deletion of the instance.
THEOREM NoSpuriousRejection == Spec => []StopsOnlyOnDeletion
<1>1. IndInv => StopsOnlyOnDeletion
  BY DEF IndInv, RejectInv, StopsOnlyOnDeletion, Asked
<1> QED
  BY <1>1, IndInvHolds, PTL

\* No step appends a guarded event once the record is gone.
LEMMA SilentInductive ==
  IndInv /\ SilentOnceDeleted /\ [Next]_vars => SilentOnceDeleted'
<1> SUFFICES ASSUME IndInv, SilentOnceDeleted, [Next]_vars
             PROVE  SilentOnceDeleted'
  OBVIOUS
<1> USE DEF SilentOnceDeleted, Guarded, hubVars, storeVars, agentVars, aux
<1>1. CASE CreatePut
  BY <1>1 DEF CreatePut
<1>2. CASE CreatePublish
  BY <1>2 DEF CreatePublish, Publish
<1>3. CASE Drop
  BY <1>3 DEF Drop
<1>4. CASE Crash
  BY <1>4 DEF Crash
<1>5. ASSUME NEW s \in Streams, Dial(s) \/ AgentSend(s)
      PROVE  SilentOnceDeleted'
  <2>1. CASE Dial(s)
    BY <2>1 DEF Dial
  <2>2. CASE AgentSend(s)
    BY <2>2 DEF AgentSend
  <2> QED
    BY <1>5, <2>1, <2>2
<1>6. ASSUME NEW p \in Publishers, Update(p)
      PROVE  SilentOnceDeleted'
  <2>1. CASE Read(p)
    BY <2>1 DEF Read, TxnFailed, TxnRead
  <2>2. CASE Commit(p)
    BY <2>2 DEF Commit, TxnCommit, NewPhase
  <2>3. CASE Conflict(p)
    BY <2>3 DEF Conflict
  <2>4. CASE Lookup(p)
    BY <2>4 DEF Lookup, TxnFailed
  <2>5. CASE PubLock(p)
    BY <2>5 DEF PubLock
  <2>6. CASE PubRevoked(p)
    BY <2>6 DEF PubRevoked, PubFailed
  <2>7. CASE PubCheck(p)
    BY <2>7 DEF PubCheck, PubFailed
  <2>8. CASE PubAppend(p)
    BY <2>8 DEF PubAppend, Publish, IndInv, EnrolledInv, Procs, Publishers, At
  <2> QED
    BY <1>6, <2>1, <2>2, <2>3, <2>4, <2>5, <2>6, <2>7, <2>8 DEF Update
<1>7. ASSUME NEW s \in Streams, Attend(s)
      PROVE  SilentOnceDeleted'
  <2>1. CASE CommitMeters(s)
    BY <2>1 DEF CommitMeters
  <2>2. CASE Reserve(s)
    BY <2>2 DEF Reserve
  <2>3. CASE ReserveRefused(s)
    BY <2>3 DEF ReserveRefused, Return
  <2>4. CASE Cancel(s)
    BY <2>4 DEF Cancel, Return
  <2>5. CASE Activate(s)
    BY <2>5 DEF Activate, Closed, MayActivate
  <2>6. CASE ActivateRefused(s)
    BY <2>6 DEF ActivateRefused, Return, MayActivate
  <2>7. CASE Abort(s)
    BY <2>7 DEF Abort, Return
  <2>8. CASE Send(s)
    BY <2>8 DEF Send
  <2>9. CASE LoopTop(s)
    BY <2>9 DEF LoopTop
  <2>10. CASE StreamEnds(s)
    BY <2>10 DEF StreamEnds
  <2>11. CASE SelectMessage(s)
    BY <2>11 DEF SelectMessage
  <2>12. CASE SelectOutbound(s)
    BY <2>12 DEF SelectOutbound
  <2>13. CASE Detach(s)
    BY <2>13 DEF Detach, Closed
  <2>14. CASE OfflineLock(s)
    BY <2>14 DEF OfflineLock
  <2>15. CASE OfflineRead(s)
    BY <2>15 DEF OfflineRead, TxnRead
  <2>16. CASE OfflineCommit(s)
    BY <2>16 DEF OfflineCommit, TxnCommit
  <2>17. CASE OfflineAppend(s)
    BY <2>17 DEF OfflineAppend, Publish, IndInv, EnrolledInv, Procs, At
  <2>18. CASE NoOffline(s)
    BY <2>18 DEF NoOffline, Return
  <2> QED
    BY <1>7, <2>1, <2>2, <2>3, <2>4, <2>5, <2>6, <2>7, <2>8, <2>9, <2>10,
       <2>11, <2>12, <2>13, <2>14, <2>15, <2>16, <2>17, <2>18 DEF Attend
<1>8. ASSUME NEW d \in Deletes, DeleteBegin(d) \/ Deletion(d)
      PROVE  SilentOnceDeleted'
  <2>1. CASE DeleteBegin(d)
    BY <2>1 DEF DeleteBegin
  <2>2. CASE Revoke(d)
    BY <2>2 DEF Revoke
  <2>3. CASE DeleteRead(d)
    BY <2>3 DEF DeleteRead, TxnRead
  <2>4. CASE DeleteCommit(d)
    BY <2>4 DEF DeleteCommit, TxnCommit
  <2>5. CASE DeleteConflict(d)
    BY <2>5 DEF DeleteConflict
  <2>6. CASE DeletePublish(d)
    BY <2>6 DEF DeletePublish, Publish
  <2>7. CASE Release(d)
    BY <2>7 DEF Release
  <2> QED
    BY <1>8, <2>1, <2>2, <2>3, <2>4, <2>5, <2>6, <2>7 DEF Deletion
<1>9. ASSUME NEW u \in Updates, DesiredBegin(u) \/ HubSend(u)
      PROVE  SilentOnceDeleted'
  <2>1. CASE DesiredBegin(u)
    BY <2>1 DEF DesiredBegin
  <2>2. CASE HubSend(u)
    BY <2>2 DEF HubSend, Online, Accepts
  <2> QED
    BY <1>9, <2>1, <2>2
<1>10. CASE UNCHANGED vars
  BY <1>10 DEF vars, hubVars, storeVars, agentVars, aux
<1> QED
  BY <1>1, <1>2, <1>3, <1>4, <1>5, <1>6, <1>7, <1>8, <1>9, <1>10 DEF Next,
     Handler, SetDesired, Publishers

\* No connected, status, traffic, disconnected or desired event is appended once
\* the record is gone: the two places that append one hold hub.mu, and the
\* invariant keeps the record in place while they do.
THEOREM SilenceAfterDeletion == Spec => []SilentOnceDeleted
<1>1. Init => SilentOnceDeleted
  BY DEF Init, SilentOnceDeleted
<1> QED
  BY <1>1, SilentInductive, IndInvHolds, PTL DEF Spec

-----------------------------------------------------------------------------
(***************************************************************************)
(* ControlPlane implements Enrollment: each of its steps is a step of       *)
(* Enrollment or leaves what Enrollment speaks of as it is.                 *)
(***************************************************************************)
\* A step of a stream or an update that neither creates nor removes the record
\* is no event in the life of the instance.
LEMMA PublishersKeepLife ==
  ASSUME TypeOK, NEW p \in Publishers, NEW l, Goto(p, l),
         record' = Absent <=> record = Absent
  PROVE  Life' = Life /\ Asked' = Asked
<1>1. p \in Procs /\ p # Creator /\ p \notin Deletes
  BY DEF Publishers, Procs
<1>2. pc'[Creator] = pc[Creator] /\ \A d \in Deletes : pc'[d] = pc[d]
  BY <1>1 DEF TypeOK, Goto, Procs
<1> QED
  BY <1>2 DEF Life, Asked, At

\* A step that moves no process and leaves the record alone is none either.
LEMMA StillKeepsLife ==
  ASSUME UNCHANGED <<pc, record>>
  PROVE  Life' = Life /\ Asked' = Asked
BY DEF Life, Asked, At

\* The end of a stream: the agent is dismissed, or nothing changes for it.
LEMMA ReturnIsDismissal ==
  ASSUME IndInv, NEW s \in Streams, Return(s), UNCHANGED record,
         attached' # Nobody => attached # Nobody
  PROVE  \/ Promise!Dismiss
         \/ Promise!Leave
         \/ UNCHANGED Promise!vars
<1>1. Life' = Life /\ Asked' = Asked
  BY PublishersKeepLife DEF IndInv, Return, Publishers
<1>2. CASE stopped' = stopped
  <2>1. CASE attached' = Nobody
    BY <1>1, <1>2, <2>1 DEF Promise!Leave
  <2>2. CASE attached' # Nobody
    BY <1>1, <1>2, <2>2 DEF Promise!vars
  <2> QED
    BY <2>1, <2>2
<1>3. CASE stopped' # stopped
  <2>1. stopped' = TRUE /\ s \in denied
    BY <1>3, Zenon DEF Return, IndInv, TypeOK
  <2>2. Asked
    BY <2>1 DEF IndInv, RejectInv
  <2> QED
    BY <1>1, <2>1, <2>2 DEF Promise!Dismiss
<1> QED
  BY <1>2, <1>3

\* A step of UpdateInstance or of the publication that follows changes nothing
\* Enrollment speaks of: above all, no commit writes a record that is gone.
LEMMA UpdateIsSilent ==
  ASSUME IndInv, NEW p \in Publishers, Update(p)
  PROVE  UNCHANGED Promise!vars
<1> USE DEF hubVars, storeVars, agentVars, aux
<1>a. TypeOK /\ EnrolledInv
  BY DEF IndInv
<1>1. UNCHANGED <<attached, stopped>>
  BY DEF Update, Read, Commit, Conflict, Lookup, PubLock, PubRevoked, PubCheck,
     PubAppend
<1>2. record' = Absent <=> record = Absent
  <2>1. CASE Commit(p)
    <3>1. record # Absent
      BY <2>1, <1>a DEF Commit, TxnCommit, EnrolledInv
    <3>2. NewPhase(p) # Absent
      BY <3>1 DEF NewPhase, Absent
    <3> QED
      BY <2>1, <3>1, <3>2 DEF Commit, TxnCommit
  <2>2. CASE ~Commit(p)
    BY <2>2 DEF Update, Read, Conflict, Lookup, PubLock, PubRevoked, PubCheck,
       PubAppend
  <2> QED
    BY <2>1, <2>2
<1>3. \E l : Goto(p, l)
  BY DEF Update, Read, Commit, Conflict, Lookup, PubLock, PubRevoked, PubCheck,
     PubAppend, TxnFailed, PubFailed
<1> QED
  BY <1>a, <1>1, <1>2, <1>3, PublishersKeepLife DEF Promise!vars

\* A step of the rest of Connect attaches the instance, takes it offline,
\* dismisses the agent or changes nothing.
LEMMA AttendRefines ==
  ASSUME IndInv, NEW s \in Streams, Attend(s)
  PROVE  Promise!Next \/ UNCHANGED Promise!vars
<1> USE DEF hubVars, storeVars, agentVars, aux
<1>a. TypeOK /\ EnrolledInv /\ s \in Publishers
  BY DEF IndInv, Publishers
<1>1. CASE Activate(s)
  <2>1. record # Absent
    BY <1>1, <1>a DEF Activate, MayActivate, EnrolledInv
  <2>2. Life' = Life /\ Asked' = Asked /\ Life = "live"
    BY <1>1, <1>a, <2>1, PublishersKeepLife DEF Activate, Life
  <2>3. attached' # Nobody
    BY <1>1 DEF Activate, Procs
  <2> QED
    BY <1>1, <2>2, <2>3 DEF Activate, Promise!Next, Promise!Attach
<1>2. CASE Detach(s)
  <2>1. Life' = Life /\ Asked' = Asked
    BY <1>2, <1>a, PublishersKeepLife DEF Detach
  <2> QED
    BY <1>2, <2>1 DEF Detach, Promise!Next, Promise!Leave
<1>3. CASE \/ ReserveRefused(s) \/ Cancel(s) \/ ActivateRefused(s) \/ Abort(s)
           \/ OfflineAppend(s) \/ NoOffline(s)
  <2>1. Return(s) /\ UNCHANGED record
    BY <1>3 DEF ReserveRefused, Cancel, ActivateRefused, Abort, OfflineAppend,
       NoOffline
  <2>2. attached' # Nobody => attached # Nobody
    BY <1>3 DEF ReserveRefused, Cancel, ActivateRefused, Abort, OfflineAppend,
       NoOffline
  <2> QED
    BY <2>1, <2>2, ReturnIsDismissal DEF Promise!Next
<1>4. CASE OfflineCommit(s)
  <2>1. record # Absent /\ record' # Absent
    BY <1>4, <1>a DEF OfflineCommit, TxnCommit, EnrolledInv, Absent
  <2>2. Life' = Life /\ Asked' = Asked
    BY <1>4, <1>a, <2>1, PublishersKeepLife DEF OfflineCommit
  <2> QED
    BY <1>4, <2>2 DEF OfflineCommit, Promise!vars
<1>5. CASE \/ CommitMeters(s) \/ Reserve(s) \/ Send(s) \/ LoopTop(s)
           \/ StreamEnds(s) \/ SelectMessage(s) \/ SelectOutbound(s)
           \/ OfflineLock(s) \/ OfflineRead(s)
  <2>1. UNCHANGED <<record, attached, stopped>> /\ \E l : Goto(s, l)
    BY <1>5 DEF CommitMeters, Reserve, Send, LoopTop, StreamEnds, SelectMessage,
       SelectOutbound, OfflineLock, OfflineRead
  <2> QED
    BY <1>a, <2>1, PublishersKeepLife DEF Promise!vars
<1> QED
  BY <1>1, <1>2, <1>3, <1>4, <1>5 DEF Attend

\* A step of deleteInstance asks for the removal, takes the instance offline,
\* removes it or changes nothing.
LEMMA DeletionRefines ==
  ASSUME IndInv, NEW d \in Deletes, DeleteBegin(d) \/ Deletion(d)
  PROVE  Promise!Next \/ UNCHANGED Promise!vars
<1> USE DEF hubVars, storeVars, agentVars, aux
<1>a. TypeOK /\ d \in Procs /\ d # Creator
  BY DEF IndInv, Procs
<1>b. /\ pc'[Creator] = pc[Creator]
      /\ \A e \in Deletes : e # d => pc'[e] = pc[e]
      /\ pc'[d] # "idle"
  <2>1. \E l : l # "idle" /\ Goto(d, l)
    BY DEF DeleteBegin, Deletion, Revoke, DeleteRead, DeleteCommit,
       DeleteConflict, DeletePublish, Release
  <2> QED
    BY <2>1, <1>a DEF TypeOK, Goto, Procs
<1>c. Asked'
  BY <1>b DEF Asked, At
<1>d. stopped' = stopped /\ pc[Creator] # "idle"
  <2>1. CASE DeleteBegin(d)
    BY <2>1 DEF DeleteBegin, At
  <2>2. CASE Deletion(d)
    <3>1. pc[d] # "idle"
      BY <2>2 DEF Deletion, Revoke, DeleteRead, DeleteCommit, DeleteConflict,
         DeletePublish, Release, At
    <3>2. Asked
      BY <3>1 DEF Asked, At
    <3> QED
      BY <2>2, <3>2 DEF IndInv, RejectInv, At, Deletion, Revoke, DeleteRead,
         DeleteCommit, DeleteConflict, DeletePublish, Release
  <2> QED
    BY <2>1, <2>2
<1>1. CASE DeleteBegin(d)
  <2>1. Life' = Life /\ Life # "new"
    BY <1>1, <1>b, <1>d DEF DeleteBegin, Life, At
  <2> QED
    BY <1>1, <1>c, <1>d, <2>1 DEF DeleteBegin, Promise!Next, Promise!Ask
<1>e. CASE Deletion(d)
  <2>a. Asked' = Asked /\ Asked
    <3>1. pc[d] # "idle"
      BY <1>e DEF Deletion, Revoke, DeleteRead, DeleteCommit, DeleteConflict,
         DeletePublish, Release, At
    <3> QED
      BY <3>1, <1>c DEF Asked, At
  <2>1. CASE DeleteCommit(d)
    <3>1. record # Absent /\ record' = Absent
      BY <2>1 DEF DeleteCommit, TxnCommit, IndInv, EnrolledInv
    <3>2. InDeletion(d)
      BY <2>1 DEF DeleteCommit, At, InDeletion
    <3>3. attached = Nobody
      BY <3>2, DeletionBlocks DEF IndInv
    <3>4. Life = "live" /\ Life' = "gone"
      BY <3>1, <1>b, <1>d DEF Life, At
    <3> QED
      BY <2>1, <2>a, <1>d, <3>3, <3>4
      DEF DeleteCommit, Promise!Next, Promise!Remove
  <2>2. CASE Revoke(d)
    <3>1. Life' = Life
      BY <2>2, <1>b DEF Revoke, Life, At
    <3> QED
      BY <2>2, <2>a, <1>d, <3>1 DEF Revoke, Promise!Next, Promise!Leave
  <2>3. CASE \/ DeleteRead(d) \/ DeleteConflict(d) \/ DeletePublish(d)
             \/ Release(d)
    <3>1. UNCHANGED <<record, attached>>
      BY <2>3 DEF DeleteRead, DeleteConflict, DeletePublish, Release
    <3>2. Life' = Life
      BY <3>1, <1>b DEF Life, At
    <3> QED
      BY <2>a, <1>d, <3>1, <3>2 DEF Promise!vars
  <2> QED
    BY <1>e, <2>1, <2>2, <2>3 DEF Deletion
<1> QED
  BY <1>1, <1>e

\* A crash of the HOST takes the instance offline and forgets no request.
LEMMA CrashIsLeave ==
  ASSUME IndInv, Crash
  PROVE  Promise!Leave
<1>1. /\ pc'[Creator] = "idle" <=> pc[Creator] = "idle"
      /\ \A d \in Deletes : pc'[d] = "idle" <=> pc[d] = "idle"
  <2>1. pc'[Creator] = "idle" <=> pc[Creator] = "idle"
    BY DEF Crash, IndInv, TypeOK, CreatorPcs, Procs
  <2>2. \A d \in Deletes : pc'[d] = "idle" <=> pc[d] = "idle"
    BY DEF Crash, Procs
  <2> QED
    BY <2>1, <2>2
<1>2. UNCHANGED <<record, stopped>> /\ attached' = Nobody
  BY DEF Crash
<1>3. Life' = Life
  BY <1>1, <1>2 DEF Life, At
<1>4. Asked' = Asked
  BY <1>1 DEF Asked, At
<1> QED
  BY <1>2, <1>3, <1>4 DEF Promise!Leave

\* Every step of ControlPlane is a step of Enrollment or a stutter.
LEMMA StepRefines ==
  IndInv /\ [Next]_vars => [Promise!Next]_(Promise!vars)
<1> SUFFICES ASSUME IndInv, [Next]_vars
             PROVE  Promise!Next \/ UNCHANGED Promise!vars
  OBVIOUS
<1> USE DEF hubVars, storeVars, agentVars, aux
<1>a. TypeOK
  BY DEF IndInv
<1>1. CASE CreatePut
  <2>1. record = Absent /\ pc[Creator] = "idle"
    BY <1>1 DEF CreatePut, IndInv, RejectInv, At
  <2>2. Life = "new" /\ Life' = "live"
    BY <1>1, <2>1 DEF CreatePut, Life, At, Absent
  <2>3. Asked' = Asked
    BY <1>1, <1>a DEF CreatePut, Asked, At, Goto, TypeOK, Procs
  <2> QED
    BY <1>1, <2>2, <2>3 DEF CreatePut, Promise!Next, Promise!Enroll
<1>2. CASE CreatePublish
  <2>1. pc[Creator] # "idle" /\ pc'[Creator] # "idle"
    BY <1>2, <1>a DEF CreatePublish, At, Goto, TypeOK, Procs
  <2>2. Life' = Life
    BY <1>2, <2>1 DEF CreatePublish, Life, At
  <2>3. Asked' = Asked
    BY <1>2, <1>a DEF CreatePublish, Asked, At, Goto, TypeOK, Procs
  <2> QED
    BY <1>2, <2>2, <2>3 DEF CreatePublish, Promise!vars
<1>3. CASE Drop
  BY <1>3, StillKeepsLife DEF Drop, Promise!vars
<1>4. CASE Crash
  BY <1>4, CrashIsLeave DEF Promise!Next
<1>5. ASSUME NEW s \in Streams, Dial(s)
      PROVE  UNCHANGED Promise!vars
  BY <1>5, <1>a, PublishersKeepLife DEF Dial, Publishers, Promise!vars
<1>6. ASSUME NEW s \in Streams, AgentSend(s)
      PROVE  UNCHANGED Promise!vars
  BY <1>6, StillKeepsLife DEF AgentSend, Promise!vars
<1>7. ASSUME NEW s \in Streams, Handler(s)
      PROVE  Promise!Next \/ UNCHANGED Promise!vars
  BY <1>7, UpdateIsSilent, AttendRefines DEF Handler, Publishers
<1>8. ASSUME NEW d \in Deletes, DeleteBegin(d) \/ Deletion(d)
      PROVE  Promise!Next \/ UNCHANGED Promise!vars
  BY <1>8, DeletionRefines
<1>9. ASSUME NEW u \in Updates, DesiredBegin(u) \/ HubSend(u)
      PROVE  UNCHANGED Promise!vars
  <2>1. UNCHANGED <<record, attached, stopped>> /\ \E l : Goto(u, l)
    BY <1>9 DEF DesiredBegin, HubSend
  <2> QED
    BY <1>a, <2>1, PublishersKeepLife DEF Publishers, Promise!vars
<1>10. CASE UNCHANGED vars
  BY <1>10, StillKeepsLife DEF vars, Promise!vars
<1> QED
  BY <1>1, <1>2, <1>3, <1>4, <1>5, <1>6, <1>7, <1>8, <1>9, <1>10,
     UpdateIsSilent
  DEF Next, SetDesired, Publishers

\* The handlers of streams and requests, the hub and the store together keep
\* the promise of Enrollment: an instance is enrolled once, is online only
\* while enrolled, goes only on request and offline, never comes back
\* (store.go:285, hub.go:63, api.go:393), and its agent is dismissed only once
\* the removal was asked for.
THEOREM EnrollmentIsKept == Spec => ImplementsEnrollment
<1>1. Init => Promise!Init
  <2> SUFFICES ASSUME Init PROVE Promise!Init
    OBVIOUS
  <2>1. record = Absent /\ pc[Creator] = "idle" /\ ~Asked
    BY DEF Init, Procs, Asked, At
  <2> QED
    BY <2>1 DEF Init, Promise!Init, Life, At
<1> QED
  BY <1>1, StepRefines, IndInvHolds, PTL
  DEF Spec, ImplementsEnrollment, Promise!Spec
=============================================================================
