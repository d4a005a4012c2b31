-------------------------- MODULE SSHInstallProofs --------------------------
(***************************************************************************)
(* Proofs about SSHInstall: for any number of requests, slots, host keys    *)
(* and restarts of the HOST, slots and blocks are given back on every path, *)
(* an install is all or nothing unless the store fails its rollback,        *)
(* success is never decided for a deleted instance, and credentials go to   *)
(* confirmed machines only.                                                 *)
(***************************************************************************)
EXTENDS SSHInstall, FiniteSetTheorems, TLAPS

-----------------------------------------------------------------------------
(***************************************************************************)
(* The inductive invariant.                                                 *)
(***************************************************************************)
\* The installs that hold a slot.
Active == {i \in Installs : pc[i] \notin Outside}

\* Before the record is written.
Early == {"idle", "resolve", "connect", "enroll"}

BlocksOf(i) ==
  (IF pc[i] \in RollingBack THEN 1 ELSE 0)
    + (IF del[i] \in {"remove", "release", "abort"} THEN 1 ELSE 0)

\* What the place of an install and of the deletion of its instance says of the
\* record, the answer and the address.
Placed(i) ==
  /\ pc[i] \in Early => i \notin record /\ del[i] = "idle"
  /\ pc[i] = "release" /\ i \in record => i \in undeleted
  /\ del[i] \in {"release", "done"} => i \notin record
  /\ outcome[i] # "none" => pc[i] = "returned"
  /\ pc[i] \notin Outside \cup {"resolve"}
       => target[i] \in Targets /\ target[i].kind = "unicast"

\* The properties of one install, with the above.
Local(i) ==
  /\ Placed(i)
  /\ blocked[i] = BlocksOf(i)
  /\ outcome[i] = "refused" => i \notin record
  /\ outcome[i] = "failed" /\ i \in record => i \in undeleted
  /\ (pc[i] = "answer" \/ outcome[i] = "succeeded")
       /\ del[i] \notin {"release", "done"} => i \in record
  /\ sent[i] \subseteq {confirmed[i]}

SlotsOK == slots \in 0..Slots /\ slots = Cardinality(Active)

DialedOK == \A a \in dialed : a.kind = "unicast"

IInv ==
  /\ TypeOK
  /\ SlotsOK
  /\ DialedOK
  /\ \A i \in Installs : Local(i)

-----------------------------------------------------------------------------
(***************************************************************************)
(* Slots.                                                                   *)
(***************************************************************************)
LEMMA ActiveFinite == IsFiniteSet(Active)
  BY InstallConstants, FS_Subset DEF Active

\* An install that moves on keeps its slot.
LEMMA SlotKept ==
  ASSUME NEW i \in Installs, NEW l, TypeOK, SlotsOK, pc[i] \notin Outside,
         l \notin Outside, Goto(i, l), UNCHANGED slots
  PROVE  SlotsOK'
<1>1. Active' = Active
  BY DEF Active, Goto, TypeOK
<1> QED BY <1>1 DEF SlotsOK

\* An install that ends gives its slot back.
LEMMA SlotFreed ==
  ASSUME NEW i \in Installs, NEW a, TypeOK, SlotsOK, pc[i] \notin Outside,
         Return(i, a)
  PROVE  SlotsOK'
<1>1. i \in Active /\ Active' = Active \ {i}
  BY DEF Active, Return, Goto, Outside, TypeOK
<1>2. Cardinality(Active') = Cardinality(Active) - 1
  BY <1>1, ActiveFinite, FS_RemoveElement
<1>3. Cardinality(Active') \in Nat
  <2>1. IsFiniteSet(Active')
    BY <1>1, ActiveFinite, FS_Subset
  <2> QED BY <2>1, FS_CardinalityType
<1>4. slots' = slots - 1
  BY DEF Return, Freed
<1> QED BY <1>2, <1>3, <1>4, InstallConstants DEF SlotsOK

\* An install that begins takes a free one.
LEMMA SlotTaken ==
  ASSUME NEW i \in Installs, TypeOK, SlotsOK, pc[i] \in Outside, SlotFree,
         slots' = slots + 1, Goto(i, "resolve")
  PROVE  SlotsOK'
<1>1. i \notin Active /\ Active' = Active \cup {i}
  BY DEF Active, Goto, Outside, TypeOK
<1>2. Cardinality(Active') = Cardinality(Active) + 1
  BY <1>1, ActiveFinite, FS_AddElement
<1> QED BY <1>2, InstallConstants DEF SlotsOK, SlotFree

\* Every step keeps the count of the slots.
LEMMA SlotsStep ==
  ASSUME TypeOK, SlotsOK, Next
  PROVE  SlotsOK'
<1> USE DEF TypeOK
<1>1. ASSUME NEW i \in Installs, Begin(i)
      PROVE  SlotsOK'
  <2>1. CASE SlotFree /\ slots' = slots + 1 /\ Goto(i, "resolve")
    BY <1>1, <2>1, SlotTaken DEF Begin, Outside
  <2>2. CASE Goto(i, "returned") /\ UNCHANGED slots
    <3>1. Active' = Active
      BY <1>1, <2>2 DEF Begin, Active, Goto, Outside
    <3> QED BY <2>2, <3>1 DEF SlotsOK
  <2> QED BY <1>1, <2>1, <2>2 DEF Begin
<1>2. ASSUME NEW i \in Installs, Install(i)
      PROVE  SlotsOK'
  <2>1. pc[i] \notin Outside
    BY <1>2 DEF Install, Resolve, Connect, Enroll, Packages, Upload, Start,
                SeenOnline, NotOnline, TimesOut, Confirm, Answer, Revoke,
                Cleanup, Reconnect, Remove, Release, Outside
  <2>2. \/ \E a : Return(i, a)
        \/ UNCHANGED slots /\ \E l : Goto(i, l) /\ l \notin Outside
    <3>1. CASE Resolve(i) \/ Connect(i) \/ Enroll(i)
      BY <3>1 DEF Resolve, Connect, Enroll, Outside
    <3>2. CASE Packages(i) \/ Upload(i) \/ Start(i) \/ SeenOnline(i)
                 \/ NotOnline(i) \/ Answer(i)
      BY <3>2 DEF Packages, Upload, Start, SeenOnline, NotOnline, Answer,
                  Outside
    <3>3. CASE Confirm(i) \/ Revoke(i)
      <4>1. \E l \in {"answer", "revoke", "cleanup", "remove"} : Goto(i, l)
        BY <3>3 DEF Confirm, Revoke
      <4> QED BY <3>3, <4>1 DEF Confirm, Revoke, Outside
    <3>4. CASE Cleanup(i) \/ Reconnect(i) \/ Remove(i) \/ Release(i)
      BY <3>4 DEF Cleanup, Reconnect, Remove, Release, Outside
    <3> QED BY <1>2, <3>1, <3>2, <3>3, <3>4 DEF Install
  <2> QED BY <2>1, <2>2, SlotKept, SlotFreed
<1>3. ASSUME NEW i \in Installs,
             \/ Probe(i) \/ DeleteBegin(i) \/ Deletion(i)
             \/ AgentAttaches(i) \/ AgentLeaves(i) \/ AgentStops(i)
      PROVE  SlotsOK'
  <2>1. UNCHANGED <<pc, slots>>
    BY <1>3 DEF Probe, DeleteBegin, Deletion, DeleteRemove, DeleteRelease,
                AgentAttaches, AgentLeaves, AgentStops
  <2> QED BY <2>1 DEF SlotsOK, Active
<1>4. ASSUME Crash
      PROVE  SlotsOK'
  <2>1. Active' = {} /\ slots' = 0
    BY <1>4 DEF Crash, Active, Outside
  <2> QED BY <2>1, FS_EmptySet, InstallConstants DEF SlotsOK
<1> QED BY <1>1, <1>2, <1>3, <1>4 DEF Next

-----------------------------------------------------------------------------
(***************************************************************************)
(* Addresses.                                                               *)
(***************************************************************************)
\* resolveTarget lets through unicast addresses only: what is not excluded by
\* kind is excluded by family.
LEMMA ResolutionsAreUnicast ==
  ASSUME NEW a \in Resolutions
  PROVE  a \in Targets /\ a.kind = "unicast"
<1>1. a \in Targets /\ AllowedTargetAddress(a)
  BY DEF Resolutions, Accepted
<1>2. PICK b \in Addresses : a = Unmap(b)
  BY <1>1 DEF Targets
<1>3. PICK f \in Families : b \in [family : {f}, kind : Kinds(f)]
  BY <1>2 DEF Addresses
<1>4. a.kind = b.kind /\ (a.family = f \/ a.family = "v4")
  BY <1>2, <1>3 DEF Unmap
<1>5. f = "v6" => a.family = "v6"
  BY <1>2, <1>3 DEF Unmap
<1>6. f \in {"v4", "v6", "mapped"} /\ f # "v6" => a.family = "v4"
  BY <1>2, <1>3 DEF Unmap
<1>7. a.kind \in Kinds(f)
  BY <1>3, <1>4
<1> QED BY <1>1, <1>5, <1>6, <1>7, InstallConstants
        DEF AllowedTargetAddress, Kinds

-----------------------------------------------------------------------------
(***************************************************************************)
(* Each install by itself.                                                  *)
(***************************************************************************)
\* Everything but a restart of the HOST is a step for one install.
StepOf(i) ==
  \/ Probe(i) \/ Begin(i) \/ Install(i) \/ DeleteBegin(i) \/ Deletion(i)
  \/ AgentAttaches(i) \/ AgentLeaves(i) \/ AgentStops(i)

Same(j) ==
  /\ pc'[j] = pc[j]
  /\ del'[j] = del[j]
  /\ outcome'[j] = outcome[j]
  /\ target'[j] = target[j]
  /\ blocked'[j] = blocked[j]
  /\ j \in record' <=> j \in record
  /\ j \in undeleted' <=> j \in undeleted
  /\ sent'[j] = sent[j]
  /\ confirmed'[j] = confirmed[j]

\* Such a step keeps what is said of install j.
LEMMA SameLocal ==
  ASSUME NEW j \in Installs, Same(j), Local(j)
  PROVE  Local(j)'
  BY DEF Same, Local, Placed, BlocksOf

\* It leaves the other installs as they are.
LEMMA OthersSame ==
  ASSUME TypeOK, NEW i \in Installs, StepOf(i), NEW j \in Installs, j # i
  PROVE  Same(j)
<1> USE DEF TypeOK, Same, hubVars, sshVars, Goto
<1>1. CASE Probe(i)
  BY <1>1 DEF Probe
<1>2. CASE Begin(i)
  BY <1>2 DEF Begin
<1>3. CASE Resolve(i)
  BY <1>3 DEF Resolve, Return
<1>4. CASE Connect(i)
  BY <1>4 DEF Connect, Dial, Return
<1>5. CASE Enroll(i)
  BY <1>5 DEF Enroll, Return
<1>6. CASE Packages(i) \/ Upload(i) \/ Start(i) \/ SeenOnline(i) \/ NotOnline(i)
  BY <1>6 DEF Packages, Upload, Start, SeenOnline, NotOnline
<1>7. CASE Confirm(i) \/ Answer(i)
  BY <1>7 DEF Confirm, Answer, Return
<1>8. CASE Revoke(i)
  BY <1>8 DEF Revoke, Revoked
<1>9. CASE Cleanup(i)
  BY <1>9 DEF Cleanup
<1>10. CASE Reconnect(i)
  BY <1>10 DEF Reconnect, Dial
<1>11. CASE Remove(i)
  BY <1>11 DEF Remove, Removed
<1>12. CASE Release(i)
  BY <1>12 DEF Release, Return, Unblocked
<1>13. CASE DeleteBegin(i)
  BY <1>13 DEF DeleteBegin, Revoked
<1>14. CASE Deletion(i)
  BY <1>14 DEF Deletion, DeleteRemove, DeleteRelease
<1>15. CASE AgentAttaches(i) \/ AgentLeaves(i) \/ AgentStops(i)
  BY <1>15 DEF AgentAttaches, AgentLeaves, AgentStops
<1> QED BY <1>1, <1>2, <1>3, <1>4, <1>5, <1>6, <1>7, <1>8, <1>9, <1>10, <1>11,
           <1>12, <1>13, <1>14, <1>15 DEF StepOf, Install

\* The key a machine presents changes what was sent only if it is the one.
LEMMA DialLocal ==
  ASSUME TypeOK, NEW i \in Installs, NEW k \in HostKeys, Dial(i, k),
         sent[i] \subseteq {confirmed[i]}
  PROVE  /\ sent'[i] \subseteq {confirmed'[i]}
         /\ target'[i] = target[i]
         /\ confirmed' = confirmed
         /\ sent' \in [Installs -> SUBSET HostKeys]
         /\ dialed' = dialed \cup {target[i]}
         /\ target' = target
  BY DEF Dial, HostKeyAccepted, TypeOK

\* And keeps what is said of this one.
LEMMA LocalStep ==
  ASSUME TypeOK, NEW i \in Installs, Local(i), StepOf(i)
  PROVE  Local(i)'
<1> USE DEF TypeOK, Local, Placed, BlocksOf, hubVars, sshVars, Goto, Outside,
            Installing, RollingBack, Early
<1>1. CASE Probe(i)
  <2>1. sent[i] = {} /\ UNCHANGED sent
    BY <1>1, InstallConstants DEF Probe
  <2> QED BY <1>1, <2>1 DEF Probe
<1>2. CASE Begin(i)
  BY <1>2 DEF Begin
<1>3. CASE Resolve(i)
  BY <1>3, ResolutionsAreUnicast DEF Resolve, Return
<1>4. CASE Connect(i)
  <2>1. PICK k \in HostKeys : Dial(i, k)
    BY <1>4 DEF Connect
  <2>2. sent'[i] \subseteq {confirmed'[i]} /\ target'[i] = target[i]
    BY <2>1, DialLocal
  <2> QED BY <1>4, <2>2 DEF Connect, Return
<1>5. CASE Enroll(i)
  BY <1>5 DEF Enroll, Return
<1>6. CASE Packages(i) \/ Upload(i) \/ Start(i) \/ SeenOnline(i) \/ NotOnline(i)
  BY <1>6 DEF Packages, Upload, Start, SeenOnline, NotOnline, TimesOut
<1>7. CASE Confirm(i) \/ Answer(i)
  BY <1>7 DEF Confirm, Answer, Return, StillOnline
<1>8. CASE Revoke(i)
  BY <1>8 DEF Revoke, Revoked
<1>9. CASE Cleanup(i)
  BY <1>9 DEF Cleanup
<1>10. CASE Reconnect(i)
  <2>1. PICK k \in HostKeys : Dial(i, k)
    BY <1>10 DEF Reconnect
  <2>2. sent'[i] \subseteq {confirmed'[i]} /\ target'[i] = target[i]
    BY <2>1, DialLocal
  <2> QED BY <1>10, <2>2 DEF Reconnect
<1>11. CASE Remove(i)
  BY <1>11 DEF Remove, Removed
<1>12. CASE Release(i)
  BY <1>12 DEF Release, Return, Unblocked
<1>13. CASE DeleteBegin(i)
  BY <1>13 DEF DeleteBegin, Revoked
<1>14. CASE DeleteRemove(i)
  BY <1>14 DEF DeleteRemove
<1>15. CASE DeleteRelease(i)
  BY <1>15 DEF DeleteRelease
<1>16. CASE AgentAttaches(i) \/ AgentLeaves(i) \/ AgentStops(i)
  BY <1>16 DEF AgentAttaches, AgentLeaves, AgentStops
<1> QED BY <1>1, <1>2, <1>3, <1>4, <1>5, <1>6, <1>7, <1>8, <1>9, <1>10, <1>11,
           <1>12, <1>13, <1>14, <1>15, <1>16 DEF StepOf, Install, Deletion

\* A restart of the HOST ends every request and every deletion at once.
LEMMA CrashLocal ==
  ASSUME TypeOK, NEW i \in Installs, Local(i), Crash
  PROVE  Local(i)'
<1>1. /\ pc'[i] = IF pc[i] \in Outside THEN pc[i] ELSE "dead"
      /\ del'[i] = IF del[i] \in {"release", "done"} THEN "done" ELSE "idle"
      /\ blocked'[i] = 0
      /\ UNCHANGED <<confirmed, target, sent, record, undeleted, outcome>>
  BY DEF Crash, sshVars
<1>2. pc'[i] \in Outside
  BY <1>1 DEF Outside
<1>3. (BlocksOf(i))' = 0
  BY <1>1, <1>2 DEF BlocksOf, Outside, RollingBack
<1>4. pc'[i] \in Early => pc[i] = "idle"
  BY <1>1 DEF Early, Outside
<1> QED BY <1>1, <1>2, <1>3, <1>4 DEF Local, Placed, Outside, Early

\* Whoever is dialed was resolved.
LEMMA DialedStep ==
  ASSUME TypeOK, DialedOK, \A i \in Installs : Local(i), Next
  PROVE  DialedOK'
<1>1. ASSUME NEW i \in Installs, Probe(i)
      PROVE  DialedOK'
  BY <1>1, ResolutionsAreUnicast DEF Probe, DialedOK
<1>2. ASSUME NEW i \in Installs, Connect(i) \/ Reconnect(i)
      PROVE  DialedOK'
  <2>1. target[i].kind = "unicast"
    BY <1>2 DEF Connect, Reconnect, Local, Placed, Outside
  <2>2. dialed' = dialed \cup {target[i]}
    BY <1>2 DEF Connect, Reconnect, Dial
  <2> QED BY <2>1, <2>2 DEF DialedOK
<1>3. \/ UNCHANGED dialed
      \/ \E i \in Installs : Probe(i) \/ Connect(i) \/ Reconnect(i)
  BY DEF Next, Install, Deletion, Begin, Resolve, Enroll, Packages, Upload,
         Start, SeenOnline, NotOnline, Confirm, Answer, Revoke, Cleanup, Remove,
         Release, DeleteBegin, DeleteRemove, DeleteRelease, AgentAttaches,
         AgentLeaves, AgentStops, Crash, sshVars
<1> QED BY <1>1, <1>2, <1>3 DEF DialedOK

-----------------------------------------------------------------------------
(***************************************************************************)
(* The types; the counts are never taken below zero.                        *)
(***************************************************************************)
LEMMA TypeStep ==
  ASSUME TypeOK, \A i \in Installs : Local(i), SlotsOK', Next
  PROVE  TypeOK'
<1> USE DEF TypeOK, hubVars, sshVars, Goto, Outside, Installing, RollingBack
<1>0. slots' \in 0..Slots
  BY DEF SlotsOK
<1>1. ASSUME NEW i \in Installs, Probe(i)
      PROVE  TypeOK'
  <2>1. dialed' \subseteq Targets
    BY <1>1, ResolutionsAreUnicast DEF Probe
  <2>2. confirmed' \in [Installs -> HostKeys \cup {None}]
    BY <1>1 DEF Probe
  <2> QED BY <1>1, <2>1, <2>2 DEF Probe
<1>2. ASSUME NEW i \in Installs, Begin(i)
      PROVE  TypeOK'
  BY <1>0, <1>2 DEF Begin
<1>3. ASSUME NEW i \in Installs, Resolve(i)
      PROVE  TypeOK'
  <2>1. target' \in [Installs -> Targets \cup {None}]
    BY <1>3, ResolutionsAreUnicast DEF Resolve
  <2> QED BY <1>0, <1>3, <2>1 DEF Resolve, Return
<1>4. ASSUME NEW i \in Installs, Connect(i)
      PROVE  TypeOK'
  <2>1. PICK k \in HostKeys : Dial(i, k)
    BY <1>4 DEF Connect
  <2>2. target[i] \in Targets
    BY <1>4 DEF Connect, Local, Placed
  <2>3. /\ dialed' \subseteq Targets
        /\ sent' \in [Installs -> SUBSET HostKeys]
        /\ UNCHANGED <<confirmed, target>>
    BY <2>1, <2>2, DialLocal DEF Local
  <2> QED BY <1>0, <1>4, <2>3 DEF Connect, Return
<1>5. ASSUME NEW i \in Installs, Enroll(i)
      PROVE  TypeOK'
  BY <1>0, <1>5 DEF Enroll, Return
<1>6. ASSUME NEW i \in Installs, Packages(i) \/ SeenOnline(i) \/ NotOnline(i)
      PROVE  TypeOK'
  BY <1>6 DEF Packages, SeenOnline, NotOnline
<1>7. ASSUME NEW i \in Installs, Upload(i) \/ Start(i)
      PROVE  TypeOK'
  <2>1. remote' \in [Installs -> {"none", "files", "running", "stopped"}]
    BY <1>7 DEF Upload, Start
  <2> QED BY <1>7, <2>1 DEF Upload, Start
<1>8. ASSUME NEW i \in Installs, Confirm(i) \/ Answer(i)
      PROVE  TypeOK'
  BY <1>0, <1>8 DEF Confirm, Answer, Return
<1>9. ASSUME NEW i \in Installs, Revoke(i)
      PROVE  TypeOK'
  BY <1>9 DEF Revoke, Revoked
<1>10. ASSUME NEW i \in Installs, Cleanup(i)
       PROVE  TypeOK'
  BY <1>10 DEF Cleanup
<1>11. ASSUME NEW i \in Installs, Reconnect(i)
       PROVE  TypeOK'
  <2>1. PICK k \in HostKeys : Dial(i, k)
    BY <1>11 DEF Reconnect
  <2>2. target[i] \in Targets
    BY <1>11 DEF Reconnect, Local, Placed
  <2>3. /\ dialed' \subseteq Targets
        /\ sent' \in [Installs -> SUBSET HostKeys]
        /\ UNCHANGED <<confirmed, target>>
    BY <2>1, <2>2, DialLocal DEF Local
  <2> QED BY <1>11, <2>3 DEF Reconnect
<1>12. ASSUME NEW i \in Installs, Remove(i)
       PROVE  TypeOK'
  BY <1>12 DEF Remove, Removed
<1>13. ASSUME NEW i \in Installs, Release(i)
       PROVE  TypeOK'
  <2>1. blocked[i] - 1 \in Nat
    BY <1>13 DEF Release, Local, BlocksOf
  <2> QED BY <1>0, <1>13, <2>1 DEF Release, Return, Unblocked
<1>14. ASSUME NEW i \in Installs, DeleteBegin(i) \/ DeleteRemove(i)
       PROVE  TypeOK'
  BY <1>14 DEF DeleteBegin, Revoked, DeleteRemove
<1>15. ASSUME NEW i \in Installs, DeleteRelease(i)
       PROVE  TypeOK'
  <2>1. blocked[i] - 1 \in Nat
    BY <1>15 DEF DeleteRelease, Local, BlocksOf
  <2> QED BY <1>15, <2>1 DEF DeleteRelease
<1>16. ASSUME NEW i \in Installs,
              AgentAttaches(i) \/ AgentLeaves(i) \/ AgentStops(i)
       PROVE  TypeOK'
  BY <1>16 DEF AgentAttaches, AgentLeaves, AgentStops
<1>17. ASSUME Crash
       PROVE  TypeOK'
  BY <1>0, <1>17, InstallConstants DEF Crash
<1> QED BY <1>1, <1>2, <1>3, <1>4, <1>5, <1>6, <1>7, <1>8, <1>9, <1>10, <1>11,
           <1>12, <1>13, <1>14, <1>15, <1>16, <1>17
        DEF Next, Install, Deletion

-----------------------------------------------------------------------------
(***************************************************************************)
(* The theorems.                                                            *)
(***************************************************************************)
LEMMA IInvHolds == Spec => []IInv
<1>1. Init => IInv
  <2> SUFFICES ASSUME Init PROVE IInv
    OBVIOUS
  <2>1. TypeOK
    BY InstallConstants DEF Init, TypeOK, Outside
  <2>2. SlotsOK
    <3>1. Active = {}
      BY DEF Init, Active, Outside
    <3> QED BY <3>1, FS_EmptySet, InstallConstants DEF SlotsOK, Init
  <2>3. \A i \in Installs : Local(i)
    BY DEF Init, Local, Placed, BlocksOf, Early, Outside, RollingBack
  <2> QED BY <2>1, <2>2, <2>3 DEF IInv, Init, DialedOK
<1>2. IInv /\ [Next]_vars => IInv'
  <2> SUFFICES ASSUME IInv, [Next]_vars PROVE IInv'
    OBVIOUS
  <2>1. CASE Next
    <3>1. SlotsOK' /\ DialedOK'
      BY <2>1, SlotsStep, DialedStep DEF IInv
    <3>2. TypeOK'
      BY <2>1, <3>1, TypeStep DEF IInv
    <3>3. ASSUME NEW j \in Installs
          PROVE  Local(j)'
      <4>1. CASE Crash
        BY <4>1, CrashLocal DEF IInv
      <4>2. ASSUME NEW i \in Installs, StepOf(i)
            PROVE  Local(j)'
        <5>1. CASE i = j
          BY <4>2, <5>1, LocalStep DEF IInv
        <5>2. CASE i # j
          BY <4>2, <5>2, OthersSame, SameLocal DEF IInv
        <5> QED BY <5>1, <5>2
      <4> QED BY <2>1, <4>1, <4>2 DEF Next, StepOf
    <3> QED BY <3>1, <3>2, <3>3 DEF IInv
  <2>2. CASE UNCHANGED vars
    BY <2>2 DEF IInv, TypeOK, SlotsOK, Active, DialedOK, Local, Placed,
                BlocksOf, vars, hubVars, sshVars
  <2> QED BY <2>1, <2>2
<1> QED BY <1>1, <1>2, PTL DEF Spec

\* The channel of slots holds one entry for each install under way and the hub
\* one block for each rollback or deletion under way, on every path of Install,
\* its rollback and deleteInstance.
THEOREM NothingIsHeldTooLong == Spec => []InstallInv
<1>1. IInv => InstallInv
  BY DEF IInv, InstallInv, NothingIsHeld, SlotsOK, Active, Local, BlocksOf
<1> QED BY <1>1, IInvHolds, PTL

\* A refused install left no record, a failed one left one only if the store
\* failed its rollback, and one decided to be a success has its record unless an
\* operator deleted it.
THEOREM InstallIsAllOrNothing == Spec => []AllOrNothing
<1>1. IInv => AllOrNothing
  BY DEF IInv, AllOrNothing, Local
<1> QED BY <1>1, IInvHolds, PTL

\* Only unicast addresses are dialed, no loopback or link-local ones, and
\* credentials go only to a machine that presented the confirmed key, whatever
\* names resolve to.
THEOREM CredentialsStayHome == Spec => []OnlyConfirmedMachines
<1>1. IInv => OnlyConfirmedMachines
  BY DEF IInv, OnlyConfirmedMachines, DialedOK, Local
<1> QED BY <1>1, IInvHolds, PTL

\* Success is never decided under hub.mu while a deletion of the instance is
\* under way, nor once one has removed it.
THEOREM DeletedNeverSucceeds == Spec => NoSuccessOnceDeleted
<1> DEFINE Honest == \A i \in Installs :
             del[i] # "idle" /\ pc'[i] = "answer" => pc[i] = "answer"
<1>1. IInv /\ [Next]_vars => [Honest]_vars
  <2> SUFFICES ASSUME IInv, Next, NEW j \in Installs, del[j] # "idle",
                      pc'[j] = "answer"
               PROVE  pc[j] = "answer"
    OBVIOUS
  <2>1. CASE Crash
    BY <2>1 DEF Crash, Outside
  <2>2. ASSUME NEW i \in Installs, StepOf(i), i # j
        PROVE  pc[j] = "answer"
    BY <2>2, OthersSame DEF IInv, Same
  <2>3. ASSUME StepOf(j)
        PROVE  pc[j] = "answer"
    <3> USE DEF IInv, TypeOK, Goto
    <3>1. CASE Confirm(j)
      <4>1. StillOnline(j)
        BY <3>1 DEF Confirm
      <4>2. blocked[j] = 0 /\ j \in record
        BY <4>1 DEF StillOnline
      <4>3. Local(j) /\ del[j] \in {"remove", "release", "abort", "done"}
        OBVIOUS
      <4> QED BY <4>1, <4>2, <4>3 DEF Local, Placed, BlocksOf, RollingBack
    <3>2. CASE Probe(j) \/ Begin(j) \/ Resolve(j) \/ Connect(j) \/ Enroll(j)
                 \/ Packages(j) \/ Upload(j) \/ Start(j)
      BY <3>2 DEF Probe, Begin, Resolve, Connect, Enroll, Packages, Upload,
                  Start, Return
    <3>3. CASE SeenOnline(j) \/ NotOnline(j) \/ Answer(j) \/ Revoke(j)
                 \/ Cleanup(j) \/ Reconnect(j) \/ Remove(j) \/ Release(j)
      BY <3>3 DEF SeenOnline, NotOnline, Answer, Revoke, Cleanup, Reconnect,
                  Remove, Release, Return
    <3>4. CASE DeleteBegin(j) \/ Deletion(j) \/ AgentAttaches(j)
                 \/ AgentLeaves(j) \/ AgentStops(j)
      BY <3>4 DEF DeleteBegin, Deletion, DeleteRemove, DeleteRelease,
                  AgentAttaches, AgentLeaves, AgentStops
    <3> QED BY <2>3, <3>1, <3>2, <3>3, <3>4 DEF StepOf, Install
  <2> QED BY <2>1, <2>2, <2>3 DEF Next, StepOf
<1> QED BY <1>1, IInvHolds, PTL DEF Spec, NoSuccessOnceDeleted
=============================================================================
