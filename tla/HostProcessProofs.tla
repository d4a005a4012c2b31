-------------------------- MODULE HostProcessProofs --------------------------
(***************************************************************************)
(* HostInv is an invariant of HostProcess, for any agents, browsers, public *)
(* names and any number of faults, and with it: no orderly stop loses the   *)
(* mark of a stream, and what a HOST handed out stands.                     *)
(***************************************************************************)
EXTENDS HostProcess, TLAPS

-----------------------------------------------------------------------------
(***************************************************************************)
(* The paths.                                                               *)
(***************************************************************************)
\* The paths of the three stages, as Ensure and New join them.
LEMMA Paths ==
  /\ Crt["token"] = "setup.token" /\ Crt["ca"] = "ca.crt"
  /\ Crt["host"] = "host.crt"
  /\ Key["ca"] = "ca.key" /\ Key["host"] = "host.key"
  /\ \A s \in Stages : Crt[s] \in Files
  /\ \A s \in Stages \ {"token"} : Key[s] \in Files
  /\ Blank \in Content
BY DEF Stages, Crt, Key, Files, Blank, Content

\* A new data directory has nothing to disagree about.
LEMMA InitHostInv == Init => HostInv
<1> SUFFICES ASSUME Init PROVE HostInv
  OBVIOUS
<1> USE DEF Init, DirInit
<1>1. TypeOK
  <2>1. DirTypeOK
    BY DEF DirTypeOK, Content, Blank, Stages, Steps
  <2>2. faults \in 0..MaxFaults
    BY ProcessConstants
  <2>3. creds \in [Agents -> Credentials]
    BY DEF Credentials, NoCredentials
  <2> QED
    BY <2>1, <2>2, <2>3 DEF TypeOK
<1>2. StartInv
  BY DEF StartInv, Up
<1>3. IdentityIsWhole
  BY DEF IdentityIsWhole, FilesAgree, Whole, Key, Up, Enrolled, Files
<1> QED
  BY <1>1, <1>2, <1>3 DEF HostInv

-----------------------------------------------------------------------------
(***************************************************************************)
(* The steps of a start.                                                    *)
(***************************************************************************)
\* Types are kept by the steps of a start.
LEMMA EnsureTypes ==
  ASSUME DirTypeOK, StartInv, Ensure PROVE DirTypeOK'
<1> USE DEF DirTypeOK
<1>0. step \in {"key.open", "key.write"} => stage \in Stages \ {"token"}
  BY DEF StartInv
<1>1. CASE Stat
  BY <1>1 DEF Stat, StepTo, Generated, Content, Stages, Steps, Files, fileVars
<1>2. CASE OpenCrt
  BY <1>2, Paths DEF OpenCrt, StepTo, Steps
<1>3. CASE WriteCrt
  BY <1>3, Paths DEF WriteCrt, StepTo, Steps
<1>4. CASE OpenKey
  BY <1>0, <1>4, Paths DEF OpenKey, StepTo, Steps
<1>5. CASE WriteKey
  <2>1. [Blank EXCEPT !.key = made.key] \in Content
    BY DEF Blank, Content
  <2> QED
    BY <1>0, <1>5, <2>1, Paths DEF WriteKey, StepTo, Steps
<1>6. CASE Load
  BY <1>6 DEF Load, StepTo, Steps, Stages, Files, Content, fileVars
<1> QED
  BY <1>1, <1>2, <1>3, <1>4, <1>5, <1>6 DEF Ensure

\* A step of a start while nobody is served: what it found and wrote up to
\* there stays true, and the files go on agreeing.
LEMMA EnsureKeeps ==
  ASSUME DirTypeOK, StartInv, IdentityIsWhole, pc = "starting", Ensure,
         UNCHANGED <<pc, creds, removing>>
  PROVE  StartInv' /\ IdentityIsWhole'
<1>0. Enrolled' = Enrolled
  BY DEF Enrolled
<1> USE Paths DEF DirTypeOK
<1>1. CASE Stat
  <2>1. StartInv'
    BY <1>1 DEF Stat, StartInv, StepTo, Generated, Whole, Up, fileVars, FilesAgree,
       IdentityIsWhole, Missing, Stages
  <2>2. IdentityIsWhole'
    BY <1>0, <1>1 DEF Stat, IdentityIsWhole, FilesAgree, Whole, Up, fileVars
  <2> QED
    BY <2>1, <2>2
<1>2. CASE OpenCrt
  <2>1. StartInv'
    BY <1>2 DEF OpenCrt, StartInv, StepTo, Whole, Up, Stages, Files
  <2>2. IdentityIsWhole'
    BY <1>0, <1>2 DEF OpenCrt, StartInv, IdentityIsWhole, FilesAgree, Whole,
       Up, Stages, Files
  <2> QED
    BY <2>1, <2>2
<1>3. CASE WriteCrt
  <2>1. StartInv'
    <3>1. made # Blank /\ ~Whole(Crt[stage])
      BY <1>3 DEF WriteCrt, StartInv, Blank
    <3>2. stage # "token" => ~Whole(Key[stage])
      BY <3>1 DEF IdentityIsWhole, FilesAgree, Stages
    <3> QED
      BY <1>3, <3>1, <3>2
      DEF WriteCrt, StartInv, StepTo, Whole, Up, Stages, Files
  <2>2. IdentityIsWhole'
    BY <1>0, <1>3 DEF WriteCrt, StartInv, IdentityIsWhole, FilesAgree, Whole,
       Up, Stages, Files
  <2> QED
    BY <2>1, <2>2
<1>4. CASE OpenKey
  <2>1. StartInv'
    BY <1>4 DEF OpenKey, StartInv, StepTo, Whole, Up, Stages, Files
  <2>2. IdentityIsWhole'
    BY <1>0, <1>4 DEF OpenKey, StartInv, IdentityIsWhole, FilesAgree, Whole,
       Up, Stages, Files
  <2> QED
    BY <2>1, <2>2
<1>5. CASE WriteKey
  <2>1. StartInv'
    BY <1>5 DEF WriteKey, StartInv, StepTo, Whole, Up, Stages, Files
  <2>2. IdentityIsWhole'
    BY <1>0, <1>5 DEF WriteKey, StartInv, IdentityIsWhole, FilesAgree, Whole,
       Up, Stages, Files, Blank
  <2> QED
    BY <2>1, <2>2
<1>6. CASE Load
  <2>1. StartInv'
    BY <1>6 DEF Load, StartInv, StepTo, Readable, Whole, Up, fileVars, Stages
  <2>2. IdentityIsWhole'
    BY <1>0, <1>6 DEF Load, IdentityIsWhole, FilesAgree, Whole, Up, fileVars
  <2> QED
    BY <2>1, <2>2
<1> QED
  BY <1>1, <1>2, <1>3, <1>4, <1>5, <1>6 DEF Ensure

-----------------------------------------------------------------------------
(***************************************************************************)
(* The other actions.                                                       *)
(***************************************************************************)
\* What leaves the files, the start and the credentials alone keeps both.
LEMMA ElsewhereKeeps ==
  ASSUME StartInv, IdentityIsWhole,
         UNCHANGED <<fileVars, startVars, creds>>,
         pc' \in Up => pc \in Up \/ step = "done",
         pc' = "down" <=> pc = "down",
         removing' => pc' \in Up
  PROVE  StartInv' /\ IdentityIsWhole'
<1>1. Enrolled' = Enrolled
  BY DEF Enrolled
<1>2. \A f \in Files : Whole(f)' = Whole(f)
  BY DEF Whole, fileVars
<1>3. StartInv'
  BY DEF StartInv, Whole, fileVars, startVars
<1>4. FilesAgree'
  BY DEF FilesAgree, IdentityIsWhole, Whole, fileVars
<1>5. IdentityIsWhole'
  BY <1>1, <1>4, Paths DEF IdentityIsWhole, StartInv, Whole, fileVars, startVars
<1> QED
  BY <1>3, <1>5

\* The end of the process keeps everything that outlives it.
LEMMA ExitKeeps ==
  ASSUME HostInv, NEW how \in {"ok", "late", "error", "killed"}, Exit(how),
         faults' \in 0..MaxFaults, unmarked' \subseteq Agents
  PROVE  HostInv'
<1>1. TypeOK'
  <2>1. DirTypeOK'
    BY DEF HostInv, TypeOK, DirTypeOK, Exit, Forget, fileVars, Stages, Steps,
       Blank, Content
  <2>2. agent' \in [Agents -> {"none", "dialing", "connected", "waiting"}]
    BY DEF HostInv, TypeOK, Exit, Broken
  <2> QED
    BY <2>1, <2>2 DEF HostInv, TypeOK, Exit
<1>2. StartInv'
  BY DEF HostInv, StartInv, Exit, Forget, Whole, Up, fileVars
<1>3. IdentityIsWhole'
  <2>1. Enrolled' = Enrolled
    BY DEF Exit, Enrolled
  <2> QED
    BY <2>1 DEF HostInv, IdentityIsWhole, FilesAgree, Exit, Whole, Up, fileVars
<1> QED
  BY <1>1, <1>2, <1>3 DEF HostInv

\* Each way for the process to end.
LEMMA EndsKeep ==
  ASSUME HostInv,
         StartFails \/ Killed \/ Interrupted \/ ServeFails \/ Shutdown
  PROVE  HostInv'
<1> USE ProcessConstants
<1>0. TypeOK
  BY DEF HostInv
<1>1. CASE StartFails
  BY <1>0, <1>1, ExitKeeps DEF StartFails, TypeOK
<1>2. CASE Killed
  <2>1. faults' \in 0..MaxFaults
    BY <1>0, <1>2 DEF Killed, TypeOK
  <2>2. unmarked' \subseteq Agents
    BY <1>0, <1>2 DEF Killed, TypeOK
  <2> DEFINE how == IF pc \in Stopping THEN "late" ELSE "killed"
  <2>3. how \in {"ok", "late", "error", "killed"} /\ Exit(how)
    BY <1>2 DEF Killed
  <2> QED
    BY <2>1, <2>2, <2>3, ExitKeeps
<1>3. CASE ServeFails
  <2>1. faults' \in 0..MaxFaults
    BY <1>0, <1>3 DEF ServeFails, TypeOK
  <2>2. unmarked' \subseteq Agents
    BY <1>0, <1>3 DEF ServeFails, TypeOK
  <2> QED
    BY <1>3, <2>1, <2>2, ExitKeeps DEF ServeFails
<1>4. CASE Shutdown
  BY <1>0, <1>4, ExitKeeps DEF Shutdown, TypeOK
<1>5. CASE Interrupted
  <2>1. faults' \in 0..MaxFaults /\ unmarked' \subseteq Agents
    BY <1>0, <1>5 DEF Interrupted, TypeOK
  <2> QED
    BY <1>5, <2>1, ExitKeeps DEF Interrupted
<1> QED
  BY <1>1, <1>2, <1>3, <1>4, <1>5

\* run() from its start to the orderly stop.
LEMMA RunKeeps ==
  ASSUME HostInv,
         Start \/ StartStep \/ Serve \/ Signal \/ DeadlinePasses \/ GracefulStop
  PROVE  HostInv'
<1>0. TypeOK /\ StartInv /\ IdentityIsWhole
  BY DEF HostInv
<1>1. CASE Start
  <2>1. TypeOK'
    BY <1>0, <1>1 DEF Start, BeginStages, TypeOK, DirTypeOK, fileVars, setupVars,
       agentVars, Stages, Steps, Blank, Content
  <2>2. StartInv'
    BY <1>0, <1>1 DEF Start, BeginStages, StartInv, Whole, Up, fileVars, setupVars
  <2>3. IdentityIsWhole'
    <3>1. Enrolled' = Enrolled
      BY <1>1 DEF Start, Enrolled, agentVars
    <3> QED
      BY <1>0, <1>1, <3>1
      DEF Start, IdentityIsWhole, FilesAgree, Whole, Up, fileVars, agentVars
  <2> QED
    BY <2>1, <2>2, <2>3 DEF HostInv
<1>2. CASE StartStep
  <2>1. DirTypeOK'
    BY <1>0, <1>2, EnsureTypes DEF StartStep, TypeOK
  <2>2. TypeOK'
    BY <1>0, <1>2, <2>1 DEF StartStep, TypeOK, procVars, setupVars, agentVars
  <2>3. StartInv' /\ IdentityIsWhole'
    BY <1>0, <1>2, EnsureKeeps
    DEF StartStep, TypeOK, procVars, setupVars, agentVars
  <2> QED
    BY <2>2, <2>3 DEF HostInv
<1>3. ASSUME Serve \/ Signal \/ DeadlinePasses \/ GracefulStop PROVE HostInv'
  <2>1. UNCHANGED <<dirVars, setupVars, agentVars>>
    BY <1>3 DEF Serve, Signal, DeadlinePasses, GracefulStop
  <2>2. TypeOK'
    BY <1>0, <1>3, <2>1 DEF Serve, Signal, DeadlinePasses, GracefulStop, TypeOK,
       DirTypeOK, dirVars, fileVars, startVars, setupVars, agentVars, Up
  <2>3. /\ pc' \in Up => pc \in Up \/ step = "done"
        /\ pc' = "down" <=> pc = "down"
        /\ removing' => pc' \in Up
    BY <1>0, <1>3, <2>1 DEF Serve, Signal, DeadlinePasses, GracefulStop, StartInv,
       setupVars, Up
  <2> QED
    BY <1>0, <2>1, <2>2, <2>3, ElsewhereKeeps DEF HostInv, dirVars, agentVars
<1> QED
  BY <1>1, <1>2, <1>3

\* The setup, and the credentials that are handed out.
LEMMA OperatorKeeps ==
  ASSUME HostInv,
         CompleteSetup \/ RemoveToken \/ Expire \/ \E a \in Agents : Enroll(a)
  PROVE  HostInv'
<1>0. TypeOK /\ StartInv /\ IdentityIsWhole
  BY DEF HostInv
<1>1. CASE CompleteSetup
  <2>1. TypeOK'
    BY <1>0, <1>1 DEF CompleteSetup, TypeOK, DirTypeOK, fileVars, startVars,
       procVars, agentVars, Up
  <2>2. StartInv' /\ IdentityIsWhole'
    BY <1>0, <1>1, ElsewhereKeeps
    DEF CompleteSetup, StartInv, procVars, agentVars, Up
  <2> QED
    BY <2>1, <2>2 DEF HostInv
<1>2. CASE RemoveToken
  <2>1. TypeOK'
    BY <1>0, <1>2, Paths DEF RemoveToken, TypeOK, DirTypeOK, startVars, procVars,
       agentVars, Files
  <2>2. StartInv'
    BY <1>0, <1>2, Paths DEF RemoveToken, StartInv, TypeOK, DirTypeOK, startVars,
       procVars, Whole, Up, Files
  <2>3. IdentityIsWhole'
    <3>1. Enrolled' = Enrolled
      BY <1>2 DEF RemoveToken, Enrolled, agentVars
    <3> QED
      BY <1>0, <1>2, <3>1, Paths DEF RemoveToken, IdentityIsWhole, FilesAgree,
         TypeOK, DirTypeOK, Whole, procVars, agentVars, Files
  <2> QED
    BY <2>1, <2>2, <2>3 DEF HostInv
<1>3. CASE Expire
  <2>1. TypeOK'
    BY <1>0, <1>3 DEF Expire, TypeOK, DirTypeOK, dirVars, fileVars, startVars,
       procVars, setupVars, agentVars
  <2>2. StartInv' /\ IdentityIsWhole'
    BY <1>0, <1>3, ElsewhereKeeps
    DEF Expire, StartInv, dirVars, procVars, setupVars, agentVars
  <2> QED
    BY <2>1, <2>2 DEF HostInv
<1>4. ASSUME NEW a \in Agents, Enroll(a) PROVE HostInv'
  <2> DEFINE given == [signer |-> disk["ca.key"].key,
                       root |-> disk["ca.crt"].key, name |-> name]
  <2>1. given \in Credentials
    BY <1>0 DEF TypeOK, DirTypeOK, Files, Content, Credentials
  <2>2. TypeOK'
    <3>1. DirTypeOK'
      BY <1>0, <1>4
      DEF Enroll, TypeOK, DirTypeOK, dirVars, fileVars, startVars
    <3> QED
      BY <1>0, <1>4, <2>1, <3>1 DEF Enroll, TypeOK, procVars, setupVars
  <2>3. StartInv'
    BY <1>0, <1>4 DEF Enroll, StartInv, dirVars, fileVars, startVars, procVars,
       setupVars, Whole
  <2>4. IdentityIsWhole'
    <3>1. Whole("ca.key") /\ Whole("host.key")
      BY <1>0, <1>4 DEF Enroll, IdentityIsWhole
    <3>2. disk["ca.key"].key = disk["ca.crt"].key
      BY <1>0, <3>1, Paths DEF IdentityIsWhole, FilesAgree
    <3>3. \A b \in Agents : creds'[b] = IF b = a THEN given ELSE creds[b]
      BY <1>0, <1>4 DEF Enroll, TypeOK
    <3>4. FilesAgree' /\ Whole("ca.key")' /\ Whole("host.key")'
      BY <1>0, <1>4, <3>1 DEF Enroll, IdentityIsWhole, FilesAgree, dirVars,
         fileVars, Whole
    <3>5. ASSUME NEW b \in Agents, creds'[b] # NoCredentials
          PROVE  /\ creds'[b].signer = disk["ca.crt"].key
                 /\ creds'[b].root = disk["ca.crt"].key
      BY <1>0, <3>2, <3>3, <3>5 DEF IdentityIsWhole, Enrolled
    <3> QED
      BY <1>4, <3>4, <3>5 DEF IdentityIsWhole, Enrolled, Enroll, dirVars, fileVars
  <2> QED
    BY <2>2, <2>3, <2>4 DEF HostInv
<1> QED
  BY <1>1, <1>2, <1>3, <1>4

\* Agents and browsers come and go.
LEMMA VisitorsKeep ==
  ASSUME HostInv,
         \/ \E a \in Agents : \/ Connect(a) \/ DialFails(a) \/ Redial(a)
                             \/ Leave(a) \/ MarkOffline(a)
         \/ \E b \in Browsers : Watch(b) \/ Unwatch(b)
  PROVE  HostInv'
<1>0. TypeOK /\ StartInv /\ IdentityIsWhole
  BY DEF HostInv
<1>1. UNCHANGED <<dirVars, procVars, setupVars, creds, expired>>
  BY DEF Connect, DialFails, Redial, Leave, MarkOffline, Watch, Unwatch, agentVars
<1>2. DirTypeOK'
  BY <1>0, <1>1 DEF TypeOK, DirTypeOK, dirVars, fileVars, startVars
<1>3. /\ phase' \in [Agents -> {"none", "enrolled", "connected", "offline"}]
      /\ agent' \in [Agents -> {"none", "dialing", "connected", "waiting"}]
      /\ attached' \subseteq Agents
      /\ marking' \subseteq Agents
      /\ watching' \subseteq Browsers
      /\ unmarked' \subseteq Agents
  BY <1>0 DEF TypeOK, Connect, DialFails, Redial, Leave, MarkOffline, Watch,
     Unwatch, agentVars, AfterFailure
<1>4. TypeOK'
  BY <1>0, <1>1, <1>2, <1>3 DEF TypeOK, procVars, setupVars
<1>5. StartInv' /\ IdentityIsWhole'
  BY <1>0, <1>1, ElsewhereKeeps DEF StartInv, dirVars, procVars, setupVars
<1> QED
  BY <1>4, <1>5 DEF HostInv

\* Every step keeps HostInv.
LEMMA NextKeepsHostInv == HostInv /\ [Next]_vars => HostInv'
<1> SUFFICES ASSUME HostInv, [Next]_vars PROVE HostInv'
  OBVIOUS
<1>1. CASE UNCHANGED vars
  <2>2. TypeOK'
    BY <1>1 DEF HostInv, TypeOK, DirTypeOK, vars, dirVars, fileVars, startVars,
       procVars, setupVars, agentVars
  <2>3. StartInv' /\ IdentityIsWhole'
    BY <1>1, ElsewhereKeeps DEF HostInv, StartInv, vars, dirVars, procVars,
       setupVars, agentVars
  <2> QED
    BY <2>2, <2>3 DEF HostInv
<1>2. CASE Next
  BY <1>2, RunKeeps, EndsKeep, OperatorKeeps, VisitorsKeep DEF Next, Stop
<1> QED
  BY <1>1, <1>2

\* Whatever end the process meets, between any two writes of a start too, the
\* files agree, a HOST that serves holds whole pairs, and every instance was
\* given credentials of the authority that is on disk.
THEOREM HostInvHolds == Spec => []HostInv
<1>1. Init => HostInv
  BY InitHostInv
<1>2. HostInv /\ [Next]_vars => HostInv'
  BY NextKeepsHostInv
<1> QED
  BY <1>1, <1>2, PTL DEF Spec

-----------------------------------------------------------------------------
(***************************************************************************)
(* Records and marks.                                                       *)
(***************************************************************************)
\* GracefulStop has waited for every stream and every mark when the store is
\* closed, so no orderly stop leaves a record that says connected.
THEOREM NoMarkIsLost == Spec => []OfflineIsRecorded
<1>1. Init => OfflineIsRecorded
  BY DEF Init, OfflineIsRecorded
<1>2. TypeOK /\ OfflineIsRecorded /\ [Next]_vars => OfflineIsRecorded'
  <2> SUFFICES ASSUME TypeOK, OfflineIsRecorded, [Next]_vars
               PROVE  OfflineIsRecorded'
    OBVIOUS
  <2> USE DEF OfflineIsRecorded
  <2>1. CASE UNCHANGED vars
    BY <2>1 DEF vars, procVars, agentVars
  <2>2. CASE StartFails \/ Interrupted
    BY <2>2 DEF StartFails, Interrupted, Exit
  <2>3. CASE Killed
    BY <2>3 DEF Killed, Exit
  <2>4. CASE ServeFails
    BY <2>4 DEF ServeFails, Exit
  <2>5. CASE Shutdown
    BY <2>5 DEF Shutdown, Exit
  <2>6. CASE Start
    BY <2>6 DEF Start, agentVars
  <2>7. CASE StartStep
    BY <2>7 DEF StartStep, procVars, agentVars
  <2>8. CASE Serve \/ Signal \/ DeadlinePasses
    BY <2>8 DEF Serve, Signal, DeadlinePasses, agentVars
  <2>9. CASE GracefulStop
    BY <2>9 DEF GracefulStop, Drained, agentVars
  <2>10. CASE CompleteSetup \/ RemoveToken \/ Expire
    BY <2>10 DEF CompleteSetup, RemoveToken, Expire, procVars, agentVars
  <2>11. ASSUME NEW a \in Agents, Enroll(a) \/ Connect(a)
         PROVE  OfflineIsRecorded'
    BY <2>11 DEF Enroll, Connect, Handshake, TypeOK, procVars
  <2>12. ASSUME NEW a \in Agents, DialFails(a) \/ Redial(a) \/ Leave(a)
         PROVE  OfflineIsRecorded'
    BY <2>12 DEF DialFails, Redial, Leave, procVars
  <2>13. ASSUME NEW a \in Agents, MarkOffline(a) PROVE OfflineIsRecorded'
    BY <2>13 DEF MarkOffline, TypeOK, procVars
  <2>14. ASSUME NEW b \in Browsers, Watch(b) \/ Unwatch(b)
         PROVE  OfflineIsRecorded'
    BY <2>14 DEF Watch, Unwatch, procVars, agentVars
  <2> QED
    BY <2>1, <2>2, <2>3, <2>4, <2>5, <2>6, <2>7, <2>8, <2>9, <2>10, <2>11,
       <2>12, <2>13, <2>14 DEF Next, Stop
<1>3. HostInv => TypeOK
  BY DEF HostInv
<1> QED
  BY <1>1, <1>2, <1>3, HostInvHolds, PTL DEF Spec

-----------------------------------------------------------------------------
(***************************************************************************)
(* What was handed out.                                                     *)
(***************************************************************************)
\* While the setup is not completed, a run that has passed setupToken holds in
\* memory what is in the file, and nobody removes the file.
TokenInForce ==
  /\ removing => ready
  /\ ~ready /\ stage # "token" => token = disk["setup.token"].key

\* Only the stage of the token touches its file before the setup is completed.
LEMMA TokenStep ==
  ASSUME HostInv, TokenInForce, [Next]_vars PROVE TokenInForce'
<1>0. TypeOK /\ StartInv
  BY DEF HostInv
<1> USE DEF TokenInForce
<1>1. CASE UNCHANGED <<dirVars, setupVars>>
  BY <1>1 DEF dirVars, fileVars, startVars, setupVars
<1>2. CASE StartFails \/ Killed \/ Interrupted \/ ServeFails \/ Shutdown
  BY <1>2 DEF StartFails, Killed, Interrupted, ServeFails, Shutdown, Exit,
              Forget
<1>3. CASE Start
  BY <1>3 DEF Start, BeginStages, setupVars
<1>4. CASE StartStep
  <2>1. UNCHANGED <<ready, removing>>
    BY <1>4 DEF StartStep, setupVars
  <2>2. CASE Stat \/ Load
    BY <1>0, <2>1, <2>2 DEF Stat, Load, StepTo, fileVars, TypeOK, DirTypeOK
  <2>3. CASE OpenCrt \/ WriteCrt
    BY <1>0, <2>1, <2>3, Paths
    DEF OpenCrt, WriteCrt, StepTo, TypeOK, DirTypeOK, Stages, Files
  <2>4. CASE OpenKey \/ WriteKey
    BY <1>0, <2>1, <2>4, Paths
    DEF OpenKey, WriteKey, StepTo, StartInv, TypeOK, DirTypeOK, Stages, Files
  <2> QED
    BY <1>4, <2>2, <2>3, <2>4 DEF StartStep, Ensure
<1>5. CASE CompleteSetup \/ RemoveToken
  BY <1>5 DEF CompleteSetup, RemoveToken
<1> QED
  BY <1>1, <1>2, <1>3, <1>4, <1>5
  DEF Next, Stop, Serve, Signal, DeadlinePasses, GracefulStop, Expire, Enroll,
      Connect, DialFails, Redial, Leave, MarkOffline, Watch, Unwatch, vars

\* The two certificates an agent and a HOST show each other stay as they are
\* once an instance has been enrolled.
LEMMA CertificatesStay ==
  ASSUME HostInv, Enrolled # {}, [Next]_vars
  PROVE  /\ disk'["ca.crt"] = disk["ca.crt"]
         /\ disk'["host.crt"] = disk["host.crt"]
<1>0. TypeOK /\ StartInv /\ FilesAgree
  BY DEF HostInv, IdentityIsWhole
<1>1. Whole("ca.crt") /\ Whole("host.crt")
  BY <1>0, Paths DEF HostInv, IdentityIsWhole, FilesAgree
<1>2. CASE StartStep
  <2>1. CASE Stat \/ Load
    BY <2>1 DEF Stat, Load, fileVars
  <2>2. CASE OpenCrt \/ WriteCrt
    BY <1>0, <1>1, <2>2, Paths
    DEF OpenCrt, WriteCrt, StartInv, TypeOK, DirTypeOK, Stages, Files
  <2>3. CASE OpenKey \/ WriteKey
    BY <1>0, <2>3, Paths
    DEF OpenKey, WriteKey, StartInv, TypeOK, DirTypeOK, Stages, Files
  <2> QED
    BY <1>2, <2>1, <2>2, <2>3 DEF StartStep, Ensure
<1>3. CASE RemoveToken
  BY <1>0, <1>3 DEF RemoveToken, TypeOK, DirTypeOK, Files
<1>4. CASE UNCHANGED fileVars
  BY <1>4 DEF fileVars
<1> QED
  BY <1>2, <1>3, <1>4
  DEF Next, Stop, StartFails, Killed, Interrupted, ServeFails, Shutdown, Exit,
      Start, Serve,
      Signal, DeadlinePasses, GracefulStop, CompleteSetup, Expire, Enroll, Connect,
      DialFails, Redial, Leave, MarkOffline, Watch, Unwatch, vars, dirVars

\* Neither does the token's file change once it has been written, until the
\* setup is completed.
LEMMA TokenStays ==
  ASSUME HostInv, TokenInForce, Whole("setup.token"), ~ready', [Next]_vars
  PROVE  disk'["setup.token"] = disk["setup.token"]
<1>0. TypeOK /\ StartInv
  BY DEF HostInv
<1>1. CASE StartStep
  <2>1. CASE Stat \/ Load
    BY <2>1 DEF Stat, Load, fileVars
  <2>2. CASE OpenCrt \/ WriteCrt
    BY <1>0, <2>2, Paths
    DEF OpenCrt, WriteCrt, StartInv, TypeOK, DirTypeOK, Stages, Files
  <2>3. CASE OpenKey \/ WriteKey
    BY <1>0, <2>3, Paths
    DEF OpenKey, WriteKey, StartInv, TypeOK, DirTypeOK, Stages, Files
  <2> QED
    BY <1>1, <2>1, <2>2, <2>3 DEF StartStep, Ensure
<1>2. CASE RemoveToken
  BY <1>2 DEF RemoveToken, TokenInForce
<1>3. CASE UNCHANGED fileVars
  BY <1>3 DEF fileVars
<1> QED
  BY <1>1, <1>2, <1>3
  DEF Next, Stop, StartFails, Killed, Interrupted, ServeFails, Shutdown, Exit,
      Start, Serve,
      Signal, DeadlinePasses, GracefulStop, CompleteSetup, Expire, Enroll, Connect,
      DialFails, Redial, Leave, MarkOffline, Watch, Unwatch, vars, dirVars

\* Only Enroll gives credentials, and only to an instance that has none.
LEMMA CredentialsStay ==
  ASSUME TypeOK, [Next]_vars, NEW a \in Enrolled PROVE creds'[a] = creds[a]
<1>1. CASE UNCHANGED creds
  BY <1>1
<1>2. ASSUME NEW b \in Agents, Enroll(b) PROVE creds'[a] = creds[a]
  BY <1>2 DEF Enroll, Enrolled, TypeOK
<1> QED
  BY <1>1, <1>2
  DEF Next, Stop, StartFails, Killed, Interrupted, ServeFails, Shutdown, Exit,
      Start, StartStep,
      Serve, Signal, DeadlinePasses, GracefulStop, CompleteSetup, RemoveToken,
      Expire, Connect, DialFails, Redial, Leave, MarkOffline, Watch, Unwatch, vars,
      agentVars

\* No restart, under whatever public name and after whatever end, takes the
\* worth from credentials that fit or from the setup token on disk.
THEOREM NothingHandedOutIsLost == Spec => HandedOutStands
<1>1. Init => TokenInForce
  BY DEF Init, DirInit, TokenInForce
<1>2. HostInv /\ TokenInForce /\ [Next]_vars => TokenInForce'
  BY TokenStep
<1>3. ASSUME HostInv, TokenInForce, HostInv', TokenInForce', [Next]_vars
      PROVE  /\ \A a \in Agents : Fits(a) => Fits(a)'
             /\ Whole("setup.token") /\ ~ready' =>
                  /\ disk'["setup.token"] = disk["setup.token"]
                  /\ pc' \in Up => token' = disk["setup.token"].key
  <2>1. ASSUME NEW a \in Agents, Fits(a) PROVE Fits(a)'
    <3>1. a \in Enrolled
      BY <2>1 DEF Fits
    <3>2. creds'[a] = creds[a]
      BY <1>3, <3>1, CredentialsStay DEF HostInv
    <3>3. /\ disk'["ca.crt"] = disk["ca.crt"]
          /\ disk'["host.crt"] = disk["host.crt"]
      BY <1>3, <3>1, CertificatesStay
    <3> QED
      BY <2>1, <3>1, <3>2, <3>3 DEF Fits, Enrolled
  <2>2. ASSUME Whole("setup.token"), ~ready'
        PROVE  /\ disk'["setup.token"] = disk["setup.token"]
               /\ pc' \in Up => token' = disk["setup.token"].key
    <3>1. disk'["setup.token"] = disk["setup.token"]
      BY <1>3, <2>2, TokenStays
    <3>2. pc' \in Up => stage' # "token"
      BY <1>3 DEF HostInv, StartInv
    <3> QED
      BY <1>3, <2>2, <3>1, <3>2 DEF TokenInForce
  <2> QED
    BY <2>1, <2>2
<1> QED
  BY <1>1, <1>2, <1>3, HostInvHolds, PTL DEF Spec, HandedOutStands
=============================================================================
