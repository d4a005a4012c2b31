------------------------------ MODULE AuthProofs ------------------------------
(***************************************************************************)
(* Proofs about Auth: for any number of concurrent requests, recovery       *)
(* codes, generated secrets and restarts, there is one operator, every      *)
(* session was earned and every code that was accepted is spent.            *)
(***************************************************************************)
EXTENDS Auth, TLAPS

-----------------------------------------------------------------------------
(***************************************************************************)
(* The inductive invariant.                                                 *)
(***************************************************************************)
\* Before the operator is ready there is nothing to log in with, and no secret
\* was stored that has not been generated.
OperatorOK ==
  /\ ~ready => /\ secret = None
               /\ recovery = {}
               /\ sessions = {}
               /\ \A c \in Codes : used[c] = 0
  /\ ready => secret # None
  /\ secret # None => secret <= starts
  /\ pending # None => pending <= starts

\* What the place of a request says of the code it carries, and what its
\* transaction read if nobody wrote it since.
RequestOK(r) ==
  /\ req[r].pc \in {"consume", "consumed", "recover", "recovered", "session"}
       => ready
  /\ req[r].pc \in {"complete", "completed"}
       => /\ req[r].code \in TOTPCodes
          /\ req[r].read = req[r].code[1]
          /\ req[r].read <= starts
  /\ req[r].pc \in {"consume", "consumed"}
       => req[r].code \in TOTPCodes /\ req[r].code[1] = secret
  /\ req[r].pc = "session"
       => /\ req[r].code \in TOTPCodes \cup RecoveryCodes
          /\ req[r].code \notin recovery
          /\ req[r].code \in TOTPCodes => req[r].code[1] = secret
  /\ r \in fresh /\ req[r].pc = "completed" => ~ready
  /\ r \in fresh /\ req[r].pc = "consumed"
       => step = None \/ step < req[r].code[2]
  /\ r \in fresh /\ req[r].pc = "recovered" => req[r].code \in recovery

\* A code in the store was not used; a TOTP code that was used as often as it
\* can be is not newer than the consumed step.
CodeOK(c) ==
  /\ c \in RecoveryCodes => used[c] <= 1 /\ (c \in recovery => used[c] = 0)
  /\ c \in TOTPCodes
       => /\ used[c] <= starts
          /\ used[c] = starts /\ starts > 0 => step # None /\ c[2] <= step

AuthInv ==
  /\ SessionsInv
  /\ OperatorOK
  /\ \A r \in Requests : RequestOK(r)
  /\ \A c \in Codes : CodeOK(c)

-----------------------------------------------------------------------------
\* The parts of a TOTP code are a secret and a step.
LEMMA CodeFacts ==
  ASSUME NEW c \in TOTPCodes
  PROVE  /\ c[1] \in Secrets
         /\ c[2] \in Steps
         /\ c[1] \in Nat /\ c[1] >= 1
         /\ c[2] \in Nat
         /\ c[1] # None /\ c[2] # None
         /\ c \notin RecoveryCodes
         /\ c # WrongCode
<1>1. c[1] \in Secrets /\ c[2] \in Steps
  BY DEF TOTPCodes
<1> QED BY <1>1, AuthNames DEF Secrets, Steps

\* Initially there is no operator, no session and no code was used.
LEMMA AuthInvInit == Init => AuthInv
<1> SUFFICES ASSUME Init PROVE AuthInv
  OBVIOUS
<1>1. Idle \in [pc : Pcs, kind : Kinds, valid : BOOLEAN, code : Codes,
                read : Secrets \cup {None}]
  BY DEF Idle, Request, Pcs, Kinds, Codes
<1>2. TypeOK
  <2>1. req \in [Requests -> [pc : Pcs, kind : Kinds, valid : BOOLEAN,
                              code : Codes, read : Secrets \cup {None}]]
    BY <1>1 DEF Init
  <2>2. /\ clock \in 0..MaxClock
        /\ starts \in 0..MaxStarts
        /\ restarts \in 0..MaxRestarts
        /\ used \in [Codes -> Nat]
    BY AuthConstants DEF Init
  <2> QED BY <2>1, <2>2 DEF Init, TypeOK
<1>3. SessionsInv
  BY <1>2 DEF Init, SessionsInv, SessionsAreEarned
<1>4. OperatorOK
  BY DEF Init, OperatorOK
<1>5. \A r \in Requests : RequestOK(r)
  BY DEF Init, RequestOK, Idle, Request
<1>6. \A c \in Codes : CodeOK(c)
  BY DEF Init, CodeOK
<1> QED BY <1>3, <1>4, <1>5, <1>6 DEF AuthInv

-----------------------------------------------------------------------------
(***************************************************************************)
(* Steps that change no code, no secret and nobody else's transaction.      *)
(***************************************************************************)
Quiet(r) ==
  /\ UNCHANGED <<operator, starts, used>>
  /\ fresh' = fresh \/ fresh' = fresh \cup {r}
  /\ \A q \in Requests : q # r => req'[q] = req[q]

\* A quiet step keeps the invariant if its own request and the sessions do.
LEMMA QuietStep ==
  ASSUME AuthInv, NEW r \in Requests, Quiet(r), SessionsInv', ~ready => sessions' = {},
         RequestOK(r)'
  PROVE  AuthInv'
<1>1. UNCHANGED <<ready, secret, pending, step, recovery, starts, used>>
  BY DEF Quiet, operator
<1>2. OperatorOK'
  BY <1>1 DEF AuthInv, OperatorOK
<1>3. \A c \in Codes : CodeOK(c)'
  BY <1>1 DEF AuthInv, CodeOK
<1>4. ASSUME NEW q \in Requests, q # r
      PROVE  RequestOK(q)'
  <2>1. req'[q] = req[q] /\ (q \in fresh' <=> q \in fresh)
    BY <1>4 DEF Quiet
  <2> QED BY <1>1, <2>1 DEF AuthInv, RequestOK
<1> QED BY <1>2, <1>3, <1>4 DEF AuthInv

\* What Goto and Respond do to the request, and to the others.
LEMMA GotoFacts ==
  ASSUME TypeOK, NEW r \in Requests, NEW l \in Pcs, Goto(r, l)
  PROVE  /\ req'[r].pc = l
         /\ req'[r].code = req[r].code
         /\ req'[r].read = req[r].read
         /\ \A q \in Requests : q # r => req'[q] = req[q]
         /\ req' \in [Requests -> [pc : Pcs, kind : Kinds, valid : BOOLEAN,
                                    code : Codes, read : Secrets \cup {None}]]
  BY DEF Goto, TypeOK

\* A request that is answered is idle again.
LEMMA RespondFacts ==
  ASSUME TypeOK, NEW r \in Requests, Respond(r)
  PROVE  /\ req'[r].pc = "idle"
         /\ \A q \in Requests : q # r => req'[q] = req[q]
         /\ req' \in [Requests -> [pc : Pcs, kind : Kinds, valid : BOOLEAN,
                                    code : Codes, read : Secrets \cup {None}]]
<1>1. /\ Idle \in [pc : Pcs, kind : Kinds, valid : BOOLEAN, code : Codes,
                   read : Secrets \cup {None}]
      /\ Idle.pc = "idle"
  BY DEF Idle, Request, Pcs, Kinds, Codes
<1> QED BY <1>1 DEF Respond, TypeOK

\* A step that changes no session either, apart from the types of the request.
LEMMA QuietSessions ==
  ASSUME AuthInv, UNCHANGED <<operator, sessions, starts, used, clock, restarts>>,
         token' \in BOOLEAN, fresh' \subseteq Requests,
         req' \in [Requests -> [pc : Pcs, kind : Kinds, valid : BOOLEAN,
                                 code : Codes, read : Secrets \cup {None}]]
  PROVE  SessionsInv' /\ (~ready => sessions' = {})
  BY DEF AuthInv, SessionsInv, SessionsAreEarned, TypeOK, OperatorOK, operator

\* The checks and the reads of every handler are quiet steps.
LEMMA QuietActions ==
  ASSUME AuthInv, NEW r \in Requests,
         \/ Arrival(r) \/ CheckReady(r) \/ CheckSetupToken(r) \/ ReadPending(r)
         \/ CompleteRead(r) \/ ClearToken(r) \/ ReadSecret(r) \/ ConsumeRead(r)
         \/ RecoverRead(r) \/ TxnConflict(r)
  PROVE  AuthInv'
<1> DEFINE ReqType == [pc : Pcs, kind : Kinds, valid : BOOLEAN, code : Codes,
                       read : Secrets \cup {None}]
<1>0. TypeOK /\ OperatorOK /\ RequestOK(r) /\ token \in BOOLEAN
        /\ fresh \subseteq Requests /\ fresh \cup {r} \subseteq Requests
        /\ req[r].code \in Codes
  BY DEF AuthInv, SessionsInv, TypeOK
<1>1. ASSUME UNCHANGED <<operator, sessions, starts, used, clock, restarts>>,
             token' \in BOOLEAN,
             fresh' = fresh \/ fresh' = fresh \cup {r},
             \A q \in Requests : q # r => req'[q] = req[q],
             req' \in [Requests -> ReqType],
             RequestOK(r)'
      PROVE  AuthInv'
  <2>1. Quiet(r)
    BY <1>1 DEF Quiet
  <2>2. SessionsInv' /\ (~ready => sessions' = {})
    BY <1>0, <1>1, QuietSessions
  <2> QED BY <1>1, <2>1, <2>2, QuietStep
<1>2. ASSUME Respond(r), fresh' = fresh, token' \in BOOLEAN,
             UNCHANGED <<operator, sessions, starts, used, clock, restarts>>
      PROVE  AuthInv'
  <2>1. RequestOK(r)'
    BY <1>0, <1>2, RespondFacts DEF RequestOK
  <2> QED BY <1>0, <1>1, <1>2, <2>1, RespondFacts
<1>3. ASSUME NEW l \in Pcs, Goto(r, l), fresh' = fresh \/ fresh' = fresh \cup {r},
             RequestOK(r)', token' = token,
             UNCHANGED <<operator, sessions, starts, used, clock, restarts>>
      PROVE  AuthInv'
  <2>1. /\ \A q \in Requests : q # r => req'[q] = req[q]
        /\ req' \in [Requests -> ReqType]
    BY <1>0, <1>3, GotoFacts
  <2> QED BY <1>0, <1>1, <1>3, <2>1
<1> HIDE DEF ReqType
<1>4. CASE Arrival(r)
  <2>1. PICK kind \in Kinds, valid \in BOOLEAN, code \in Codes :
          Arrive(r, kind, valid, code)
    BY <1>4 DEF Arrival
  <2>2. PICK l \in {"secret", "ready"} :
          req' = [req EXCEPT ![r] = Request(l, kind, valid, code)]
    BY <2>1 DEF Arrive
  <2>3. Request(l, kind, valid, code) \in ReqType
          /\ Request(l, kind, valid, code).pc = l
    BY <2>2 DEF Request, ReqType, Pcs
  <2>4. /\ req' \in [Requests -> ReqType]
        /\ req'[r].pc = l
        /\ \A q \in Requests : q # r => req'[q] = req[q]
    BY <1>0, <2>2, <2>3 DEF TypeOK, ReqType
  <2>5. RequestOK(r)'
    BY <2>4 DEF RequestOK
  <2> QED BY <1>0, <1>1, <2>1, <2>4, <2>5 DEF Arrive
<1>5. CASE CheckReady(r)
  <2>1. CASE Respond(r)
    BY <1>0, <1>2, <1>5, <2>1 DEF CheckReady
  <2>2. CASE Goto(r, "token")
    <3>1. "token" \in Pcs
      BY DEF Pcs
    <3>2. RequestOK(r)'
      BY <1>0, <2>2, <3>1, GotoFacts DEF RequestOK
    <3> QED BY <1>3, <1>5, <2>2, <3>1, <3>2 DEF CheckReady
  <2> QED BY <1>5, <2>1, <2>2 DEF CheckReady
<1>6. CASE CheckSetupToken(r)
  <2>1. CASE Respond(r)
    BY <1>0, <1>2, <1>6, <2>1 DEF CheckSetupToken
  <2>2. ASSUME NEW l \in {"begin", "pending"}, Goto(r, l)
        PROVE  AuthInv'
    <3>1. l \in Pcs
      BY DEF Pcs
    <3>2. RequestOK(r)'
      BY <1>0, <2>2, <3>1, GotoFacts DEF RequestOK
    <3> QED BY <1>3, <1>6, <2>2, <3>1, <3>2 DEF CheckSetupToken
  <2> QED BY <1>6, <2>1, <2>2 DEF CheckSetupToken
<1>7. CASE ReadPending(r)
  <2>1. CASE Respond(r)
    BY <1>0, <1>2, <1>7, <2>1 DEF ReadPending
  <2>2. CASE /\ pending # None
             /\ Matches(pending, req[r].code)
             /\ req' = [req EXCEPT ![r].pc = "complete", ![r].read = pending]
    <3>1. /\ pending \in Secrets /\ pending <= starts
          /\ req[r].code \in TOTPCodes
          /\ req[r].code[1] = pending
      BY <1>0, <2>2 DEF TypeOK, OperatorOK, Matches
    <3>2. "complete" \in Pcs
      BY DEF Pcs
    <3>3. /\ req'[r].pc = "complete"
          /\ req'[r].read = pending
          /\ req'[r].code = req[r].code
          /\ \A q \in Requests : q # r => req'[q] = req[q]
          /\ req' \in [Requests -> ReqType]
      BY <1>0, <2>2, <3>1, <3>2 DEF TypeOK, ReqType
    <3>4. RequestOK(r)'
      BY <1>7, <3>1, <3>3 DEF RequestOK, ReadPending
    <3> QED BY <1>0, <1>1, <1>7, <3>3, <3>4 DEF ReadPending
  <2> QED BY <1>7, <2>1, <2>2 DEF ReadPending
<1>8. CASE CompleteRead(r)
  <2>1. CASE ready
    BY <1>0, <1>2, <1>8, <2>1 DEF CompleteRead, AlreadyConfigured
  <2>2. CASE ~ready
    <3>1. "completed" \in Pcs
      BY DEF Pcs
    <3>2. Goto(r, "completed") /\ fresh' = fresh \cup {r} /\ UNCHANGED <<operator, starts>>
            /\ req[r].pc = "complete"
      BY <1>8, <2>2 DEF CompleteRead, AlreadyConfigured, At
    <3>3. RequestOK(r)'
      BY <1>0, <2>2, <3>1, <3>2, GotoFacts DEF RequestOK, operator
    <3> QED BY <1>3, <1>8, <3>1, <3>2, <3>3 DEF CompleteRead
  <2> QED BY <2>1, <2>2
<1>9. CASE ClearToken(r)
  BY <1>0, <1>2, <1>9 DEF ClearToken
<1>10. CASE ReadSecret(r)
  <2>1. CASE secret = None
    BY <1>0, <1>2, <1>10, <2>1 DEF ReadSecret
  <2>2. CASE secret # None
    <3>1. ready
      BY <1>0, <2>2 DEF OperatorOK
    <3>2. CASE Matches(secret, req[r].code)
      <4>1. "consume" \in Pcs
        BY DEF Pcs
      <4>2. Goto(r, "consume") /\ UNCHANGED <<operator, fresh, starts>>
        BY <1>10, <2>2, <3>2 DEF ReadSecret
      <4>3. RequestOK(r)'
        BY <1>0, <3>1, <3>2, <4>1, <4>2, GotoFacts DEF RequestOK, operator, Matches
      <4> QED BY <1>3, <1>10, <4>1, <4>2, <4>3 DEF ReadSecret
    <3>3. CASE ~Matches(secret, req[r].code)
      <4>1. "recover" \in Pcs
        BY DEF Pcs
      <4>2. Goto(r, "recover") /\ UNCHANGED <<operator, fresh, starts>>
        BY <1>10, <2>2, <3>3 DEF ReadSecret
      <4>3. RequestOK(r)'
        BY <1>0, <3>1, <4>1, <4>2, GotoFacts DEF RequestOK, operator
      <4> QED BY <1>3, <1>10, <4>1, <4>2, <4>3 DEF ReadSecret
    <3> QED BY <3>2, <3>3
  <2> QED BY <2>1, <2>2
<1>11. CASE ConsumeRead(r)
  <2>0. ready /\ req[r].code \in TOTPCodes /\ req[r].code[1] = secret
    BY <1>0, <1>11 DEF RequestOK, ConsumeRead, At
  <2>1. CASE step # None /\ req[r].code[2] <= step
    <3>1. "recover" \in Pcs
      BY DEF Pcs
    <3>2. Goto(r, "recover") /\ UNCHANGED <<operator, fresh, starts>>
      BY <1>11, <2>1 DEF ConsumeRead
    <3>3. RequestOK(r)'
      BY <1>0, <2>0, <3>1, <3>2, GotoFacts DEF RequestOK, operator
    <3> QED BY <1>3, <1>11, <3>1, <3>2, <3>3 DEF ConsumeRead
  <2>2. CASE ~(step # None /\ req[r].code[2] <= step)
    <3>1. "consumed" \in Pcs
      BY DEF Pcs
    <3>2. Goto(r, "consumed") /\ fresh' = fresh \cup {r} /\ UNCHANGED <<operator, starts>>
      BY <1>11, <2>2 DEF ConsumeRead
    <3>3. step = None \/ step < req[r].code[2]
      BY <1>0, <2>0, <2>2, CodeFacts DEF TypeOK, Steps
    <3>4. RequestOK(r)'
      BY <1>0, <2>0, <3>1, <3>2, <3>3, GotoFacts DEF RequestOK, operator
    <3> QED BY <1>3, <1>11, <3>1, <3>2, <3>4 DEF ConsumeRead
  <2> QED BY <2>1, <2>2
<1>12. CASE RecoverRead(r)
  <2>1. CASE ~Found(r)
    BY <1>0, <1>2, <1>12, <2>1 DEF RecoverRead
  <2>2. CASE Found(r)
    <3>1. "recovered" \in Pcs
      BY DEF Pcs
    <3>2. Goto(r, "recovered") /\ fresh' = fresh \cup {r} /\ UNCHANGED <<operator, starts>>
            /\ ready
      BY <1>0, <1>12, <2>2 DEF RecoverRead, RequestOK, At
    <3>3. RequestOK(r)'
      BY <1>0, <2>2, <3>1, <3>2, GotoFacts DEF RequestOK, operator, Found
    <3> QED BY <1>3, <1>12, <3>1, <3>2, <3>3 DEF RecoverRead
  <2> QED BY <2>1, <2>2
<1>13. CASE TxnConflict(r)
  BY <1>0, <1>2, <1>13 DEF TxnConflict
<1> QED BY <1>4, <1>5, <1>6, <1>7, <1>8, <1>9, <1>10, <1>11, <1>12, <1>13

-----------------------------------------------------------------------------
(***************************************************************************)
(* The commits.                                                             *)
(***************************************************************************)
\* A bootstrap start forgets the consumed step, but it also adds a secret.
LEMMA BeginStep ==
  ASSUME AuthInv, NEW r \in Requests, BeginSetup(r)
  PROVE  AuthInv'
<1>0. /\ TypeOK /\ OperatorOK
      /\ starts \in Nat /\ starts' = starts + 1
      /\ pending' = starts + 1 /\ step' = None
      /\ fresh' = {q \in fresh : req[q].pc # "consumed"}
      /\ UNCHANGED <<ready, secret, recovery, sessions, token, clock, used, restarts>>
  BY DEF AuthInv, SessionsInv, TypeOK, BeginSetup, At
<1>1. TypeOK'
  <2>1. starts + 1 \in Secrets /\ starts + 1 \in 0..MaxStarts
    BY <1>0, AuthConstants DEF BeginSetup, Secrets, TypeOK
  <2> QED BY <1>0, <2>1, RespondFacts DEF TypeOK, BeginSetup
<1>2. OperatorOK'
  <2>1. secret # None => secret <= starts + 1
    BY <1>0 DEF OperatorOK, TypeOK, Secrets
  <2> QED BY <1>0, <2>1 DEF OperatorOK
<1>3. ASSUME NEW q \in Requests
      PROVE  RequestOK(q)'
  <2>1. CASE q = r
    BY <1>0, <2>1, RespondFacts DEF RequestOK, BeginSetup
  <2>2. CASE q # r
    <3>1. req'[q] = req[q]
      BY <1>0, <2>2, RespondFacts DEF BeginSetup
    <3>2. req[q].pc \in {"complete", "completed"} => req[q].read <= starts + 1
      BY <1>0, CodeFacts DEF AuthInv, RequestOK
    <3> QED BY <1>0, <3>1, <3>2 DEF AuthInv, RequestOK
  <2> QED BY <2>1, <2>2
<1>4. ASSUME NEW c \in Codes
      PROVE  CodeOK(c)'
  <2>1. used[c] \in Nat
    BY <1>0 DEF TypeOK
  <2> QED BY <1>0, <2>1 DEF AuthInv, CodeOK
<1> QED BY <1>0, <1>1, <1>2, <1>3, <1>4
        DEF AuthInv, SessionsInv, SessionsAreEarned

\* Setup commits only if nobody was ready when its transaction read that.
LEMMA CompleteFacts ==
  ASSUME AuthInv, NEW r \in Requests, CompleteCommit(r)
  PROVE  /\ ~ready
         /\ req[r].code \in TOTPCodes
         /\ req[r].read = req[r].code[1]
         /\ req[r].read <= starts
         /\ sessions = {}
         /\ \A c \in Codes : used[c] = 0
  BY DEF AuthInv, RequestOK, OperatorOK, CompleteCommit, At

\* CompleteOperator: of the requests that read no operator only one commits.
LEMMA CompleteStep ==
  ASSUME AuthInv, NEW r \in Requests, CompleteCommit(r)
  PROVE  AuthInv'
<1> DEFINE k == req[r].code
<1>0. /\ TypeOK
      /\ ~ready /\ k \in TOTPCodes /\ k \in Codes
      /\ req[r].read = k[1] /\ k[1] <= starts
      /\ sessions = {} /\ \A c \in Codes : used[c] = 0
      /\ starts \in Nat
  BY CompleteFacts DEF AuthInv, SessionsInv, TypeOK, Codes
<1>1. /\ ready' = TRUE /\ secret' = k[1] /\ step' = k[2] /\ pending' = None
      /\ recovery' = RecoveryCodes /\ sessions' = {k} /\ fresh' = {}
      /\ used' = [used EXCEPT ![k] = @ + 1]
      /\ Goto(r, "clear")
      /\ UNCHANGED <<token, clock, starts, restarts>>
  BY <1>0 DEF CompleteCommit, ConsumedBySetup, Accept
<1>2. "clear" \in Pcs
  BY DEF Pcs
<1> HIDE DEF k
<1>3. TypeOK'
  <2>1. used' \in [Codes -> Nat]
    BY <1>0, <1>1 DEF TypeOK
  <2>2. req' \in [Requests -> [pc : Pcs, kind : Kinds, valid : BOOLEAN,
                                code : Codes, read : Secrets \cup {None}]]
    BY <1>0, <1>1, <1>2, GotoFacts
  <2> QED BY <1>0, <1>1, <2>1, <2>2, CodeFacts DEF TypeOK
<1>4. SessionsInv'
  BY <1>0, <1>1, <1>3, CodeFacts DEF SessionsInv, SessionsAreEarned
<1>5. OperatorOK'
  BY <1>0, <1>1, CodeFacts DEF OperatorOK
<1>6. ASSUME NEW q \in Requests
      PROVE  RequestOK(q)'
  <2>1. CASE q = r
    BY <1>0, <1>1, <1>2, <2>1, GotoFacts DEF RequestOK
  <2>2. CASE q # r
    <3>1. req'[q] = req[q]
      BY <1>0, <1>1, <1>2, <2>2, GotoFacts
    <3> QED BY <1>0, <1>1, <3>1 DEF AuthInv, RequestOK
  <2> QED BY <2>1, <2>2
<1>7. ASSUME NEW c \in Codes
      PROVE  CodeOK(c)'
  <2>1. used'[c] = IF c = k THEN 1 ELSE 0
    BY <1>0, <1>1 DEF TypeOK
  <2>2. starts >= 1
    BY <1>0, CodeFacts
  <2>3. CASE c = k
    BY <1>0, <1>1, <2>1, <2>2, <2>3, CodeFacts DEF CodeOK
  <2>4. CASE c # k
    BY <1>0, <1>1, <2>1, <2>2, <2>4 DEF CodeOK
  <2> QED BY <2>3, <2>4
<1> QED BY <1>4, <1>5, <1>6, <1>7 DEF AuthInv

\* A TOTP code is accepted only if its step is newer than the consumed one,
\* and then it is the consumed one.
LEMMA ConsumeStep ==
  ASSUME AuthInv, NEW r \in Requests, ConsumeCommit(r)
  PROVE  AuthInv'
<1> DEFINE k == req[r].code
<1>0. /\ TypeOK /\ OperatorOK
      /\ ready /\ k \in TOTPCodes /\ k \in Codes /\ k[1] = secret
      /\ step = None \/ step < k[2]
      /\ starts \in Nat /\ secret # None /\ secret <= starts
  BY DEF AuthInv, SessionsInv, TypeOK, Codes, RequestOK, OperatorOK,
         ConsumeCommit, At
<1>1. /\ step' = k[2]
      /\ used' = [used EXCEPT ![k] = @ + 1]
      /\ fresh' = {q \in fresh : req[q].pc # "consumed"}
      /\ Goto(r, "session")
      /\ UNCHANGED <<ready, secret, pending, recovery, sessions, token, clock,
                     starts, restarts>>
  BY DEF ConsumeCommit, Accept, At
<1>2. "session" \in Pcs
  BY DEF Pcs
<1>3. req'[r].code = k /\ req'[r].pc = "session"
  BY <1>0, <1>1, <1>2, GotoFacts
<1> HIDE DEF k
<1>4. TypeOK'
  <2>1. used' \in [Codes -> Nat]
    BY <1>0, <1>1 DEF TypeOK
  <2>2. req' \in [Requests -> [pc : Pcs, kind : Kinds, valid : BOOLEAN,
                                code : Codes, read : Secrets \cup {None}]]
    BY <1>0, <1>1, <1>2, GotoFacts
  <2> QED BY <1>0, <1>1, <2>1, <2>2, CodeFacts DEF TypeOK
<1>5. SessionsInv'
  BY <1>1, <1>4 DEF AuthInv, SessionsInv, SessionsAreEarned
<1>6. OperatorOK'
  BY <1>0, <1>1 DEF OperatorOK
<1>7. ASSUME NEW q \in Requests
      PROVE  RequestOK(q)'
  <2>1. CASE q = r
    <3>1. k \notin recovery'
      BY <1>0, <1>1, CodeFacts DEF TypeOK
    <3> QED BY <1>0, <1>1, <1>3, <2>1, <3>1 DEF RequestOK
  <2>2. CASE q # r
    <3>1. req'[q] = req[q]
      BY <1>0, <1>1, <1>2, <2>2, GotoFacts
    <3> QED BY <1>0, <1>1, <3>1 DEF AuthInv, RequestOK
  <2> QED BY <2>1, <2>2
<1>8. ASSUME NEW c \in Codes
      PROVE  CodeOK(c)'
  <2>0. used[c] \in Nat /\ CodeOK(c)
    BY <1>0 DEF TypeOK, AuthInv
  <2>1. starts >= 1
    BY <1>0, CodeFacts
  <2>2. CASE c = k
    <3>1. used'[c] = used[c] + 1 /\ c \notin RecoveryCodes
      BY <1>0, <1>1, <2>2, CodeFacts DEF TypeOK
    <3>2. used[c] # starts
      <4>1. CASE step = None
        BY <1>0, <2>0, <2>1, <2>2, <4>1 DEF CodeOK
      <4>2. CASE step # None
        <5>1. step \in Nat /\ step < c[2] /\ c[2] \in Nat
          BY <1>0, <2>2, <4>2, CodeFacts DEF TypeOK, Steps
        <5> QED BY <1>0, <2>0, <2>1, <2>2, <5>1 DEF CodeOK
      <4> QED BY <4>1, <4>2
    <3> QED BY <1>0, <1>1, <2>0, <2>2, <3>1, <3>2, CodeFacts DEF CodeOK
  <2>3. CASE c # k
    <3>1. used'[c] = used[c]
      BY <1>0, <1>1, <2>3 DEF TypeOK
    <3>2. CASE c \in TOTPCodes
      <4>1. step # None /\ c[2] <= step => k[2] # None /\ c[2] <= k[2]
        BY <1>0, <3>2, CodeFacts DEF TypeOK, Steps
      <4> QED BY <1>1, <2>0, <3>1, <3>2, <4>1, CodeFacts DEF CodeOK
    <3>3. CASE c \notin TOTPCodes
      BY <1>1, <2>0, <3>1, <3>3 DEF CodeOK
    <3> QED BY <3>2, <3>3
  <2> QED BY <2>2, <2>3
<1> QED BY <1>5, <1>6, <1>7, <1>8 DEF AuthInv

\* A recovery code is accepted while it is in the store, and leaves it.
LEMMA RecoverStep ==
  ASSUME AuthInv, NEW r \in Requests, RecoverCommit(r)
  PROVE  AuthInv'
<1> DEFINE k == req[r].code
<1>0. /\ TypeOK /\ OperatorOK
      /\ ready /\ k \in recovery /\ k \in RecoveryCodes /\ k \in Codes
      /\ k \notin TOTPCodes
      /\ starts \in Nat
  <2>1. TypeOK /\ OperatorOK /\ ready /\ k \in recovery /\ starts \in Nat
    BY DEF AuthInv, SessionsInv, TypeOK, RequestOK, RecoverCommit, At
  <2> QED BY <2>1, CodeFacts DEF TypeOK, Codes
<1>1. /\ recovery' = recovery \ {k}
      /\ used' = [used EXCEPT ![k] = @ + 1]
      /\ fresh' = (fresh \ Readers(k)) \ {r}
      /\ Goto(r, "session")
      /\ UNCHANGED <<ready, secret, pending, step, sessions, token, clock,
                     starts, restarts>>
  BY DEF RecoverCommit, Accept
<1>2. "session" \in Pcs
  BY DEF Pcs
<1>3. req'[r].code = k /\ req'[r].pc = "session"
  BY <1>0, <1>1, <1>2, GotoFacts
<1> HIDE DEF k
<1>4. TypeOK'
  <2>1. used' \in [Codes -> Nat]
    BY <1>0, <1>1 DEF TypeOK
  <2>2. req' \in [Requests -> [pc : Pcs, kind : Kinds, valid : BOOLEAN,
                                code : Codes, read : Secrets \cup {None}]]
    BY <1>0, <1>1, <1>2, GotoFacts
  <2> QED BY <1>0, <1>1, <2>1, <2>2 DEF TypeOK
<1>5. SessionsInv'
  BY <1>1, <1>4 DEF AuthInv, SessionsInv, SessionsAreEarned
<1>6. OperatorOK'
  BY <1>0, <1>1 DEF OperatorOK
<1>7. ASSUME NEW q \in Requests
      PROVE  RequestOK(q)'
  <2>1. CASE q = r
    BY <1>0, <1>1, <1>3, <2>1 DEF RequestOK
  <2>2. CASE q # r
    <3>1. req'[q] = req[q]
      BY <1>0, <1>1, <1>2, <2>2, GotoFacts
    <3>2. q \in fresh' /\ req[q].pc = "recovered" => req[q].code # k
      BY <1>1 DEF Readers, At
    <3> QED BY <1>0, <1>1, <3>1, <3>2 DEF AuthInv, RequestOK
  <2> QED BY <2>1, <2>2
<1>8. ASSUME NEW c \in Codes
      PROVE  CodeOK(c)'
  <2>0. used[c] \in Nat /\ CodeOK(c)
    BY <1>0 DEF TypeOK, AuthInv
  <2>1. CASE c = k
    <3>1. used'[c] = 1
      BY <1>0, <1>1, <2>0, <2>1 DEF TypeOK, CodeOK
    <3> QED BY <1>0, <1>1, <2>1, <3>1 DEF CodeOK
  <2>2. CASE c # k
    <3>1. used'[c] = used[c]
      BY <1>0, <1>1, <2>2 DEF TypeOK
    <3> QED BY <1>1, <2>0, <3>1 DEF CodeOK
  <2> QED BY <2>1, <2>2
<1> QED BY <1>5, <1>6, <1>7, <1>8 DEF AuthInv

\* A session is created for a code that is spent already.
LEMMA SessionStep ==
  ASSUME AuthInv, NEW r \in Requests, NewSession(r)
  PROVE  AuthInv'
<1>0. /\ TypeOK /\ ready
      /\ req[r].code \in TOTPCodes \cup RecoveryCodes
      /\ req[r].code \notin recovery
      /\ req[r].code \in TOTPCodes => req[r].code[1] = secret
  BY DEF AuthInv, SessionsInv, RequestOK, NewSession, At
<1>1. /\ sessions' = sessions \cup {req[r].code}
      /\ Respond(r)
      /\ UNCHANGED <<operator, fresh, token, clock, starts, used, restarts>>
  BY DEF NewSession
<1>2. TypeOK'
  BY <1>0, <1>1, RespondFacts DEF TypeOK, operator
<1>3. SessionsInv'
  BY <1>0, <1>1, <1>2 DEF AuthInv, SessionsInv, SessionsAreEarned, operator
<1>4. RequestOK(r)'
  BY <1>0, <1>1, RespondFacts DEF RequestOK
<1>5. Quiet(r)
  BY <1>0, <1>1, RespondFacts DEF Quiet
<1> QED BY <1>0, <1>3, <1>4, <1>5, QuietStep

\* Every step keeps the invariant.
LEMMA AuthInvStep == AuthInv /\ [Next]_vars => AuthInv'
<1> SUFFICES ASSUME AuthInv, [Next]_vars PROVE AuthInv'
  OBVIOUS
<1>1. ASSUME NEW r \in Requests, Arrival(r) \/ Serve(r)
      PROVE  AuthInv'
  BY <1>1, QuietActions, BeginStep, CompleteStep, ConsumeStep, RecoverStep,
     SessionStep DEF Serve
<1>2. ASSUME NEW k \in sessions, EndSession(k)
      PROVE  AuthInv'
  BY <1>2 DEF EndSession, operator, AuthInv, SessionsInv, SessionsAreEarned,
              TypeOK, OperatorOK, RequestOK, CodeOK
<1>3. ASSUME Tick \/ UNCHANGED vars
      PROVE  AuthInv'
  <2>1. clock' \in 0..MaxClock
    BY <1>3, AuthConstants DEF Tick, vars, AuthInv, SessionsInv, TypeOK
  <2>2. UNCHANGED <<ready, secret, pending, step, recovery, sessions, fresh,
                    token, req, starts, used, restarts>>
    BY <1>3 DEF Tick, vars, operator
  <2> QED BY <2>1, <2>2 DEF AuthInv, SessionsInv, SessionsAreEarned, TypeOK,
                            OperatorOK, RequestOK, CodeOK
<1>4. ASSUME Restart
      PROVE  AuthInv'
  <2>1. /\ UNCHANGED <<ready, secret, pending, step, recovery, sessions, clock,
                       starts, used>>
        /\ fresh' = {}
        /\ req' = [r \in Requests |-> Idle]
        /\ token' \in BOOLEAN
        /\ restarts' \in 0..MaxRestarts
    BY <1>4, AuthConstants DEF Restart, operator, AuthInv, SessionsInv, TypeOK
  <2>2. /\ Idle \in [pc : Pcs, kind : Kinds, valid : BOOLEAN, code : Codes,
                     read : Secrets \cup {None}]
        /\ Idle.pc = "idle"
    BY DEF Idle, Request, Pcs, Kinds, Codes
  <2>3. TypeOK'
    BY <2>1, <2>2 DEF AuthInv, SessionsInv, TypeOK
  <2>4. \A r \in Requests : RequestOK(r)'
    BY <2>1, <2>2 DEF RequestOK
  <2> QED BY <2>1, <2>3, <2>4 DEF AuthInv, SessionsInv, SessionsAreEarned,
                                  OperatorOK, CodeOK
<1> QED BY <1>1, <1>2, <1>3, <1>4 DEF Next

-----------------------------------------------------------------------------
(***************************************************************************)
(* The theorems.                                                            *)
(***************************************************************************)
LEMMA AuthInvHolds == Spec => []AuthInv
  BY AuthInvInit, AuthInvStep, PTL DEF Spec

\* Every session was earned by a code of the operator's secret or by a recovery
\* code that the store no longer has.
THEOREM EverySessionIsEarned == Spec => []SessionsInv
<1>1. AuthInv => SessionsInv
  BY DEF AuthInv
<1> QED BY <1>1, AuthInvHolds, PTL

\* However many requests carry the same code, a recovery code is accepted once,
\* and a TOTP code no more often than a bootstrap start erased its step.
THEOREM EveryCodeIsSpent == Spec => []CodesAreSpent
<1>1. AuthInv => CodesAreSpent
  BY DEF AuthInv, CodeOK, CodesAreSpent, Codes
<1> QED BY <1>1, AuthInvHolds, PTL

\* Once setup is complete no bootstrap request, however late, replaces the
\* operator or its recovery codes.
THEOREM TheOperatorStays == Spec => OneOperator
<1>1. AuthInv /\ [Next]_vars
        => [ready => ready' /\ secret' = secret /\ recovery' \subseteq recovery]_vars
  <2> SUFFICES ASSUME AuthInv, Next, ready
               PROVE  ready' /\ secret' = secret /\ recovery' \subseteq recovery
    OBVIOUS
  <2>1. \A r \in Requests : ~CompleteCommit(r)
    BY CompleteFacts
  <2>2. CASE UNCHANGED operator
    BY <2>2 DEF operator
  <2>3. ASSUME NEW r \in Requests, BeginSetup(r) \/ ConsumeCommit(r)
        PROVE  ready' /\ secret' = secret /\ recovery' \subseteq recovery
    BY <2>3 DEF BeginSetup, ConsumeCommit
  <2>4. ASSUME NEW r \in Requests, RecoverCommit(r)
        PROVE  ready' /\ secret' = secret /\ recovery' \subseteq recovery
    BY <2>4 DEF RecoverCommit
  <2>5. \/ UNCHANGED operator
        \/ \E r \in Requests : \/ BeginSetup(r) \/ ConsumeCommit(r)
                               \/ RecoverCommit(r) \/ CompleteCommit(r)
    BY DEF Next, Arrival, Arrive, Serve, CheckReady, CheckSetupToken,
           ReadPending, CompleteRead, ClearToken, ReadSecret, ConsumeRead,
           RecoverRead, NewSession, TxnConflict, EndSession, Tick, Restart
  <2> QED BY <2>1, <2>2, <2>3, <2>4, <2>5
<1> QED BY <1>1, AuthInvHolds, PTL DEF Spec, OneOperator
===============================================================================
