-------------------------------- MODULE Auth --------------------------------
(***************************************************************************)
(* Operator access: the bootstrap, login and logout handlers                *)
(* (internal/api/api.go), the service behind them (internal/auth/auth.go)   *)
(* and the operator keys of the store (internal/store/store.go).  The       *)
(* failure limiter may refuse a request before it does anything;            *)
(* LoginLimiter has it.                                                     *)
(*                                                                          *)
(* A TOTP code is <<secret, step>>; secrets are numbered in the order they  *)
(* were generated and never collide.  Time advances in units of 30 seconds, *)
(* the period of a code.  A session is named by the code that earned it.    *)
(* One step is one read, one commit or one critical section.                *)
(***************************************************************************)
EXTENDS Integers

CONSTANTS
  Requests,       \* requests that can be served at the same time
  RecoveryCodes,  \* the recovery codes CompleteSetup generates (10 in the code)
  WrongCode,      \* a code that was never issued
  None,
  MaxStarts,      \* bound: secrets generated
  MaxClock,       \* bound: time
  MaxRestarts     \* bound: restarts of the HOST

ASSUME AuthConstants ==
  /\ WrongCode \notin RecoveryCodes
  /\ MaxStarts \in Nat
  /\ MaxClock \in Nat
  /\ MaxRestarts \in Nat

VARIABLES
  ready,     \* store: operator/ready
  secret,    \* store: the TOTP secret
  pending,   \* store: the secret of an unfinished setup
  step,      \* store: the last TOTP step that was consumed
  recovery,  \* store: recovery codes that are left
  sessions,  \* store: sessions that are valid
  fresh,     \* requests whose transaction read nothing that was written since
  token,     \* Service.setupToken is not empty
  req,       \* each request: where it is, what it carries, what it read
  clock,
  starts,    \* secrets generated
  used,      \* history: how often each code was accepted
  restarts

operator == <<ready, secret, pending, step, recovery>>
vars == <<operator, sessions, fresh, token, req, clock, starts, used, restarts>>

Steps == 0..(MaxClock + 1)
Secrets == 1..MaxStarts
TOTPCodes == Secrets \X Steps
Codes == TOTPCodes \cup RecoveryCodes \cup {WrongCode}

\* A TOTP code is six digits and a recovery code two hexadecimal groups with a
\* dash (auth.go:88), so no code is both; no secret and no step is None.
ASSUME AuthNames ==
  /\ TOTPCodes \cap (RecoveryCodes \cup {WrongCode}) = {}
  /\ None \notin Secrets \cup Steps

Kinds == {"start", "complete", "login"}
Pcs ==
  {"idle", "ready", "token", "begin", "pending", "complete", "completed",
   "clear", "secret", "consume", "consumed", "recover", "recovered", "session"}

\* valid: whether the setup token it carries is the right one; read: the
\* secret it read.
Request(l, kind, valid, code) ==
  [pc |-> l, kind |-> kind, valid |-> valid, code |-> code, read |-> None]
Idle == Request("idle", "login", FALSE, WrongCode)

TypeOK ==
  /\ ready \in BOOLEAN
  /\ token \in BOOLEAN
  /\ secret \in Secrets \cup {None}
  /\ pending \in Secrets \cup {None}
  /\ step \in Steps \cup {None}
  /\ recovery \subseteq RecoveryCodes
  /\ sessions \subseteq TOTPCodes \cup RecoveryCodes
  /\ fresh \subseteq Requests
  /\ req \in [Requests -> [pc : Pcs, kind : Kinds, valid : BOOLEAN,
                            code : Codes, read : Secrets \cup {None}]]
  /\ clock \in 0..MaxClock
  /\ starts \in 0..MaxStarts
  /\ used \in [Codes -> Nat]
  /\ restarts \in 0..MaxRestarts

Init ==
  /\ ready = FALSE
  /\ secret = None
  /\ pending = None
  /\ step = None
  /\ recovery = {}
  /\ sessions = {}
  /\ fresh = {}
  /\ token = TRUE
  /\ req = [r \in Requests |-> Idle]
  /\ clock = 0
  /\ starts = 0
  /\ used = [c \in Codes |-> 0]
  /\ restarts = 0

-----------------------------------------------------------------------------
At(r, l) == req[r].pc = l
Goto(r, l) == req' = [req EXCEPT ![r].pc = l]
Respond(r) == req' = [req EXCEPT ![r] = Idle]

\* A request that allowAuthentication let in.
Arrive(r, kind, valid, code) ==
  /\ At(r, "idle")
  /\ req' = [req EXCEPT ![r] =
       Request(IF kind = "login" THEN "secret" ELSE "ready",
               kind, valid, code)]
  /\ UNCHANGED <<operator, sessions, fresh, token, clock, starts, used,
                 restarts>>

\* OperatorReady in bootstrapStart and bootstrapComplete.
CheckReady(r) ==
  /\ At(r, "ready")
  /\ IF ready THEN Respond(r) ELSE Goto(r, "token")
  /\ UNCHANGED <<operator, sessions, fresh, token, clock, starts, used,
                 restarts>>

CheckSetupToken(r) ==
  /\ At(r, "token")
  /\ IF token /\ req[r].valid
     THEN Goto(r, IF req[r].kind = "start" THEN "begin" ELSE "pending")
     ELSE Respond(r)
  /\ UNCHANGED <<operator, sessions, fresh, token, clock, starts, used,
                 restarts>>

\* SetPendingTOTP writes without reading: it never conflicts, and the
\* transactions that read the consumed step do.
BeginSetup(r) ==
  /\ At(r, "begin")
  /\ starts < MaxStarts
  /\ starts' = starts + 1
  /\ pending' = starts + 1
  /\ step' = None
  /\ fresh' = {q \in fresh : ~At(q, "consumed")}
  /\ Respond(r)
  /\ UNCHANGED <<ready, secret, recovery, sessions, token, clock, used,
                 restarts>>

-----------------------------------------------------------------------------
(***************************************************************************)
(* CompleteSetup.                                                           *)
(***************************************************************************)
\* MatchTOTPStep: the current step, the next one or the previous one.
Matches(key, code) ==
  /\ code \in TOTPCodes
  /\ code[1] = key
  /\ code[2] - clock \in {-1, 0, 1}

ReadPending(r) ==
  /\ At(r, "pending")
  /\ IF pending # None /\ Matches(pending, req[r].code)
     THEN req' = [req EXCEPT ![r].pc = "complete", ![r].read = pending]
     ELSE Respond(r)
  /\ UNCHANGED <<operator, sessions, fresh, token, clock, starts, used,
                 restarts>>

\* Mutant: the transaction does not look at operator/ready.
AlreadyConfiguredNever == FALSE

AlreadyConfigured == ready

CompleteRead(r) ==
  /\ At(r, "complete")
  /\ IF AlreadyConfigured THEN Respond(r) /\ UNCHANGED fresh
     ELSE Goto(r, "completed") /\ fresh' = fresh \cup {r}
  /\ UNCHANGED <<operator, sessions, token, clock, starts, used, restarts>>

\* Mutant: the step that confirmed the setup may be used again.
ConsumedBySetupNone(r) == None

\* The step that CompleteOperator stores as consumed.
ConsumedBySetup(r) == req[r].code[2]

Accept(code) == used' = [used EXCEPT ![code] = @ + 1]

CompleteCommit(r) ==
  /\ At(r, "completed")
  /\ r \in fresh
  /\ ready' = TRUE
  /\ secret' = req[r].read
  /\ step' = ConsumedBySetup(r)
  /\ pending' = None
  /\ recovery' = RecoveryCodes
  /\ sessions' = sessions \cup {req[r].code}
  /\ Accept(req[r].code)
  /\ fresh' = {}
  /\ Goto(r, "clear")
  /\ UNCHANGED <<token, clock, starts, restarts>>

\* The setup token is forgotten in a critical section of its own.
ClearToken(r) ==
  /\ At(r, "clear")
  /\ token' = FALSE
  /\ Respond(r)
  /\ UNCHANGED <<operator, sessions, fresh, clock, starts, used, restarts>>

-----------------------------------------------------------------------------
(***************************************************************************)
(* Login.                                                                   *)
(***************************************************************************)
ReadSecret(r) ==
  /\ At(r, "secret")
  /\ IF secret = None THEN Respond(r)
     ELSE Goto(r, IF Matches(secret, req[r].code) THEN "consume"
                  ELSE "recover")
  /\ UNCHANGED <<operator, sessions, fresh, token, clock, starts, used,
                 restarts>>

\* ConsumeTOTPStep: a step that is not newer is not consumed, and the code is
\* tried as a recovery code.
ConsumeRead(r) ==
  /\ At(r, "consume")
  /\ IF step # None /\ req[r].code[2] <= step
     THEN Goto(r, "recover") /\ UNCHANGED fresh
     ELSE Goto(r, "consumed") /\ fresh' = fresh \cup {r}
  /\ UNCHANGED <<operator, sessions, token, clock, starts, used, restarts>>

ConsumeCommit(r) ==
  /\ At(r, "consumed")
  /\ r \in fresh
  /\ step' = req[r].code[2]
  /\ Accept(req[r].code)
  /\ fresh' = {q \in fresh : ~At(q, "consumed")}
  /\ Goto(r, "session")
  /\ UNCHANGED <<ready, secret, pending, recovery, sessions, token, clock,
                 starts, restarts>>

\* ConsumeRecoveryCode finds the code.
Found(r) == req[r].code \in recovery

RecoverRead(r) ==
  /\ At(r, "recover")
  /\ IF Found(r) THEN Goto(r, "recovered") /\ fresh' = fresh \cup {r}
     ELSE Respond(r) /\ UNCHANGED fresh
  /\ UNCHANGED <<operator, sessions, token, clock, starts, used, restarts>>

\* The transactions that read this recovery code.
Readers(code) == {q \in Requests : At(q, "recovered") /\ req[q].code = code}

RecoverCommit(r) ==
  /\ At(r, "recovered")
  /\ r \in fresh
  /\ recovery' = recovery \ {req[r].code}
  /\ Accept(req[r].code)
  /\ fresh' = (fresh \ Readers(req[r].code)) \ {r}
  /\ Goto(r, "session")
  /\ UNCHANGED <<ready, secret, pending, step, sessions, token, clock,
                 starts, restarts>>

\* CreateSession is a transaction after the one that consumed the code.
NewSession(r) ==
  /\ At(r, "session")
  /\ sessions' = sessions \cup {req[r].code}
  /\ Respond(r)
  /\ UNCHANGED <<operator, fresh, token, clock, starts, used, restarts>>

\* ErrConflict: the request ends with an internal error, nothing is written.
TxnConflict(r) ==
  /\ req[r].pc \in {"completed", "consumed", "recovered"}
  /\ r \notin fresh
  /\ Respond(r)
  /\ UNCHANGED <<operator, sessions, fresh, token, clock, starts, used,
                 restarts>>

-----------------------------------------------------------------------------
Tick ==
  /\ clock < MaxClock
  /\ clock' = clock + 1
  /\ UNCHANGED <<operator, sessions, fresh, token, req, starts, used,
                 restarts>>

\* logout deletes the session, or its time to live is over.
EndSession(k) ==
  /\ sessions' = sessions \ {k}
  /\ UNCHANGED <<operator, fresh, token, req, clock, starts, used, restarts>>

\* The HOST dies and New loads what the store holds: no setup token once the
\* operator is ready, otherwise the configured one or the one in its file.
Restart ==
  /\ restarts < MaxRestarts
  /\ restarts' = restarts + 1
  /\ token' = ~ready
  /\ fresh' = {}
  /\ req' = [r \in Requests |-> Idle]
  /\ UNCHANGED <<operator, sessions, clock, starts, used>>

\* What a request can carry: a setup token that is right or wrong, and any
\* code of a secret generated so far, since old, early and mistyped ones are
\* all sent.  With a wrong token the code makes no difference.
Arrival(r) ==
  \E kind \in Kinds, valid \in BOOLEAN, code \in Codes :
    /\ kind = "start" \/ ~valid => code = WrongCode
    /\ kind = "login" => valid
    /\ code \in TOTPCodes => code[1] <= starts
    /\ Arrive(r, kind, valid, code)

Serve(r) ==
  \/ CheckReady(r) \/ CheckSetupToken(r) \/ BeginSetup(r)
  \/ ReadPending(r) \/ CompleteRead(r) \/ CompleteCommit(r) \/ ClearToken(r)
  \/ ReadSecret(r) \/ ConsumeRead(r) \/ ConsumeCommit(r)
  \/ RecoverRead(r) \/ RecoverCommit(r) \/ NewSession(r) \/ TxnConflict(r)

Next ==
  \/ \E r \in Requests : Arrival(r) \/ Serve(r)
  \/ \E k \in sessions : EndSession(k)
  \/ Tick
  \/ Restart

Spec == Init /\ [][Next]_vars

-----------------------------------------------------------------------------
(***************************************************************************)
(* Properties.                                                              *)
(***************************************************************************)
\* There is one operator: once setup is complete its secret stays, no other
\* setup replaces the recovery codes, and none comes back (readme.md:213),
\* whichever bootstrap requests are still on their way.
OneOperator ==
  [][ready => ready' /\ secret' = secret /\ recovery' \subseteq recovery]_vars

\* A TOTP step is consumed at most once (store_test.go:82), the step that
\* confirmed the setup included.
StepsConsumedOnce == \A c \in TOTPCodes : used[c] <= 1

\* A code that was accepted is spent, by however many requests it is sent at the
\* same time and over restarts: a recovery code always (readme.md:217), a TOTP
\* step unless a bootstrap start erased it, which it does at most once for each
\* secret generated besides the operator's own.
CodesAreSpent ==
  /\ \A c \in RecoveryCodes : used[c] <= 1
  /\ \A c \in TOTPCodes : used[c] <= starts

\* Every session was earned by a code that is spent: a TOTP code of the
\* operator's secret or a recovery code that is gone from the store.
SessionsAreEarned ==
  \A c \in sessions : c \notin recovery /\ (c \in TOTPCodes => c[1] = secret)

\* The same with the types.
SessionsInv == TypeOK /\ SessionsAreEarned
=============================================================================
