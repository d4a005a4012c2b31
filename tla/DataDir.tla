------------------------------- MODULE DataDir -------------------------------
(***************************************************************************)
(* The files that a HOST makes in its data directory when it starts:        *)
(* setup.token (auth.New, until the setup is completed), the certificate    *)
(* authority and the HOST's own certificate (pki.Ensure), each only if it   *)
(* is not there yet.  os.WriteFile opens and truncates before it writes,    *)
(* and a pair is written certificate first; the process may end between any *)
(* two of these steps, and what is on disk then is what the next start      *)
(* finds.  HostProcess runs this module.                                    *)
(*                                                                          *)
(* Keys and tokens are numbers that are never drawn twice.  Cryptography is *)
(* reduced to who signed what for which name.                               *)
(***************************************************************************)
EXTENDS Integers, FiniteSets

CONSTANTS
  Names,   \* values of ULCER_PUBLIC_NAME over time
  NoName   \* a file that carries no name

ASSUME DataDirConstants ==
  /\ IsFiniteSet(Names)
  /\ NoName \notin Names

VARIABLES
  exists,  \* the files that are there
  disk,    \* what they hold
  stage,   \* which of the three the start is at
  step,    \* how far it is with it
  made,    \* what is being written: content of certificate (or token)
  keys,    \* keys and tokens drawn so far
  name,    \* configuration.PublicName of this run
  token    \* Service.setupToken, 0 when it is empty

fileVars == <<exists, disk>>
startVars == <<stage, step, made>>
dirVars == <<fileVars, startVars, keys, name, token>>

Stages == {"token", "ca", "host"}
Crt == [token |-> "setup.token", ca |-> "ca.crt", host |-> "host.crt"]
Key == [ca |-> "ca.key", host |-> "host.key"]
Files == {"setup.token", "ca.crt", "ca.key", "host.crt", "host.key"}
Steps == {"idle", "stat", "crt.open", "crt.write", "key.open", "key.write",
          "load", "done", "failed"}

\* The key a file holds or certifies, who signed it, for which server name.
Content == [key : Nat, signer : Nat, name : Names \cup {NoName}]
Blank == [key |-> 0, signer |-> 0, name |-> NoName]

DirTypeOK ==
  /\ exists \subseteq Files
  /\ disk \in [Files -> Content]
  /\ stage \in Stages
  /\ step \in Steps
  /\ made \in Content
  /\ keys \in Nat
  /\ name \in Names
  /\ token \in Nat

\* A new data directory.
DirInit ==
  /\ exists = {}
  /\ disk = [f \in Files |-> Blank]
  /\ stage = "token"
  /\ step = "idle"
  /\ made = Blank
  /\ keys = 0
  /\ name \in Names
  /\ token = 0

Whole(f) == f \in exists /\ disk[f] # Blank

-----------------------------------------------------------------------------
(***************************************************************************)
(* One stage: look for the file, make it if it is missing, read it.         *)
(***************************************************************************)
StepTo(s) == step' = s /\ UNCHANGED stage

\* MkdirAll and store.Open have succeeded.  auth.New asks for a setup token only
\* as long as there is no operator; it is taken from the file, not from
\* ULCER_SETUP_TOKEN.
BeginStages(configured) ==
  /\ stage' = IF configured THEN "ca" ELSE "token"
  /\ step' = "stat"
  /\ made' = Blank
  /\ token' = 0

\* Mutant: the authority is made anew by every start.
MissingAuthority(f) == f \notin exists \/ f = "ca.crt"

\* Mutant: setupToken does not look for the file.
MissingToken(f) == f \notin exists \/ f = "setup.token"

\* os.IsNotExist of the certificate's or the token's path; the key's path is
\* not looked at.
Missing(f) == f \notin exists

\* What randomHex, GenerateKey and CreateCertificate give: the authority signs
\* itself, the HOST's certificate is signed with the key read from ca.key.
Generated(s) ==
  [key |-> keys + 1,
   signer |-> CASE s = "token" -> 0
                [] s = "ca" -> keys + 1
                [] s = "host" -> disk["ca.key"].key,
   name |-> IF s = "host" THEN name ELSE NoName]

Stat ==
  /\ step = "stat"
  /\ \/ /\ Missing(Crt[stage])
        /\ made' = Generated(stage)
        /\ keys' = keys + 1
        /\ StepTo("crt.open")
     \/ ~Missing(Crt[stage]) /\ StepTo("load") /\ UNCHANGED <<made, keys>>
  /\ UNCHANGED <<fileVars, name, token>>

\* os.WriteFile(certPath): created or truncated, then written.
OpenCrt ==
  /\ step = "crt.open"
  /\ exists' = exists \cup {Crt[stage]}
  /\ disk' = [disk EXCEPT ![Crt[stage]] = Blank]
  /\ StepTo("crt.write")
  /\ UNCHANGED <<made, keys, name, token>>

WriteCrt ==
  /\ step = "crt.write"
  /\ disk' = [disk EXCEPT ![Crt[stage]] = made]
  /\ StepTo(IF stage = "token" THEN "load" ELSE "key.open")
  /\ UNCHANGED <<exists, made, keys, name, token>>

\* os.WriteFile(keyPath).
OpenKey ==
  /\ step = "key.open"
  /\ exists' = exists \cup {Key[stage]}
  /\ disk' = [disk EXCEPT ![Key[stage]] = Blank]
  /\ StepTo("key.write")
  /\ UNCHANGED <<made, keys, name, token>>

WriteKey ==
  /\ step = "key.write"
  /\ disk' = [disk EXCEPT ![Key[stage]] = [Blank EXCEPT !.key = made.key]]
  /\ StepTo("load")
  /\ UNCHANGED <<exists, made, keys, name, token>>

\* Mutant: a certificate for another name is refused.
ReadableSameName(s) ==
  s # "token" =>
    /\ Whole(Crt[s]) /\ Whole(Key[s])
    /\ s = "host" => /\ disk[Crt[s]].key = disk[Key[s]].key
                     /\ disk[Crt[s]].name = name

\* An empty token is a token.  A pair is read, decoded and parsed; that the
\* two belong together is checked of the HOST's by X509KeyPair, and of the
\* authority's by CreateCertificate whenever it signs.
Readable(s) ==
  s # "token" =>
    /\ Whole(Crt[s]) /\ Whole(Key[s])
    /\ s = "host" => disk[Crt[s]].key = disk[Key[s]].key

Load ==
  /\ step = "load"
  /\ \/ ~Readable(stage) /\ StepTo("failed")
     \/ stage = "token" /\ stage' = "ca" /\ step' = "stat"
     \/ stage = "ca" /\ Readable(stage) /\ stage' = "host" /\ step' = "stat"
     \/ stage = "host" /\ Readable(stage) /\ StepTo("done")
  /\ token' = IF stage = "token" THEN disk["setup.token"].key ELSE token
  /\ UNCHANGED <<fileVars, made, keys, name>>

Ensure == Stat \/ OpenCrt \/ WriteCrt \/ OpenKey \/ WriteKey \/ Load

\* The process is gone; the files stay.
Forget ==
  /\ stage' = "token"
  /\ step' = "idle"
  /\ made' = Blank
  /\ token' = 0

-----------------------------------------------------------------------------
\* A pair that a start left behind in pieces: its certificate is there, so no
\* later start makes it again, and one of the two cannot be read.
TornPair(s) == Crt[s] \in exists /\ ~(Whole(Crt[s]) /\ Whole(Key[s]))
Torn == TornPair("ca") \/ TornPair("host")

\* What the files mean to each other at every moment: a key is the one of the
\* certificate beside it, and whatever the HOST's certificate is, the authority
\* on disk signed it.
FilesAgree ==
  /\ \A s \in {"ca", "host"} :
       Whole(Key[s]) => Whole(Crt[s]) /\ disk[Key[s]].key = disk[Crt[s]].key
  /\ Whole("host.crt") =>
       Whole("ca.key") /\ disk["host.crt"].signer = disk["ca.crt"].key
=============================================================================
