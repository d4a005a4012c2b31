----------------------------- MODULE Enrollment -----------------------------
(***************************************************************************)
(* What the HOST promises about one instance, without transactions, locks   *)
(* or streams: it is enrolled once; it is online only while it is enrolled; *)
(* it is removed only when somebody asked for it, only when it is offline,  *)
(* and for good; and its agent is sent away only when somebody asked for    *)
(* the removal.                                                             *)
(***************************************************************************)
VARIABLES
  life,      \* new, live or gone
  online,    \* a connection is in the hub
  asked,     \* an operator has asked for the removal
  dismissed  \* the agent has stopped for good

vars == <<life, online, asked, dismissed>>

Init ==
  /\ life = "new"
  /\ ~online
  /\ ~asked
  /\ ~dismissed

Enroll ==
  /\ life = "new"
  /\ life' = "live"
  /\ UNCHANGED <<online, asked, dismissed>>

Attach ==
  /\ life = "live"
  /\ online'
  /\ UNCHANGED <<life, asked, dismissed>>

Leave ==
  /\ ~online'
  /\ UNCHANGED <<life, asked, dismissed>>

Ask ==
  /\ life # "new"
  /\ asked'
  /\ UNCHANGED <<life, online, dismissed>>

Remove ==
  /\ life = "live"
  /\ asked
  /\ ~online
  /\ life' = "gone"
  /\ UNCHANGED <<online, asked, dismissed>>

\* The end of a stream that tells the agent to stop.
Dismiss ==
  /\ asked
  /\ dismissed'
  /\ online' => online
  /\ UNCHANGED <<life, asked>>

Next == Enroll \/ Attach \/ Leave \/ Ask \/ Remove \/ Dismiss

Spec == Init /\ [][Next]_vars
=============================================================================
