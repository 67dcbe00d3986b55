--------------------------- MODULE ReleasePromise ---------------------------
(***************************************************************************)
(* What the commands of the Helm release provisioner promise the agent.    *)
(* The release is in one of its desired states, or in between.  It moves   *)
(* only while something it was asked for is not over, only to what it was  *)
(* asked for, and is there when the agent is told so.  A success ends all  *)
(* that was asked for before: what the agent was told stands until it asks *)
(* for something else.  Only an agent that once stopped listening may find *)
(* that what it had asked for goes on.                                     *)
(***************************************************************************)
CONSTANT States

VARIABLES
    at,         \* the state the release is in: a set with it, or none
    asked,      \* the command the agent waits for: a set with its state
    promised,   \* the state the last answer said the release is in
    owed,       \* what was asked for and is not over
    patient     \* the agent has waited for every answer

vars == <<at, asked, promised, owed, patient>>

Init ==
    /\ at \in {{s} : s \in States}
    /\ asked = {} /\ promised = {} /\ owed = {} /\ patient = TRUE

Ask(s) ==
    /\ asked = {}
    /\ asked' = {s} /\ promised' = {} /\ owed' = owed \cup {s}
    /\ UNCHANGED <<at, patient>>

Work ==
    /\ owed # {}
    /\ at' \in {at, {}} \cup {{s} : s \in owed}
    /\ owed' \subseteq owed /\ asked \subseteq owed'
    /\ UNCHANGED <<asked, promised, patient>>

Succeed ==
    /\ asked # {} /\ at = asked
    /\ asked' = {} /\ promised' = asked
    /\ owed' \subseteq owed /\ (patient => owed' = {})
    /\ UNCHANGED <<at, patient>>

Fail ==
    /\ asked # {}
    /\ asked' = {} /\ owed' \subseteq owed
    /\ UNCHANGED <<at, promised, patient>>

StopListening ==
    /\ asked # {}
    /\ patient' = FALSE
    /\ UNCHANGED <<at, asked, promised, owed>>

Next == (\E s \in States : Ask(s)) \/ Work \/ Succeed \/ Fail \/ StopListening

Spec == Init /\ [][Next]_vars
=============================================================================
