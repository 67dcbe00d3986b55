---------------------------- MODULE ReleaseLock ----------------------------
(***************************************************************************)
(* What the in-flight registry promises the rest of the provisioner: a     *)
(* lock on each release that at most one party of this process holds, and  *)
(* a way to seal all of them for a graceful stop.                          *)
(***************************************************************************)
CONSTANTS
    Keys,       \* releases
    Parties     \* who may act on one

VARIABLES
    driver,     \* the parties acting on each release
    sealed,     \* a graceful stop is under way
    quiet       \* it was reported that everything has unwound

vars == <<driver, sealed, quiet>>

Init ==
    /\ driver = [k \in Keys |-> {}]
    /\ sealed = FALSE
    /\ quiet = FALSE

(* A party may take a free release unless a stop is under way. *)
Take(k, p) ==
    /\ ~sealed
    /\ driver[k] = {}
    /\ driver' = [driver EXCEPT ![k] = {p}]
    /\ UNCHANGED <<sealed, quiet>>

Leave(k, p) ==
    /\ driver[k] = {p}
    /\ driver' = [driver EXCEPT ![k] = {}]
    /\ UNCHANGED <<sealed, quiet>>

(* A stop begins, ends, or reports quiet: only while it holds the seal and   *)
(* nobody acts on any release.                                               *)
Stop ==
    /\ sealed' \in BOOLEAN /\ quiet' \in BOOLEAN
    /\ quiet' => sealed' /\ \A k \in Keys : driver[k] = {}
    /\ UNCHANGED driver

Next == Stop \/ \E k \in Keys, p \in Parties : Take(k, p) \/ Leave(k, p)

Spec == Init /\ [][Next]_vars
=============================================================================
