------------------------ MODULE FlightRegistryProofs ------------------------
(***************************************************************************)
(* Safety of the in-flight registry for every number of releases,          *)
(* callbacks and drains.                                                   *)
(***************************************************************************)
EXTENDS FlightRegistry, FiniteSetTheorems, TLAPS

Holders(k) == {c \in Calls : arg[c].key = k /\ held[c] # NoCall}

ActiveDrains == {d \in Drains : drains[d] \notin {"idle", "over"}}

(* activeDrains counts the drains that have started and not returned. *)
DrainsCounted == activeDrains = Cardinality(ActiveDrains)

IInv == TypeOK /\ Consistency /\ ReadersCounted /\ DrainsCounted

-----------------------------------------------------------------------------
(* Counting *)

(* A flight nobody is counted for is retained by nobody. *)
LEMMA NoReaders ==
    ASSUME ReadersCounted, NEW k \in Keys, flights[k].readers = 0
    PROVE  \A c \in Calls : arg[c].key = k => held[c] = NoCall
<1>1. IsFiniteSet(Holders(k))
  BY CallsAssumption, FS_Subset, Zenon DEF Holders
<1>2. Cardinality(Holders(k)) = 0
  BY DEF ReadersCounted, Holders
<1>3. Holders(k) = {}
  BY <1>1, <1>2, FS_EmptySet
<1> QED  BY <1>3 DEF Holders

(* A reader of a flight is counted, and is alone if the count is one. *)
LEMMA LastReader ==
    ASSUME TypeOK, ReadersCounted, NEW c \in Calls, held[c] # NoCall
    PROVE  /\ Flt(c).readers \in Nat \ {0}
           /\ Flt(c).readers = 1 =>
                \A d \in Calls : arg[d].key = arg[c].key /\ held[d] # NoCall => d = c
<1> DEFINE k == arg[c].key
           H == Holders(k)
<1>0. k \in Keys
  BY DEF TypeOK, Args
<1>1. IsFiniteSet(H)
  BY CallsAssumption, FS_Subset, Zenon DEF Holders
<1>2. flights[k].readers = Cardinality(H)
  BY <1>0 DEF ReadersCounted, Holders
<1>3. c \in H
  BY DEF Holders
<1>4. Cardinality(H) \in Nat /\ Cardinality(H) # 0
  BY <1>1, <1>3, FS_EmptySet, FS_CardinalityType
<1>5. Cardinality(H) = 1 => H = {c}
  <2>1. SUFFICES ASSUME Cardinality(H) = 1  PROVE H = {c}
    OBVIOUS
  <2>2. PICK x : H = {x}
    BY <1>1, <2>1, FS_Singleton
  <2> QED  BY <2>2, <1>3
<1> QED  BY <1>2, <1>4, <1>5 DEF Flt, Holders

(* While a drain is under way the counter is not zero. *)
LEMMA DrainCounted ==
    ASSUME DrainsCounted, NEW d \in Drains, drains[d] \notin {"idle", "over"}
    PROVE  activeDrains # 0
<1>1. IsFiniteSet(ActiveDrains)
  BY DrainsAssumption, FS_Subset, Zenon DEF ActiveDrains
<1>2. d \in ActiveDrains
  BY DEF ActiveDrains
<1> QED  BY <1>1, <1>2, FS_EmptySet DEF DrainsCounted

-----------------------------------------------------------------------------
(* Initial states *)

LEMMA InitIInv == Init => IInv
<1> SUFFICES ASSUME Init PROVE IInv
  OBVIOUS
<1>1. TypeOK
  BY DEF Init, TypeOK, Absent, Flight, Phases, PCs, Answers
<1>2. Consistency
  BY CallsAssumption DEF Init, Consistency, FlightOK, CallOK, Absent, Ended, Flt, Args
<1>3. ReadersCounted
  <2>1. \A k \in Keys : Holders(k) = {}
    BY DEF Init, Holders
  <2> QED  BY <2>1, FS_EmptySet DEF Init, ReadersCounted, Absent, Holders
<1>4. DrainsCounted
  <2>1. ActiveDrains = {}
    BY DEF Init, ActiveDrains
  <2> QED  BY <2>1, FS_EmptySet DEF Init, DrainsCounted
<1> QED  BY <1>1, <1>2, <1>3, <1>4 DEF IInv

-----------------------------------------------------------------------------
(* Consistency, one step at a time *)

(* A step of callback p, or of its worker or timer, that touches no other    *)
(* callback and no other key.                                                *)
Local(p) ==
    /\ UNCHANGED arg
    /\ \A j \in Keys : j # arg[p].key => flights'[j] = flights[j]
    /\ \A c \in Calls : c # p =>
          /\ pc'[c] = pc[c] /\ held'[c] = held[c] /\ seen'[c] = seen[c]
          /\ workers'[c] = workers[c] /\ (c \in timers' <=> c \in timers)

(* It is enough to look at its own entry, itself, and the callbacks that     *)
(* share the entry.                                                          *)
LEMMA LocalStep ==
    ASSUME IInv, NEW p \in Calls, Local(p), FlightOK(arg[p].key)', CallOK(p)',
           \A c \in Calls : c # p /\ arg[c].key = arg[p].key => CallOK(c)'
    PROVE  Consistency'
<1>1. ASSUME NEW j \in Keys PROVE FlightOK(j)'
  <2>1. CASE j = arg[p].key
    BY <2>1 DEF Local
  <2>2. CASE j # arg[p].key
    <3>1. flights'[j] = flights[j] /\ FlightOK(j) /\ flights[j] \in Flight
      BY <2>2, <1>1 DEF Local, IInv, Consistency, TypeOK
    <3>2. flights[j].gen # NoCall =>
            /\ flights[j].gen \in Calls /\ flights[j].gen # p
      BY <3>1, <2>2 DEF FlightOK, Flight
    <3>3. flights[j].gen = NoCall => flights[j].phase = "none" /\ ~flights[j].reported
      BY <3>1 DEF FlightOK, Absent
    <3> QED  BY <3>1, <3>2, <3>3 DEF FlightOK, Local, Ended
  <2> QED  BY <2>1, <2>2
<1>2. ASSUME NEW c \in Calls PROVE CallOK(c)'
  <2>1. CASE arg[c].key = arg[p].key
    BY <2>1, <1>2
  <2>2. CASE arg[c].key # arg[p].key
    <3>1. arg[c].key \in Keys
      BY DEF IInv, TypeOK, Args
    <3>2. Flt(c)' = Flt(c) /\ CallOK(c)
      BY <2>2, <3>1, <1>2 DEF Local, Flt, IInv, Consistency
    <3> QED  BY <3>2, <2>2, <1>2 DEF CallOK, Local
  <2> QED  BY <2>1, <2>2
<1> QED  BY <1>1, <1>2 DEF Consistency

(* What the invariant says where p stands. *)
LEMMA Here ==
    ASSUME IInv, NEW p \in Calls
    PROVE  /\ arg[p].key \in Keys /\ p # NoCall
           /\ Flt(p) \in Flight /\ FlightOK(arg[p].key) /\ CallOK(p)
           /\ flights \in [Keys -> Flight] /\ pc \in [Calls -> PCs]
           /\ held \in [Calls -> Calls \cup {NoCall}]
           /\ workers \in [Calls -> {"none", "running", "ended"}]
           /\ seen \in [Calls -> Phases \cup {"progress", "success", "failure"}]
           /\ \A c \in Calls : CallOK(c)
BY CallsAssumption DEF IInv, TypeOK, Args, Flt, Consistency

LEMMA ReserveC ==
    ASSUME IInv, NEW p \in Calls, ReserveFlight(p) \/ AcquireRecovery(p)
    PROVE  Consistency'
<1> DEFINE k == arg[p].key
<1> USE Here
<1>1. /\ flights' = [flights EXCEPT ![k] = Reservation(p)] /\ Flt(p) = Absent
      /\ pc[p] = "idle" /\ pc' = [pc EXCEPT ![p] = pc'[p]]
      /\ pc'[p] \in {"preparing", "recovering"}
      /\ UNCHANGED <<arg, held, seen, workers, timers>>
  BY DEF ReserveFlight, AcquireRecovery, Flt, Goto, SetFlight, workVars
<1>2. Local(p)
  BY <1>1 DEF Local
<1>3. flights'[k] = Reservation(p) /\ Flt(p)' = Reservation(p)
  BY <1>1 DEF Flt
<1>4. workers[p] = "none" /\ held[p] = NoCall
  BY <1>1 DEF CallOK
<1>5. FlightOK(k)'
  BY <1>1, <1>3, <1>4 DEF FlightOK, Reservation, Ended
<1>6. CallOK(p)'
  BY <1>1, <1>3, <1>4 DEF CallOK, Reservation
<1>7. ASSUME NEW c \in Calls, c # p, arg[c].key = k PROVE CallOK(c)'
  BY <1>7, <1>1 DEF CallOK, Flt, Absent
<1> QED  BY <1>2, <1>5, <1>6, <1>7, LocalStep

(* A step that leaves the registry, the readers and the workers alone. *)
Quiet(p) ==
    /\ UNCHANGED <<flights, arg, held, workers, timers>>
    /\ \A c \in Calls : c # p => pc'[c] = pc[c] /\ seen'[c] = seen[c]
    /\ pc[p] \in {"preparing", "recovering", "unreserving"} =>
          pc'[p] \in {"preparing", "recovering", "unreserving"}

LEMMA QuietStep ==
    ASSUME IInv, NEW p \in Calls, Quiet(p), CallOK(p)'
    PROVE  Consistency'
<1> USE Here
<1>1. Local(p)
  BY DEF Quiet, Local
<1>2. FlightOK(arg[p].key)'
  <2> DEFINE f == flights[arg[p].key]
  <2>1. f \in Flight /\ FlightOK(arg[p].key)
    BY DEF Flt
  <2>2. f.gen = NoCall => f.phase = "none" /\ ~f.reported
    BY <2>1 DEF FlightOK, Absent
  <2>3. f.gen # NoCall => f.gen \in Calls
    BY <2>1 DEF Flight
  <2> QED  BY <2>1, <2>2, <2>3 DEF Quiet, FlightOK, Ended
<1>3. ASSUME NEW c \in Calls, c # p PROVE CallOK(c)'
  BY <1>3 DEF Quiet, CallOK, Flt
<1> QED  BY <1>1, <1>2, <1>3, LocalStep

(* A reservation that ends in an answer is still there to be removed. *)
LEMMA DecideC ==
    ASSUME IInv, NEW p \in Calls,
           DeclineSubmit(p) \/ ActivationRefused(p) \/ RecoveryReads(p)
    PROVE  Consistency'
<1> USE Here
<1>1. /\ pc[p] \in {"preparing", "recovering"} /\ pc' = [pc EXCEPT ![p] = "unreserving"]
      /\ UNCHANGED <<flights, arg, held, seen, workers, timers>>
  BY DEF DeclineSubmit, ActivationRefused, RecoveryReads, Goto, workVars
<1>2. Quiet(p)
  BY <1>1 DEF Quiet
<1>3. CallOK(p)'
  BY <1>1 DEF CallOK, Flt
<1> QED  BY <1>2, <1>3, QuietStep

(* A callback that holds nothing returns. *)
LEMMA RefuseC ==
    ASSUME IInv, NEW p \in Calls,
           RefuseSubmit(p) \/ RefuseStatus(p) \/ ObserveUnidentified(p) \/ AwaitRecorded(p)
    PROVE  Consistency'
<1> USE Here
<1>1. /\ pc[p] \in {"idle", "awaiting"} /\ pc' = [pc EXCEPT ![p] = "done"]
      /\ UNCHANGED <<flights, arg, held, seen, workers, timers>>
  BY DEF RefuseSubmit, RefuseStatus, ObserveUnidentified, AwaitRecorded, Goto, workVars
<1>2. Quiet(p)
  BY <1>1 DEF Quiet
<1>3. CallOK(p)'
  BY <1>1 DEF CallOK, Flt
<1> QED  BY <1>2, <1>3, QuietStep

(* A failed wait returns the worker's error, or whatever the flight says. *)
LEMMA AwaitFailsC ==
    ASSUME IInv, NEW p \in Calls, AwaitFails(p)
    PROVE  Consistency'
<1> USE Here
<1>1. /\ pc[p] = "awaiting" /\ pc' = [pc EXCEPT ![p] = pc'[p]]
      /\ pc'[p] \in {"done", "consuming"}
      /\ UNCHANGED <<flights, arg, held, seen, workers, timers>>
  BY DEF AwaitFails, AfterFlightError, Goto
<1>2. Quiet(p)
  BY <1>1 DEF Quiet
<1>3. CallOK(p)'
  BY <1>1 DEF CallOK, Flt
<1> QED  BY <1>2, <1>3, QuietStep

(* A reader of the flight moves on and still holds it. *)
LEMMA ReaderC ==
    ASSUME IInv, NEW p \in Calls,
           \/ RejoinProgress(p) \/ RejoinFails(p)
           \/ StatusOverdue(p) \/ StatusReads(p) \/ StatusFails(p)
    PROVE  Consistency'
<1> USE Here
<1>1. /\ pc[p] \in {"rejoined", "matched"} /\ pc' = [pc EXCEPT ![p] = pc'[p]]
      /\ pc'[p] \in {"reconciling", "consuming", "releasing"}
      /\ pc'[p] = "reconciling" => seen'[p] \in {"progress", "success", "failure"}
      /\ \A c \in Calls : c # p => seen'[c] = seen[c]
      /\ UNCHANGED <<flights, arg, held, workers, timers>>
  <2>1. CASE RejoinProgress(p)
    BY <2>1 DEF RejoinProgress, Goto, workVars
  <2>2. CASE RejoinFails(p)
    BY <2>2 DEF RejoinFails, AfterFlightError, Goto
  <2>3. CASE StatusOverdue(p)
    BY <2>3 DEF StatusOverdue, Goto
  <2>4. CASE StatusReads(p)
    BY <2>4 DEF StatusReads, Goto, workVars
  <2>5. CASE StatusFails(p)
    BY <2>5 DEF StatusFails, Goto
  <2> QED  BY <2>1, <2>2, <2>3, <2>4, <2>5
<1>2. Quiet(p)
  BY <1>1 DEF Quiet
<1>3. CallOK(p)'
  BY <1>1 DEF CallOK, Flt
<1> QED  BY <1>2, <1>3, QuietStep

LEMMA PassDeadlineC ==
    ASSUME IInv, NEW p \in Calls, PassDeadline(p)
    PROVE  Consistency'
<1> USE Here
<1>1. Quiet(p)
  BY DEF PassDeadline, Quiet, callVars
<1>2. CallOK(p)'
  BY DEF PassDeadline, CallOK, callVars, Flt
<1> QED  BY <1>1, <1>2, QuietStep

(* A callback retains the flight it matches. *)
LEMMA RetainC ==
    ASSUME IInv, NEW p \in Calls, RejoinFlight(p) \/ AcquireFlight(p)
    PROVE  Consistency'
<1> DEFINE k == arg[p].key
<1> USE Here
<1>1. /\ flights' = [flights EXCEPT ![k] = AddReader(Flt(p))]
      /\ Flt(p).gen # NoCall /\ Flt(p).phase # "preparing"
      /\ pc[p] = "idle" /\ pc' = [pc EXCEPT ![p] = pc'[p]]
      /\ held' = [held EXCEPT ![p] = Flt(p).gen]
      /\ seen' = [seen EXCEPT ![p] = seen'[p]]
      /\ pc'[p] \in {"rejoined", "matched", "reconciling"}
      /\ pc'[p] = "reconciling" => Flt(p).phase = "err"
      /\ UNCHANGED <<arg, workers, timers>>
  <2>1. CASE RejoinFlight(p)
    BY <2>1 DEF RejoinFlight, MatchesRejoin, Goto, SetFlight, workVars
  <2>2. CASE AcquireFlight(p)
    BY <2>2 DEF AcquireFlight, MatchesStatus, Goto, SetFlight, workVars
  <2> QED  BY <2>1, <2>2
<1>2. Local(p)
  BY <1>1 DEF Local
<1>3. /\ flights'[k] = AddReader(Flt(p)) /\ Flt(p)' = AddReader(Flt(p))
      /\ AddReader(Flt(p)).gen = Flt(p).gen
      /\ AddReader(Flt(p)).phase = Flt(p).phase
      /\ AddReader(Flt(p)).reported = Flt(p).reported
  BY <1>1 DEF Flt, AddReader, Flight
<1>4. workers[p] = "none" /\ held[p] = NoCall
  BY <1>1 DEF CallOK
<1>5. FlightOK(k)'
  <2>1. LET f == Flt(p)
        IN  /\ f.gen \in Calls /\ f.gen # NoCall /\ f.phase # "preparing"
            /\ f.phase # "none" /\ arg[f.gen].key = k
            /\ f.phase = "running" => workers[f.gen] = "running"
            /\ f.phase \in Ended => workers[f.gen] = "ended"
            /\ f.reported => f.phase \in Ended
    BY <1>1 DEF FlightOK, Flt, Flight
  <2>2. LET f == flights'[k]
        IN  /\ f.gen = Flt(p).gen /\ f.phase = Flt(p).phase /\ f.reported = Flt(p).reported
    BY <1>3
  <2> QED  BY <1>1, <2>1, <2>2 DEF FlightOK
<1>6. CallOK(p)'
  BY <1>1, <1>3, <1>4 DEF CallOK, Flight
<1>7. ASSUME NEW c \in Calls, c # p, arg[c].key = k PROVE CallOK(c)'
  <2>1. Flt(c) = Flt(p) /\ Flt(c)' = Flt(p)'
    BY <1>7, <1>1 DEF Flt
  <2> QED  BY <2>1, <1>7, <1>1, <1>3 DEF CallOK
<1> QED  BY <1>2, <1>5, <1>6, <1>7, LocalStep

LEMMA ActivateC ==
    ASSUME IInv, NEW p \in Calls, ActivateFlight(p)
    PROVE  Consistency'
<1> DEFINE k == arg[p].key
           f == [Flt(p) EXCEPT !.phase = "running", !.cancel = TRUE]
<1> USE Here
<1>1. /\ flights' = [flights EXCEPT ![k] = f] /\ Flt(p).gen = p
      /\ pc[p] = "preparing" /\ pc' = [pc EXCEPT ![p] = pc'[p]]
      /\ pc'[p] \in {"awaiting", "done"}
      /\ workers' = [workers EXCEPT ![p] = "running"]
      /\ UNCHANGED <<arg, held, seen, timers>>
  BY DEF ActivateFlight, CanActivate, Owns, Goto, SetFlight
<1>2. Local(p)
  BY <1>1 DEF Local
<1>3. /\ flights'[k] = f /\ Flt(p)' = f /\ f.gen = p /\ f.phase = "running"
      /\ f.reported = Flt(p).reported /\ f.readers = Flt(p).readers
  <2>1. flights'[k] = f /\ Flt(p)' = f
    BY <1>1 DEF Flt
  <2>2. /\ f.gen = Flt(p).gen /\ f.phase = "running"
        /\ f.reported = Flt(p).reported /\ f.readers = Flt(p).readers
    BY DEF Flight
  <2> QED  BY <1>1, <2>1, <2>2
<1>4. Flt(p).phase = "preparing" /\ workers[p] = "none" /\ held[p] = NoCall
      /\ p \notin timers /\ ~Flt(p).reported
  BY <1>1 DEF CallOK, FlightOK, Flt, Ended
<1>5. FlightOK(k)'
  BY <1>1, <1>3, <1>4 DEF FlightOK, Ended
<1>6. CallOK(p)'
  BY <1>1, <1>3, <1>4 DEF CallOK
<1>7. ASSUME NEW c \in Calls, c # p, arg[c].key = k PROVE CallOK(c)'
  <2>1. Flt(c) = Flt(p) /\ Flt(c)' = f
    BY <1>7, <1>1, <1>3 DEF Flt
  <2> QED  BY <2>1, <1>7, <1>1, <1>3, <1>4 DEF CallOK
<1> QED  BY <1>2, <1>5, <1>6, <1>7, LocalStep

(* Reporting the outcome of a finished flight: a retained entry stays. *)
LEMMA ReportStep ==
    ASSUME IInv, NEW p \in Calls, Local(p), CallOK(p)',
           flights' = [flights EXCEPT ![arg[p].key] = Report(Flt(p))],
           Flt(p).phase \in Ended,
           UNCHANGED workers
    PROVE  Consistency'
<1> DEFINE k == arg[p].key
<1> USE Here
<1>1. flights'[k] = Report(Flt(p)) /\ UNCHANGED arg
  BY DEF Local
<1>2. /\ Flt(p).readers = 0 => Report(Flt(p)) = Absent
      /\ Flt(p).readers # 0 => /\ Report(Flt(p)).gen = Flt(p).gen
                               /\ Report(Flt(p)).phase = Flt(p).phase
  BY DEF Report, Flight
<1>3. Flt(p).gen # NoCall /\ Flt(p).gen \in Calls /\ workers[Flt(p).gen] = "ended"
  BY DEF FlightOK, Flt, Absent, Ended, Flight
<1>4. FlightOK(k)'
  BY <1>1, <1>2, <1>3 DEF FlightOK, Absent, Ended, Flt
<1>5. ASSUME NEW c \in Calls, c # p, arg[c].key = k PROVE CallOK(c)'
  <2>1. Flt(c) = Flt(p) /\ Flt(c)' = Report(Flt(p))
    BY <1>5, <1>1 DEF Flt
  <2>2. held[c] # NoCall => Flt(p).readers # 0
    BY <1>5, <2>1, LastReader DEF IInv
  <2>3. /\ pc[c] \notin {"preparing", "recovering", "unreserving"}
        /\ workers[c] # "running"
    BY <2>1, <1>3 DEF CallOK, Ended
  <2> QED  BY <1>2, <1>5, <2>1, <2>2, <2>3 DEF CallOK, Local
<1> QED  BY <1>4, <1>5, LocalStep

(* After the report, p itself still finds the flight if it holds it. *)
LEMMA ReportHere ==
    ASSUME IInv, NEW p \in Calls,
           UNCHANGED <<arg, held>>,
           flights' = [flights EXCEPT ![arg[p].key] = Report(Flt(p))]
    PROVE  held[p] # NoCall => /\ Flt(p)'.gen = held[p]
                               /\ Flt(p)'.phase = Flt(p).phase
<1> USE Here
<1>1. Flt(p)' = Report(Flt(p))
  BY DEF Flt
<1>2. held[p] # NoCall => Flt(p).readers # 0
  BY LastReader DEF IInv
<1> QED  BY <1>1, <1>2 DEF Report, CallOK, Flight

LEMMA ConsumeC ==
    ASSUME IInv, NEW p \in Calls, ConsumeFailure(p)
    PROVE  Consistency'
<1> USE Here
<1>1. /\ pc[p] = "consuming" /\ pc' = [pc EXCEPT ![p] = pc'[p]]
      /\ pc'[p] = IF held[p] = NoCall THEN "done" ELSE "releasing"
      /\ UNCHANGED <<arg, held, seen, workers, timers>>
  BY DEF ConsumeFailure, Goto, workVars
<1>2. CASE UNCHANGED flights
  <2>1. CallOK(p)'
    BY <1>1, <1>2 DEF CallOK, Flt
  <2>2. Quiet(p)
    BY <1>1, <1>2 DEF Quiet
  <2> QED  BY <2>1, <2>2, QuietStep
<1>3. CASE /\ flights' = [flights EXCEPT ![arg[p].key] = Report(Flt(p))]
           /\ Flt(p).phase = "err"
  <2>1. Local(p)
    BY <1>1, <1>3 DEF Local
  <2>2. workers[p] # "running"
    BY <1>3 DEF CallOK, FlightOK, Ended, Flt
  <2>3. CallOK(p)'
    BY <1>1, <1>3, <2>2, ReportHere DEF CallOK
  <2> QED  BY <1>1, <1>3, <2>1, <2>3, ReportStep DEF Ended
<1> QED  BY <1>2, <1>3 DEF ConsumeFailure, SetFlight

LEMMA RetireC ==
    ASSUME IInv, NEW p \in Calls, RetireFlight(p)
    PROVE  Consistency'
<1> USE Here
<1>1. /\ p \in timers /\ timers' = timers \ {p} /\ workers[p] = "ended"
      /\ UNCHANGED <<arg, pc, held, seen, workers>>
  BY DEF RetireFlight, callVars, CallOK
<1>2. CASE ~Owns(p, p)
  <2>1. UNCHANGED flights
    BY <1>2 DEF RetireFlight
  <2>2. Local(p) /\ CallOK(p)'
    BY <1>1, <2>1 DEF CallOK, Local, Flt
  <2>3. FlightOK(arg[p].key)'
    BY <1>1, <2>1 DEF FlightOK
  <2>4. ASSUME NEW c \in Calls, c # p PROVE CallOK(c)'
    BY <1>1, <2>1, <2>4 DEF CallOK, Flt
  <2> QED  BY <2>2, <2>3, <2>4, LocalStep
<1>3. CASE Owns(p, p)
  <2>1. flights' = [flights EXCEPT ![arg[p].key] = Report(Flt(p))]
    BY <1>3 DEF RetireFlight, SetFlight
  <2>2. Flt(p).phase \in Ended
    BY <1>1, <1>3 DEF Owns, FlightOK, Flt, Flight, Phases, Ended
  <2>3. Local(p)
    BY <1>1, <2>1 DEF Local
  <2>4. held[p] = NoCall /\ pc[p] \in {"awaiting", "consuming", "done"}
    BY <1>1 DEF CallOK
  <2>5. CallOK(p)'
    BY <1>1, <2>4 DEF CallOK
  <2> QED  BY <1>1, <2>1, <2>2, <2>3, <2>5, ReportStep
<1> QED  BY <1>2, <1>3

LEMMA ReconcileC ==
    ASSUME IInv, NEW p \in Calls, ReconcileFlightResult(p)
    PROVE  Consistency'
<1> USE Here
<1>1. /\ pc[p] = "reconciling" /\ pc' = [pc EXCEPT ![p] = "releasing"]
      /\ UNCHANGED <<arg, held, seen, workers, timers>>
  BY DEF ReconcileFlightResult, Goto, workVars
<1>2. held[p] # NoCall /\ workers[p] = "none" /\ Flt(p).phase # "preparing"
      /\ Flt(p).gen = held[p]
  BY <1>1 DEF CallOK
<1>3. CASE UNCHANGED flights
  <2>1. CallOK(p)'
    BY <1>1, <1>3 DEF CallOK, Flt
  <2>2. Quiet(p)
    BY <1>1, <1>3 DEF Quiet
  <2> QED  BY <2>1, <2>2, QuietStep
<1>4. CASE /\ flights' = [flights EXCEPT ![arg[p].key] = Report(Flt(p))]
           /\ Flt(p).phase # "running"
  <2>1. Local(p)
    BY <1>1, <1>4 DEF Local
  <2>2. Flt(p).phase \in Ended
    BY <1>2, <1>4 DEF FlightOK, Flt, Flight, Phases, Ended
  <2>3. CallOK(p)'
    <3>1. Flt(p)'.gen = held[p] /\ Flt(p)'.phase # "preparing"
      BY <1>1, <1>2, <1>4, ReportHere
    <3>2. /\ pc'[p] = "releasing" /\ held'[p] = held[p] /\ held[p] # NoCall
          /\ workers'[p] = "none" /\ p \notin timers'
      BY <1>1, <1>2 DEF CallOK
    <3> QED  BY <3>1, <3>2 DEF CallOK
  <2> QED  BY <1>1, <1>4, <2>1, <2>2, <2>3, ReportStep
<1>5. flights' = [flights EXCEPT ![arg[p].key] = Flt(p)] => UNCHANGED flights
  BY DEF Flt
<1> QED  BY <1>3, <1>4, <1>5 DEF ReconcileFlightResult, Conclusive

(* A reservation that started nothing is gone when its callback returns. *)
LEMMA RemoveC ==
    ASSUME IInv, NEW p \in Calls, RemoveReservation(p)
    PROVE  Consistency'
<1> DEFINE k == arg[p].key
<1> USE Here
<1>1. /\ pc[p] = "unreserving" /\ pc' = [pc EXCEPT ![p] = "done"]
      /\ UNCHANGED <<arg, held, seen, workers, timers>>
  BY DEF RemoveReservation, Goto, workVars
<1>2. Flt(p).gen = p /\ Flt(p).phase = "preparing" /\ Flt(p).readers = 0
  BY <1>1 DEF CallOK, FlightOK, Flt
<1>3. flights' = [flights EXCEPT ![k] = Absent]
  BY <1>2 DEF RemoveReservation, Owns, SetFlight, Report
<1>4. Local(p)
  BY <1>1, <1>3 DEF Local
<1>5. flights'[k] = Absent /\ Flt(p)' = Absent
  BY <1>1, <1>3 DEF Flt
<1>6. FlightOK(k)'
  BY <1>1, <1>5 DEF FlightOK, Absent, Ended
<1>7. workers[p] = "none" /\ held[p] = NoCall
  BY <1>1, <1>2 DEF CallOK
<1>8. CallOK(p)'
  BY <1>1, <1>7 DEF CallOK
<1>9. ASSUME NEW c \in Calls, c # p, arg[c].key = k PROVE CallOK(c)'
  <2>1. Flt(c) = Flt(p)
    BY <1>9 DEF Flt
  <2>2. /\ pc[c] \notin {"preparing", "recovering", "unreserving"}
        /\ workers[c] # "running" /\ held[c] = NoCall
    BY <1>2, <1>9, <2>1 DEF CallOK
  <2> QED  BY <1>1, <1>9, <2>2 DEF CallOK
<1> QED  BY <1>4, <1>6, <1>8, <1>9, LocalStep

(* The last reader removes a reported flight; no other reader needs it. *)
LEMMA ReleaseC ==
    ASSUME IInv, NEW p \in Calls, ReleaseReader(p)
    PROVE  Consistency'
<1> DEFINE k == arg[p].key
           f == DropReader(Flt(p))
<1> USE Here
<1>1. /\ pc[p] = "releasing" /\ pc' = [pc EXCEPT ![p] = "done"]
      /\ held' = [held EXCEPT ![p] = NoCall]
      /\ UNCHANGED <<arg, seen, workers, timers>>
  BY DEF ReleaseReader, Goto, workVars
<1>2. /\ held[p] # NoCall /\ Flt(p).gen = held[p] /\ Flt(p).gen \in Calls
      /\ Flt(p).phase # "preparing" /\ workers[p] = "none"
  BY <1>1 DEF CallOK
<1>3. flights' = [flights EXCEPT ![k] = f]
  BY <1>2 DEF ReleaseReader, Owns, SetFlight
<1>4. Local(p)
  BY <1>1, <1>3 DEF Local
<1>5. flights'[k] = f /\ Flt(p)' = f
  BY <1>1, <1>3 DEF Flt
<1>6. Flt(p).readers \in Nat \ {0}
  BY <1>2, LastReader DEF IInv
<1>7. \/ f = Absent /\ Flt(p).readers = 1 /\ Flt(p).reported
      \/ f.gen = Flt(p).gen /\ f.phase = Flt(p).phase /\ f.reported = Flt(p).reported
  BY <1>6 DEF DropReader, Flight
<1>8. FlightOK(k)'
  <2>1. CASE f = Absent
    <3>1. flights'[k] = Absent
      BY <1>5, <2>1
    <3>2. Absent.gen = NoCall /\ Absent.phase = "none" /\ Absent.reported = FALSE
      BY DEF Absent
    <3> QED  BY <1>1, <3>1, <3>2 DEF FlightOK, Ended
  <2>2. CASE f.gen = Flt(p).gen /\ f.phase = Flt(p).phase /\ f.reported = Flt(p).reported
    <3>1. /\ f.gen \in Calls /\ f.gen # NoCall /\ f.phase # "preparing"
          /\ f.phase # "none" /\ arg[f.gen].key = k
          /\ f.phase = "running" => workers[f.gen] = "running"
          /\ f.phase \in Ended => workers[f.gen] = "ended"
          /\ f.reported => f.phase \in Ended
      BY <1>2, <2>2 DEF FlightOK, Flt
    <3> QED  BY <1>1, <1>5, <3>1 DEF FlightOK
  <2> QED  BY <1>7, <2>1, <2>2
<1>9. CallOK(p)'
  <2>1. pc'[p] = "done" /\ held'[p] = NoCall /\ workers'[p] = "none" /\ p \notin timers'
    BY <1>1, <1>2 DEF CallOK
  <2> QED  BY <2>1 DEF CallOK
<1>10. ASSUME NEW c \in Calls, c # p, arg[c].key = k PROVE CallOK(c)'
  <2>1. Flt(c) = Flt(p) /\ Flt(c)' = f
    BY <1>5, <1>10, <1>1 DEF Flt
  <2>2. Flt(p).readers = 1 => held[c] = NoCall
    BY <1>2, <1>10, LastReader DEF IInv
  <2>3. pc[c] \notin {"preparing", "recovering", "unreserving"}
    BY <1>2, <2>1 DEF CallOK
  <2>4. Flt(p).reported => workers[c] # "running"
    BY <2>1 DEF CallOK, FlightOK, Flt, Ended
  <2> QED  BY <1>1, <1>7, <1>10, <2>1, <2>2, <2>3, <2>4 DEF CallOK
<1> QED  BY <1>4, <1>8, <1>9, <1>10, LocalStep

(* The worker's outcome lands in its own flight, which is still there. *)
LEMMA FinishC ==
    ASSUME IInv, NEW p \in Calls, FinishFlight(p)
    PROVE  Consistency'
<1> DEFINE k == arg[p].key
<1> USE Here
<1>1. /\ workers[p] = "running" /\ workers' = [workers EXCEPT ![p] = "ended"]
      /\ timers' = timers \cup {p}
      /\ UNCHANGED <<arg, pc, held, seen>>
  BY DEF FinishFlight, callVars
<1>2. Flt(p).gen = p /\ Flt(p).phase = "running" /\ ~Flt(p).reported
  BY <1>1 DEF CallOK, FlightOK, Flt, Flight, Phases, Ended
<1>3. PICK o \in Ended :
        flights' = [flights EXCEPT ![k] = [Flt(p) EXCEPT !.phase = o, !.cancel = FALSE]]
  BY <1>2 DEF FinishFlight, Owns, Finished, Ended, SetFlight
<1> DEFINE f == [Flt(p) EXCEPT !.phase = o, !.cancel = FALSE]
<1>4. Local(p)
  BY <1>1, <1>3 DEF Local
<1>5. /\ flights'[k] = f /\ Flt(p)' = f /\ f.gen = p /\ f.phase \in Ended
      /\ ~f.reported
  <2>1. flights'[k] = f /\ Flt(p)' = f
    BY <1>1, <1>3 DEF Flt
  <2>2. f.gen = Flt(p).gen /\ f.phase = o /\ f.reported = Flt(p).reported
    BY DEF Flight
  <2> QED  BY <1>2, <1>3, <2>1, <2>2
<1>6. FlightOK(k)'
  BY <1>1, <1>5 DEF FlightOK, Ended
<1>7. CallOK(p)'
  BY <1>1 DEF CallOK
<1>8. ASSUME NEW c \in Calls, c # p, arg[c].key = k PROVE CallOK(c)'
  <2>1. Flt(c) = Flt(p) /\ Flt(c)' = f
    BY <1>1, <1>5, <1>8 DEF Flt
  <2> QED  BY <1>1, <1>2, <1>5, <1>8, <2>1 DEF CallOK, Ended
<1> QED  BY <1>4, <1>6, <1>7, <1>8, LocalStep

(* A drain marks entries; it neither adds nor removes one. *)
LEMMA DrainMarks ==
    ASSUME TypeOK, NEW d \in Drains, Drain(d), NEW k \in Keys
    PROVE  /\ flights'[k].gen = flights[k].gen
           /\ flights'[k].phase = flights[k].phase
           /\ flights'[k].readers = flights[k].readers
           /\ flights'[k].reported = flights[k].reported
           /\ flights[k] = Absent => flights'[k] = Absent
<1>0. \/ UNCHANGED flights
      \/ flights' = [j \in Keys |->
                     [flights[j] EXCEPT
                        !.stopping = @ \/ Unfinished(flights[j]),
                        !.cancel = FALSE]]
  BY DEF Drain, DrainStart, DrainCancel, DrainPoll, DrainReturn
<1>1. flights[k] \in Flight
  BY DEF TypeOK
<1>2. CASE UNCHANGED flights
  BY <1>2
<1>3. CASE flights'[k] = [flights[k] EXCEPT
                      !.stopping = @ \/ Unfinished(flights[k]),
                      !.cancel = FALSE]
  <2> DEFINE g == flights[k]
             b == g.stopping \/ Unfinished(g)
  <2>1. flights'[k] = [gen |-> g.gen, phase |-> g.phase, stopping |-> b,
                       readers |-> g.readers, reported |-> g.reported,
                       cancel |-> FALSE]
    BY <1>1, <1>3 DEF Flight
  <2>2. g = Absent => b = FALSE
    BY DEF Unfinished, Absent
  <2>3. g = Absent => /\ g.gen = NoCall /\ g.phase = "none" /\ g.readers = 0
                      /\ g.reported = FALSE
    BY DEF Absent
  <2>4. ASSUME g = Absent PROVE flights'[k] = Absent
    <3>1. flights'[k] = [gen |-> NoCall, phase |-> "none", stopping |-> FALSE,
                         readers |-> 0, reported |-> FALSE, cancel |-> FALSE]
      <4> HIDE DEF g, b
      <4> QED  BY <2>1, <2>2, <2>3, <2>4, Zenon
    <3> QED  BY <3>1, Zenon DEF Absent
  <2> QED  BY <2>1, <2>4
<1> QED  BY <1>0, <1>2, <1>3

LEMMA DrainC ==
    ASSUME IInv, NEW d \in Drains, Drain(d)
    PROVE  Consistency'
<1>1. UNCHANGED <<arg, pc, held, seen, workers, timers>>
  BY DEF Drain, DrainStart, DrainCancel, DrainPoll, DrainReturn, callVars, workVars
<1>2. ASSUME NEW k \in Keys
      PROVE  /\ flights'[k].gen = flights[k].gen
             /\ flights'[k].phase = flights[k].phase
             /\ flights'[k].readers = flights[k].readers
             /\ flights'[k].reported = flights[k].reported
             /\ flights[k] = Absent => flights'[k] = Absent
  BY <1>2, DrainMarks DEF IInv
<1>3. ASSUME NEW k \in Keys PROVE FlightOK(k)'
  <2>1. FlightOK(k) /\ UNCHANGED <<arg, pc, workers>>
    BY <1>1, <1>3 DEF IInv, Consistency
  <2> QED  BY <1>2, <1>3, <2>1 DEF FlightOK
<1>4. ASSUME NEW c \in Calls PROVE CallOK(c)'
  <2>1. CallOK(c) /\ UNCHANGED <<arg, pc, held, seen, workers, timers>>
    BY <1>1, <1>4 DEF IInv, Consistency
  <2>2. Flt(c)'.gen = Flt(c).gen /\ Flt(c)'.phase = Flt(c).phase
    BY <1>2, <1>4, <2>1, Here DEF Flt
  <2> QED  BY <2>1, <2>2 DEF CallOK
<1> QED  BY <1>3, <1>4 DEF Consistency

LEMMA ConsistencyStep ==
    ASSUME IInv, [Next]_vars
    PROVE  Consistency'
<1>1. CASE UNCHANGED vars
  <2>1. ASSUME NEW k \in Keys PROVE FlightOK(k)'
    BY <1>1, <2>1 DEF vars, IInv, Consistency, FlightOK
  <2>2. ASSUME NEW c \in Calls PROVE CallOK(c)'
    BY <1>1, <2>2 DEF vars, IInv, Consistency, CallOK, Flt
  <2> QED  BY <2>1, <2>2 DEF Consistency
<1>2. ASSUME NEW c \in Calls, Submit(c) PROVE Consistency'
  BY <1>2, ReserveC, RetainC, RefuseC, DecideC, ActivateC, AwaitFailsC, ReaderC, ConsumeC
     DEF Submit
<1>3. ASSUME NEW c \in Calls, Status(c) PROVE Consistency'
  BY <1>3, ReserveC, RetainC, RefuseC, ReaderC, ReconcileC, DecideC DEF Status
<1>4. ASSUME NEW c \in Calls, Return(c) PROVE Consistency'
  BY <1>4, RemoveC, ReleaseC DEF Return
<1>5. ASSUME NEW c \in Calls, Background(c) PROVE Consistency'
  BY <1>5, FinishC, RetireC, PassDeadlineC DEF Background
<1> QED  BY <1>1, <1>2, <1>3, <1>4, <1>5, DrainC DEF Next

-----------------------------------------------------------------------------
(* Types *)

LEMMA FlightTypes ==
    ASSUME NEW f \in Flight
    PROVE  /\ AddReader(f) \in Flight /\ Report(f) \in Flight /\ DropReader(f) \in Flight
           /\ \A o \in Phases, b \in BOOLEAN : [f EXCEPT !.phase = o, !.cancel = b] \in Flight
<1>1. Absent \in Flight
  BY DEF Absent, Flight, Phases
<1>2. AddReader(f) \in Flight
  BY DEF AddReader, Flight
<1>3. Report(f) \in Flight
  BY <1>1 DEF Report, Flight
<1>4. DropReader(f) \in Flight
  <2>1. \A n \in Nat : [f EXCEPT !.readers = n] \in Flight
    BY DEF Flight
  <2>2. f.readers \in Nat /\ (IF f.readers > 0 THEN f.readers - 1 ELSE 0) \in Nat
    BY DEF Flight
  <2> QED  BY <1>1, <2>1, <2>2 DEF DropReader
<1>5. \A o \in Phases, b \in BOOLEAN : [f EXCEPT !.phase = o, !.cancel = b] \in Flight
  BY DEF Flight
<1> QED  BY <1>2, <1>3, <1>4, <1>5

(* What a step of a callback, worker or timer makes of the entry. *)
LEMMA RegistryTypes ==
    ASSUME IInv, NEW p \in Calls,
           Submit(p) \/ Status(p) \/ Return(p) \/ Background(p)
    PROVE  flights' \in [Keys -> Flight]
<1> USE Here, FlightTypes
<1>1. ASSUME NEW f \in Flight, SetFlight(p, f) PROVE flights' \in [Keys -> Flight]
  BY <1>1 DEF SetFlight
<1>2. ASSUME UNCHANGED flights PROVE flights' \in [Keys -> Flight]
  BY <1>2
<1>3. CASE ReserveFlight(p) \/ AcquireRecovery(p)
  <2>1. Reservation(p) \in Flight
    BY DEF Reservation, Flight, Phases
  <2> QED  BY <1>1, <1>3, <2>1 DEF ReserveFlight, AcquireRecovery
<1>4. CASE RejoinFlight(p) \/ AcquireFlight(p)
  BY <1>1, <1>4 DEF RejoinFlight, AcquireFlight
<1>5. CASE ActivateFlight(p)
  BY <1>1, <1>5 DEF ActivateFlight, Phases
<1>6. CASE ConsumeFailure(p) \/ RemoveReservation(p) \/ RetireFlight(p)
  BY <1>1, <1>2, <1>6 DEF ConsumeFailure, RemoveReservation, RetireFlight
<1>7. CASE ReconcileFlightResult(p)
  BY <1>7 DEF ReconcileFlightResult
<1>8. CASE ReleaseReader(p)
  BY <1>1, <1>2, <1>8 DEF ReleaseReader
<1>9. CASE FinishFlight(p)
  BY <1>1, <1>2, <1>9 DEF FinishFlight, Ended, Phases
<1>10. CASE \/ RefuseSubmit(p) \/ DeclineSubmit(p) \/ ActivationRefused(p)
            \/ AwaitRecorded(p) \/ AwaitFails(p) \/ RejoinProgress(p) \/ RejoinFails(p)
  BY <1>10 DEF RefuseSubmit, DeclineSubmit, ActivationRefused, AwaitRecorded,
               AwaitFails, RejoinProgress, RejoinFails, AfterFlightError
<1>11. CASE \/ RefuseStatus(p) \/ ObserveUnidentified(p) \/ StatusOverdue(p)
            \/ StatusReads(p) \/ StatusFails(p) \/ RecoveryReads(p) \/ PassDeadline(p)
  BY <1>11 DEF RefuseStatus, ObserveUnidentified, StatusOverdue, StatusReads,
               StatusFails, RecoveryReads, PassDeadline
<1> QED  BY <1>3, <1>4, <1>5, <1>6, <1>7, <1>8, <1>9, <1>10, <1>11
         DEF Submit, Status, Return, Background

(* Everything but the registry. *)
RestTypeOK ==
    /\ activeDrains \in Nat
    /\ arg \in [Calls -> Args]
    /\ pc \in [Calls -> PCs]
    /\ held \in [Calls -> Calls \cup {NoCall}]
    /\ seen \in [Calls -> Phases \cup {"progress", "success", "failure"}]
    /\ answer \in [Calls -> [kind : Answers, gen : Calls \cup {NoCall}]]
    /\ workers \in [Calls -> {"none", "running", "ended"}]
    /\ cancelled \subseteq Calls /\ expired \subseteq Calls /\ timers \subseteq Calls
    /\ drains \in [Drains -> {"idle", "cancelling", "polling", "drained",
                              "timedout", "over"}]
    /\ collected \in [Drains -> SUBSET Calls]

LEMMA AnswerTypes ==
    ASSUME RestTypeOK, NEW p \in Calls, NEW kind \in Answers,
           NEW g \in Calls \cup {NoCall}, Answer(p, kind, g)
    PROVE  answer' \in [Calls -> [kind : Answers, gen : Calls \cup {NoCall}]]
BY DEF RestTypeOK, Answer

LEMMA AfterErrorTypes ==
    ASSUME RestTypeOK, NEW p \in Calls, NEW g \in Calls \cup {NoCall}, NEW next \in PCs,
           NEW transient \in BOOLEAN, AfterFlightError(p, g, next, transient)
    PROVE  RestTypeOK'
<1>1. PICK kind \in {"conflict", "outcome", "deadline", "progress", "error"},
           h \in Calls \cup {NoCall} : Answer(p, kind, h)
  BY DEF AfterFlightError
<1>2. answer' \in [Calls -> [kind : Answers, gen : Calls \cup {NoCall}]]
  BY <1>1, AnswerTypes DEF Answers
<1>3. pc' \in [Calls -> PCs]
  BY DEF RestTypeOK, AfterFlightError, Goto, PCs
<1>4. Owns(p, g) => g \in Calls
  BY DEF Owns
<1>5. cancelled' \subseteq Calls
  BY <1>4 DEF RestTypeOK, AfterFlightError
<1> QED  BY <1>2, <1>3, <1>5 DEF RestTypeOK, AfterFlightError, drainVars

LEMMA SubmitTypes ==
    ASSUME IInv, NEW p \in Calls, Submit(p)
    PROVE  RestTypeOK'
<1> USE Here
<1>0. RestTypeOK
  BY DEF IInv, TypeOK, RestTypeOK
<1>1. CASE ReserveFlight(p)
  BY <1>0, <1>1 DEF ReserveFlight, RestTypeOK, Goto, PCs, callVars, workVars, drainVars
<1>2. CASE RejoinFlight(p)
  BY <1>0, <1>2 DEF RejoinFlight, RestTypeOK, Goto, PCs, callVars, workVars, drainVars, MatchesRejoin, Flight
<1>3. CASE RefuseSubmit(p)
  BY <1>0, <1>3 DEF RefuseSubmit, RestTypeOK, Goto, PCs, callVars, workVars, drainVars, Answer, Answers
<1>4. CASE DeclineSubmit(p)
  BY <1>0, <1>4 DEF DeclineSubmit, RestTypeOK, Goto, PCs, callVars, workVars, drainVars, Answer, Answers
<1>5. CASE ActivateFlight(p)
  <2>1. answer' \in [Calls -> [kind : Answers, gen : Calls \cup {NoCall}]]
    <3>1. CASE Answer(p, "progress", p)
      BY <1>0, <3>1, AnswerTypes DEF Answers
    <3>2. CASE UNCHANGED answer
      BY <1>0, <3>2 DEF RestTypeOK
    <3> QED  BY <1>5, <3>1, <3>2 DEF ActivateFlight
  <2>2. pc' \in [Calls -> PCs]
    <3>1. \E next \in {"done", "awaiting"} : Goto(p, next)
      BY <1>5 DEF ActivateFlight
    <3> QED  BY <1>0, <3>1 DEF RestTypeOK, Goto, PCs
  <2>3. workers' \in [Calls -> {"none", "running", "ended"}]
    BY <1>0, <1>5 DEF ActivateFlight, RestTypeOK
  <2>4. cancelled' \subseteq Calls
    BY <1>0, <1>5 DEF ActivateFlight, RestTypeOK
  <2>5. UNCHANGED <<activeDrains, arg, held, seen, expired, timers, drains, collected>>
    BY <1>5 DEF ActivateFlight, drainVars
  <2> QED  BY <1>0, <2>1, <2>2, <2>3, <2>4, <2>5 DEF RestTypeOK
<1>6. CASE ActivationRefused(p)
  BY <1>0, <1>6 DEF ActivationRefused, RestTypeOK, Goto, PCs, callVars, workVars, drainVars, Answer, Answers
<1>7. CASE AwaitRecorded(p)
  BY <1>0, <1>7 DEF AwaitRecorded, RestTypeOK, Goto, PCs, callVars, workVars, drainVars, Answer, Answers
<1>8. CASE AwaitFails(p)
  BY <1>0, <1>8, AfterErrorTypes DEF AwaitFails, PCs
<1>9. CASE RejoinProgress(p)
  BY <1>0, <1>9 DEF RejoinProgress, RestTypeOK, Goto, PCs, callVars, workVars, drainVars, Answer, Answers
<1>10. CASE RejoinFails(p)
  BY <1>0, <1>10, AfterErrorTypes DEF RejoinFails, PCs
<1>11. CASE ConsumeFailure(p)
  BY <1>0, <1>11 DEF ConsumeFailure, RestTypeOK, Goto, PCs, callVars, workVars, drainVars
<1> QED  BY <1>1, <1>2, <1>3, <1>4, <1>5, <1>6, <1>7, <1>8, <1>9, <1>10, <1>11 DEF Submit

LEMMA StatusTypes ==
    ASSUME IInv, NEW p \in Calls, Status(p)
    PROVE  RestTypeOK'
<1> USE Here
<1>0. RestTypeOK
  BY DEF IInv, TypeOK, RestTypeOK
<1>1. CASE AcquireFlight(p)
  BY <1>0, <1>1 DEF AcquireFlight, RestTypeOK, Goto, PCs, callVars, workVars, drainVars, Issued, Phases, Flight
<1>2. CASE AcquireRecovery(p)
  BY <1>0, <1>2 DEF AcquireRecovery, RestTypeOK, Goto, PCs, callVars, workVars, drainVars
<1>3. CASE RefuseStatus(p)
  BY <1>0, <1>3 DEF RefuseStatus, RestTypeOK, Goto, PCs, callVars, workVars, drainVars, Answer, Answers
<1>4. CASE ObserveUnidentified(p)
  <2>0. Issued \subseteq Calls \cup {NoCall}
    BY <1>0 DEF RestTypeOK, Issued
  <2>1. PICK kind \in Answers, g \in Calls \cup {NoCall} : Answer(p, kind, g)
    BY <1>4, <2>0 DEF ObserveUnidentified, Answers
  <2>2. answer' \in [Calls -> [kind : Answers, gen : Calls \cup {NoCall}]]
    BY <1>0, <2>1, AnswerTypes
  <2> QED
    BY <1>0, <1>4, <2>2 DEF ObserveUnidentified, RestTypeOK, Goto, PCs, workVars, drainVars
<1>5. CASE StatusOverdue(p)
  BY <1>0, <1>5 DEF StatusOverdue, RestTypeOK, Goto, PCs, callVars, workVars, drainVars, Answer, Answers
<1>6. CASE StatusReads(p)
  BY <1>0, <1>6 DEF StatusReads, RestTypeOK, Goto, PCs, callVars, workVars, drainVars, Phases
<1>7. CASE StatusFails(p)
  <2>1. answer' \in [Calls -> [kind : Answers, gen : Calls \cup {NoCall}]]
    <3>1. CASE UNCHANGED answer
      BY <1>0, <3>1 DEF RestTypeOK
    <3>2. CASE Answer(p, "error", NoCall)
      BY <1>0, <3>2, AnswerTypes DEF Answers
    <3>3. CASE Answer(p, "deadline", held[p])
      <4>1. held[p] \in Calls \cup {NoCall}
        BY <1>0 DEF RestTypeOK
      <4> QED  BY <1>0, <3>3, <4>1, AnswerTypes DEF Answers
    <3> QED  BY <1>7, <3>1, <3>2, <3>3 DEF StatusFails
  <2>2. pc' \in [Calls -> PCs]
    <3>1. \E next \in {"releasing", "reconciling"} : Goto(p, next)
      BY <1>7 DEF StatusFails
    <3> QED  BY <1>0, <3>1 DEF RestTypeOK, Goto, PCs
  <2>3. seen' \in [Calls -> Phases \cup {"progress", "success", "failure"}]
    BY <1>0, <1>7 DEF StatusFails, RestTypeOK
  <2>4. cancelled' \subseteq Calls
    <3>1. held[p] \in expired => held[p] \in Calls
      BY <1>0 DEF RestTypeOK
    <3> QED  BY <1>0, <1>7, <3>1 DEF StatusFails, RestTypeOK
  <2>5. UNCHANGED <<activeDrains, arg, held, workers, expired, timers, drains, collected>>
    BY <1>7 DEF StatusFails, drainVars
  <2> QED  BY <1>0, <2>1, <2>2, <2>3, <2>4, <2>5 DEF RestTypeOK
<1>8. CASE ReconcileFlightResult(p)
  <2>1. seen[p] \in {"progress", "success", "failure"} \/ Flt(p).phase = "err"
    BY <1>8 DEF ReconcileFlightResult, CallOK
  <2>2. PICK kind \in Answers : Answer(p, kind, held[p])
    BY <1>8, <2>1 DEF ReconcileFlightResult, Answers
  <2>3. answer' \in [Calls -> [kind : Answers, gen : Calls \cup {NoCall}]]
    BY <1>0, <2>2, AnswerTypes
  <2> QED
    BY <1>0, <1>8, <2>3 DEF ReconcileFlightResult, RestTypeOK, Goto, PCs, workVars, drainVars
<1>9. CASE RecoveryReads(p)
  BY <1>0, <1>9 DEF RecoveryReads, RestTypeOK, Goto, PCs, callVars, workVars, drainVars, Answer, Answers
<1> QED  BY <1>1, <1>2, <1>3, <1>4, <1>5, <1>6, <1>7, <1>8, <1>9 DEF Status

LEMMA ReturnTypes ==
    ASSUME IInv, NEW p \in Calls, Return(p)
    PROVE  RestTypeOK'
<1> USE Here
<1>0. RestTypeOK
  BY DEF IInv, TypeOK, RestTypeOK
<1>1. CASE RemoveReservation(p)
  BY <1>0, <1>1 DEF RemoveReservation, RestTypeOK, Goto, PCs, callVars, workVars, drainVars
<1>2. CASE ReleaseReader(p)
  BY <1>0, <1>2 DEF ReleaseReader, RestTypeOK, Goto, PCs, callVars, workVars, drainVars
<1> QED  BY <1>1, <1>2 DEF Return

LEMMA BackgroundTypes ==
    ASSUME IInv, NEW p \in Calls, Background(p)
    PROVE  RestTypeOK'
<1> USE Here
<1>0. RestTypeOK
  BY DEF IInv, TypeOK, RestTypeOK
<1>1. CASE FinishFlight(p)
  BY <1>0, <1>1 DEF FinishFlight, RestTypeOK, Goto, PCs, callVars, workVars, drainVars
<1>2. CASE RetireFlight(p)
  BY <1>0, <1>2 DEF RetireFlight, RestTypeOK, Goto, PCs, callVars, workVars, drainVars
<1>3. CASE PassDeadline(p)
  BY <1>0, <1>3 DEF PassDeadline, RestTypeOK, Goto, PCs, callVars, workVars, drainVars
<1> QED  BY <1>1, <1>2, <1>3 DEF Background

LEMMA DrainTypes ==
    ASSUME IInv, NEW d \in Drains, Drain(d)
    PROVE  TypeOK'
<1>0. TypeOK
  BY DEF IInv
<1>1. CASE DrainStart(d)
  <2>1. ASSUME NEW k \in Keys, flights[k].cancel PROVE flights[k].gen \in Calls
    <3>1. FlightOK(k) /\ flights[k] \in Flight
      BY <1>0, <2>1 DEF IInv, Consistency, TypeOK
    <3>2. flights[k] # Absent
      BY <2>1 DEF Absent
    <3> QED  BY <3>1, <3>2 DEF FlightOK, Flight
  <2>2. collected' \in [Drains -> SUBSET Calls]
    <3> DEFINE G == {flights[k].gen : k \in {j \in Keys : flights[j].cancel}}
    <3>1. G \subseteq Calls
      BY <2>1
    <3>2. collected' = [collected EXCEPT ![d] = G]
      BY <1>1 DEF DrainStart
    <3> HIDE DEF G
    <3> QED  BY <1>0, <3>1, <3>2 DEF TypeOK
  <2>3. flights' \in [Keys -> Flight]
    <3>1. ASSUME NEW f \in Flight
          PROVE  [f EXCEPT !.stopping = @ \/ Unfinished(f), !.cancel = FALSE] \in Flight
      <4>1. (f.stopping \/ Unfinished(f)) \in BOOLEAN
        BY DEF Flight, Unfinished
      <4> QED  BY <4>1 DEF Flight
    <3> QED  BY <1>0, <1>1, <3>1 DEF TypeOK, DrainStart
  <2>4. /\ activeDrains' = activeDrains + 1
        /\ drains' = [drains EXCEPT ![d] = "cancelling"]
        /\ UNCHANGED <<arg, pc, held, seen, answer, workers, cancelled, expired, timers>>
    BY <1>1 DEF DrainStart, callVars, workVars
  <2> QED  BY <1>0, <2>2, <2>3, <2>4 DEF TypeOK
<1>2. CASE DrainCancel(d)
  BY <1>0, <1>2 DEF TypeOK, DrainCancel, callVars
<1>3. CASE DrainPoll(d)
  BY <1>0, <1>3 DEF TypeOK, DrainPoll, callVars, workVars
<1>4. CASE DrainReturn(d)
  <2>1. activeDrains # 0
    BY <1>4, DrainCounted DEF IInv, DrainReturn
  <2> QED  BY <1>0, <1>4, <2>1 DEF TypeOK, DrainReturn, callVars, workVars
<1> QED  BY <1>1, <1>2, <1>3, <1>4 DEF Drain

LEMMA TypeStep ==
    ASSUME IInv, [Next]_vars
    PROVE  TypeOK'
<1>1. CASE UNCHANGED vars
  BY <1>1 DEF vars, IInv, TypeOK
<1>2. ASSUME NEW c \in Calls, Submit(c) \/ Status(c) \/ Return(c) \/ Background(c)
      PROVE  TypeOK'
  <2>1. flights' \in [Keys -> Flight]
    BY <1>2, RegistryTypes
  <2>2. RestTypeOK'
    BY <1>2, SubmitTypes, StatusTypes, ReturnTypes, BackgroundTypes
  <2> QED  BY <2>1, <2>2 DEF RestTypeOK, TypeOK
<1> QED  BY <1>1, <1>2, DrainTypes DEF Next

-----------------------------------------------------------------------------
(* Readers and drains are counted *)

LEMMA SameReaders ==
    ASSUME ReadersCounted, UNCHANGED <<arg, held>>,
           \A k \in Keys : flights'[k].readers = flights[k].readers
    PROVE  ReadersCounted'
BY DEF ReadersCounted

(* Writing one entry with the same count leaves all counts alone. *)
LEMMA SameReadersHere ==
    ASSUME IInv, NEW p \in Calls, UNCHANGED <<arg, held>>, NEW f,
           f.readers = Flt(p).readers, SetFlight(p, f) \/ UNCHANGED flights
    PROVE  ReadersCounted'
<1>1. ASSUME NEW k \in Keys PROVE flights'[k].readers = flights[k].readers
  BY <1>1, Here DEF SetFlight, Flt
<1> QED  BY <1>1, SameReaders DEF IInv

LEMMA ReportReaders ==
    ASSUME NEW f \in Flight
    PROVE  Report(f).readers = f.readers
BY DEF Report, Absent, Flight

(* A callback that starts to hold the flight is counted. *)
LEMMA RetainReaders ==
    ASSUME IInv, NEW p \in Calls, RejoinFlight(p) \/ AcquireFlight(p)
    PROVE  ReadersCounted'
<1> DEFINE k == arg[p].key
<1> USE Here
<1>1. /\ flights' = [flights EXCEPT ![k] = AddReader(Flt(p))]
      /\ held' = [held EXCEPT ![p] = Flt(p).gen] /\ Flt(p).gen # NoCall
      /\ pc[p] = "idle" /\ UNCHANGED arg
  BY DEF RejoinFlight, AcquireFlight, MatchesRejoin, MatchesStatus, SetFlight
<1>2. held[p] = NoCall
  BY <1>1 DEF CallOK
<1>3. SUFFICES ASSUME NEW j \in Keys
               PROVE  flights'[j].readers = Cardinality(Holders(j)')
  BY DEF ReadersCounted, Holders
<1>4. flights[j].readers = Cardinality(Holders(j))
  BY DEF IInv, ReadersCounted, Holders
<1>5. CASE j # k
  <2>1. Holders(j)' = Holders(j)
    BY <1>1, <1>5 DEF Holders
  <2> QED  BY <1>1, <1>4, <1>5, <2>1
<1>6. CASE j = k
  <2>1. Holders(j)' = Holders(j) \cup {p} /\ p \notin Holders(j)
    BY <1>1, <1>2, <1>6 DEF Holders
  <2>2. IsFiniteSet(Holders(j))
    BY CallsAssumption, FS_Subset, Zenon DEF Holders
  <2>3. Cardinality(Holders(j)') = Cardinality(Holders(j)) + 1
    BY <2>1, <2>2, FS_AddElement
  <2>4. flights'[j].readers = flights[j].readers + 1
    <3>1. flights'[j] = AddReader(Flt(p)) /\ Flt(p) = flights[j]
      BY <1>1, <1>6 DEF Flt
    <3> QED  BY <3>1 DEF AddReader, Flight
  <2> QED  BY <1>4, <2>3, <2>4
<1> QED  BY <1>5, <1>6

(* One that lets go is not counted any more. *)
LEMMA ReleaseReaders ==
    ASSUME IInv, NEW p \in Calls, ReleaseReader(p)
    PROVE  ReadersCounted'
<1> DEFINE k == arg[p].key
<1> USE Here
<1>1. /\ flights' = [flights EXCEPT ![k] = DropReader(Flt(p))]
      /\ held' = [held EXCEPT ![p] = NoCall] /\ held[p] # NoCall /\ UNCHANGED arg
  BY DEF ReleaseReader, CallOK, Owns, SetFlight
<1>2. SUFFICES ASSUME NEW j \in Keys
               PROVE  flights'[j].readers = Cardinality(Holders(j)')
  BY DEF ReadersCounted, Holders
<1>3. flights[j].readers = Cardinality(Holders(j))
  BY DEF IInv, ReadersCounted, Holders
<1>4. CASE j # k
  <2>1. Holders(j)' = Holders(j)
    BY <1>1, <1>4 DEF Holders
  <2> QED  BY <1>1, <1>3, <1>4, <2>1
<1>5. CASE j = k
  <2>1. Holders(j)' = Holders(j) \ {p} /\ p \in Holders(j)
    BY <1>1, <1>5 DEF Holders
  <2>2. IsFiniteSet(Holders(j))
    BY CallsAssumption, FS_Subset, Zenon DEF Holders
  <2>3. Cardinality(Holders(j)') = Cardinality(Holders(j)) - 1
    BY <2>1, <2>2, FS_RemoveElement
  <2>4. flights'[j].readers = flights[j].readers - 1
    <3>1. flights'[j] = DropReader(Flt(p)) /\ Flt(p) = flights[j]
      BY <1>1, <1>5 DEF Flt
    <3>2. Flt(p).readers \in Nat \ {0}
      BY <1>1, LastReader DEF IInv
    <3>3. Absent.readers = 0
      BY DEF Absent
    <3>4. DropReader(Flt(p)).readers = Flt(p).readers - 1
      BY <3>2, <3>3 DEF DropReader, Flight
    <3> QED  BY <3>1, <3>4
  <2> QED  BY <1>3, <2>3, <2>4
<1> QED  BY <1>4, <1>5

LEMMA ReadersStep ==
    ASSUME IInv, [Next]_vars
    PROVE  ReadersCounted'
<1>1. CASE UNCHANGED vars
  BY <1>1, SameReaders DEF vars, IInv
<1>2. ASSUME NEW p \in Calls, Submit(p) \/ Status(p) \/ Return(p) \/ Background(p)
      PROVE  ReadersCounted'
  <2> USE Here
  <2>1. CASE RejoinFlight(p) \/ AcquireFlight(p)
    BY <2>1, RetainReaders
  <2>2. CASE ReleaseReader(p)
    BY <2>2, ReleaseReaders
  <2>3. CASE ReserveFlight(p) \/ AcquireRecovery(p)
    <3>1. SetFlight(p, Reservation(p)) /\ Flt(p) = Absent /\ UNCHANGED <<arg, held>>
      BY <2>3 DEF ReserveFlight, AcquireRecovery
    <3>2. Reservation(p).readers = Absent.readers
      BY DEF Reservation, Absent
    <3> QED  BY <3>1, <3>2, SameReadersHere
  <2>4. CASE ActivateFlight(p)
    <3> DEFINE f == [Flt(p) EXCEPT !.phase = "running", !.cancel = TRUE]
    <3>1. SetFlight(p, f) /\ UNCHANGED <<arg, held>>
      BY <2>4 DEF ActivateFlight
    <3>2. f.readers = Flt(p).readers
      BY DEF Flight
    <3> QED  BY <3>1, <3>2, SameReadersHere
  <2>5. CASE \/ ConsumeFailure(p) \/ RemoveReservation(p)
             \/ RetireFlight(p) \/ ReconcileFlightResult(p)
    <3>1. SetFlight(p, Report(Flt(p))) \/ UNCHANGED flights
      BY <2>5 DEF ConsumeFailure, RemoveReservation, RetireFlight, ReconcileFlightResult,
                  SetFlight, Flt
    <3>2. UNCHANGED <<arg, held>>
      BY <2>5 DEF ConsumeFailure, RemoveReservation, RetireFlight, ReconcileFlightResult,
                  callVars
    <3> QED  BY <3>1, <3>2, ReportReaders, SameReadersHere
  <2>6. CASE FinishFlight(p)
    <3>1. \A o \in Ended : [Flt(p) EXCEPT !.phase = o, !.cancel = FALSE].readers
                                = Flt(p).readers
      BY DEF Flight
    <3>2. UNCHANGED <<arg, held>>
      BY <2>6 DEF FinishFlight, callVars
    <3> QED  BY <2>6, <3>1, <3>2, SameReadersHere DEF FinishFlight
  <2>7. CASE \/ RefuseSubmit(p) \/ DeclineSubmit(p) \/ ActivationRefused(p)
             \/ AwaitRecorded(p) \/ AwaitFails(p) \/ RejoinProgress(p) \/ RejoinFails(p)
    <3>1. UNCHANGED <<flights, arg, held>>
      BY <2>7 DEF RefuseSubmit, DeclineSubmit, ActivationRefused, AwaitRecorded,
                  AwaitFails, RejoinProgress, RejoinFails, AfterFlightError
    <3> QED  BY <3>1, SameReaders DEF IInv
  <2>8. CASE \/ RefuseStatus(p) \/ ObserveUnidentified(p) \/ StatusOverdue(p)
             \/ StatusReads(p) \/ StatusFails(p) \/ RecoveryReads(p) \/ PassDeadline(p)
    <3>1. UNCHANGED <<flights, arg, held>>
      BY <2>8 DEF RefuseStatus, ObserveUnidentified, StatusOverdue, StatusReads,
                  StatusFails, RecoveryReads, PassDeadline, callVars
    <3> QED  BY <3>1, SameReaders DEF IInv
  <2> QED  BY <1>2, <2>1, <2>2, <2>3, <2>4, <2>5, <2>6, <2>7, <2>8
           DEF Submit, Status, Return, Background
<1>3. ASSUME NEW d \in Drains, Drain(d) PROVE ReadersCounted'
  <2>1. UNCHANGED <<arg, held>>
    BY <1>3 DEF Drain, DrainStart, DrainCancel, DrainPoll, DrainReturn, callVars
  <2>2. \A k \in Keys : flights'[k].readers = flights[k].readers
    BY <1>3, DrainMarks DEF IInv
  <2> QED  BY <2>1, <2>2, SameReaders DEF IInv
<1> QED  BY <1>1, <1>2, <1>3 DEF Next

LEMMA DrainsStep ==
    ASSUME IInv, [Next]_vars
    PROVE  DrainsCounted'
<1> DEFINE A == ActiveDrains
<1>1. IsFiniteSet(A)
  BY DrainsAssumption, FS_Subset, Zenon DEF ActiveDrains
<1>2. activeDrains = Cardinality(A) /\ drains \in [Drains -> {"idle", "cancelling",
                              "polling", "drained", "timedout", "over"}]
  BY DEF IInv, DrainsCounted, TypeOK
<1>3. ASSUME UNCHANGED <<activeDrains, drains>> PROVE DrainsCounted'
  BY <1>2, <1>3 DEF DrainsCounted, ActiveDrains
<1>4. CASE UNCHANGED vars
  BY <1>3, <1>4 DEF vars
<1>5. ASSUME NEW p \in Calls, Submit(p) \/ Status(p) \/ Return(p) \/ Background(p)
      PROVE  DrainsCounted'
  <2>1. CASE Submit(p)
    BY <1>3, <2>1 DEF Submit, ReserveFlight, RejoinFlight, RefuseSubmit, DeclineSubmit,
       ActivateFlight, ActivationRefused, AwaitRecorded, AwaitFails, RejoinProgress,
       RejoinFails, ConsumeFailure, AfterFlightError, drainVars
  <2>2. CASE Status(p)
    BY <1>3, <2>2 DEF Status, AcquireFlight, AcquireRecovery, RefuseStatus,
       ObserveUnidentified, StatusOverdue, StatusReads, StatusFails,
       ReconcileFlightResult, RecoveryReads, drainVars
  <2>3. CASE Return(p) \/ Background(p)
    BY <1>3, <2>3 DEF Return, Background, RemoveReservation, ReleaseReader, FinishFlight,
       RetireFlight, PassDeadline, drainVars
  <2> QED  BY <1>5, <2>1, <2>2, <2>3
<1>6. ASSUME NEW d \in Drains, Drain(d) PROVE DrainsCounted'
  <2>1. CASE DrainStart(d)
    <3>1. A' = A \cup {d} /\ d \notin A /\ activeDrains' = activeDrains + 1
      BY <1>2, <2>1 DEF ActiveDrains, DrainStart
    <3>2. Cardinality(A') = Cardinality(A) + 1
      BY <1>1, <3>1, FS_AddElement
    <3> QED  BY <1>2, <3>1, <3>2 DEF DrainsCounted
  <2>2. CASE DrainCancel(d) \/ DrainPoll(d)
    <3>1. A' = A /\ UNCHANGED activeDrains
      BY <1>2, <2>2 DEF ActiveDrains, DrainCancel, DrainPoll
    <3> QED  BY <1>2, <3>1 DEF DrainsCounted
  <2>3. CASE DrainReturn(d)
    <3>1. A' = A \ {d} /\ d \in A /\ activeDrains' = activeDrains - 1
      BY <1>2, <2>3 DEF ActiveDrains, DrainReturn
    <3>2. Cardinality(A') = Cardinality(A) - 1
      BY <1>1, <3>1, FS_RemoveElement
    <3> QED  BY <1>2, <3>1, <3>2 DEF DrainsCounted
  <2> QED  BY <1>6, <2>1, <2>2, <2>3 DEF Drain
<1> QED  BY <1>4, <1>5, <1>6 DEF Next

-----------------------------------------------------------------------------
(* The inductive invariant and what follows from it *)

(* Init and every step of the registry keep its entries, callbacks, workers  *)
(* and counters in agreement.                                                *)
THEOREM Invariance == Spec => []IInv
<1>1. IInv /\ [Next]_vars => IInv'
  BY TypeStep, ConsistencyStep, ReadersStep, DrainsStep DEF IInv
<1> QED  BY InitIInv, <1>1, PTL DEF Spec

(* Every variable keeps its type; activeDrains never goes below zero and a   *)
(* drain only ever collects cancel functions of real operations.             *)
THEOREM TypeCorrectness == Spec => []TypeOK
<1>1. IInv => TypeOK
  BY DEF IInv
<1> QED  BY Invariance, <1>1, PTL

(* Entries, callbacks and workers agree, for any number of each.             *)
THEOREM ConsistencyHolds == Spec => []Consistency
<1>1. IInv => Consistency
  BY DEF IInv
<1> QED  BY Invariance, <1>1, PTL

(* releaseStatusFlight undoes exactly what acquireStatusFlight and           *)
(* reserveRejoinFlight counted.                                              *)
THEOREM ReadersAreCounted == Spec => []ReadersCounted
<1>1. IInv => ReadersCounted
  BY DEF IInv
<1> QED  BY Invariance, <1>1, PTL

LEMMA Exclusion == IInv => ReleaseExclusion
<1> SUFFICES ASSUME IInv, NEW c \in Calls, NEW e \in Calls, Driving(c), Driving(e),
                    arg[c].key = arg[e].key
             PROVE  c = e
  BY DEF ReleaseExclusion
<1>1. Flt(c) = Flt(e)
  BY DEF Flt
<1>2. Flt(c).gen = c
  BY Here DEF Driving, CallOK
<1>3. Flt(e).gen = e
  BY Here DEF Driving, CallOK
<1> QED  BY <1>1, <1>2, <1>3

(* No two workers, submits or recovering polls of this process ever act on   *)
(* the same release.                                                         *)
THEOREM ReleasesAreExclusive == Spec => []ReleaseExclusion
BY Invariance, Exclusion, PTL

(* An entry a callback retains stays in the registry until it lets go.       *)
THEOREM ReadersAreSafe == Spec => []ReaderRetention
<1>1. IInv => ReaderRetention
  BY Here DEF ReaderRetention, CallOK
<1> QED  BY Invariance, <1>1, PTL

-----------------------------------------------------------------------------
(* Drains *)

(* After a drain has found the registry quiet, it stays so until it returns. *)
Quieted == \A d \in Drains : drains[d] = "drained" =>
                \A k \in Keys : ~Unfinished(flights[k])

(* Under a drain no entry has a cancel function that could still be missed.  *)
CancelsTaken == (\E d \in Drains : drains[d] \notin {"idle", "over"}) =>
                    \A k \in Keys : ~flights[k].cancel

(* The cancel function of a running worker is in the registry, in the hands  *)
(* of a drain about to call it, or called.                                   *)
Cancellable ==
    \A c \in Calls : workers[c] = "running" =>
        \/ Flt(c).cancel \/ c \in cancelled
        \/ \E e \in Drains : drains[e] = "cancelling" /\ c \in collected[e]

(* A reservation a drain has cancelled carries its mark for good.            *)
Swept ==
    \A d \in Drains : \A c \in collected[d] :
        pc[c] # "idle" /\ (pc[c] = "preparing" => Flt(c).stopping)

DInv == IInv /\ Quieted /\ CancelsTaken /\ Cancellable /\ Swept

Party(p) == Submit(p) \/ Status(p) \/ Return(p) \/ Background(p)

(* The entry is left alone, reserved, activated, or comes no closer to work. *)
LEMMA EntryStep ==
    ASSUME IInv, NEW p \in Calls, Party(p)
    PROVE  LET f == Flt(p)
               g == flights'[arg[p].key]
           IN  /\ \A j \in Keys : j # arg[p].key => flights'[j] = flights[j]
               /\ \/ g = f
                  \/ /\ f = Absent /\ activeDrains = 0
                     /\ pc[p] = "idle" /\ UNCHANGED workers
                  \/ ActivateFlight(p) /\ g = [f EXCEPT !.phase = "running", !.cancel = TRUE]
                  \/ /\ Unfinished(g) => /\ f.phase = "running" /\ g.phase = "running"
                                         /\ g.cancel = f.cancel
                     /\ g.cancel => f.cancel
<1> DEFINE f == Flt(p)
           g == flights'[arg[p].key]
           Settles == /\ Unfinished(g) => /\ f.phase = "running" /\ g.phase = "running"
                                          /\ g.cancel = f.cancel
                      /\ g.cancel => f.cancel
<1> USE Here
<1>1. ASSUME UNCHANGED flights
      PROVE  (\A j \in Keys : j # arg[p].key => flights'[j] = flights[j]) /\ g = f
  BY <1>1 DEF Flt
<1>2. ASSUME NEW h, SetFlight(p, h)
      PROVE  (\A j \in Keys : j # arg[p].key => flights'[j] = flights[j]) /\ g = h
  BY <1>2 DEF SetFlight
<1>3. CASE ReserveFlight(p) \/ AcquireRecovery(p)
  BY <1>2, <1>3 DEF ReserveFlight, AcquireRecovery, workVars
<1>4. CASE RejoinFlight(p) \/ AcquireFlight(p)
  <2>1. SetFlight(p, AddReader(f)) /\ f.phase # "preparing"
    BY <1>4 DEF RejoinFlight, AcquireFlight, MatchesRejoin, MatchesStatus
  <2>2. AddReader(f).phase = f.phase /\ AddReader(f).cancel = f.cancel
    BY DEF AddReader, Flight
  <2> QED  BY <1>2, <2>1, <2>2 DEF Unfinished
<1>5. CASE ActivateFlight(p)
  BY <1>2, <1>5 DEF ActivateFlight
<1>6. ASSUME SetFlight(p, Report(f)) \/ UNCHANGED flights, f.phase # "preparing"
      PROVE  (\A j \in Keys : j # arg[p].key => flights'[j] = flights[j]) /\ (g = f \/ Settles)
  <2>1. \/ Report(f).phase = "none" /\ Report(f).cancel = FALSE
        \/ Report(f).phase = f.phase /\ Report(f).cancel = f.cancel
    BY DEF Report, Absent, Flight
  <2> QED  BY <1>1, <1>2, <1>6, <2>1 DEF Unfinished
<1>7. CASE RetireFlight(p) \/ ConsumeFailure(p) \/ ReconcileFlightResult(p)
  <2>1. SetFlight(p, Report(f)) \/ UNCHANGED flights
    BY <1>7 DEF RetireFlight, ConsumeFailure, ReconcileFlightResult, SetFlight, Flt
  <2>2. CASE RetireFlight(p)
    <3>1. Owns(p, p) => f.phase # "preparing"
      BY <2>2 DEF RetireFlight, Owns, CallOK, FlightOK, Flt
    <3> QED  BY <1>1, <1>6, <2>1, <2>2, <3>1 DEF RetireFlight
  <2>3. CASE ConsumeFailure(p)
    <3>1. f.phase # "err" => UNCHANGED flights
      BY <2>3 DEF ConsumeFailure
    <3> QED  BY <1>1, <1>6, <2>1, <3>1
  <2>4. CASE ReconcileFlightResult(p)
    <3>1. f.phase # "preparing"
      BY <2>4 DEF ReconcileFlightResult, CallOK
    <3> QED  BY <1>6, <2>1, <3>1
  <2> QED  BY <1>7, <2>2, <2>3, <2>4
<1>8. CASE RemoveReservation(p)
  <2>1. f.readers = 0 /\ Owns(p, p)
    BY <1>8 DEF RemoveReservation, CallOK, FlightOK, Flt, Owns
  <2>2. g = Absent /\ \A j \in Keys : j # arg[p].key => flights'[j] = flights[j]
    BY <1>2, <1>8, <2>1 DEF RemoveReservation, Report
  <2> QED  BY <2>2 DEF Absent, Unfinished
<1>9. CASE ReleaseReader(p)
  <2>1. f.phase # "preparing" /\ (SetFlight(p, DropReader(f)) \/ UNCHANGED flights)
    BY <1>9 DEF ReleaseReader, CallOK
  <2>2. \/ DropReader(f).phase = "none" /\ DropReader(f).cancel = FALSE
        \/ DropReader(f).phase = f.phase /\ DropReader(f).cancel = f.cancel
    BY DEF DropReader, Absent, Flight
  <2> QED  BY <1>1, <1>2, <2>1, <2>2 DEF Unfinished
<1>10. CASE FinishFlight(p)
  <2>1. \A o \in Ended : /\ [f EXCEPT !.phase = o, !.cancel = FALSE].phase = o
                         /\ [f EXCEPT !.phase = o, !.cancel = FALSE].cancel = FALSE
    BY DEF Flight
  <2> QED  BY <1>1, <1>2, <1>10, <2>1 DEF FinishFlight, Unfinished, Ended
<1>11. CASE \/ RefuseSubmit(p) \/ DeclineSubmit(p) \/ ActivationRefused(p)
            \/ AwaitRecorded(p) \/ AwaitFails(p) \/ RejoinProgress(p) \/ RejoinFails(p)
  BY <1>1, <1>11 DEF RefuseSubmit, DeclineSubmit, ActivationRefused, AwaitRecorded,
              AwaitFails, RejoinProgress, RejoinFails, AfterFlightError
<1>12. CASE \/ RefuseStatus(p) \/ ObserveUnidentified(p) \/ StatusOverdue(p)
            \/ StatusReads(p) \/ StatusFails(p) \/ RecoveryReads(p) \/ PassDeadline(p)
  BY <1>1, <1>12 DEF RefuseStatus, ObserveUnidentified, StatusOverdue, StatusReads,
              StatusFails, RecoveryReads, PassDeadline
<1> QED  BY <1>3, <1>4, <1>5, <1>7, <1>8, <1>9, <1>10, <1>11, <1>12
         DEF Party, Submit, Status, Return, Background

(* What a step of a callback, worker or timer does to the rest of the state. *)
LEMMA PartyStep ==
    ASSUME IInv, NEW p \in Calls, Party(p)
    PROVE  /\ UNCHANGED <<arg, activeDrains, drains, collected>>
           /\ \A c \in Calls : c # p => pc'[c] = pc[c] /\ workers'[c] = workers[c]
           /\ pc'[p] = "idle" => pc[p] = "idle"
           /\ pc'[p] = "preparing" => pc[p] \in {"idle", "preparing"}
           /\ pc'[p] \in {"preparing", "recovering"} =>
                 pc[p] = pc'[p] \/ ReserveFlight(p) \/ AcquireRecovery(p)
           /\ cancelled \ {p} \subseteq cancelled'
           /\ ~ActivateFlight(p) => cancelled \subseteq cancelled'
           /\ workers'[p] = "running" => workers[p] = "running" \/ ActivateFlight(p)
<1> USE Here
<1>1. CASE ActivateFlight(p)
  BY <1>1 DEF ActivateFlight, Goto, drainVars
<1>2. CASE \/ ReserveFlight(p) \/ RejoinFlight(p) \/ RefuseSubmit(p) \/ DeclineSubmit(p)
           \/ ActivationRefused(p) \/ AwaitRecorded(p) \/ RejoinProgress(p)
           \/ ConsumeFailure(p)
  BY <1>2 DEF ReserveFlight, RejoinFlight, RefuseSubmit, DeclineSubmit, ActivationRefused,
     AwaitRecorded, RejoinProgress, ConsumeFailure, Goto, drainVars, workVars
<1>3. CASE AwaitFails(p) \/ RejoinFails(p)
  BY <1>3 DEF AwaitFails, RejoinFails, AfterFlightError, Goto, drainVars
<1>4. CASE \/ AcquireFlight(p) \/ AcquireRecovery(p) \/ RefuseStatus(p)
           \/ ObserveUnidentified(p) \/ StatusReads(p) \/ ReconcileFlightResult(p)
           \/ RecoveryReads(p)
  BY <1>4 DEF AcquireFlight, AcquireRecovery, RefuseStatus, ObserveUnidentified,
     StatusReads, ReconcileFlightResult, RecoveryReads, Goto, drainVars, workVars
<1>5. CASE StatusOverdue(p) \/ StatusFails(p)
  BY <1>5 DEF StatusOverdue, StatusFails, Goto, drainVars
<1>6. CASE Return(p)
  BY <1>6 DEF Return, RemoveReservation, ReleaseReader, Goto, drainVars, workVars
<1>7. CASE Background(p)
  BY <1>7 DEF Background, FinishFlight, RetireFlight, PassDeadline, callVars, drainVars
<1> QED  BY <1>1, <1>2, <1>3, <1>4, <1>5, <1>6, <1>7 DEF Party, Submit, Status

LEMMA PartyDInv ==
    ASSUME DInv, NEW p \in Calls, Party(p), IInv'
    PROVE  Quieted' /\ CancelsTaken' /\ Cancellable' /\ Swept'
<1> DEFINE f == Flt(p)
           g == flights'[arg[p].key]
<1>0. IInv /\ p # NoCall /\ arg[p].key \in Keys
  BY Here DEF DInv
<1> USE <1>0
<1>1. /\ UNCHANGED <<arg, activeDrains, drains, collected>>
      /\ \A j \in Keys : j # arg[p].key => flights'[j] = flights[j]
  BY PartyStep, EntryStep
<1>2. Quieted' /\ CancelsTaken'
  <2>1. CASE \E d \in Drains : drains[d] \notin {"idle", "over"}
    <3>1. activeDrains # 0
      BY <2>1, DrainCounted DEF IInv
    <3>2. /\ Unfinished(g) => Unfinished(f)
          /\ g.cancel => f.cancel
      BY <3>1, EntryStep DEF ActivateFlight, CanActivate, Unfinished
    <3>3. Quieted'
      BY <1>1, <3>2 DEF DInv, Quieted, Flt
    <3>4. CancelsTaken'
      BY <1>1, <3>2 DEF DInv, CancelsTaken, Flt
    <3> QED  BY <3>3, <3>4
  <2>2. CASE ~\E d \in Drains : drains[d] \notin {"idle", "over"}
    BY <1>1, <2>2 DEF Quieted, CancelsTaken
  <2> QED  BY <2>1, <2>2
<1>4. Cancellable'
  <2> SUFFICES ASSUME NEW c \in Calls, workers'[c] = "running"
               PROVE  \/ Flt(c)'.cancel \/ c \in cancelled'
                      \/ \E e \in Drains : drains'[e] = "cancelling" /\ c \in collected'[e]
    BY DEF Cancellable
  <2>1. CASE c = p /\ ActivateFlight(p)
    <3>1. f \in Flight /\ flights' = [flights EXCEPT ![arg[p].key] = [f EXCEPT !.phase = "running", !.cancel = TRUE]]
      BY <2>1, Here DEF ActivateFlight, SetFlight
    <3>2. Flt(p)' = [f EXCEPT !.phase = "running", !.cancel = TRUE]
      BY <1>1, <3>1, Here DEF Flt
    <3> QED  BY <2>1, <3>1, <3>2 DEF Flight
  <2>2. CASE ~(c = p /\ ActivateFlight(p))
    <3>1. workers[c] = "running"
      BY <2>2, PartyStep
    <3>2. Flt(c).gen = c /\ Flt(c).phase = "running"
      BY <3>1, Here DEF CallOK, FlightOK, Flt, Flight, Phases, Ended
    <3>3. Flt(c)'.phase = "running"
      <4>1. PICK k \in Keys : k = arg[c].key
        BY Here
      <4>2. FlightOK(k)' /\ CallOK(c)' /\ flights'[k] \in Flight
        BY DEF IInv, Consistency, TypeOK
      <4>3. Flt(c)' = flights'[k]
        BY <1>1, <4>1 DEF Flt
      <4> HIDE <1>0
      <4> QED  BY <4>2, <4>3, CallsAssumption DEF CallOK, FlightOK, Absent, Flight, Phases, Ended
    <3>4. Flt(c)'.cancel = Flt(c).cancel
      <4>1. CASE arg[c].key # arg[p].key
        BY <4>1, <1>1, Here DEF Flt
      <4>2. CASE arg[c].key = arg[p].key
        <5>1. Flt(c) = f /\ Flt(c)' = g
          BY <4>2, <1>1 DEF Flt
        <5>2. f # Absent
          BY <5>1, <3>2 DEF Absent
        <5>3. ~ActivateFlight(p)
          BY <5>1, <2>2, <3>2 DEF ActivateFlight, CanActivate, Owns
        <5> QED  BY <5>1, <5>2, <5>3, <3>3, EntryStep DEF Unfinished
      <4> QED  BY <4>1, <4>2
    <3>5. c \in cancelled => c \in cancelled'
      BY <2>2, PartyStep
    <3> QED  BY <1>1, <3>1, <3>4, <3>5 DEF DInv, Cancellable
  <2> QED  BY <2>1, <2>2
<1>5. Swept'
  <2> SUFFICES ASSUME NEW d \in Drains, NEW c \in collected[d]
               PROVE  pc'[c] # "idle" /\ (pc'[c] = "preparing" => Flt(c)'.stopping)
    BY <1>1 DEF Swept
  <2>1. c \in Calls /\ pc[c] # "idle" /\ (pc[c] = "preparing" => Flt(c).stopping)
    BY DEF DInv, Swept, IInv, TypeOK
  <2>2. pc'[c] # "idle"
    BY <2>1, PartyStep
  <2>3. ASSUME pc'[c] = "preparing" PROVE Flt(c)'.stopping
    <3>1. pc[c] = "preparing"
      BY <2>1, <2>3, PartyStep
    <3>2. Flt(c).gen = c /\ Flt(c).phase = "preparing"
      BY <2>1, <3>1, Here DEF CallOK
    <3>3. Flt(c)'.phase = "preparing"
      BY <2>1, <2>3 DEF IInv, Consistency, CallOK
    <3>4. Flt(c)' = Flt(c)
      <4>1. CASE arg[c].key # arg[p].key
        BY <2>1, <4>1, <1>1, Here DEF Flt
      <4>2. CASE arg[c].key = arg[p].key
        <5>1. Flt(c) = f /\ Flt(c)' = g
          BY <4>2, <1>1 DEF Flt
        <5>2. f # Absent
          BY <5>1, <3>2 DEF Absent
        <5>3. ~ActivateFlight(p)
          <6>1. ActivateFlight(p) => f.gen = p /\ pc'[p] # "preparing"
            BY Here DEF ActivateFlight, CanActivate, Owns, Goto
          <6> QED  BY <5>1, <2>3, <3>2, <6>1
        <5> QED  BY <5>1, <5>2, <5>3, <3>2, <3>3, EntryStep DEF Unfinished
      <4> QED  BY <4>1, <4>2
    <3> QED  BY <2>1, <3>1, <3>4
  <2> QED  BY <2>2, <2>3
<1> QED  BY <1>2, <1>4, <1>5

(* Where a drain step leaves the marks and the cancel functions. *)
LEMMA DrainCancels ==
    ASSUME TypeOK, NEW d \in Drains, Drain(d), NEW k \in Keys
    PROVE  /\ flights'[k].cancel => flights[k].cancel
           /\ flights[k].stopping => flights'[k].stopping
           /\ DrainStart(d) => ~flights'[k].cancel
           /\ DrainStart(d) /\ Unfinished(flights[k]) => flights'[k].stopping
           /\ ~DrainStart(d) => flights'[k] = flights[k]
<1>1. CASE ~DrainStart(d)
  <2>1. UNCHANGED flights
    BY <1>1 DEF Drain, DrainCancel, DrainPoll, DrainReturn
  <2> QED  BY <1>1, <2>1
<1>2. CASE DrainStart(d)
  <2> DEFINE f == flights[k]
             b == f.stopping \/ Unfinished(f)
  <2>1. f \in Flight
    BY DEF TypeOK
  <2>2. flights'[k] = [f EXCEPT !.stopping = b, !.cancel = FALSE]
    BY <1>2, <2>1 DEF DrainStart, Flight
  <2>3. flights'[k].stopping = b /\ flights'[k].cancel = FALSE
    <3> HIDE DEF b
    <3> QED  BY <2>1, <2>2 DEF Flight
  <2> QED  BY <1>2, <2>3
<1> QED  BY <1>1, <1>2

LEMMA DrainDInv ==
    ASSUME DInv, NEW d \in Drains, Drain(d)
    PROVE  Quieted' /\ CancelsTaken' /\ Cancellable' /\ Swept'
<1>0. IInv /\ TypeOK
  BY DEF DInv, IInv
<1>1. /\ UNCHANGED <<arg, pc, held, workers>>
      /\ cancelled \subseteq cancelled'
      /\ \A e \in Drains : e # d => drains'[e] = drains[e] /\ collected'[e] = collected[e]
  BY <1>0 DEF Drain, DrainStart, DrainCancel, DrainPoll, DrainReturn, callVars, workVars, TypeOK
<1>2. \A k \in Keys : Unfinished(flights'[k]) <=> Unfinished(flights[k])
  BY <1>0, DrainMarks DEF Unfinished
<1>3. Quieted'
  <2>1. drains'[d] = "drained" => \A k \in Keys : ~Unfinished(flights[k])
    BY <1>0 DEF Drain, DrainStart, DrainCancel, DrainPoll, DrainReturn, TypeOK
  <2> QED  BY <1>1, <1>2, <2>1 DEF DInv, Quieted
<1>4. CancelsTaken'
  <2>1. CASE DrainStart(d)
    BY <1>0, <2>1, DrainCancels DEF CancelsTaken
  <2>2. CASE ~DrainStart(d)
    <3>1. drains[d] \notin {"idle", "over"}
      BY <2>2 DEF Drain, DrainCancel, DrainPoll, DrainReturn
    <3> QED  BY <1>0, <3>1, DrainCancels DEF DInv, CancelsTaken
  <2> QED  BY <2>1, <2>2
<1>5. Cancellable'
  <2> SUFFICES ASSUME NEW c \in Calls, workers[c] = "running"
               PROVE  \/ Flt(c)'.cancel \/ c \in cancelled'
                      \/ \E e \in Drains : drains'[e] = "cancelling" /\ c \in collected'[e]
    BY <1>1 DEF Cancellable
  <2>1. PICK k \in Keys : k = arg[c].key
    BY <1>0, Here
  <2>2. Flt(c) = flights[k] /\ Flt(c)' = flights'[k] /\ flights[k].gen = c
    BY <1>0, <1>1, <2>1, Here DEF Flt, CallOK
  <2>3. CASE c \in cancelled
    BY <1>1, <2>3
  <2>4. CASE flights[k].cancel
    <3>1. CASE DrainStart(d)
      <4> DEFINE G == {flights[j].gen : j \in {i \in Keys : flights[i].cancel}}
      <4>1. c \in G
        BY <2>1, <2>2, <2>4
      <4>2. collected'[d] = G /\ drains'[d] = "cancelling"
        BY <1>0, <3>1 DEF DrainStart, TypeOK
      <4> QED  BY <4>1, <4>2
    <3>2. CASE ~DrainStart(d)
      BY <1>0, <2>1, <2>2, <2>4, <3>2, DrainCancels
    <3> QED  BY <3>1, <3>2
  <2>5. ASSUME NEW e \in Drains, drains[e] = "cancelling", c \in collected[e]
        PROVE  c \in cancelled' \/ (drains'[e] = "cancelling" /\ c \in collected'[e])
    <3>1. CASE e # d
      BY <1>1, <2>5, <3>1
    <3>2. CASE e = d
      BY <2>5, <3>2 DEF Drain, DrainStart, DrainCancel, DrainPoll, DrainReturn
    <3> QED  BY <3>1, <3>2
  <2> QED  BY <2>2, <2>3, <2>4, <2>5 DEF DInv, Cancellable
<1>6. Swept'
  <2> SUFFICES ASSUME NEW e \in Drains, NEW c \in collected'[e]
               PROVE  pc[c] # "idle" /\ (pc[c] = "preparing" => Flt(c)'.stopping)
    BY <1>1 DEF Swept
  <2>1. CASE c \in collected[e]
    <3>1. c \in Calls /\ pc[c] # "idle" /\ (pc[c] = "preparing" => Flt(c).stopping)
      BY <1>0, <2>1 DEF DInv, Swept, TypeOK
    <3>2. PICK k \in Keys : k = arg[c].key
      BY <1>0, <3>1, Here
    <3>3. Flt(c) = flights[k] /\ Flt(c)' = flights'[k]
      BY <1>1, <3>2 DEF Flt
    <3> QED  BY <1>0, <3>1, <3>3, DrainCancels
  <2>2. CASE c \notin collected[e]
    <3>1. e = d /\ DrainStart(d)
      BY <1>0, <1>1, <2>2 DEF Drain, DrainStart, DrainCancel, DrainPoll, DrainReturn
    <3>2. collected'[d] = {flights[k].gen : k \in {j \in Keys : flights[j].cancel}}
      BY <1>0, <3>1 DEF DrainStart, TypeOK
    <3>3. PICK k \in Keys : flights[k].cancel /\ c = flights[k].gen
      BY <3>1, <3>2
    <3>4. FlightOK(k) /\ flights[k] \in Flight
      BY <1>0 DEF IInv, Consistency, TypeOK
    <3>5. c \in Calls /\ arg[c].key = k /\ flights[k].phase # "none"
      BY <3>3, <3>4 DEF FlightOK, Absent, Flight
    <3>6. pc[c] # "idle"
      BY <1>0, <3>3, <3>4, <3>5, Here DEF FlightOK, CallOK, Flight, Phases, Ended
    <3>7. pc[c] = "preparing" => Flt(c)'.stopping
      <4>1. Flt(c)' = flights'[k]
        BY <1>1, <3>5 DEF Flt
      <4>2. pc[c] = "preparing" => Unfinished(flights[k])
        BY <1>0, <3>5, Here DEF CallOK, Flt, Unfinished
      <4> QED  BY <1>0, <3>1, <4>1, <4>2, DrainCancels
    <3> QED  BY <3>6, <3>7
  <2> QED  BY <2>1, <2>2
<1> QED  BY <1>3, <1>4, <1>5, <1>6

LEMMA InitDInv == Init => DInv
<1> SUFFICES ASSUME Init PROVE DInv
  OBVIOUS
<1>1. Quieted /\ CancelsTaken /\ Swept
  BY DEF Init, Quieted, CancelsTaken, Swept
<1>2. Cancellable
  BY DEF Init, Cancellable
<1> QED  BY <1>1, <1>2, InitIInv DEF DInv

LEMMA DInvStep == DInv /\ [Next]_vars => DInv'
<1> SUFFICES ASSUME DInv, [Next]_vars PROVE DInv'
  OBVIOUS
<1>1. IInv'
  BY TypeStep, ConsistencyStep, ReadersStep, DrainsStep DEF DInv, IInv
<1>2. CASE UNCHANGED vars
  BY <1>1, <1>2 DEF DInv, vars, Quieted, CancelsTaken, Cancellable, Swept, Flt
<1>3. ASSUME NEW c \in Calls, Party(c) PROVE DInv'
  BY <1>1, <1>3, PartyDInv DEF DInv
<1>4. ASSUME NEW d \in Drains, Drain(d) PROVE DInv'
  BY <1>1, <1>4, DrainDInv DEF DInv
<1> QED  BY <1>2, <1>3, <1>4 DEF Next, Party

(* The drain invariant holds of every execution. *)
THEOREM DrainInvariance == Spec => []DInv
BY InitDInv, DInvStep, PTL DEF Spec

LEMMA QuietMeansIdle == DInv => DrainedMeansQuiet
<1> SUFFICES ASSUME DInv, NEW d \in Drains, drains[d] = "drained", NEW c \in Calls, Driving(c)
             PROVE  FALSE
  BY DEF DrainedMeansQuiet
<1>1. IInv
  BY DEF DInv
<1>2. PICK k \in Keys : k = arg[c].key
  BY <1>1, Here
<1>3. flights[k].gen = c /\ flights[k].phase \in {"preparing", "running"}
  BY <1>1, <1>2, Here DEF Driving, CallOK, FlightOK, Flt, Flight, Phases, Ended
<1> QED  BY <1>3 DEF DInv, Quieted, Unfinished

(* When DrainInFlight reports that everything unwound it has.                *)
THEOREM DrainIsSound == Spec => []DrainedMeansQuiet
BY DrainInvariance, QuietMeansIdle, PTL

(* A drain that polls has had every running worker's cancel called, however  *)
(* many drains overlap.                                                      *)
THEOREM DrainCancelsWorkers == Spec => []DrainCancelsAll
<1>1. DInv => DrainCancelsAll
  <2> SUFFICES ASSUME DInv, NEW d \in Drains, NEW c \in Calls,
                      drains[d] \in {"polling", "drained", "timedout"}, workers[c] = "running"
               PROVE  \/ c \in cancelled
                      \/ \E e \in Drains : drains[e] = "cancelling" /\ c \in collected[e]
    BY DEF DrainCancelsAll
  <2>1. arg[c].key \in Keys
    BY Here DEF DInv
  <2>2. ~Flt(c).cancel
    BY <2>1 DEF DInv, CancelsTaken, Flt
  <2> QED  BY <2>2 DEF DInv, Cancellable
<1> QED  BY DrainInvariance, <1>1, PTL

(* Drain and activation are fenced: no worker starts under a drain, and a    *)
(* reservation a drain has marked never starts one.                          *)
THEOREM DrainFences == Spec => DrainFence
<1> DEFINE A == \A c \in Calls :
          workers[c] = "none" /\ workers'[c] = "running"
            => \A d \in Drains : /\ drains[d] \in {"idle", "over"}
                                 /\ c \notin collected[d]
<1>1. DInv /\ [Next]_vars => [A]_vars
  <2> SUFFICES ASSUME DInv, Next, NEW c \in Calls, workers[c] = "none", workers'[c] = "running",
                      NEW d \in Drains
               PROVE  drains[d] \in {"idle", "over"} /\ c \notin collected[d]
    OBVIOUS
  <2>1. IInv
    BY DEF DInv
  <2>2. ASSUME NEW e \in Drains, Drain(e) PROVE FALSE
    BY <2>2 DEF Drain, DrainStart, DrainCancel, DrainPoll, DrainReturn, workVars
  <2>3. PICK p \in Calls : Party(p)
    BY <2>2 DEF Next, Party
  <2>4. ActivateFlight(c)
    BY <2>1, <2>3, PartyStep
  <2>5. activeDrains = 0 /\ pc[c] = "preparing" /\ ~Flt(c).stopping
    BY <2>4 DEF ActivateFlight, CanActivate
  <2> QED  BY <2>1, <2>5, DrainCounted DEF DInv, IInv, Swept
<1> QED  BY DrainInvariance, <1>1, PTL DEF Spec, DrainFence

-----------------------------------------------------------------------------
(* Verdicts *)

(* Only two steps give a verdict read from the release record. *)
LEMMA VerdictBy ==
    ASSUME IInv, Next, NEW c \in Calls, answer[c] # answer'[c],
           answer'[c].kind \in {"success", "failure"}
    PROVE  /\ ReconcileFlightResult(c) \/ RecoveryReads(c)
           /\ UNCHANGED workers
<1> USE Here
<1>0. answer \in [Calls -> [kind : Answers, gen : Calls \cup {NoCall}]]
  BY DEF IInv, TypeOK
<1>1. ASSUME NEW d \in Drains, Drain(d) PROVE FALSE
  BY <1>1 DEF Drain, DrainStart, DrainCancel, DrainPoll, DrainReturn, callVars
<1>2. PICK p \in Calls : Party(p)
  BY <1>1 DEF Next, Party
<1>3. CASE ReconcileFlightResult(p)
  <2>1. p = c
    BY <1>0, <1>3 DEF ReconcileFlightResult, Answer
  <2> QED  BY <1>3, <2>1 DEF ReconcileFlightResult, workVars
<1>4. CASE RecoveryReads(p)
  <2>1. p = c
    BY <1>0, <1>4 DEF RecoveryReads, Answer
  <2> QED  BY <1>4, <2>1 DEF RecoveryReads, workVars
<1>5. ASSUME NEW kind \in Answers \ {"success", "failure"}, NEW g, Answer(p, kind, g)
      PROVE  FALSE
  BY <1>0, <1>5 DEF Answer
<1>6. CASE ActivateFlight(p)
  <2>1. \/ Answer(p, "progress", p) \/ UNCHANGED answer
    BY <1>6 DEF ActivateFlight
  <2> QED  BY <1>5, <2>1 DEF Answers
<1>7. CASE \/ RefuseSubmit(p) \/ DeclineSubmit(p) \/ ActivationRefused(p)
           \/ AwaitRecorded(p) \/ RejoinProgress(p) \/ RefuseStatus(p)
           \/ StatusOverdue(p)
  <2>1. \E kind \in {"conflict", "declined", "canceled", "progress", "deadline"},
           g \in Calls \cup {NoCall} : Answer(p, kind, g)
    BY <1>7 DEF RefuseSubmit, DeclineSubmit, ActivationRefused, AwaitRecorded,
       RejoinProgress, RefuseStatus, StatusOverdue
  <2> QED  BY <1>5, <2>1 DEF Answers
<1>8. CASE AwaitFails(p) \/ RejoinFails(p)
  <2>1. \E kind \in {"conflict", "outcome", "deadline", "progress", "error"},
           g \in Calls \cup {NoCall} : Answer(p, kind, g)
    BY <1>8 DEF AwaitFails, RejoinFails, AfterFlightError
  <2> QED  BY <1>5, <2>1 DEF Answers
<1>9. CASE ObserveUnidentified(p)
  <2>1. \E kind \in {"outcome", "deadline", "progress", "error"} : \E g : Answer(p, kind, g)
    BY <1>9 DEF ObserveUnidentified
  <2> QED  BY <1>5, <2>1 DEF Answers
<1>10. CASE StatusFails(p)
  <2>1. (\E kind \in {"error", "deadline"} : \E g : Answer(p, kind, g)) \/ UNCHANGED answer
    BY <1>10 DEF StatusFails
  <2> QED  BY <1>5, <2>1 DEF Answers
<1>11. CASE \/ ReserveFlight(p) \/ RejoinFlight(p) \/ ConsumeFailure(p)
            \/ AcquireFlight(p) \/ AcquireRecovery(p) \/ StatusReads(p)
            \/ Return(p) \/ Background(p)
  BY <1>11 DEF ReserveFlight, RejoinFlight, ConsumeFailure, AcquireFlight, AcquireRecovery,
     StatusReads, Return, RemoveReservation, ReleaseReader, Background, FinishFlight,
     RetireFlight, PassDeadline, callVars
<1> QED  BY <1>2, <1>3, <1>4, <1>6, <1>7, <1>8, <1>9, <1>10, <1>11
         DEF Party, Submit, Status

(* No poll ever gives a verdict from the record of a release on which a      *)
(* worker of this process is still at work.                                  *)
THEOREM VerdictsAreFinal == Spec => NoVerdictWhileRunning
<1>1. IInv /\ [Next]_vars =>
        [\A c, w \in Calls :
          answer[c] # answer'[c] /\ answer'[c].kind \in {"success", "failure"}
              /\ arg[w].key = arg[c].key
            => workers[w] # "running"]_vars
  <2> SUFFICES ASSUME IInv, Next, NEW c \in Calls, NEW w \in Calls,
                      answer[c] # answer'[c], answer'[c].kind \in {"success", "failure"},
                      arg[w].key = arg[c].key, workers[w] = "running"
               PROVE  FALSE
    OBVIOUS
  <2> USE Here
  <2>1. Flt(w) = Flt(c) /\ Flt(w).gen = w /\ Flt(w).phase = "running"
    BY DEF Flt, CallOK, FlightOK, Flight, Phases, Ended
  <2>2. CASE ReconcileFlightResult(c)
    <3>1. Flt(c).phase # "err" /\ ~Conclusive(Flt(c), seen[c])
      BY <2>1 DEF Conclusive
    <3>2. Answer(c, "progress", held[c])
      BY <2>2, <3>1 DEF ReconcileFlightResult
    <3> QED  BY <3>2 DEF Answer, IInv, TypeOK
  <2>3. CASE RecoveryReads(c)
    <3>1. Flt(c).phase = "preparing"
      BY <2>3 DEF RecoveryReads, CallOK
    <3> QED  BY <2>1, <3>1
  <2> QED  BY <2>2, <2>3, VerdictBy
<1> QED  BY Invariance, <1>1, PTL DEF Spec, NoVerdictWhileRunning

-----------------------------------------------------------------------------
(* Whose work a callback is told about *)

(* The operation of generation g is c's own, or the one c asks for.          *)
Matched(c, g) ==
    /\ arg[g].key = arg[c].key /\ arg[g].ident = arg[c].ident
    /\ arg[c].kind # "status" => arg[g].kind = arg[c].kind
    /\ arg[c].kind \in {"create", "update"} => arg[g].print = arg[c].print

(* What a callback retains is matched too, for what it retains is what it    *)
(* answers with in a later step.                                             *)
WInv == /\ IInv
        /\ \A c \in Calls : /\ held[c] # NoCall => Matched(c, held[c])
                            /\ answer[c].gen # NoCall => Matched(c, answer[c].gen)

(* An answer names no generation, the callback's own, the one it retains, or *)
(* one it has just compared itself with.                                     *)
LEMMA AnswerStep ==
    ASSUME IInv, NEW p \in Calls, Party(p)
    PROVE  /\ \A c \in Calls : c # p => held'[c] = held[c] /\ answer'[c] = answer[c]
           /\ \/ held'[p] \in {held[p], NoCall}
              \/ Matched(p, held'[p])
           /\ \/ answer'[p] = answer[p]
              \/ answer'[p].gen \in {NoCall, p, held[p]}
              \/ Matched(p, answer'[p].gen)
<1> DEFINE Others == \A c \in Calls : c # p => held'[c] = held[c] /\ answer'[c] = answer[c]
           Names == \/ answer'[p] = answer[p]
                    \/ answer'[p].gen \in {NoCall, p, held[p]}
                    \/ Matched(p, answer'[p].gen)
<1> USE Here
<1>0. answer \in [Calls -> [kind : Answers, gen : Calls \cup {NoCall}]]
  BY DEF IInv, TypeOK
<1>1. ASSUME NEW kind, NEW g, Answer(p, kind, g), UNCHANGED held
      PROVE  Others /\ held'[p] = held[p] /\ answer'[p].gen = g
  BY <1>0, <1>1 DEF Answer
<1>2. ASSUME NEW g \in {NoCall, p, held[p]}, NEW kind, Answer(p, kind, g), UNCHANGED held
      PROVE  Others /\ held'[p] = held[p] /\ Names
  BY <1>1, <1>2
<1>3. CASE RejoinFlight(p)
  <2>1. /\ held' = [held EXCEPT ![p] = Flt(p).gen] /\ UNCHANGED answer
        /\ MatchesRejoin(Flt(p), p) /\ arg[p].kind \in SubmitKinds
    BY <1>3 DEF RejoinFlight
  <2>2. Matched(p, Flt(p).gen)
    BY <2>1 DEF Matched, MatchesRejoin, FlightOK, Flt, SubmitKinds
  <2> QED  BY <2>1, <2>2
<1>4. CASE AcquireFlight(p)
  <2>1. PICK g \in Issued : /\ MatchesStatus(Flt(p), p, g)
                            /\ held' = [held EXCEPT ![p] = g]
    BY <1>4 DEF AcquireFlight
  <2>2. Matched(p, g) /\ UNCHANGED answer
    BY <1>4, <2>1 DEF AcquireFlight, Matched, MatchesStatus, FlightOK, Flt
  <2> QED  BY <2>1, <2>2
<1>5. CASE ObserveUnidentified(p)
  <2>1. PICK g \in Issued \cup {NoCall} :
          IF MatchesStatus(Flt(p), p, g)
          THEN \E kind \in Answers : Answer(p, kind, g)
          ELSE Answer(p, "error", NoCall)
    BY <1>5 DEF ObserveUnidentified, Answers
  <2>2. UNCHANGED held /\ arg[p].kind = "status"
    BY <1>5 DEF ObserveUnidentified
  <2>3. CASE MatchesStatus(Flt(p), p, g)
    <3>1. PICK kind \in Answers : Answer(p, kind, g)
      BY <2>1, <2>3
    <3>2. Matched(p, g)
      BY <2>2, <2>3 DEF Matched, MatchesStatus, FlightOK, Flt
    <3> QED  BY <1>1, <2>2, <3>1, <3>2
  <2>4. CASE ~MatchesStatus(Flt(p), p, g)
    BY <1>2, <2>1, <2>2, <2>4
  <2> QED  BY <2>3, <2>4
<1>6. CASE ReconcileFlightResult(p)
  <2>1. UNCHANGED held /\ \E kind : Answer(p, kind, held[p])
    BY <1>6 DEF ReconcileFlightResult
  <2> QED  BY <1>2, <2>1
<1>7. CASE AwaitFails(p) \/ RejoinFails(p)
  <2>1. UNCHANGED held
    BY <1>7 DEF AwaitFails, RejoinFails, AfterFlightError
  <2>2. \E kind \in Answers, g \in {NoCall, p, held[p]} : Answer(p, kind, g)
    BY <1>7 DEF AwaitFails, RejoinFails, AfterFlightError, Answers
  <2> QED  BY <1>2, <2>1, <2>2
<1>8. CASE \/ RefuseSubmit(p) \/ DeclineSubmit(p) \/ ActivationRefused(p)
           \/ AwaitRecorded(p) \/ RejoinProgress(p) \/ RefuseStatus(p)
           \/ StatusOverdue(p) \/ RecoveryReads(p)
  <2>1. UNCHANGED held
    BY <1>8 DEF RefuseSubmit, DeclineSubmit, ActivationRefused, AwaitRecorded,
       RejoinProgress, RefuseStatus, StatusOverdue, RecoveryReads
  <2>2. \E kind \in Answers, g \in {NoCall, p, held[p]} : Answer(p, kind, g)
    BY <1>8 DEF RefuseSubmit, DeclineSubmit, ActivationRefused, AwaitRecorded,
       RejoinProgress, RefuseStatus, StatusOverdue, RecoveryReads, Answers
  <2> QED  BY <1>2, <2>1, <2>2
<1>9. CASE ActivateFlight(p) \/ StatusFails(p)
  <2>1. UNCHANGED held
    BY <1>9 DEF ActivateFlight, StatusFails
  <2>2. \/ UNCHANGED answer
        \/ \E kind \in Answers, g \in {NoCall, p, held[p]} : Answer(p, kind, g)
    BY <1>9 DEF ActivateFlight, StatusFails, Answers
  <2> QED  BY <1>2, <2>1, <2>2
<1>10. CASE \/ ReserveFlight(p) \/ ConsumeFailure(p) \/ AcquireRecovery(p)
            \/ StatusReads(p) \/ RemoveReservation(p) \/ Background(p)
  <2>1. UNCHANGED <<held, answer>>
    BY <1>10 DEF ReserveFlight, ConsumeFailure, AcquireRecovery, StatusReads,
       RemoveReservation, Background, FinishFlight, RetireFlight, PassDeadline, callVars
  <2> QED  BY <2>1
<1>11. CASE ReleaseReader(p)
  BY <1>11 DEF ReleaseReader
<1> QED  BY <1>3, <1>4, <1>5, <1>6, <1>7, <1>8, <1>9, <1>10, <1>11
         DEF Party, Submit, Status, Return

LEMMA WInvStep == WInv /\ [Next]_vars => WInv'
<1> SUFFICES ASSUME WInv, [Next]_vars PROVE WInv'
  OBVIOUS
<1>1. IInv /\ IInv'
  BY TypeStep, ConsistencyStep, ReadersStep, DrainsStep DEF WInv, IInv
<1>2. ASSUME UNCHANGED <<arg, held, answer>> PROVE WInv'
  BY <1>1, <1>2 DEF WInv, Matched
<1>3. CASE UNCHANGED vars
  BY <1>2, <1>3 DEF vars
<1>4. ASSUME NEW p \in Calls, Party(p) PROVE WInv'
  <2>1. UNCHANGED arg
    BY <1>1, <1>4, PartyStep
  <2>2. \A c, g \in Calls : Matched(c, g)' <=> Matched(c, g)
    BY <2>1 DEF Matched
  <2>3. /\ held' \in [Calls -> Calls \cup {NoCall}]
        /\ answer' \in [Calls -> [kind : Answers, gen : Calls \cup {NoCall}]]
    BY <1>1 DEF IInv, TypeOK
  <2>4. Matched(p, p)
    BY DEF Matched
  <2>5. ASSUME NEW c \in Calls, held'[c] # NoCall PROVE Matched(c, held'[c])
    BY <1>1, <1>4, <2>5, AnswerStep DEF WInv
  <2>6. ASSUME NEW c \in Calls, answer'[c].gen # NoCall PROVE Matched(c, answer'[c].gen)
    BY <1>1, <1>4, <2>4, <2>6, AnswerStep DEF WInv
  <2>7. ASSUME NEW c \in Calls
        PROVE  /\ held'[c] # NoCall => Matched(c, held[c])'
               /\ answer'[c].gen # NoCall => Matched(c, answer[c].gen)'
    BY <2>1, <2>5, <2>6 DEF Matched
  <2> QED  BY <1>1, <2>7 DEF WInv
<1>5. ASSUME NEW d \in Drains, Drain(d) PROVE WInv'
  <2>1. UNCHANGED <<arg, held, answer>>
    BY <1>5 DEF Drain, DrainStart, DrainCancel, DrainPoll, DrainReturn, callVars
  <2> QED  BY <1>2, <2>1
<1> QED  BY <1>3, <1>4, <1>5 DEF Next, Party

(* No callback ever waits for, or is told about, the operation of another    *)
(* identity or another release, nor a submit about another desired state.    *)
THEOREM CallbacksHearOfTheirOwn == Spec => []OwnWorkOnly
<1>1. Init => WInv
  BY InitIInv DEF Init, WInv
<1>2. WInv => OwnWorkOnly
  BY DEF WInv, OwnWorkOnly, Matched
<1> QED  BY <1>1, <1>2, WInvStep, PTL DEF Spec

-----------------------------------------------------------------------------
(* Outcomes are kept until they are told *)

(* Where a callback has yet to decide what it returns.                       *)
Asking == {"idle", "preparing", "awaiting", "rejoined", "matched", "reconciling",
           "recovering"}

(* An entry that the last reader will delete has had its outcome told to     *)
(* somebody, or has served its retention period.                             *)
ReportedTold ==
    \A k \in Keys : flights[k].reported =>
        flights[k].gen \in Told \/ flights[k].gen \notin timers

(* A callback decides once; one that consumes a failure is returning it.     *)
TellsOnce ==
    \A c \in Calls : /\ pc[c] \in Asking => answer[c].kind = "none"
                     /\ pc[c] = "consuming" => answer[c].kind = "outcome"

OInv == IInv /\ ReportedTold /\ TellsOnce

(* How a step moves a callback, its answer and its timer.                    *)
LEMMA TellStep ==
    ASSUME IInv, NEW p \in Calls, Party(p)
    PROVE  /\ answer'[p] # answer[p] => pc[p] \in Asking
           /\ pc'[p] \in Asking => pc[p] \in Asking /\ answer'[p] = answer[p]
           /\ pc'[p] = "consuming" =>
                 \/ pc[p] = "consuming" /\ answer'[p] = answer[p]
                 \/ answer'[p].kind = "outcome"
           /\ ~FinishFlight(p) => timers' \subseteq timers
           /\ timers' \subseteq timers \cup {p}
<1> USE Here
<1>0. answer \in [Calls -> [kind : Answers, gen : Calls \cup {NoCall}]]
  BY DEF IInv, TypeOK
<1>1. CASE AwaitFails(p) \/ RejoinFails(p)
  <2>1. \/ Answer(p, "outcome", p) \/ Answer(p, "outcome", held[p])
        \/ pc'[p] \in {"done", "releasing"}
    BY <1>1 DEF AwaitFails, RejoinFails, AfterFlightError, Goto
  <2>2. pc[p] \in Asking /\ pc'[p] \in {"done", "releasing", "consuming"}
        /\ timers' = timers
    BY <1>1 DEF AwaitFails, RejoinFails, AfterFlightError, Goto, Asking
  <2> QED  BY <1>0, <2>1, <2>2 DEF Answer, Asking
<1>2. CASE \/ ReserveFlight(p) \/ RejoinFlight(p) \/ AcquireFlight(p)
           \/ AcquireRecovery(p) \/ StatusReads(p)
  <2>1. /\ pc[p] \in Asking /\ pc'[p] # "consuming" /\ answer' = answer
        /\ timers' = timers
    BY <1>2 DEF ReserveFlight, RejoinFlight, AcquireFlight, AcquireRecovery, StatusReads,
       Goto, workVars, Asking
  <2> QED  BY <2>1
<1>3. CASE \/ RefuseSubmit(p) \/ DeclineSubmit(p) \/ ActivationRefused(p)
           \/ AwaitRecorded(p) \/ RejoinProgress(p) \/ RefuseStatus(p)
           \/ ObserveUnidentified(p) \/ StatusOverdue(p) \/ RecoveryReads(p)
           \/ ReconcileFlightResult(p)
  <2>1. /\ pc[p] \in Asking /\ pc'[p] \in {"done", "unreserving", "releasing"}
        /\ timers' = timers
    BY <1>3 DEF RefuseSubmit, DeclineSubmit, ActivationRefused, AwaitRecorded,
       RejoinProgress, RefuseStatus, ObserveUnidentified, StatusOverdue, RecoveryReads,
       ReconcileFlightResult, Goto, workVars, Asking
  <2> QED  BY <2>1 DEF Asking
<1>4. CASE ActivateFlight(p)
  <2>1. /\ pc[p] \in Asking /\ timers' = timers
        /\ \/ pc'[p] = "done"
           \/ pc'[p] = "awaiting" /\ answer' = answer
    BY <1>4 DEF ActivateFlight, Goto, Asking
  <2> QED  BY <2>1 DEF Asking
<1>5. CASE StatusFails(p)
  <2>1. /\ pc[p] \in Asking /\ timers' = timers
        /\ \/ pc'[p] = "releasing"
           \/ pc'[p] = "reconciling" /\ answer' = answer
    BY <1>5 DEF StatusFails, Goto, Asking
  <2> QED  BY <2>1 DEF Asking
<1>6. CASE ConsumeFailure(p) \/ RemoveReservation(p) \/ ReleaseReader(p)
  <2>1. /\ pc'[p] \in {"done", "releasing"} /\ answer' = answer /\ timers' = timers
    BY <1>6 DEF ConsumeFailure, RemoveReservation, ReleaseReader, Goto, workVars
  <2> QED  BY <2>1 DEF Asking
<1>7. CASE Background(p)
  <2>1. /\ pc' = pc /\ answer' = answer /\ timers' \subseteq timers \cup {p}
        /\ ~FinishFlight(p) => timers' \subseteq timers
    BY <1>7 DEF Background, FinishFlight, RetireFlight, PassDeadline, callVars
  <2> QED  BY <2>1
<1> QED  BY <1>1, <1>2, <1>3, <1>4, <1>5, <1>6, <1>7 DEF Party, Submit, Status, Return

(* Nobody takes back an outcome that was told.                               *)
LEMMA ToldStays ==
    ASSUME IInv, TellsOnce, NEW p \in Calls, Party(p)
    PROVE  TellsOnce' /\ Told \subseteq Told'
<1>1. \A c \in Calls : c # p => answer'[c] = answer[c] /\ pc'[c] = pc[c]
  BY AnswerStep, PartyStep
<1>2. TellsOnce'
  BY <1>1, TellStep DEF TellsOnce
<1>3. ASSUME NEW c \in Calls, answer[c].kind \in {"outcome", "success", "failure"}
      PROVE  answer'[c] = answer[c]
  BY <1>1, <1>3, TellStep DEF TellsOnce
<1>4. Told \subseteq Told'
  BY <1>3 DEF Told
<1> QED  BY <1>2, <1>4

(* An entry with a worker behind it is deleted or marked as reported only    *)
(* when its outcome is told, or when its timer is spent.                     *)
LEMMA EntryLeaves ==
    ASSUME OInv, NEW p \in Calls, Party(p)
    PROVE  LET f == Flt(p)
               g == flights'[arg[p].key]
           IN  \/ g.gen = f.gen /\ g.reported = f.reported
               \/ /\ ~g.reported
                  /\ f.gen = NoCall \/ workers[f.gen] = "none"
               \/ /\ g = Absent \/ g.gen = f.gen
                  /\ workers[f.gen] = "ended"
                  /\ f.gen \in Told' \/ f.gen \notin timers'
<1> DEFINE f == Flt(p)
           g == flights'[arg[p].key]
           Same == g.gen = f.gen /\ g.reported = f.reported
           Settled == /\ g = Absent \/ g.gen = f.gen
                      /\ workers[f.gen] = "ended"
                      /\ f.gen \in Told' \/ f.gen \notin timers'
<1>0. IInv /\ TellsOnce /\ ReportedTold /\ Told \subseteq Told'
      /\ answer \in [Calls -> [kind : Answers, gen : Calls \cup {NoCall}]]
  BY ToldStays DEF OInv, IInv, TypeOK
<1> USE <1>0, Here
<1>1. UNCHANGED flights => Same
  BY DEF Flt
<1>2. ASSUME NEW h, SetFlight(p, h) PROVE g = h
  BY <1>2 DEF SetFlight
<1>3. \/ Report(f) = Absent
      \/ Report(f).gen = f.gen
  BY DEF Report, Flight
<1>4. f.gen # NoCall /\ f.phase \in Ended => f.gen \in Calls /\ workers[f.gen] = "ended"
  BY DEF FlightOK, Flt, Flight
<1>5. CASE ReserveFlight(p) \/ AcquireRecovery(p)
  <2>1. f = Absent /\ g = Reservation(p)
    BY <1>2, <1>5 DEF ReserveFlight, AcquireRecovery
  <2> QED  BY <2>1 DEF Absent, Reservation
<1>6. CASE RejoinFlight(p) \/ AcquireFlight(p)
  <2>1. g = AddReader(f)
    BY <1>2, <1>6 DEF RejoinFlight, AcquireFlight
  <2> QED  BY <2>1 DEF AddReader, Flight
<1>7. CASE ActivateFlight(p)
  <2>1. g = [f EXCEPT !.phase = "running", !.cancel = TRUE]
    BY <1>2, <1>7 DEF ActivateFlight
  <2> QED  BY <2>1 DEF Flight
<1>8. CASE ConsumeFailure(p)
  <2>1. CASE Owns(p, answer[p].gen) /\ f.phase = "err"
    <3>1. g = Report(f)
      BY <1>2, <1>8, <2>1 DEF ConsumeFailure
    <3>2. answer'[p] = answer[p] /\ answer[p].kind = "outcome" /\ answer[p].gen = f.gen
      BY <1>8, <2>1 DEF ConsumeFailure, TellsOnce, Owns
    <3>3. f.gen \in Told'
      BY <3>2 DEF Told
    <3> QED  BY <1>3, <1>4, <2>1, <3>1, <3>3 DEF Owns, Ended
  <2>2. CASE ~(Owns(p, answer[p].gen) /\ f.phase = "err")
    BY <1>1, <1>8, <2>2 DEF ConsumeFailure
  <2> QED  BY <2>1, <2>2
<1>9. CASE RetireFlight(p)
  <2>1. p \notin timers' /\ workers[p] = "ended"
    BY <1>9 DEF RetireFlight, CallOK
  <2>2. CASE Owns(p, p)
    <3>1. g = Report(f) /\ f.gen = p
      BY <1>2, <1>9, <2>2 DEF RetireFlight, Owns
    <3> QED  BY <1>3, <2>1, <3>1
  <2>3. CASE ~Owns(p, p)
    BY <1>1, <1>9, <2>3 DEF RetireFlight
  <2> QED  BY <2>2, <2>3
<1>10. CASE ReconcileFlightResult(p)
  <2> DEFINE failed == f.phase = "err"
             final  == failed \/ Conclusive(f, seen[p])
  <2>1. /\ flights' = [flights EXCEPT ![arg[p].key] = IF final THEN Report(f) ELSE f]
        /\ Answer(p, IF failed THEN "outcome"
                     ELSE IF final THEN seen[p] ELSE "progress", held[p])
        /\ pc[p] = "reconciling"
    BY <1>10 DEF ReconcileFlightResult
  <2>2. f.gen = held[p] /\ held[p] # NoCall /\ f.phase # "preparing"
    BY <2>1 DEF CallOK
  <2>3. CASE final
    <3>1. g = Report(f)
      BY <2>1, <2>3
    <3>2. f.phase \in Ended
      BY <2>2, <2>3 DEF Conclusive, FlightOK, Flt, Flight, Phases, Ended
    <3>3. /\ answer'[p].gen = f.gen
          /\ answer'[p].kind = IF failed THEN "outcome" ELSE seen[p]
      BY <2>1, <2>2, <2>3 DEF Answer
    <3>4. ~failed => seen[p] \in {"success", "failure"}
      BY <2>1, <2>3 DEF CallOK, Conclusive
    <3>5. f.gen \in Told'
      BY <3>3, <3>4 DEF Told
    <3> QED  BY <1>3, <1>4, <2>2, <3>1, <3>2, <3>5
  <2>4. CASE ~final
    BY <2>1, <2>4
  <2> QED  BY <2>3, <2>4
<1>11. CASE RemoveReservation(p)
  <2>1. f.gen = p /\ workers[p] = "none" /\ f.readers = 0
    BY <1>11 DEF RemoveReservation, CallOK, FlightOK, Flt
  <2>2. g = Absent
    BY <1>2, <1>11, <2>1 DEF RemoveReservation, Owns, Report
  <2> QED  BY <2>1, <2>2 DEF Absent
<1>12. CASE ReleaseReader(p)
  <2>1. f.gen # NoCall /\ f.gen = held[p] /\ g = DropReader(f)
    BY <1>2, <1>12 DEF ReleaseReader, CallOK, Owns
  <2>2. timers' = timers
    BY <1>12 DEF ReleaseReader, workVars
  <2>3. CASE f.reported
    <3>1. f.phase \in Ended
      BY <2>3 DEF FlightOK, Flt
    <3>2. f.gen \in Told' \/ f.gen \notin timers'
      BY <2>2, <2>3 DEF ReportedTold, Flt
    <3>3. g = Absent \/ g.gen = f.gen
      BY <2>1 DEF DropReader, Flight
    <3> QED  BY <1>4, <2>1, <3>1, <3>2, <3>3
  <2>4. CASE ~f.reported
    BY <2>1, <2>4 DEF DropReader, Flight
  <2> QED  BY <2>3, <2>4
<1>13. CASE FinishFlight(p)
  <2>1. f.gen = p
    BY <1>13 DEF FinishFlight, CallOK
  <2>2. PICK o \in Ended :
          IF Owns(p, p) /\ ~Finished(f)
          THEN SetFlight(p, [f EXCEPT !.phase = o, !.cancel = FALSE])
          ELSE UNCHANGED flights
    BY <1>13 DEF FinishFlight
  <2>3. /\ [f EXCEPT !.phase = o, !.cancel = FALSE].gen = f.gen
        /\ [f EXCEPT !.phase = o, !.cancel = FALSE].reported = f.reported
    BY DEF Flight
  <2> QED  BY <1>1, <1>2, <2>2, <2>3
<1>14. CASE \/ RefuseSubmit(p) \/ DeclineSubmit(p) \/ ActivationRefused(p)
            \/ AwaitRecorded(p) \/ AwaitFails(p) \/ RejoinProgress(p) \/ RejoinFails(p)
            \/ RefuseStatus(p) \/ ObserveUnidentified(p) \/ StatusOverdue(p)
            \/ StatusReads(p) \/ StatusFails(p) \/ RecoveryReads(p) \/ PassDeadline(p)
  BY <1>1, <1>14 DEF RefuseSubmit, DeclineSubmit, ActivationRefused, AwaitRecorded,
     AwaitFails, RejoinProgress, RejoinFails, AfterFlightError, RefuseStatus,
     ObserveUnidentified, StatusOverdue, StatusReads, StatusFails, RecoveryReads,
     PassDeadline
<1> QED  BY <1>5, <1>6, <1>7, <1>8, <1>9, <1>10, <1>11, <1>12, <1>13, <1>14
         DEF Party, Submit, Status, Return, Background

LEMMA ReportedStep ==
    ASSUME OInv, NEW p \in Calls, Party(p), IInv'
    PROVE  ReportedTold'
<1> DEFINE f == Flt(p)
<1>0. IInv /\ TellsOnce /\ ReportedTold /\ Told \subseteq Told'
  BY ToldStays DEF OInv
<1> USE <1>0, Here
<1>1. SUFFICES ASSUME NEW k \in Keys, flights'[k].reported
               PROVE  flights'[k].gen \in Told' \/ flights'[k].gen \notin timers'
  BY DEF ReportedTold
<1>2. ASSUME flights'[k].gen = flights[k].gen, flights[k].reported
      PROVE  flights'[k].gen \in Told' \/ flights'[k].gen \notin timers'
  <2>1. flights[k].phase \in Ended /\ flights[k].gen \in Calls
        /\ workers[flights[k].gen] = "ended"
    BY <1>2 DEF IInv, Consistency, FlightOK, Absent, Ended, TypeOK, Flight
  <2>2. flights[k].gen \notin timers => flights[k].gen \notin timers'
    BY <2>1, TellStep DEF FinishFlight
  <2> QED  BY <1>2, <2>2 DEF ReportedTold
<1>3. CASE k # arg[p].key
  BY <1>1, <1>2, <1>3, EntryStep
<1>4. CASE k = arg[p].key
  <2>1. ~Absent.reported
    BY DEF Absent
  <2> QED  BY <1>1, <1>2, <1>4, <2>1, EntryLeaves DEF Flt
<1> QED  BY <1>3, <1>4

LEMMA OInvStep == OInv /\ [Next]_vars => OInv'
<1> SUFFICES ASSUME OInv, [Next]_vars PROVE OInv'
  OBVIOUS
<1>1. IInv /\ IInv'
  BY TypeStep, ConsistencyStep, ReadersStep, DrainsStep DEF OInv, IInv
<1>2. CASE UNCHANGED vars
  BY <1>1, <1>2 DEF OInv, vars, ReportedTold, Told, TellsOnce
<1>3. ASSUME NEW p \in Calls, Party(p) PROVE OInv'
  BY <1>1, <1>3, ToldStays, ReportedStep DEF OInv
<1>4. ASSUME NEW d \in Drains, Drain(d) PROVE OInv'
  <2>1. UNCHANGED <<pc, answer, timers>>
    BY <1>4 DEF Drain, DrainStart, DrainCancel, DrainPoll, DrainReturn, callVars, workVars
  <2>2. \A k \in Keys : /\ flights'[k].gen = flights[k].gen
                        /\ flights'[k].reported = flights[k].reported
    BY <1>1, <1>4, DrainMarks DEF IInv
  <2>3. Told' = Told /\ TellsOnce'
    BY <2>1 DEF OInv, Told, TellsOnce
  <2> QED  BY <1>1, <2>1, <2>2, <2>3 DEF OInv, ReportedTold
<1> QED  BY <1>2, <1>3, <1>4 DEF Next, Party

(* A worker's outcome leaves the registry only when a callback is given it   *)
(* or its retention period has passed, however polls, rejoins, timers and    *)
(* drains interleave; the entry of an unfinished worker never leaves.        *)
THEOREM OutcomesAreKept == Spec => OutcomeKept
<1> DEFINE A == \A c \in Calls :
          LET k == arg[c].key
          IN  workers[c] # "none" /\ flights[k].gen = c /\ flights'[k].gen # c
                => /\ workers[c] = "ended"
                   /\ c \in Told' \/ c \notin timers'
<1>1. Init => OInv
  <2> SUFFICES ASSUME Init PROVE OInv
    OBVIOUS
  <2>1. ReportedTold /\ TellsOnce
    BY DEF Init, ReportedTold, TellsOnce, Absent
  <2> QED  BY <2>1, InitIInv DEF OInv
<1>2. OInv /\ [Next]_vars => [A]_vars
  <2> SUFFICES ASSUME OInv, Next, NEW c \in Calls, workers[c] # "none",
                      flights[arg[c].key].gen = c, flights'[arg[c].key].gen # c
               PROVE  workers[c] = "ended" /\ (c \in Told' \/ c \notin timers')
    OBVIOUS
  <2>1. IInv /\ arg[c].key \in Keys /\ c # NoCall
    BY Here DEF OInv
  <2>2. ASSUME NEW d \in Drains, Drain(d) PROVE FALSE
    BY <2>1, <2>2, DrainMarks DEF IInv
  <2>3. PICK p \in Calls : Party(p)
    BY <2>2 DEF Next, Party
  <2>4. arg[p].key = arg[c].key
    BY <2>1, <2>3, EntryStep
  <2> QED  BY <2>1, <2>3, <2>4, EntryLeaves DEF Flt
<1> HIDE DEF A
<1>3. Spec => [][A]_vars
  BY <1>1, <1>2, OInvStep, PTL DEF Spec
<1> QED  BY <1>3 DEF A, OutcomeKept

-----------------------------------------------------------------------------
(* The registry implements the lock *)

LEMMA DrivenHere ==
    ASSUME IInv, NEW c \in Calls, Driving(c)
    PROVE  Flt(c).gen = c /\ Flt(c).phase \in {"preparing", "running"}
BY Here DEF Driving, CallOK, FlightOK, Flt, Flight, Phases, Ended

(* A release has at most one driver, and none if its entry is not in use.    *)
LEMMA OneDriver ==
    ASSUME IInv, NEW c \in Calls
    PROVE  /\ Driving(c) => Drivers[arg[c].key] = {c}
           /\ Flt(c) = Absent => Drivers[arg[c].key] = {}
<1>1. arg[c].key \in Keys /\ Drivers[arg[c].key] =
        {d \in Calls : arg[d].key = arg[c].key /\ Driving(d)}
  BY Here DEF Drivers
<1>2. Driving(c) => Drivers[arg[c].key] = {c}
  BY <1>1, Exclusion DEF ReleaseExclusion
<1>3. Flt(c) = Absent => Drivers[arg[c].key] = {}
  <2> SUFFICES ASSUME Flt(c) = Absent, NEW d \in Calls, arg[d].key = arg[c].key, Driving(d)
               PROVE  FALSE
    BY <1>1
  <2>1. Flt(d) = Absent
    BY DEF Flt
  <2> QED  BY <2>1, DrivenHere DEF Absent
<1> QED  BY <1>2, <1>3

(* How the drivers of a release change when one callback starts or stops.    *)
LEMMA DriversStep ==
    ASSUME IInv, NEW p \in Calls, UNCHANGED arg,
           \A c \in Calls : c # p => pc'[c] = pc[c] /\ workers'[c] = workers[c]
    PROVE  /\ (Driving(p)' <=> Driving(p)) => UNCHANGED Drivers
           /\ ~Driving(p) /\ Driving(p)' /\ Flt(p) = Absent =>
                /\ Drivers[arg[p].key] = {}
                /\ Drivers' = [Drivers EXCEPT ![arg[p].key] = {p}]
           /\ Driving(p) /\ ~Driving(p)' =>
                /\ Drivers[arg[p].key] = {p}
                /\ Drivers' = [Drivers EXCEPT ![arg[p].key] = {}]
<1> DEFINE D(k) == {c \in Calls : arg[c].key = k /\ Driving(c)}
           E(k) == {c \in Calls : arg[c].key = k /\ Driving(c)'}
<1>0. arg[p].key \in Keys
  BY Here
<1>1. Drivers = [k \in Keys |-> D(k)] /\ Drivers' = [k \in Keys |-> E(k)]
  BY DEF Drivers
<1>2. \A c \in Calls : c # p => (Driving(c)' <=> Driving(c))
  BY DEF Driving
<1>3. \A k \in Keys : k # arg[p].key => E(k) = D(k)
  BY <1>2
<1>4. ASSUME Driving(p)' <=> Driving(p) PROVE UNCHANGED Drivers
  <2>1. \A k \in Keys : E(k) = D(k)
    BY <1>2, <1>4
  <2> HIDE DEF D, E
  <2> QED  BY <1>1, <2>1
<1>5. ASSUME ~Driving(p), Driving(p)', Flt(p) = Absent
      PROVE  /\ Drivers[arg[p].key] = {}
             /\ Drivers' = [Drivers EXCEPT ![arg[p].key] = {p}]
  <2>1. Drivers[arg[p].key] = {}
    BY <1>5, OneDriver
  <2>2. D(arg[p].key) = {}
    BY <1>0, <1>1, <2>1
  <2>3. E(arg[p].key) = {p}
    BY <1>2, <1>5, <2>2
  <2> HIDE DEF D, E
  <2> QED  BY <1>0, <1>1, <1>3, <2>1, <2>3
<1>6. ASSUME Driving(p), ~Driving(p)'
      PROVE  /\ Drivers[arg[p].key] = {p}
             /\ Drivers' = [Drivers EXCEPT ![arg[p].key] = {}]
  <2>1. Drivers[arg[p].key] = {p}
    BY <1>6, OneDriver
  <2>2. D(arg[p].key) = {p}
    BY <1>0, <1>1, <2>1
  <2>3. E(arg[p].key) = {}
    BY <1>2, <1>6, <2>2
  <2> HIDE DEF D, E
  <2> QED  BY <1>0, <1>1, <1>3, <2>1, <2>3
<1> QED  BY <1>4, <1>5, <1>6

LEMMA LockInit == Init => Lock!Init
<1> SUFFICES ASSUME Init PROVE Lock!Init
  OBVIOUS
<1>1. ASSUME NEW c \in Calls PROVE ~Driving(c)
  BY <1>1 DEF Init, Driving
<1>2. Drivers = [k \in Keys |-> {}]
  <2>1. \A k \in Keys : {c \in Calls : arg[c].key = k /\ Driving(c)} = {}
    BY <1>1
  <2> QED  BY <2>1 DEF Drivers
<1>3. DrainActive = FALSE /\ (\E d \in Drains : drains[d] = "drained") = FALSE
  BY DEF Init, DrainActive
<1> QED  BY <1>2, <1>3 DEF Lock!Init

(* A callback takes its release by reserving it, and leaves it when it gives *)
(* the reservation up or its worker ends; activation changes no driver.      *)
LEMMA PartyImplements ==
    ASSUME IInv, NEW p \in Calls, Party(p)
    PROVE  Lock!Next \/ UNCHANGED Lock!vars
<1> DEFINE Drained == \E d \in Drains : drains[d] = "drained"
<1>1. UNCHANGED <<DrainActive, Drained>>
  BY PartyStep DEF DrainActive
<1>2. arg[p].key \in Keys
  BY Here
<1>3. /\ UNCHANGED arg
      /\ \A c \in Calls : c # p => pc'[c] = pc[c] /\ workers'[c] = workers[c]
  BY PartyStep
<1>4. CASE Driving(p)' <=> Driving(p)
  <2>1. UNCHANGED Drivers
    BY <1>3, <1>4, DriversStep
  <2> QED  BY <1>1, <2>1 DEF Lock!vars
<1>5. CASE ~Driving(p) /\ Driving(p)'
  <2>1. ReserveFlight(p) \/ AcquireRecovery(p)
    BY <1>5, PartyStep DEF Driving, ActivateFlight
  <2>2. Flt(p) = Absent /\ activeDrains = 0
    BY <2>1 DEF ReserveFlight, AcquireRecovery
  <2>3. ~DrainActive
    BY <2>2, DrainCounted DEF IInv, DrainActive
  <2>4. Lock!Take(arg[p].key, p)
    <3>1. /\ Drivers[arg[p].key] = {}
          /\ Drivers' = [Drivers EXCEPT ![arg[p].key] = {p}]
      BY <1>3, <1>5, <2>2, DriversStep
    <3> QED  BY <1>1, <2>3, <3>1 DEF Lock!Take
  <2> QED  BY <1>2, <2>4 DEF Lock!Next
<1>6. CASE Driving(p) /\ ~Driving(p)'
  <2>1. Lock!Leave(arg[p].key, p)
    <3>1. /\ Drivers[arg[p].key] = {p}
          /\ Drivers' = [Drivers EXCEPT ![arg[p].key] = {}]
      BY <1>3, <1>6, DriversStep
    <3> QED  BY <1>1, <3>1 DEF Lock!Leave
  <2> QED  BY <1>2, <2>1 DEF Lock!Next
<1> QED  BY <1>4, <1>5, <1>6

LEMMA DrainImplements ==
    ASSUME DInv', NEW d \in Drains, Drain(d)
    PROVE  Lock!Next
<1> DEFINE Drained == \E e \in Drains : drains[e] = "drained"
<1>1. UNCHANGED <<arg, pc, workers>>
  BY DEF Drain, DrainStart, DrainCancel, DrainPoll, DrainReturn, callVars, workVars
<1>2. UNCHANGED Drivers
  BY <1>1 DEF Drivers, Driving
<1>3. DrainActive' \in BOOLEAN /\ Drained' \in BOOLEAN /\ (Drained' => DrainActive')
  BY DEF DrainActive
<1>4. ASSUME Drained' PROVE \A k \in Keys : Drivers[k] = {}
  <2> SUFFICES ASSUME NEW k \in Keys, NEW c \in Calls, arg[c].key = k, Driving(c)
               PROVE  FALSE
    BY DEF Drivers
  <2>1. Driving(c)'
    BY <1>1 DEF Driving
  <2>2. CallOK(c)' /\ FlightOK(k)' /\ flights'[k] \in Flight /\ Flt(c)' = flights'[k]
    BY <1>1 DEF DInv, IInv, Consistency, TypeOK, Flt
  <2>3. Unfinished(flights'[k])
    BY <2>1, <2>2, CallsAssumption
       DEF Driving, CallOK, FlightOK, Absent, Flight, Phases, Ended, Unfinished
  <2> QED  BY <1>4, <2>3 DEF DInv, Quieted
<1>5. Lock!Stop
  BY <1>2, <1>3, <1>4 DEF Lock!Stop
<1> QED  BY <1>5 DEF Lock!Next

(* The registry implements the lock on each release that it is there to be.  *)
THEOREM RegistryIsALock == Spec => ImplementsReleaseLock
<1>1. DInv /\ DInv' /\ [Next]_vars => [Lock!Next]_(Lock!vars)
  <2> SUFFICES ASSUME DInv, DInv', [Next]_vars PROVE Lock!Next \/ UNCHANGED Lock!vars
    OBVIOUS
  <2>1. CASE UNCHANGED vars
    <3>1. UNCHANGED <<Drivers, DrainActive, \E d \in Drains : drains[d] = "drained">>
      BY <2>1 DEF vars, Drivers, Driving, DrainActive
    <3> QED  BY <3>1 DEF Lock!vars
  <2>2. ASSUME NEW p \in Calls, Party(p) PROVE Lock!Next \/ UNCHANGED Lock!vars
    BY <2>2, PartyImplements DEF DInv
  <2>3. ASSUME NEW d \in Drains, Drain(d) PROVE Lock!Next \/ UNCHANGED Lock!vars
    BY <2>3, DrainImplements
  <2> QED  BY <2>1, <2>2, <2>3 DEF Next, Party
<1> QED  BY LockInit, DrainInvariance, <1>1, PTL DEF Spec, ImplementsReleaseLock, Lock!Spec
=============================================================================
