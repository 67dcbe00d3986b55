--------------------------- MODULE FlightRegistry ---------------------------
(***************************************************************************)
(* The in-flight registry of the Helm release provisioner                  *)
(* (pkg/resources/helm/inflight.go and flight_lifecycle.go) together with  *)
(* the callbacks that use it: Create, Update, Delete and Status of         *)
(* pkg/resources/helm/release.go, the worker goroutines they start, the    *)
(* retention timers, and the drain a graceful stop runs.                   *)
(*                                                                         *)
(* Every critical section under flightMu is one action.  What a callback   *)
(* learns outside the lock (release records, credential service, charts)   *)
(* is a nondeterministic choice here; module HelmRelease makes it          *)
(* concrete.  Every callback is issued once, so its name also stands for   *)
(* the fresh uuid it draws as the generation of a flight it reserves.      *)
(***************************************************************************)
EXTENDS Naturals, FiniteSets

CONSTANTS
    Keys,       \* "<cluster uid>|<namespace>/<name>": one per Helm release
    Calls,      \* callback invocations; also the generations they draw
    Drains,     \* invocations of DrainInFlight
    Prints,     \* fingerprints of desired states
    Idents,     \* authentication fingerprint and binding of a caller
    NoCall      \* no generation

ASSUME CallsAssumption == IsFiniteSet(Calls) /\ NoCall \notin Calls
ASSUME DrainsAssumption == IsFiniteSet(Drains)

VARIABLES
    flights,        \* the registry: one flight, or Absent, for each key
    activeDrains,   \* number of DrainInFlight calls under way
    arg,            \* what each callback was asked to do; never changes
    pc,             \* where each callback is
    held,           \* the generation a callback retains as a reader
    seen,           \* what a callback carries from one lock region to the next
    answer,         \* what a callback returns to the host
    workers,        \* the worker goroutine started by each callback
    cancelled,      \* generations whose cancel function was called
    expired,        \* generations whose action deadline has passed
    timers,         \* generations with an armed retention timer
    drains,         \* where each DrainInFlight call is
    collected       \* the generations whose cancel a drain took from the map

vars == <<flights, activeDrains, arg, pc, held, seen, answer, workers,
          cancelled, expired, timers, drains, collected>>

callVars  == <<arg, pc, held, seen, answer>>
workVars  == <<workers, cancelled, expired, timers>>
drainVars == <<activeDrains, drains, collected>>

-----------------------------------------------------------------------------
(* Data *)

SubmitKinds == {"create", "update", "delete"}

Args == [kind : SubmitKinds \cup {"status"}, key : Keys,
         print : Prints, ident : Idents]

Phases == {"none", "preparing", "running", "ok", "err"}
Ended  == {"ok", "err"}                         \* inflight.finished, by outcome

Flight == [gen : Calls \cup {NoCall}, phase : Phases, stopping : BOOLEAN,
           readers : Nat, reported : BOOLEAN, cancel : BOOLEAN]

Absent == [gen |-> NoCall, phase |-> "none", stopping |-> FALSE,
           readers |-> 0, reported |-> FALSE, cancel |-> FALSE]

(* A new entry is a reservation: still preparing, cancellable, not reported. *)
Reservation(c) == [gen |-> c, phase |-> "preparing", stopping |-> FALSE,
                   readers |-> 0, reported |-> FALSE, cancel |-> TRUE]

Finished(f) == f.phase \in Ended

AddReader(f) == [f EXCEPT !.readers = @ + 1]

(* Mutation: the entry is deleted whoever still retains it. *)
MutReport(f) == Absent

(* f.reported = true, and delete(flights, key) unless a reader retains it. *)
Report(f) == IF f.readers = 0 THEN Absent ELSE [f EXCEPT !.reported = TRUE]

(* Mutation: the last reader deletes the entry, reported or not. *)
MutDropReader(f) ==
    IF f.readers <= 1 THEN Absent ELSE [f EXCEPT !.readers = @ - 1]

(* Mutation: the last reader never deletes the entry. *)
MutDropReaderKeeps(f) == [f EXCEPT !.readers = IF @ > 0 THEN @ - 1 ELSE 0]

(* The body of releaseStatusFlight for the generation it names. *)
DropReader(f) ==
    LET left == IF f.readers > 0 THEN f.readers - 1 ELSE 0
    IN  IF left = 0 /\ f.reported THEN Absent ELSE [f EXCEPT !.readers = left]

(* Mutation: the desired state is not compared. *)
MutMatchesRejoin(f, c) ==
    /\ f.gen # NoCall
    /\ f.phase # "preparing"
    /\ arg[f.gen].ident = arg[c].ident
    /\ arg[f.gen].kind = arg[c].kind

(* Does the flight do, for the same caller, what this callback asks for?     *)
(* A delete matches a delete; anything else must be the same operation on    *)
(* the same desired state.                                                   *)
MatchesRejoin(f, c) ==
    /\ f.gen # NoCall
    /\ f.phase # "preparing"
    /\ arg[f.gen].ident = arg[c].ident
    /\ arg[f.gen].kind = arg[c].kind
    /\ arg[c].kind # "delete" => arg[f.gen].print = arg[c].print

Flt(c) == flights[arg[c].key]

Owns(c, g) == g # NoCall /\ Flt(c).gen = g

SetFlight(c, f) == flights' = [flights EXCEPT ![arg[c].key] = f]

Goto(c, where) == pc' = [pc EXCEPT ![c] = where]

Answer(c, kind, g) ==
    answer' = [answer EXCEPT ![c] = [kind |-> kind, gen |-> g]]

(* Generations named by a RequestID the host has received.  It never names   *)
(* any other: NoCall stands for a RequestID without a generation (a release  *)
(* found settled) and for one of an earlier plugin process.                  *)
Issued == {answer[c].gen : c \in {d \in Calls : /\ pc[d] = "done"
                                               /\ answer[d].kind = "progress"}}

(* Callbacks that may be driving Helm, or rewriting a record, for a release. *)
Driving(c) == pc[c] \in {"preparing", "recovering"} \/ workers[c] = "running"

-----------------------------------------------------------------------------
Init ==
    /\ flights = [k \in Keys |-> Absent]
    /\ activeDrains = 0
    /\ arg \in [Calls -> Args]
    /\ pc = [c \in Calls |-> "idle"]
    /\ held = [c \in Calls |-> NoCall]
    /\ seen = [c \in Calls |-> "none"]
    /\ answer = [c \in Calls |-> [kind |-> "none", gen |-> NoCall]]
    /\ workers = [c \in Calls |-> "none"]
    /\ cancelled = {}
    /\ expired = {}
    /\ timers = {}
    /\ drains = [d \in Drains |-> "idle"]
    /\ collected = [d \in Drains |-> {}]

-----------------------------------------------------------------------------
(* Create, Update and Delete *)

(* reserveRejoinFlight: nobody owns the release, so this callback does. *)
ReserveFlight(c) ==
    /\ pc[c] = "idle" /\ arg[c].kind \in SubmitKinds
    /\ activeDrains = 0
    /\ Flt(c) = Absent
    /\ SetFlight(c, Reservation(c))
    /\ Goto(c, "preparing")
    /\ UNCHANGED <<arg, held, seen, answer>> /\ UNCHANGED workVars
    /\ UNCHANGED drainVars

(* reserveRejoinFlight: the running operation is the one being asked for;    *)
(* retain it for the length of this callback.                                *)
RejoinFlight(c) ==
    /\ pc[c] = "idle" /\ arg[c].kind \in SubmitKinds
    /\ activeDrains = 0
    /\ MatchesRejoin(Flt(c), c)
    /\ SetFlight(c, AddReader(Flt(c)))
    /\ held' = [held EXCEPT ![c] = Flt(c).gen]
    /\ Goto(c, "rejoined")
    /\ UNCHANGED <<arg, seen, answer>> /\ UNCHANGED workVars
    /\ UNCHANGED drainVars

(* flightConflict: draining, still preparing, or a different operation. *)
RefuseSubmit(c) ==
    /\ pc[c] = "idle" /\ arg[c].kind \in SubmitKinds
    /\ \/ activeDrains > 0
       \/ Flt(c) # Absent /\ ~MatchesRejoin(Flt(c), c)
    /\ Answer(c, "conflict", NoCall)
    /\ Goto(c, "done")
    /\ UNCHANGED <<flights, arg, held, seen>> /\ UNCHANGED workVars
    /\ UNCHANGED drainVars

(* Preparation ends without a worker: an error, a lock held by another tool, *)
(* a foreign release, a desired state already deployed, no release to delete.*)
DeclineSubmit(c) ==
    /\ pc[c] = "preparing"
    /\ Answer(c, "declined", NoCall)
    /\ Goto(c, "unreserving")
    /\ UNCHANGED <<flights, arg, held, seen>> /\ UNCHANGED workVars
    /\ UNCHANGED drainVars

(* Mutations: the mark of an earlier drain, or every fence, is forgotten. *)
MutForgetsMark(c) == Owns(c, c) /\ activeDrains = 0
MutForgetsDrains(c) == Owns(c, c)

CanActivate(c) == Owns(c, c) /\ ~Flt(c).stopping /\ activeDrains = 0

(* activateFlight, then the goroutine is started under a context of its own. *)
(* An install or upgrade waits for the release record; Delete answers.       *)
ActivateFlight(c) ==
    /\ pc[c] = "preparing"
    /\ CanActivate(c)
    /\ SetFlight(c, [Flt(c) EXCEPT !.phase = "running", !.cancel = TRUE])
    /\ workers' = [workers EXCEPT ![c] = "running"]
    /\ IF arg[c].kind = "delete"
       THEN Answer(c, "progress", c) /\ Goto(c, "done")
       ELSE Goto(c, "awaiting") /\ UNCHANGED answer
    /\ cancelled' = cancelled \ {c}
    /\ UNCHANGED <<arg, held, seen, expired, timers>>
    /\ UNCHANGED drainVars

(* activateFlight refuses: a drain has marked or is scanning the registry. *)
ActivationRefused(c) ==
    /\ pc[c] = "preparing"
    /\ ~CanActivate(c)
    /\ Answer(c, "canceled", NoCall)
    /\ Goto(c, "unreserving")
    /\ UNCHANGED <<flights, arg, held, seen>> /\ UNCHANGED workVars
    /\ UNCHANGED drainVars

(* Mutation: the deferred removal does not look at workerStarted. *)
MutAwaitRecorded(c) ==
    /\ pc[c] = "awaiting"
    /\ Answer(c, "progress", c)
    /\ Goto(c, "unreserving")
    /\ UNCHANGED <<flights, arg, held, seen>> /\ UNCHANGED workVars
    /\ UNCHANGED drainVars

(* awaitRecorded returns nil: the record exists, or the worker succeeded. *)
AwaitRecorded(c) ==
    /\ pc[c] = "awaiting"
    /\ Answer(c, "progress", c)
    /\ Goto(c, "done")
    /\ UNCHANGED <<flights, arg, held, seen>> /\ UNCHANGED workVars
    /\ UNCHANGED drainVars

(* awaitRecorded fails, or the credential service of a rejoin does: what     *)
(* progressAfterFlightError makes of it.  `transient` is                     *)
(* isFlightServiceError of the callback's own error.                         *)
AfterFlightError(c, g, next, transient) ==
    LET f == Flt(c)
        overdue == f.phase = "running" /\ g \in expired
    IN  /\ cancelled' = IF Owns(c, g) /\ overdue /\ f.cancel
                        THEN cancelled \cup {g} ELSE cancelled
        /\ CASE ~Owns(c, g) ->
                    Answer(c, "conflict", NoCall) /\ Goto(c, next)
             [] Owns(c, g) /\ f.phase = "err" ->
                    Answer(c, "outcome", g) /\ Goto(c, "consuming")
             [] Owns(c, g) /\ overdue ->
                    Answer(c, "deadline", g) /\ Goto(c, next)
             [] Owns(c, g) /\ f.phase # "err" /\ ~overdue ->
                    /\ IF transient THEN Answer(c, "progress", g)
                                    ELSE Answer(c, "error", NoCall)
                    /\ Goto(c, next)
        /\ UNCHANGED <<flights, arg, held, seen, workers, expired, timers>>
        /\ UNCHANGED drainVars

AwaitFails(c) ==
    /\ pc[c] = "awaiting"
    /\ \E transient \in BOOLEAN : AfterFlightError(c, c, "done", transient)

(* A rejoin whose bridge is serviced, is not needed, or already closed. *)
RejoinProgress(c) ==
    /\ pc[c] = "rejoined"
    /\ Answer(c, "progress", held[c])
    /\ Goto(c, "releasing")
    /\ UNCHANGED <<flights, arg, held, seen>> /\ UNCHANGED workVars
    /\ UNCHANGED drainVars

RejoinFails(c) ==
    /\ pc[c] = "rejoined"
    /\ \E transient \in BOOLEAN :
          AfterFlightError(c, held[c], "releasing", transient)

(* consumeSynchronousFailure: the outcome about to be returned needs no      *)
(* later Status to report it.                                                *)
ConsumeFailure(c) ==
    /\ pc[c] = "consuming"
    /\ IF Owns(c, answer[c].gen) /\ Flt(c).phase = "err"
       THEN SetFlight(c, Report(Flt(c)))
       ELSE UNCHANGED flights
    /\ Goto(c, IF held[c] = NoCall THEN "done" ELSE "releasing")
    /\ UNCHANGED <<arg, held, seen, answer>> /\ UNCHANGED workVars
    /\ UNCHANGED drainVars

(* Deferred removeOwnedFlight of a callback that started no worker. *)
RemoveReservation(c) ==
    /\ pc[c] = "unreserving"
    /\ IF Owns(c, c) THEN SetFlight(c, Report(Flt(c))) ELSE UNCHANGED flights
    /\ Goto(c, "done")
    /\ UNCHANGED <<arg, held, seen, answer>> /\ UNCHANGED workVars
    /\ UNCHANGED drainVars

(* Deferred releaseStatusFlight of a callback that retains a flight. *)
ReleaseReader(c) ==
    /\ pc[c] = "releasing"
    /\ IF Owns(c, held[c]) THEN SetFlight(c, DropReader(Flt(c)))
                           ELSE UNCHANGED flights
    /\ held' = [held EXCEPT ![c] = NoCall]
    /\ Goto(c, "done")
    /\ UNCHANGED <<arg, seen, answer>> /\ UNCHANGED workVars
    /\ UNCHANGED drainVars

-----------------------------------------------------------------------------
(* Status *)

(* A poll by its own caller of the operation whose RequestID it carries. *)
MatchesStatus(f, c, g) ==
    /\ g # NoCall /\ f.gen = g
    /\ f.phase # "preparing"
    /\ arg[g].ident = arg[c].ident

(* acquireStatusFlight: retain the flight and work on a copy of it.  A       *)
(* failed outcome needs no look at the cluster.                              *)
AcquireFlight(c) ==
    /\ pc[c] = "idle" /\ arg[c].kind = "status"
    /\ activeDrains = 0
    /\ \E g \in Issued :
          /\ MatchesStatus(Flt(c), c, g)
          /\ held' = [held EXCEPT ![c] = g]
    /\ SetFlight(c, AddReader(Flt(c)))
    /\ seen' = [seen EXCEPT ![c] = Flt(c).phase]
    /\ Goto(c, IF Flt(c).phase = "err" THEN "reconciling" ELSE "matched")
    /\ UNCHANGED <<arg, answer>> /\ UNCHANGED workVars
    /\ UNCHANGED drainVars

(* acquireStatusFlight: no operation in this process, so take the release    *)
(* for the time it takes to read, and perhaps recover, its record.           *)
AcquireRecovery(c) ==
    /\ pc[c] = "idle" /\ arg[c].kind = "status"
    /\ activeDrains = 0
    /\ Flt(c) = Absent
    /\ SetFlight(c, Reservation(c))
    /\ Goto(c, "recovering")
    /\ UNCHANGED <<arg, held, seen, answer>> /\ UNCHANGED workVars
    /\ UNCHANGED drainVars

RefuseStatus(c) ==
    /\ pc[c] = "idle" /\ arg[c].kind = "status"
    /\ \/ activeDrains > 0
       \/ /\ Flt(c) # Absent
          /\ \E g \in Issued \cup {NoCall} : ~MatchesStatus(Flt(c), c, g)
    /\ Answer(c, "conflict", NoCall)
    /\ Goto(c, "done")
    /\ UNCHANGED <<flights, arg, held, seen>> /\ UNCHANGED workVars
    /\ UNCHANGED drainVars

(* observeUnidentifiedFlight: the cluster's identity cannot be resolved, so  *)
(* nothing is retained, consumed or cancelled.                               *)
ObserveUnidentified(c) ==
    /\ pc[c] = "idle" /\ arg[c].kind = "status"
    /\ \E g \in Issued \cup {NoCall} :
          LET f == Flt(c)
          IN  IF MatchesStatus(f, c, g)
              THEN IF f.phase = "err" THEN Answer(c, "outcome", g)
                   ELSE IF g \in expired THEN Answer(c, "deadline", g)
                   ELSE Answer(c, "progress", g)
              ELSE Answer(c, "error", NoCall)
    /\ Goto(c, "done")
    /\ UNCHANGED <<flights, arg, held, seen>> /\ UNCHANGED workVars
    /\ UNCHANGED drainVars

(* The retained copy was running and its deadline has passed: cancel it and  *)
(* say so, but leave the flight to the worker that has yet to return.        *)
StatusOverdue(c) ==
    /\ pc[c] = "matched"
    /\ seen[c] = "running" /\ held[c] \in expired
    /\ cancelled' = cancelled \cup {held[c]}
    /\ Answer(c, "deadline", held[c])
    /\ Goto(c, "releasing")
    /\ UNCHANGED <<flights, arg, held, seen, workers, expired, timers>>
    /\ UNCHANGED drainVars

(* What the release record says, read without the lock. *)
StatusReads(c) ==
    /\ pc[c] = "matched"
    /\ \E v \in {"progress", "success", "failure"} :
          seen' = [seen EXCEPT ![c] = v]
    /\ Goto(c, "reconciling")
    /\ UNCHANGED <<flights, arg, held, answer>> /\ UNCHANGED workVars
    /\ UNCHANGED drainVars

(* A failing service or read.  A transient one must not end the operation.   *)
StatusFails(c) ==
    /\ pc[c] = "matched"
    /\ \/ /\ Answer(c, "error", NoCall)
          /\ Goto(c, "releasing")
          /\ UNCHANGED <<seen, cancelled>>
       \/ /\ Flt(c).phase = "running" /\ held[c] \in expired
          /\ cancelled' = cancelled \cup {held[c]}
          /\ Answer(c, "deadline", held[c])
          /\ Goto(c, "releasing")
          /\ UNCHANGED seen
       \/ /\ ~(Flt(c).phase = "running" /\ held[c] \in expired)
          /\ seen' = [seen EXCEPT ![c] = "progress"]
          /\ Goto(c, "reconciling")
          /\ UNCHANGED <<answer, cancelled>>
    /\ UNCHANGED <<flights, arg, held, workers, expired, timers>>
    /\ UNCHANGED drainVars

(* Mutation: a terminal record is believed while the worker still runs. *)
MutConclusive(f, v) == v # "progress"

(* A terminal release record counts once the worker itself has returned. *)
Conclusive(f, v) == v # "progress" /\ f.phase # "running"

(* Mutation: the poll waits for the worker instead of answering. *)
MutReconcileFlightResult(c) ==
    LET f == Flt(c)
    IN  /\ pc[c] = "reconciling"
        /\ f.phase # "running"
        /\ SetFlight(c, Report(f))
        /\ Answer(c, IF f.phase = "err" THEN "outcome" ELSE seen[c], held[c])
        /\ Goto(c, "releasing")
        /\ UNCHANGED <<arg, held, seen>> /\ UNCHANGED workVars
        /\ UNCHANGED drainVars

(* reconcileFlightResult: only the worker's own outcome permits a terminal   *)
(* answer, and the critical section that sees it also consumes it.           *)
ReconcileFlightResult(c) ==
    LET f == Flt(c)
        failed == f.phase = "err"
        final  == failed \/ Conclusive(f, seen[c])
    IN  /\ pc[c] = "reconciling"
        /\ flights' = [flights EXCEPT ![arg[c].key] = IF final THEN Report(f) ELSE f]
        /\ Answer(c, IF failed THEN "outcome"
                     ELSE IF final THEN seen[c] ELSE "progress", held[c])
        /\ Goto(c, "releasing")
        /\ UNCHANGED <<arg, held, seen>> /\ UNCHANGED workVars
        /\ UNCHANGED drainVars

(* The verdict of a Status that owns the release for its recovery. *)
RecoveryReads(c) ==
    /\ pc[c] = "recovering"
    /\ \E v \in {"progress", "success", "failure", "error"} :
          Answer(c, v, NoCall)
    /\ Goto(c, "unreserving")
    /\ UNCHANGED <<flights, arg, held, seen>> /\ UNCHANGED workVars
    /\ UNCHANGED drainVars

-----------------------------------------------------------------------------
(* Workers, timers and the clock *)

(* The goroutine's call into Helm returns: finishFlight publishes the        *)
(* outcome and arms the retention timer.                                     *)
FinishFlight(c) ==
    /\ workers[c] = "running"
    /\ workers' = [workers EXCEPT ![c] = "ended"]
    /\ \E o \in Ended :
          IF Owns(c, c) /\ ~Finished(Flt(c))
          THEN SetFlight(c, [Flt(c) EXCEPT !.phase = o, !.cancel = FALSE])
          ELSE UNCHANGED flights
    /\ timers' = timers \cup {c}
    /\ UNCHANGED <<cancelled, expired>> /\ UNCHANGED callVars
    /\ UNCHANGED drainVars

(* Five minutes later: removeOwnedFlight, whether anybody asked or not. *)
RetireFlight(c) ==
    /\ c \in timers
    /\ timers' = timers \ {c}
    /\ IF Owns(c, c) THEN SetFlight(c, Report(Flt(c))) ELSE UNCHANGED flights
    /\ UNCHANGED <<workers, cancelled, expired>> /\ UNCHANGED callVars
    /\ UNCHANGED drainVars

(* The action deadline of a started operation passes. *)
PassDeadline(c) ==
    /\ workers[c] # "none" /\ c \notin expired
    /\ expired' = expired \cup {c}
    /\ UNCHANGED <<flights, workers, cancelled, timers>>
    /\ UNCHANGED callVars /\ UNCHANGED drainVars

-----------------------------------------------------------------------------
(* DrainInFlight *)

(* Mutation: a reservation without a worker does not count as work. *)
MutUnfinished(f) == f.phase = "running"

Unfinished(f) == f.phase \in {"preparing", "running"}

(* First critical section: close admission, mark what has not finished and   *)
(* take every cancel function out of the map.                                *)
DrainStart(d) ==
    /\ drains[d] = "idle"
    /\ activeDrains' = activeDrains + 1
    /\ flights' = [k \in Keys |->
                     [flights[k] EXCEPT
                        !.stopping = @ \/ Unfinished(flights[k]),
                        !.cancel = FALSE]]
    /\ collected' = [collected EXCEPT
                       ![d] = {flights[k].gen : k \in {j \in Keys : flights[j].cancel}}]
    /\ drains' = [drains EXCEPT ![d] = "cancelling"]
    /\ UNCHANGED callVars /\ UNCHANGED workVars

DrainCancel(d) ==
    /\ drains[d] = "cancelling"
    /\ cancelled' = cancelled \cup collected[d]
    /\ drains' = [drains EXCEPT ![d] = "polling"]
    /\ UNCHANGED <<flights, activeDrains, collected, workers, expired, timers>>
    /\ UNCHANGED callVars

(* Mutation: the loop has no deadline. *)
MutDrainPoll(d) ==
    /\ drains[d] = "polling"
    /\ \A k \in Keys : ~Unfinished(flights[k])
    /\ drains' = [drains EXCEPT ![d] = "drained"]
    /\ UNCHANGED <<flights, activeDrains, collected>>
    /\ UNCHANGED callVars /\ UNCHANGED workVars

(* One scan of the registry by the polling loop that ends it. *)
DrainPoll(d) ==
    /\ drains[d] = "polling"
    /\ drains' = [drains EXCEPT
                    ![d] = IF \E k \in Keys : Unfinished(flights[k])
                           THEN "timedout" ELSE "drained"]
    /\ UNCHANGED <<flights, activeDrains, collected>>
    /\ UNCHANGED callVars /\ UNCHANGED workVars

(* Deferred: admission reopens when the last drain leaves. *)
DrainReturn(d) ==
    /\ drains[d] \in {"drained", "timedout"}
    /\ activeDrains' = activeDrains - 1
    /\ drains' = [drains EXCEPT ![d] = "over"]
    /\ UNCHANGED <<flights, collected>>
    /\ UNCHANGED callVars /\ UNCHANGED workVars

-----------------------------------------------------------------------------
Submit(c) ==
    \/ ReserveFlight(c) \/ RejoinFlight(c) \/ RefuseSubmit(c)
    \/ DeclineSubmit(c) \/ ActivateFlight(c) \/ ActivationRefused(c)
    \/ AwaitRecorded(c) \/ AwaitFails(c)
    \/ RejoinProgress(c) \/ RejoinFails(c)
    \/ ConsumeFailure(c)

Status(c) ==
    \/ AcquireFlight(c) \/ AcquireRecovery(c) \/ RefuseStatus(c)
    \/ ObserveUnidentified(c)
    \/ StatusOverdue(c) \/ StatusReads(c) \/ StatusFails(c)
    \/ ReconcileFlightResult(c) \/ RecoveryReads(c)

Return(c) == RemoveReservation(c) \/ ReleaseReader(c)

Background(c) == FinishFlight(c) \/ RetireFlight(c) \/ PassDeadline(c)

Drain(d) == DrainStart(d) \/ DrainCancel(d) \/ DrainPoll(d) \/ DrainReturn(d)

Next == \/ \E c \in Calls : Submit(c) \/ Status(c) \/ Return(c) \/ Background(c)
        \/ \E d \in Drains : Drain(d)

Spec == Init /\ [][Next]_vars

(* A callback that was issued runs to its end, because every wait in it is   *)
(* bounded (recordTimeout, the callback's context, the action deadline), and *)
(* timers fire.  A worker may stay in Helm for ever: a legacy uninstall is   *)
(* not preemptible.  No further callback need ever be issued.                *)
Started(c) == pc[c] # "idle" /\ (Submit(c) \/ Status(c) \/ Return(c))

Fairness ==
    /\ \A c \in Calls : WF_vars(Started(c)) /\ WF_vars(RetireFlight(c))
    /\ \A d \in Drains : WF_vars(DrainCancel(d) \/ DrainPoll(d) \/ DrainReturn(d))

FairSpec == Spec /\ Fairness

-----------------------------------------------------------------------------
(* Properties *)

PCs == {"idle", "preparing", "awaiting", "rejoined", "matched", "reconciling",
        "recovering", "consuming", "unreserving", "releasing", "done"}
Answers == {"none", "conflict", "declined", "canceled", "progress", "success",
            "failure", "outcome", "deadline", "error"}

TypeOK ==
    /\ flights \in [Keys -> Flight]
    /\ activeDrains \in Nat
    /\ arg \in [Calls -> Args]
    /\ pc \in [Calls -> PCs]
    /\ held \in [Calls -> Calls \cup {NoCall}]
    /\ seen \in [Calls -> Phases \cup {"progress", "success", "failure"}]
    /\ answer \in [Calls -> [kind : Answers, gen : Calls \cup {NoCall}]]
    /\ workers \in [Calls -> {"none", "running", "ended"}]
    /\ cancelled \subseteq Calls
    /\ expired \subseteq Calls
    /\ timers \subseteq Calls
    /\ drains \in [Drains -> {"idle", "cancelling", "polling", "drained",
                              "timedout", "over"}]
    /\ collected \in [Drains -> SUBSET Calls]

(* The entry of a key agrees with the callback and the worker behind it.     *)
FlightOK(k) ==
    LET f == flights[k]
    IN  /\ f.gen = NoCall => f = Absent
        /\ f.gen # NoCall => f.phase # "none" /\ arg[f.gen].key = k
        /\ f.phase = "preparing" =>
              /\ pc[f.gen] \in {"preparing", "recovering", "unreserving"}
              /\ workers[f.gen] = "none" /\ f.readers = 0
        /\ f.phase = "running" => workers[f.gen] = "running"
        /\ f.phase \in Ended => workers[f.gen] = "ended"
        /\ f.reported => f.phase \in Ended

(* Every callback and worker finds the entry it relies on.                   *)
CallOK(c) ==
    /\ pc[c] \in {"preparing", "recovering", "unreserving"} =>
          Flt(c).gen = c /\ Flt(c).phase = "preparing"
    /\ workers[c] = "running" => Flt(c).gen = c
    /\ workers[c] # "none" => /\ pc[c] \in {"awaiting", "consuming", "done"}
                              /\ held[c] = NoCall
    /\ c \in timers => workers[c] = "ended"
    /\ pc[c] \in {"rejoined", "matched", "reconciling", "releasing"} =>
          held[c] # NoCall
    /\ held[c] # NoCall =>
          /\ Flt(c).gen = held[c] /\ Flt(c).phase # "preparing"
          /\ pc[c] \in {"rejoined", "matched", "reconciling", "consuming", "releasing"}
    /\ pc[c] = "reconciling" =>
          seen[c] \in {"progress", "success", "failure"} \/ Flt(c).phase = "err"

(* Entries, callbacks and workers are consistent: the inductive core of the  *)
(* safety argument.                                                          *)
Consistency ==
    /\ \A k \in Keys : FlightOK(k)
    /\ \A c \in Calls : CallOK(c)

(* At most one party of this process acts on a release: a worker in Helm, a  *)
(* callback deciding what to do about it, or a Status rewriting its record.  *)
ReleaseExclusion ==
    \A c, e \in Calls :
        Driving(c) /\ Driving(e) /\ arg[c].key = arg[e].key => c = e

(* A reader keeps the generation it retained in the registry until it lets   *)
(* go, whatever other polls, the retention timer and the drain do.           *)
ReaderRetention ==
    \A c \in Calls : held[c] # NoCall => Flt(c).gen = held[c]

(* The reader count is exactly the number of callbacks that hold the flight: *)
(* none leaks (the entry would block its release for good) and none is       *)
(* dropped twice.                                                            *)
ReadersCounted ==
    \A k \in Keys :
        flights[k].readers =
            Cardinality({c \in Calls : arg[c].key = k /\ held[c] # NoCall})

(* When DrainInFlight reports that everything unwound, no worker is in Helm  *)
(* and no reservation can still become one.                                  *)
DrainedMeansQuiet ==
    \A d \in Drains : drains[d] = "drained" => \A c \in Calls : ~Driving(c)

(* A worker a drain has seen gets its cancel called before the drain polls   *)
(* for it, by this drain or by the one that took the function first.         *)
DrainCancelsAll ==
    \A d \in Drains, c \in Calls :
        drains[d] \in {"polling", "drained", "timedout"} /\ workers[c] = "running"
            => \/ c \in cancelled
               \/ \E e \in Drains : drains[e] = "cancelling" /\ c \in collected[e]

(* No worker starts while a drain is under way, and a reservation a drain    *)
(* has cancelled never starts one, not even after that drain gave up.        *)
DrainFence ==
    [][\A c \in Calls :
          workers[c] = "none" /\ workers'[c] = "running"
            => \A d \in Drains : /\ drains[d] \in {"idle", "over"}
                                 /\ c \notin collected[d]]_vars

(* A terminal answer taken from the release record is given only when no     *)
(* worker of this process is still at work on that release.                  *)
NoVerdictWhileRunning ==
    [][\A c, w \in Calls :
          answer[c] # answer'[c] /\ answer'[c].kind \in {"success", "failure"}
              /\ arg[w].key = arg[c].key
            => workers[w] # "running"]_vars

(* Generations whose end a callback is returning, or has returned. *)
Told == {answer[c].gen : c \in {e \in Calls :
            answer[e].kind \in {"outcome", "success", "failure"}}}

(* A finished flight leaves the registry only if some callback was given its *)
(* outcome or the retention period is over; an unfinished one stays.         *)
OutcomeKept ==
    [][\A c \in Calls :
          LET k == arg[c].key
          IN  workers[c] # "none" /\ flights[k].gen = c /\ flights'[k].gen # c
                => /\ workers[c] = "ended"
                   /\ c \in Told' \/ c \notin timers']_vars

(* A callback is never told about the operation of another identity, and a   *)
(* submit never about another desired state: reporting progress there would  *)
(* later report success for work that never ran.                             *)
OwnWorkOnly ==
    \A c \in Calls :
        LET g == answer[c].gen
        IN  g # NoCall =>
              /\ arg[g].key = arg[c].key /\ arg[g].ident = arg[c].ident
              /\ arg[c].kind # "status" => arg[g].kind = arg[c].kind
              /\ arg[c].kind \in {"create", "update"} => arg[g].print = arg[c].print

(* The registry is a lock on each release, seen from the callbacks, workers  *)
(* and drains that use it.                                                   *)
DrainActive == \E d \in Drains : drains[d] \notin {"idle", "over"}

Drivers == [k \in Keys |-> {c \in Calls : arg[c].key = k /\ Driving(c)}]

Lock == INSTANCE ReleaseLock WITH
            Parties <- Calls,
            driver  <- Drivers,
            sealed  <- DrainActive,
            quiet   <- \E d \in Drains : drains[d] = "drained"

ImplementsReleaseLock == Lock!Spec

(* Every callback that was issued returns, although workers may hang. *)
CallbacksReturn == \A c \in Calls : pc[c] # "idle" ~> pc[c] = "done"

(* A flight leaves the registry in the end unless its worker hangs, so its   *)
(* release can be worked on again.                                           *)
FlightsLeave ==
    \A c \in Calls :
        Flt(c).gen = c ~> (Flt(c).gen # c \/ workers[c] = "running")

(* Every DrainInFlight ends and reopens admission, hanging worker or not. *)
DrainsEnd == (activeDrains > 0) ~> (activeDrains = 0)
=============================================================================
