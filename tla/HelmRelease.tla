---------------------------- MODULE HelmRelease ----------------------------
(***************************************************************************)
(* One Helm release from the agent's command to the objects in the         *)
(* cluster: the decisions of Create, Update, Delete and Status             *)
(* (pkg/resources/helm/release.go), the worker they start, Helm itself,    *)
(* the release record that is both Helm's lock and the plugin's only       *)
(* durable state, a Helm CLI acting beside the plugin, and the ways the    *)
(* plugin process and the agent die.                                       *)
(*                                                                         *)
(* The lock regions of the in-flight registry are module FlightRegistry's  *)
(* subject; here its single entry for the release appears with the fields  *)
(* the decisions read.  Helm, the cluster and the agent are external: they *)
(* do what the code and its comments rely on them to do.                   *)
(***************************************************************************)
EXTENDS Naturals, FiniteSets

CONSTANTS
    Objs,           \* the objects every version of the chart renders
    Wants,          \* desired states: a chart version and its values
    Hooked,         \* desired states whose chart has post-deploy hooks
    Pinned,         \* desired states that name an explicit chart version
    Nothing,        \* no desired state
    Slots,          \* callbacks the plugin may be serving at once
    MaxGen,         \* generations have the names 1..MaxGen
    MaxCommands,            \* commands the agent issues
    MaxCrash, MaxRestart, MaxCli, MaxFault, \* how often each of these happens
    MaxTrouble,     \* crashes, restarts and faults together
    SlowAgent       \* may the agent leave a poll for five minutes?

ASSUME SlowAssumption == SlowAgent \in BOOLEAN
ASSUME WantsAssumption == /\ Hooked \subseteq Wants /\ Pinned \subseteq Wants
                          /\ Nothing \notin Wants
ASSUME SlotsAssumption == IsFiniteSet(Slots) /\ 0 \notin Slots
(* There is always another uuid: a name for every use of one, and one more.  *)
ASSUME NamesAssumption == MaxGen \in Nat /\ MaxGen > 2 * Cardinality(Slots) + 2

VARIABLES
    rec,        \* the latest revision of the release in Helm's storage
    live,       \* the desired state each object in the cluster comes from
    hooksRan,   \* the revision whose post-deploy hooks have completed
    helm,       \* the Helm operation of the plugin's worker and of the CLI
    flight,     \* the registry's entry for this release
    call,       \* the callbacks being served
    host,       \* the agent: its command and what it knows
    spent       \* how much of each bound is used up

vars == <<rec, live, hooksRan, helm, flight, call, host, spent>>

cluster == <<rec, live, hooksRan>>

-----------------------------------------------------------------------------
(* Data *)

NoRec == [st |-> "none", rev |-> 0, own |-> FALSE, want |-> Nothing, old |-> FALSE]

Statuses == {"none", "pending", "deployed", "failed", "uninstalling"}

Records == [st : Statuses, rev : Nat, own : BOOLEAN,
            want : Wants \cup {Nothing}, old : BOOLEAN]

(* A RequestID: the revision and operation it names, and the generation of   *)
(* the flight it was issued for, 0 when it carries none.                     *)
Requests == [gen : 0..MaxGen, op : {"none", "install", "upgrade", "delete"},
             rev : Nat]

NoReq == [gen |-> 0, op |-> "none", rev |-> 0]

Reply(kind) == [kind |-> kind, req |-> NoReq, id |-> FALSE]

Replies == [kind : {"none", "progress", "success", "conflict", "failure", "error"},
            req : Requests, id : BOOLEAN]

NoFlight == [gen |-> 0, kind |-> "none", want |-> Nothing, op |-> "none",
             rev |-> 0, phase |-> "none", late |-> FALSE, readers |-> {},
             reported |-> FALSE]

Idle == [op |-> "none", want |-> Nothing, rev |-> 0, left |-> {}, step |-> "none"]

NoCall == [pc |-> "idle", kind |-> "none", want |-> Nothing, req |-> NoReq,
           gen |-> 0, op |-> "none", rev |-> 0, seen |-> NoRec,
           backed |-> FALSE, again |-> FALSE, got |-> Reply("none")]

Kinds == {"create", "update", "delete"}

(* Create withholds the NativeID, as does an install in Status.              *)
OpOf(kind) == CASE kind = "create" -> "install"
                [] kind = "update" -> "upgrade"
                [] OTHER -> "delete"

(* A generation is a uuid; a name nothing refers to any more is as good as a  *)
(* new one.                                                                  *)
InUse == {flight.gen, host.req.gen} \cup {call[c].gen : c \in Slots}
                                    \cup {call[c].req.gen : c \in Slots}

Fresh == CHOOSE g \in 1..MaxGen : g \notin InUse

Spend(what) == spent' = [spent EXCEPT ![what] = @ + 1]

May(trouble, max) == /\ spent[trouble] < max
                     /\ spent.crash + spent.restart + spent.fault < MaxTrouble

-----------------------------------------------------------------------------
(* What the code decides from a record *)

Pending(r) == r.st = "pending"

(* Mutation: the values are not compared. *)
MutSettled(r, w) == r.own /\ r.st = "deployed" /\ w \in Pinned

(* The desired state is already live, so there is nothing to do.             *)
Settled(r, w) == r.own /\ r.st = "deployed" /\ w \in Pinned /\ r.want = w

(* Mutation: the clock never runs out. *)
MutStalled(r, backed) == FALSE

(* Pending or deployed for twice its own timeout, and not an operation this  *)
(* process is still allowed to run.                                          *)
Stalled(r, backed) == r.old /\ (backed => flight.late)

(* Mutation: a release already at the desired state is not recognised. *)
MutPlanSubmit(r, kind, w) ==
    CASE r.st = "none" -> "install"
      [] Pending(r) /\ r.own -> "recover"
      [] Pending(r) /\ ~r.own -> IF r.old THEN "blocked" ELSE "retry"
      [] OTHER -> IF kind = "create" /\ ~r.own THEN "foreign" ELSE "upgrade"

(* submit always plans with a nil flight: it owns the only entry by then.    *)
PlanSubmit(r, kind, w) ==
    CASE r.st = "none" -> "install"
      [] Pending(r) /\ r.own -> "recover"
      [] Pending(r) /\ ~r.own -> IF r.old THEN "blocked" ELSE "retry"
      [] ~Pending(r) /\ Settled(r, w) -> "settled"
      [] OTHER -> IF kind = "create" /\ ~r.own THEN "foreign" ELSE "upgrade"

(* Mutation: post-deploy hooks are not considered. *)
MutCanConfirm(r) == \A o \in Objs : live[o] # Nothing

(* Can the objects show that an interrupted operation had completed?         *)
(* Readiness, which they must also have, is up to the cluster.               *)
CanConfirm(r) == r.want \notin Hooked /\ \A o \in Objs : live[o] # Nothing

(* Storing a revision back: into the history if a newer one exists.          *)
Stored(r) == rec' = IF rec.rev = r.rev THEN [r EXCEPT !.old = @ \/ rec.old] ELSE rec

Report(f) == IF f.readers = {} THEN NoFlight ELSE [f EXCEPT !.reported = TRUE]

DropReader(f, c) ==
    IF f.readers \subseteq {c} /\ f.reported
    THEN NoFlight ELSE [f EXCEPT !.readers = @ \ {c}]

-----------------------------------------------------------------------------
(* The agent *)

Answer(c, reply) ==
    /\ call' = [call EXCEPT ![c] = NoCall]
    /\ host' = IF host.slot # c THEN host          \* nobody is waiting for it
               ELSE [host EXCEPT
                      !.slot = 0, !.told = reply.kind,
                      !.managed = CASE reply.kind = "success" -> host.kind # "delete"
                                    [] reply.id -> TRUE
                                    [] OTHER -> host.managed,
                      !.req = IF reply.kind = "progress" THEN reply.req ELSE NoReq,
                      !.stage = CASE reply.kind = "progress" -> "poll"
                                  [] reply.kind = "conflict" -> "submit"
                                  [] OTHER -> "idle"]

(* A new command.  Only a resource the agent has recorded can be updated or  *)
(* deleted, and only one it has not is created.                              *)
Command(kind, w) ==
    /\ host.stage = "idle"
    /\ spent.commands < MaxCommands
    /\ (kind = "create") # host.managed
    /\ (kind = "delete") = (w = Nothing)
    /\ host' = [host EXCEPT !.stage = "submit", !.kind = kind,
                            !.want = w, !.told = "none"]
    /\ Spend("commands")
    /\ UNCHANGED <<cluster, helm, flight, call>>

(* The agent sends the operation, or polls it with the RequestID verbatim.   *)
Send(c) ==
    /\ host.stage \in {"submit", "poll"} /\ host.slot = 0
    /\ call[c].pc = "idle"
    /\ call' = [call EXCEPT ![c] = [NoCall EXCEPT
                  !.pc = host.stage, !.kind = host.kind,
                  !.want = host.want, !.req = host.req]]
    /\ host' = [host EXCEPT !.slot = c]
    /\ UNCHANGED <<cluster, helm, flight, spent>>

(* The agent restarts: it drives the command again from the start, while     *)
(* whatever it had asked of the plugin goes on with nobody listening.        *)
AgentRestarts ==
    /\ host.stage # "idle"
    /\ May("restart", MaxRestart)
    /\ host' = [host EXCEPT !.stage = "submit", !.slot = 0, !.req = NoReq]
    /\ Spend("restart")
    /\ UNCHANGED <<cluster, helm, flight, call>>

-----------------------------------------------------------------------------
(* Create, Update and Delete *)

Reserve(c) ==
    /\ call[c].pc = "submit"
    /\ flight = NoFlight
    /\ flight' = [NoFlight EXCEPT !.gen = Fresh, !.kind = call[c].kind,
                    !.want = call[c].want, !.op = OpOf(call[c].kind),
                    !.phase = "preparing"]
    /\ call' = [call EXCEPT ![c].pc = "plan", ![c].gen = Fresh]
    /\ UNCHANGED <<cluster, helm, host, spent>>

FlightReq == [gen |-> flight.gen, op |-> flight.op, rev |-> flight.rev]

Progress(req, withhold) == [kind |-> "progress", req |-> req, id |-> ~withhold]

(* Mutation: the desired state is not compared. *)
MutRejoin(c) ==
    /\ call[c].pc = "submit"
    /\ flight # NoFlight
    /\ Answer(c, IF flight.phase # "preparing" /\ flight.kind = call[c].kind
                 THEN Progress(FlightReq, call[c].kind = "create")
                 ELSE Reply("conflict"))
    /\ UNCHANGED <<cluster, helm, flight, spent>>

(* The entry belongs to someone else: rejoin the same operation on the same  *)
(* desired state, or be told to come back.                                   *)
Rejoin(c) ==
    /\ call[c].pc = "submit"
    /\ flight # NoFlight
    /\ Answer(c, IF /\ flight.phase # "preparing"
                    /\ flight.kind = call[c].kind
                    /\ call[c].kind # "delete" => flight.want = call[c].want
                 THEN Progress(FlightReq, call[c].kind = "create")
                 ELSE Reply("conflict"))
    /\ UNCHANGED <<cluster, helm, flight, spent>>

(* Leaving before the worker exists removes the reservation.                 *)
GiveUp(c, reply) ==
    /\ Answer(c, reply)
    /\ flight' = IF flight.gen = call[c].gen THEN NoFlight ELSE flight

Choose(c, op, target) ==
    /\ call' = [call EXCEPT ![c].pc = "activate", ![c].op = op, ![c].rev = target]
    /\ UNCHANGED <<flight, host>>

(* A create or an update decides from the record.  A "blocked" plan has no   *)
(* case in the switch and goes on, like an install, at the record's revision.*)
Plan(c) ==
    /\ call[c].pc = "plan" /\ call[c].kind # "delete"
    /\ LET k == call[c].kind
           isCreate == k = "create"
           plan == PlanSubmit(rec, k, call[c].want)
       IN  CASE call[c].again /\ rec.st = "none" -> GiveUp(c, Reply("error"))
             [] plan = "install" /\ ~call[c].again -> Choose(c, "install", 1)
             [] plan = "blocked" -> Choose(c, "install", rec.rev)
             [] plan = "upgrade" -> Choose(c, "upgrade", rec.rev + 1)
             [] plan = "recover" /\ ~call[c].again ->
                  /\ call' = [call EXCEPT ![c].pc = "judge", ![c].seen = rec]
                  /\ UNCHANGED <<flight, host>>
             [] plan = "settled" -> GiveUp(c, Progress(
                  [gen |-> 0, op |-> OpOf(k), rev |-> rec.rev], isCreate))
             [] plan = "retry" ->
                  GiveUp(c, [Reply("conflict") EXCEPT !.id = ~isCreate])
             [] plan = "foreign" \/ (plan = "recover" /\ call[c].again) ->
                  GiveUp(c, Reply("error"))
    /\ UNCHANGED <<cluster, helm, spent>>

(* A delete has no decision to make, only a release to find.                 *)
PlanDelete(c) ==
    /\ call[c].pc = "plan" /\ call[c].kind = "delete"
    /\ IF rec.st = "none" THEN GiveUp(c, Reply("success"))
       ELSE Choose(c, "delete", rec.rev)
    /\ UNCHANGED <<cluster, helm, spent>>

(* The record, the chart or the credentials could not be read.               *)
PreparationFails(c) ==
    /\ call[c].pc \in {"plan", "activate"}
    /\ May("fault", MaxFault)
    /\ GiveUp(c, Reply("error"))
    /\ Spend("fault")
    /\ UNCHANGED <<cluster, helm>>

(* The worker starts.  Delete returns at once; the others wait for Helm to   *)
(* write the record.                                                         *)
Activate(c) ==
    /\ call[c].pc = "activate" /\ flight.gen = call[c].gen
    /\ flight' = [flight EXCEPT !.op = call[c].op, !.rev = call[c].rev,
                                !.phase = "running", !.late = FALSE]
    /\ helm' = [helm EXCEPT !["plugin"] =
                  [Idle EXCEPT !.op = call[c].op, !.want = call[c].want,
                               !.step = "begin"]]
    /\ IF call[c].kind = "delete"
       THEN Answer(c, Progress([gen |-> call[c].gen, op |-> "delete",
                                rev |-> call[c].rev], FALSE))
       ELSE call' = [call EXCEPT ![c].pc = "await"] /\ UNCHANGED host
    /\ UNCHANGED <<cluster, spent>>

AwaitRecorded(c) ==
    /\ call[c].pc = "await" /\ flight.gen = call[c].gen
    /\ flight.phase = "ok" \/ (rec.st # "none" /\ rec.rev >= call[c].rev)
    /\ Answer(c, Progress(FlightReq, call[c].kind = "create"))
    /\ UNCHANGED <<cluster, helm, flight, spent>>

(* The worker failed before the record was seen.  Its error is returned, so  *)
(* no poll will ask for it.                                                  *)
AwaitOutcome(c) ==
    /\ call[c].pc = "await" /\ flight.gen = call[c].gen
    /\ flight.phase = "err"
    /\ Answer(c, Reply("error"))
    /\ flight' = Report(flight)
    /\ UNCHANGED <<cluster, helm, spent>>

(* The worker has ended and another callback of the agent's second drive has *)
(* been told how: the entry is gone.                                         *)
AwaitForgotten(c) ==
    /\ call[c].pc = "await" /\ flight.gen # call[c].gen
    /\ \E reply \in {Reply("conflict"),
                     Progress([gen |-> call[c].gen, op |-> call[c].op,
                               rev |-> call[c].rev], call[c].kind = "create")} :
         Answer(c, reply)
    /\ UNCHANGED <<cluster, helm, flight, spent>>

(* Waiting breaks off at the action deadline, which ends the command...      *)
AwaitOverdue(c) ==
    /\ call[c].pc = "await" /\ flight.gen = call[c].gen
    /\ flight.phase = "running" /\ flight.late
    /\ Answer(c, Reply("failure"))
    /\ UNCHANGED <<cluster, helm, flight, spent>>

(* ... on a service failure, which does not once the worker runs, or on any  *)
(* other error, which does.                                                  *)
AwaitFails(c) ==
    /\ call[c].pc = "await" /\ flight.gen = call[c].gen
    /\ flight.phase = "ok" \/ (flight.phase = "running" /\ ~flight.late)
    /\ May("fault", MaxFault)
    /\ \E reply \in {Progress(FlightReq, call[c].kind = "create"), Reply("error")} :
         Answer(c, reply)
    /\ Spend("fault")
    /\ UNCHANGED <<cluster, helm, flight>>

-----------------------------------------------------------------------------
(* Status *)

(* Mutation: a poll of a release nobody holds reads without the reservation. *)
MutAcquireRecovery(c) ==
    /\ call[c].pc = "poll"
    /\ flight = NoFlight
    /\ call' = [call EXCEPT ![c].pc = "read", ![c].gen = Fresh]
    /\ UNCHANGED <<cluster, helm, flight, host, spent>>

(* Nobody holds the release: the poll reserves it, so that it may recover.   *)
AcquireRecovery(c) ==
    /\ call[c].pc = "poll"
    /\ flight = NoFlight
    /\ flight' = [NoFlight EXCEPT !.gen = Fresh, !.kind = "status",
                    !.op = call[c].req.op, !.rev = call[c].req.rev,
                    !.phase = "preparing"]
    /\ call' = [call EXCEPT ![c].pc = "read", ![c].gen = Fresh]
    /\ UNCHANGED <<cluster, helm, host, spent>>

Matches(c) == flight.phase # "preparing" /\ FlightReq = call[c].req

(* Someone else's operation, or one still preparing.                         *)
RefuseStatus(c) ==
    /\ call[c].pc = "poll"
    /\ flight # NoFlight /\ ~Matches(c)
    /\ Answer(c, Reply("conflict"))
    /\ UNCHANGED <<cluster, helm, flight, spent>>

Withheld(kind, op) == [Reply(kind) EXCEPT !.id = op # "install"]

(* Its own operation has failed, or has outlived its deadline.  The latter   *)
(* keeps the entry: the worker has not stopped.                              *)
StatusVerdict(c) ==
    /\ call[c].pc = "poll"
    /\ flight # NoFlight /\ Matches(c)
    /\ \/ flight.phase = "err" /\ flight' = Report(flight)
       \/ flight.phase = "running" /\ flight.late /\ UNCHANGED flight
    /\ Answer(c, Withheld("failure", flight.op))
    /\ UNCHANGED <<cluster, helm, spent>>

(* Its own operation is running or has succeeded: read on as its reader.     *)
AcquireFlight(c) ==
    /\ call[c].pc = "poll"
    /\ flight # NoFlight /\ Matches(c)
    /\ flight.phase = "ok" \/ (flight.phase = "running" /\ ~flight.late)
    /\ flight' = [flight EXCEPT !.readers = @ \cup {c}]
    /\ call' = [call EXCEPT ![c].pc = "read", ![c].gen = flight.gen,
                            ![c].backed = flight.phase = "running"]
    /\ UNCHANGED <<cluster, helm, host, spent>>

(* What a poll of a delete makes of the record.                              *)
DeleteReply(c) ==
    CASE rec.st = "none" -> Reply("success")
      [] rec.st # "none" /\ rec.own /\ ~call[c].backed ->
           Withheld("conflict", "delete")
      [] OTHER -> IF ~rec.own /\ Stalled(rec, call[c].backed)
                  THEN Withheld("failure", "delete")
                  ELSE Progress(call[c].req, FALSE)

(* Mutation: a later revision is taken for the expected one. *)
MutInstallReplies(c) ==
    LET op == call[c].req.op
        failed == Withheld("failure", op)
        waiting == Progress(call[c].req, op = "install")
    IN  IF rec.st = "none"
        THEN {IF call[c].backed /\ ~flight.late THEN waiting ELSE failed}
        ELSE IF rec.rev < call[c].req.rev THEN {waiting}
        ELSE CASE rec.st = "pending" -> {waiting}
               [] rec.st = "failed" -> {failed}
               [] rec.st = "deployed" ->
                    {[Reply("success") EXCEPT !.id = TRUE],
                     IF Stalled(rec, call[c].backed) THEN failed ELSE waiting}
               [] OTHER -> {waiting}

(* What a poll of an install or an upgrade may make of the record, a pending *)
(* one with nothing behind it aside.  Whether deployed objects are ready is  *)
(* up to the cluster.                                                        *)
InstallReplies(c) ==
    LET op == call[c].req.op
        failed == Withheld("failure", op)
        waiting == Progress(call[c].req, op = "install")
    IN  IF rec.st = "none"
        THEN {IF call[c].backed /\ ~flight.late THEN waiting ELSE failed}
        ELSE IF rec.rev > call[c].req.rev THEN {failed}
        ELSE IF rec.rev < call[c].req.rev THEN {waiting}
        ELSE CASE rec.st = "pending" -> {waiting}
               [] rec.st = "failed" -> {failed}
               [] rec.st = "deployed" ->
                    {[Reply("success") EXCEPT !.id = TRUE],
                     IF Stalled(rec, call[c].backed) THEN failed ELSE waiting}
               [] OTHER -> {waiting}

Unbacked(c) == /\ call[c].req.op # "delete" /\ ~call[c].backed
               /\ Pending(rec) /\ rec.rev = call[c].req.rev

ReadRecord(c) ==
    /\ call[c].pc = "read" /\ ~Unbacked(c)
    /\ \E reply \in IF call[c].req.op = "delete" THEN {DeleteReply(c)}
                    ELSE InstallReplies(c) :
         call' = [call EXCEPT ![c].pc = "reconcile", ![c].got = reply,
                              ![c].seen = rec]
    /\ UNCHANGED <<cluster, helm, flight, host, spent>>

(* A pending release that nothing in this process drives must be recovered.  *)
ReadAbandoned(c) ==
    /\ call[c].pc = "read" /\ Unbacked(c)
    /\ call' = [call EXCEPT ![c].pc = "judge", ![c].seen = rec]
    /\ UNCHANGED <<cluster, helm, flight, host, spent>>

(* The poll is over: its reservation goes, or it stops being a reader.       *)
Leave(c, reply, f) ==
    /\ Answer(c, reply)
    /\ flight' = IF call[c].gen = call[c].req.gen THEN DropReader(f, c) ELSE NoFlight

(* The record could not be read.  A service failure is progress to a poll    *)
(* with an operation behind it and a failure to one without; any other error *)
(* ends the command.                                                         *)
ReadFails(c) ==
    /\ call[c].pc = "read"
    /\ May("fault", MaxFault)
    /\ \/ Leave(c, Reply("error"), flight)
       \/ /\ call[c].gen # call[c].req.gen
          /\ Leave(c, Withheld("failure", call[c].req.op), flight)
       \/ /\ call[c].gen = call[c].req.gen
          /\ CASE flight.phase = "err" -> Leave(c, Withheld("failure", flight.op), Report(flight))
               [] flight.phase = "running" /\ flight.late ->
                    Leave(c, Withheld("failure", flight.op), flight)
               [] OTHER -> Leave(c, Progress(call[c].req, TRUE), flight)
    /\ Spend("fault")
    /\ UNCHANGED <<cluster, helm>>

(* Mutation: the storage's word is passed on while the worker still runs. *)
MutReconcile(c) ==
    /\ call[c].pc = "reconcile"
    /\ Leave(c, call[c].got, flight)
    /\ UNCHANGED <<cluster, helm, spent>>

(* Only the worker's own end makes a terminal reading final.                 *)
Reconcile(c) ==
    /\ call[c].pc = "reconcile"
    /\ LET got == call[c].got
       IN  IF call[c].gen # call[c].req.gen THEN Leave(c, got, flight)
           ELSE CASE flight.phase = "err" ->
                       Leave(c, Withheld("failure", flight.op), Report(flight))
                  [] flight.phase # "err" /\ got.kind = "progress" -> Leave(c, got, flight)
                  [] flight.phase = "running" /\ got.kind # "progress" ->
                       Leave(c, Progress(call[c].req, flight.op = "install"), flight)
                  [] OTHER -> Leave(c, got, Report(flight))
    /\ UNCHANGED <<cluster, helm, spent>>

-----------------------------------------------------------------------------
(* Recovery of an abandoned release, by a submit or by a poll *)

(* Mutation: the verdict is not failed until shown otherwise. *)
MutJudge(c) ==
    /\ call[c].pc = "judge"
    /\ call' = [call EXCEPT ![c].pc = "rewrite",
                  ![c].seen.st = IF CanConfirm(call[c].seen) THEN "deployed" ELSE ""]
    /\ UNCHANGED <<cluster, helm, flight, host, spent>>

(* The objects are looked up, then judged ready or not.                      *)
Judge(c) ==
    /\ call[c].pc = "judge"
    /\ \E verdict \in IF CanConfirm(call[c].seen) THEN {"deployed", "failed"}
                      ELSE {"failed"} :
         call' = [call EXCEPT ![c].pc = "rewrite", ![c].seen.st = verdict]
    /\ UNCHANGED <<cluster, helm, flight, host, spent>>

(* The whole record is written back as it was read, with the verdict.  A     *)
(* submit plans again; a poll reads a deployed record again and has a failed *)
(* one driven again.                                                         *)
Rewrite(c) ==
    /\ call[c].pc = "rewrite"
    /\ rec.st # "none" /\ rec.rev >= call[c].seen.rev
    /\ Stored(call[c].seen)
    /\ call' = [call EXCEPT ![c] =
         CASE call[c].req = NoReq ->
                [@ EXCEPT !.pc = "plan", !.again = TRUE]
           [] call[c].req # NoReq /\ call[c].seen.st = "deployed" -> [@ EXCEPT !.pc = "read"]
           [] OTHER -> [@ EXCEPT !.pc = "reconcile",
                          !.got = Withheld("conflict", call[c].req.op)]]
    /\ UNCHANGED <<live, hooksRan, helm, flight, host, spent>>

(* Without a verdict on record a submit ends in the error, and a poll reports *)
(* the release stuck.                                                        *)
Unrecovered(c) ==
    IF call[c].req = NoReq THEN GiveUp(c, Reply("error"))
    ELSE /\ call' = [call EXCEPT ![c].pc = "reconcile",
                       ![c].got = Withheld("failure", call[c].req.op)]
         /\ UNCHANGED <<flight, host>>

(* The revision to write back is gone.                                       *)
RewriteFails(c) ==
    /\ call[c].pc = "rewrite"
    /\ rec.st = "none" \/ rec.rev < call[c].seen.rev
    /\ Unrecovered(c)
    /\ UNCHANGED <<cluster, helm, spent>>

(* The write fails in another way: it was refused, or it was done and its    *)
(* answer is lost.                                                           *)
RewriteErrs(c) ==
    /\ call[c].pc = "rewrite"
    /\ May("fault", MaxFault)
    /\ \/ UNCHANGED rec
       \/ rec.st # "none" /\ rec.rev >= call[c].seen.rev /\ Stored(call[c].seen)
    /\ Unrecovered(c)
    /\ Spend("fault")
    /\ UNCHANGED <<live, hooksRan, helm>>

-----------------------------------------------------------------------------
(* Helm, for the plugin's worker and for the CLI *)

Actors == {"plugin", "cli"}

(* The operation is over; for the worker that is the flight's outcome.       *)
Ends(a, phase) ==
    /\ helm' = [helm EXCEPT ![a] = Idle]
    /\ flight' = IF a = "plugin" THEN [flight EXCEPT !.phase = phase] ELSE flight

Allowed(op) ==
    CASE op = "install" -> rec.st = "none"
      [] op = "upgrade" -> rec.st \in {"deployed", "failed"}
      [] OTHER -> rec.st # "none"

(* Helm takes its lock: the record is pending before any hook runs or any    *)
(* object changes.  Only the plugin marks a release as formae's.             *)
HelmRecords(a) ==
    /\ helm[a].step = "begin" /\ Allowed(helm[a].op)
    /\ rec' = CASE helm[a].op = "install" ->
                     [st |-> "pending", rev |-> 1, own |-> a = "plugin",
                      want |-> helm[a].want, old |-> FALSE]
                [] helm[a].op = "upgrade" ->
                     [st |-> "pending", rev |-> rec.rev + 1,
                      own |-> rec.own \/ a = "plugin",
                      want |-> helm[a].want, old |-> FALSE]
                [] OTHER -> [rec EXCEPT !.st = "uninstalling"]
    /\ helm' = [helm EXCEPT ![a].step = "apply", ![a].left = Objs,
                            ![a].rev = rec'.rev]
    /\ hooksRan' = IF helm[a].op = "install" THEN 0 ELSE hooksRan
    /\ UNCHANGED <<live, flight, call, host, spent>>

HelmRefuses(a) ==
    /\ helm[a].step = "begin" /\ ~Allowed(helm[a].op)
    /\ Ends(a, "err")
    /\ UNCHANGED <<cluster, call, host, spent>>

HelmApplies(a, o) ==
    /\ helm[a].step = "apply" /\ o \in helm[a].left
    /\ live' = [live EXCEPT ![o] = IF helm[a].op = "delete" THEN Nothing
                                   ELSE helm[a].want]
    /\ helm' = [helm EXCEPT ![a].left = @ \ {o}]
    /\ UNCHANGED <<rec, hooksRan, flight, call, host, spent>>

HelmRunsHooks(a) ==
    /\ helm[a].step = "apply" /\ helm[a].left = {}
    /\ helm' = [helm EXCEPT ![a].step = "record"]
    /\ hooksRan' = IF helm[a].op # "delete" /\ helm[a].want \in Hooked
                   THEN helm[a].rev ELSE hooksRan
    /\ UNCHANGED <<rec, live, flight, call, host, spent>>

(* The record is written last, or purged last; the action returns after it.  *)
HelmFinishes(a) ==
    /\ helm[a].step = "record"
    /\ IF helm[a].op # "delete" /\ (rec.st = "none" \/ rec.rev < helm[a].rev)
       THEN UNCHANGED rec /\ Ends(a, "err")
       ELSE /\ helm' = [helm EXCEPT ![a].step = "return"]
            /\ IF helm[a].op = "delete" THEN rec' = NoRec
               ELSE Stored([rec EXCEPT !.rev = helm[a].rev, !.st = "deployed",
                                       !.want = helm[a].want])
            /\ UNCHANGED flight
    /\ UNCHANGED <<live, hooksRan, call, host, spent>>

HelmReturns(a) ==
    /\ helm[a].step = "return"
    /\ Ends(a, "ok")
    /\ UNCHANGED <<cluster, call, host, spent>>

(* Any step of Helm's may fail, and does when the plugin cancels it: the     *)
(* record turns failed, or stays as it is half-way through an uninstall.     *)
HelmFails(a) ==
    /\ helm[a].step \notin {"none", "return"}
    /\ rec' = IF /\ helm[a].step # "begin" /\ helm[a].op # "delete"
                 /\ rec.st # "none" /\ rec.rev = helm[a].rev
              THEN [rec EXCEPT !.st = "failed"] ELSE rec
    /\ Ends(a, "err")
    /\ UNCHANGED <<live, hooksRan, call, host, spent>>

CliStarts(op, w) ==
    /\ helm["cli"] = Idle
    /\ spent.cli < MaxCli
    /\ (op = "delete") = (w = Nothing)
    /\ helm' = [helm EXCEPT !["cli"] = [Idle EXCEPT !.op = op, !.want = w, !.step = "begin"]]
    /\ Spend("cli")
    /\ UNCHANGED <<cluster, flight, call, host>>

-----------------------------------------------------------------------------
(* Time and death *)

(* The record has been as it is for twice the release's timeout.  The        *)
(* worker's deadline, one timeout after it started, comes first.             *)
RecordAges ==
    /\ rec.st # "none" /\ ~rec.old
    /\ \/ flight.phase # "running" \/ flight.late \/ helm["plugin"].op = "delete"
       \/ helm["plugin"].step = "begin" \/ helm["plugin"].rev # rec.rev
    /\ rec' = [rec EXCEPT !.old = TRUE]
    /\ UNCHANGED <<live, hooksRan, helm, flight, call, host, spent>>

DeadlinePasses ==
    /\ flight.phase = "running" /\ ~flight.late
    /\ flight' = [flight EXCEPT !.late = TRUE]
    /\ UNCHANGED <<cluster, helm, call, host, spent>>

(* Five minutes after the worker ended.  A callback awaits the record for    *)
(* one minute at most; an agent that is not slow polls more often than that. *)
RetireFlight ==
    /\ flight.phase \in {"ok", "err"} /\ ~flight.reported
    /\ \A c \in Slots : ~(call[c].pc = "await" /\ call[c].gen = flight.gen)
    /\ SlowAgent \/ (/\ host.req.gen # flight.gen
                     /\ \A c \in Slots : call[c].req.gen # flight.gen)
    /\ flight' = Report(flight)
    /\ UNCHANGED <<cluster, helm, call, host, spent>>

(* SIGKILL: the registry, the worker and the callbacks are gone, the record  *)
(* and the objects stay.  The agent sees its call fail and gives the command *)
(* up or tries again.                                                        *)
PluginCrashes ==
    /\ May("crash", MaxCrash)
    /\ flight' = NoFlight
    /\ helm' = [helm EXCEPT !["plugin"] = Idle]
    /\ call' = [c \in Slots |-> NoCall]
    /\ IF host.slot = 0 THEN UNCHANGED host
       ELSE \E stage \in {host.stage, "idle"} :
              host' = [host EXCEPT !.slot = 0, !.stage = stage,
                         !.req = IF stage = "poll" THEN @ ELSE NoReq]
    /\ Spend("crash")
    /\ UNCHANGED cluster

-----------------------------------------------------------------------------
Init ==
    /\ rec = NoRec
    /\ live = [o \in Objs |-> Nothing]
    /\ hooksRan = 0
    /\ helm = [a \in Actors |-> Idle]
    /\ flight = NoFlight
    /\ call = [c \in Slots |-> NoCall]
    /\ host = [stage |-> "idle", slot |-> 0, kind |-> "none", want |-> Nothing,
               req |-> NoReq, managed |-> FALSE, told |-> "none"]
    /\ spent = [commands |-> 0, crash |-> 0, restart |-> 0,
                cli |-> 0, fault |-> 0]

Submit(c) == \/ Reserve(c) \/ Rejoin(c) \/ Plan(c) \/ PlanDelete(c) \/ Activate(c)
             \/ AwaitRecorded(c) \/ AwaitOutcome(c) \/ AwaitOverdue(c)
             \/ AwaitForgotten(c)

Poll(c) == \/ AcquireRecovery(c) \/ RefuseStatus(c) \/ StatusVerdict(c)
           \/ AcquireFlight(c) \/ ReadRecord(c) \/ ReadAbandoned(c) \/ Reconcile(c)

Recover(c) == Judge(c) \/ Rewrite(c) \/ RewriteFails(c)

Fault(c) == PreparationFails(c) \/ AwaitFails(c) \/ ReadFails(c) \/ RewriteErrs(c)

Helm(a) == \/ HelmRecords(a) \/ HelmRefuses(a) \/ HelmRunsHooks(a)
           \/ HelmFinishes(a) \/ HelmReturns(a) \/ \E o \in Objs : HelmApplies(a, o)

Callback(c) == Submit(c) \/ Poll(c) \/ Recover(c)

Next ==
    \/ \E kind \in Kinds, w \in Wants \cup {Nothing} : Command(kind, w)
    \/ \E c \in Slots : Send(c) \/ Callback(c) \/ Fault(c)
    \/ \E a \in Actors : Helm(a) \/ HelmFails(a)
    \/ \E op \in {"install", "upgrade", "delete"}, w \in Wants \cup {Nothing} : CliStarts(op, w)
    \/ AgentRestarts \/ RecordAges \/ DeadlinePasses \/ RetireFlight \/ PluginCrashes

Spec == Init /\ [][Next]_vars

(* The agent polls, a callback's reads return, Helm's own timeout ends every *)
(* operation of the worker, and time passes.  Nothing is assumed of the CLI, *)
(* of faults, deadlines or deaths.                                           *)
Fairness ==
    /\ WF_vars(\E c \in Slots : Send(c))
    /\ \A c \in Slots : WF_vars(Callback(c))
    /\ WF_vars(Helm("plugin"))
    /\ WF_vars(RecordAges) /\ WF_vars(RetireFlight)

FairSpec == Spec /\ Fairness

-----------------------------------------------------------------------------
(* Properties *)

Stages == {"idle", "submit", "plan", "judge", "rewrite", "activate", "await",
           "poll", "read", "reconcile"}

(* Every variable keeps its shape, so a recovery writes back a verdict and   *)
(* nothing else; and there is always a generation that nobody refers to.     *)
TypeOK ==
    /\ rec \in Records
    /\ live \in [Objs -> Wants \cup {Nothing}]
    /\ hooksRan \in Nat
    /\ \A a \in Actors : helm[a].step \in {"none", "begin", "apply", "record", "return"}
    /\ flight.readers \subseteq Slots /\ flight.gen \in 0..MaxGen
    /\ \A c \in Slots : /\ call[c].pc \in Stages /\ call[c].seen \in Records
                        /\ call[c].req \in Requests /\ call[c].got \in Replies
    /\ host.req \in Requests /\ host.stage \in {"idle", "submit", "poll"}
    /\ 1..MaxGen \ InUse # {}

(* What the host may take "success" to mean.                                 *)
InForce(w) == /\ rec.st = "deployed" /\ rec.own /\ rec.want = w
              /\ \A o \in Objs : live[o] = w
              /\ w \in Hooked => hooksRan = rec.rev

Told(reply) == host'.told = reply /\ host.slot # 0 /\ host'.slot = 0

(* When the agent is told that a create or an update succeeded, the record,  *)
(* every object and the post-deploy hooks are those of the state it asked    *)
(* for; when a delete succeeded, nothing is left.                            *)
SuccessIsLive ==
    [][Told("success") =>
         IF host.kind = "delete"
         THEN rec.st = "none" /\ \A o \in Objs : live[o] = Nothing
         ELSE InForce(host.want)]_vars

Ours(r) == r.st = "deployed" /\ r.own /\ r.want = host.want

(* While neither the plugin nor the agent has died, and another tool         *)
(* upgrades or removes the release once, the agent is told that a create or  *)
(* an update succeeded only if the very state it asked for is recorded as    *)
(* deployed, when the poll reads or when it answers: another tool's revision *)
(* is not taken for its own.  (A poll compares revision numbers, and these   *)
(* begin at 1 again in a release that is removed and installed anew, whether *)
(* the other tool does so or the agent while that tool is still at work.)    *)
SuccessIsOurs ==
    [][Told("success") /\ host.kind # "delete" /\ spent.crash + spent.restart = 0
         => Ours(rec) \/ Ours(call[host.slot].seen)]_vars

(* A record says deployed only when every object of the release exists; and, *)
(* when the chart has post-deploy hooks, only when the objects are those of  *)
(* its own revision and the hooks have run: recovery must not record as done *)
(* what was never done.                                                      *)
DeployedMeansDone ==
    rec.st = "deployed" =>
       /\ \A o \in Objs : live[o] # Nothing
       /\ rec.want \in Hooked => InForce(rec.want)

(* Between reading an abandoned record and writing it back, nothing in this  *)
(* process drives the release and the record in storage stays the one read:  *)
(* recovery never overwrites a record it has not judged.                     *)
RecoveryIsAlone ==
    \A c \in Slots : call[c].pc \in {"judge", "rewrite"} =>
        /\ helm["plugin"] = Idle
        /\ rec.st = "pending"
        /\ rec.rev = call[c].seen.rev /\ rec.want = call[c].seen.want
        /\ \A d \in Slots \ {c} : call[d].pc \in {"idle", "submit", "poll"}

(* An upgrade never runs over a release that is already at the state it is   *)
(* for: the chart's hooks are not run again for nothing, also when a command *)
(* is driven a second time while the first drive goes on.                    *)
NoRepeatedWork ==
    [][HelmRecords("plugin") /\ helm["plugin"].op = "upgrade" =>
         ~Settled(rec, helm["plugin"].want)]_vars

(* While the worker runs, the agent is not told that its command succeeded.  *)
NoSuccessWhileRunning ==
    [][Told("success") => helm["plugin"] = Idle]_vars

(* What the agent can rely on between its commands: a release changes only   *)
(* while something asked of it is not over and only to what was asked for,   *)
(* and what a success reported stands until the next command, unless the     *)
(* agent once left a command without waiting for its answer.                 *)
Serves(w) == IF w = Nothing THEN rec.st = "none" /\ \A o \in Objs : live[o] = Nothing
             ELSE InForce(w)

At == {w \in Wants \cup {Nothing} : Serves(w)}

Asked == IF host.stage = "idle" THEN {} ELSE {host.want}

Promised == IF host.stage = "idle" /\ host.told = "success" THEN {host.want} ELSE {}

Working == IF helm["plugin"].step = "none" THEN {} ELSE {helm["plugin"].want}

Serving == {call[c].want : c \in {d \in Slots : call[d].pc # "idle"}}

Owed == Asked \cup Working \cup Serving

Promise == INSTANCE ReleasePromise WITH
              States <- Wants \cup {Nothing}, at <- At, asked <- Asked,
              promised <- Promised, owed <- Owed, patient <- spent.restart = 0

ImplementsReleasePromise == Promise!Spec

(* Every command of the agent comes to an end: no sequence of polls and      *)
(* retries goes on for ever over work that nobody is doing.                  *)
CommandsEnd == host.stage # "idle" ~> host.stage = "idle"

-----------------------------------------------------------------------------
(* What comments of the source say and the code does not do *)

(* release.go:1758: "every object it renders is present and ready, so the    *)
(* install did complete and only the record was lost".  A release recovered  *)
(* as deployed has the objects of the revision it is recovered at.           *)
RecoveredMeansComplete ==
    [][\A c \in Slots :
         call[c].pc = "rewrite" /\ rec.st = "pending" /\ rec'.st = "deployed"
           /\ call'[c].pc # "rewrite"
           => \A o \in Objs : live[o] = rec'.want]_vars

=============================================================================
