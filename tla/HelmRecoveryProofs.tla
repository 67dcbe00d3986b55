------------------------- MODULE HelmRecoveryProofs -------------------------
(***************************************************************************)
(* What the release's record says of the cluster, and who may write it,    *)
(* when no other tool changes the release.                                 *)
(***************************************************************************)
EXTENDS HelmReleaseProofs

-----------------------------------------------------------------------------
(* Nobody else changes the release *)

Worker == helm["plugin"]

NoCli == spent.cli = 0 /\ helm["cli"] = Idle

Applied(o) == live[o] = IF Worker.op = "delete" THEN Nothing ELSE Worker.want

(* The record is one that the operation was chosen for. *)
Suits(op, w) == /\ op = "install" => rec.st = "none"
                /\ op = "upgrade" => rec.st \notin {"none", "pending"} /\ ~Settled(rec, w)
                /\ op = "delete" => rec.st # "none"

(* What the worker's step says of the record. *)
WorkerOK ==
    /\ Worker.step # "none" => /\ Worker.op = flight.op
                               /\ (Worker.op = "delete") = (Worker.want = Nothing)
    /\ Worker.step = "begin" => Suits(Worker.op, Worker.want)
    /\ Worker.step \in {"apply", "record"} =>
         IF Worker.op = "delete" THEN rec.st = "uninstalling"
         ELSE rec.st = "pending" /\ rec.rev = Worker.rev /\ rec.want = Worker.want
    /\ Worker.step = "return" =>
         IF Worker.op = "delete" THEN rec.st = "none"
         ELSE rec.st = "deployed" /\ rec.rev = Worker.rev /\ rec.want = Worker.want
    /\ Worker.step = "apply" => \A o \in Objs \ Worker.left : Applied(o)
    /\ Worker.step = "record" =>
         /\ \A o \in Objs : Applied(o)
         /\ Worker.op # "delete" /\ Worker.want \in Hooked => hooksRan = Worker.rev

RecordOK ==
    /\ rec.st = "none" => /\ rec.rev = 0 /\ rec.want = Nothing
                          /\ \A o \in Objs : live[o] = Nothing
    /\ rec.st # "none" => rec.own /\ rec.want \in Wants
    /\ flight.phase = "ok" =>
         rec.st = IF flight.op = "delete" THEN "none" ELSE "deployed"

(* What a callback relies on between reading the record and acting on it. *)
JudgedOK(c) ==
    /\ call[c].pc = "activate" => Suits(call[c].op, call[c].want)
    /\ call[c].pc = "await" => \/ rec.st # "pending"
                               \/ Worker.step \in {"apply", "record"}
    /\ Reader(c) /\ ~call[c].backed => flight.phase = "ok"
    /\ call[c].pc \in {"judge", "rewrite"} =>
         /\ Owner(c)
         /\ rec.st = "pending" /\ rec.rev = call[c].seen.rev
         /\ rec.want = call[c].seen.want /\ call[c].seen.own
         /\ call[c].seen.st = "deployed" => CanConfirm(call[c].seen)
    /\ call[c].pc = "judge" => call[c].seen.st = "pending"
    /\ call[c].pc = "rewrite" => call[c].seen.st \in {"deployed", "failed"}

AInv == /\ IInv /\ NoCli /\ WorkerOK /\ RecordOK /\ DeployedMeansDone
        /\ \A c \in Slots : JudgedOK(c)

-----------------------------------------------------------------------------
(* Who works *)

LEMMA WorkerPhase ==
    ASSUME IInv
    PROVE  /\ Worker.step # "none" <=> flight.phase = "running"
           /\ Worker.step = "none" => Worker = Idle
           /\ Worker \in Works
BY DEF IInv, Shape, Ownership, FlightOK, Worker, Actors

LEMMA NextWorkerPhase ==
    ASSUME IInv'
    PROVE  /\ Worker'.step # "none" <=> flight'.phase = "running"
           /\ Worker'.step = "none" => Worker' = Idle
           /\ Worker' \in Works
BY DEF IInv, Shape, Ownership, FlightOK, Worker, Actors

(* Owners and readers of the entry, and what they know of its phase. *)
LEMMA WhoHasIt ==
    ASSUME IInv, NEW c \in Slots
    PROVE  /\ Owner(c) => flight.phase = "preparing" /\ Worker = Idle
           /\ Reader(c) => flight.phase \in Begun
           /\ \A d \in Slots : Owner(c) /\ Owner(d) => c = d
           /\ call[c].pc \in {"plan", "activate"} => Owner(c)
           /\ call[c].pc \in {"read", "judge", "rewrite", "reconcile"} => Owner(c) \/ Reader(c)
           /\ ~(Owner(c) /\ Reader(c))
<1>1. CallbackOK(c) /\ OneOwner /\ FlightOK
  BY DEF IInv, Ownership
<1>2. Owner(c) => Worker = Idle
  BY <1>1, WorkerPhase DEF CallbackOK, OwnerOK
<1>3. ~(Owner(c) /\ Reader(c))
  BY <1>1 DEF Owner, Reader
<1> QED  BY <1>1, <1>2, <1>3 DEF CallbackOK, OwnerOK, ReaderOK, OneOwner, Owner, Reader

LEMMA NextReader ==
    ASSUME IInv', NEW c \in Slots
    PROVE  /\ Reader(c)' => flight'.phase \in Begun
           /\ Owner(c)' => flight'.phase = "preparing"
BY DEF IInv, Ownership, CallbackOK, ReaderOK, OwnerOK, Begun

(* The other callbacks stand where they stood. *)
Others(c) == \A d \in Slots \ {c} : call'[d] = call[d]

(* The entry keeps its phase and operation, unless it has not begun. *)
QuietEntry == \/ UNCHANGED flight
              \/ flight'.phase = flight.phase /\ flight'.op = flight.op
              \/ flight'.phase \notin Begun

(* A step that leaves the release and Helm alone keeps what everyone relies  *)
(* on when its own callback does.                                            *)
LEMMA Quietly ==
    ASSUME AInv, IInv', NEW c, UNCHANGED <<cluster, helm>>, spent'.cli = spent.cli,
           QuietEntry, Others(c), c \in Slots => JudgedOK(c)'
    PROVE  AInv'
<1>1. IInv /\ NoCli /\ WorkerOK /\ RecordOK /\ DeployedMeansDone
      /\ \A d \in Slots : JudgedOK(d)
  BY DEF AInv
<1>2. UNCHANGED <<rec, live, hooksRan, helm, Worker>>
  BY DEF cluster, Worker
<1>3. Worker.step # "none" => flight'.op = flight.op
  BY <1>1, <1>2, WorkerPhase, NextWorkerPhase DEF QuietEntry, Begun
<1>4. WorkerOK'
  BY <1>1, <1>2, <1>3 DEF WorkerOK, Applied, Suits
<1>5. RecordOK'
  BY <1>1, <1>2 DEF RecordOK, QuietEntry, Begun
<1>6. DeployedMeansDone' /\ NoCli'
  BY <1>1, <1>2 DEF DeployedMeansDone, InForce, NoCli
<1>7. ASSUME NEW d \in Slots \ {c}  PROVE JudgedOK(d)'
  <2>1. /\ call'[d] = call[d] /\ (Owner(d)' <=> Owner(d)) /\ (Reader(d)' <=> Reader(d))
        /\ JudgedOK(d)
    BY <1>1, <1>7 DEF Others, Owner, Reader
  <2>2. Reader(d) /\ ~call[d].backed => flight'.phase = "ok"
    BY <1>1, <2>1, NextReader DEF JudgedOK, QuietEntry, Begun
  <2> QED  BY <1>2, <2>1, <2>2 DEF JudgedOK, CanConfirm, Suits
<1> QED  BY <1>4, <1>5, <1>6, <1>7 DEF AInv

(* An answered callback relies on nothing. *)
LEMMA AnsweredRelies ==
    ASSUME Shape, NEW c \in Slots, NEW STATE reply, Answer(c, reply)
    PROVE  Others(c) /\ JudgedOK(c)'
<1>1. call'[c] = NoCall /\ Others(c)
  BY DEF Answer, Others, Shape
<1> QED  BY <1>1 DEF JudgedOK, NoCall, Owner, Reader

LEMMA QuietReport ==
    ASSUME flight \in Flights, flight' = Report(flight)  PROVE QuietEntry
<1>1. CASE flight.readers = {}
  BY <1>1 DEF Report, QuietEntry, NoFlight, Begun
<1>2. CASE flight.readers # {}
  BY <1>2 DEF Report, QuietEntry, Flights
<1> QED  BY <1>1, <1>2

LEMMA QuietLeave ==
    ASSUME flight \in Flights, NEW c \in Slots, NEW STATE reply,
           Leave(c, reply, flight) \/ Leave(c, reply, Report(flight))
    PROVE  QuietEntry
<1>1. PICK f : f \in {flight, Report(flight)} /\ Leave(c, reply, f)
  OBVIOUS
<1>2. \/ f = NoFlight
      \/ f \in Flights /\ f.phase = flight.phase /\ f.op = flight.op
  <2>1. \/ f = flight \/ f = NoFlight \/ f = [flight EXCEPT !.reported = TRUE]
    BY <1>1 DEF Report
  <2> QED  BY <2>1 DEF Flights
<1>3. \/ flight' = NoFlight \/ flight' = [f EXCEPT !.readers = @ \ {c}]
  BY <1>1 DEF Leave, DropReader
<1> QED  BY <1>2, <1>3 DEF QuietEntry, NoFlight, Begun, Flights

-----------------------------------------------------------------------------
(* Submits *)

LEMMA FaultsAreNotCli ==
    ASSUME Shape, NEW what \in {"commands", "crash", "restart", "fault"}, Spend(what)
    PROVE  spent'.cli = spent.cli
BY DEF Shape, Spend, Spending

(* A step in which the callback is answered. *)
LEMMA AnswerRelies ==
    ASSUME AInv, IInv', NEW c \in Slots, NEW STATE reply, Answer(c, reply),
           UNCHANGED <<cluster, helm>>, spent'.cli = spent.cli, QuietEntry
    PROVE  AInv'
BY AnsweredRelies, Quietly DEF AInv, IInv

LEMMA GiveUpRelies ==
    ASSUME AInv, IInv', NEW c \in Slots, NEW STATE reply, GiveUp(c, reply),
           UNCHANGED <<cluster, helm>>, spent'.cli = spent.cli
    PROVE  AInv'
<1>1. Answer(c, reply) /\ QuietEntry
  BY DEF GiveUp, QuietEntry, NoFlight, Begun
<1> QED  BY <1>1, AnswerRelies

LEMMA ReserveRelies ==
    ASSUME AInv, IInv', NEW c \in Slots, Reserve(c)  PROVE AInv'
<1>1. call \in [Slots -> Callbacks] /\ call[c] \in Callbacks
  BY DEF AInv, IInv, Shape
<1>2. Others(c) /\ call'[c].pc = "plan"
  BY <1>1 DEF Reserve, Others, Callbacks
<1>3. JudgedOK(c)'
  BY <1>2 DEF JudgedOK, Reader
<1>4. QuietEntry
  BY DEF Reserve, QuietEntry, NoFlight, Begun
<1> QED  BY <1>2, <1>3, <1>4, Quietly DEF Reserve

LEMMA ChooseRelies ==
    ASSUME AInv, IInv', NEW c \in Slots, NEW STATE op, op \in Ops, NEW STATE target,
           Choose(c, op, target), Suits(op, call[c].want), UNCHANGED <<cluster, helm, spent>>
    PROVE  AInv'
<1>1. call \in [Slots -> Callbacks] /\ call[c] \in Callbacks
  BY DEF AInv, IInv, Shape
<1>2. Others(c) /\ call'[c].pc = "activate" /\ call'[c].op = op /\ call'[c].want = call[c].want
  BY <1>1 DEF Choose, Others, Callbacks
<1>3. rec' = rec /\ QuietEntry
  BY DEF cluster, Choose, QuietEntry
<1>4. JudgedOK(c)'
  BY <1>2, <1>3 DEF JudgedOK, Reader, Suits
<1> QED  BY <1>2, <1>3, <1>4, Quietly

(* Reading a pending record of formae's that nobody works on. *)
LEMMA JudgesRelies ==
    ASSUME AInv, IInv', NEW c \in Slots, Owner(c), call[c].pc \in {"plan", "read"},
           rec.st = "pending",
           call' = [call EXCEPT ![c].pc = "judge", ![c].seen = rec],
           UNCHANGED <<cluster, helm, flight, spent>>
    PROVE  AInv'
<1>1. call \in [Slots -> Callbacks] /\ call[c] \in Callbacks /\ CallbackOK(c) /\ RecordOK
  BY DEF AInv, IInv, Shape, Ownership
<1>2. /\ Others(c) /\ call'[c].pc = "judge" /\ call'[c].seen = rec
      /\ call'[c].gen = call[c].gen /\ call'[c].req = call[c].req
  BY <1>1 DEF Others, Callbacks
<1>3. call[c].gen # call[c].req.gen
  BY <1>1 DEF CallbackOK, Owner, OwnerOK, SentOK, NoReq
<1>4. rec' = rec /\ rec.own
  BY <1>1 DEF cluster, RecordOK
<1>5. JudgedOK(c)'
  BY <1>2, <1>3, <1>4 DEF JudgedOK, Reader, Owner
<1> QED  BY <1>2, <1>5, Quietly DEF QuietEntry

LEMMA PlanRelies ==
    ASSUME AInv, IInv', NEW c \in Slots, Plan(c)  PROVE AInv'
<1>1. Shape /\ call[c].pc = "plan" /\ Owner(c) /\ RecordOK
      /\ UNCHANGED <<cluster, helm, spent>>
  BY DEF AInv, IInv, Plan, Owner
<1>2. ASSUME NEW reply, GiveUp(c, reply)  PROVE AInv'
  BY <1>1, <1>2, GiveUpRelies
<1>3. CASE rec.st = "none" /\ Choose(c, "install", 1)
  BY <1>1, <1>3, ChooseRelies DEF Suits, Ops
<1>4. CASE /\ rec.st \notin {"none", "pending"} /\ ~Settled(rec, call[c].want)
           /\ Choose(c, "upgrade", rec.rev + 1)
  BY <1>1, <1>4, ChooseRelies DEF Suits, Ops
<1>5. CASE /\ rec.st = "pending"
           /\ call' = [call EXCEPT ![c].pc = "judge", ![c].seen = rec]
           /\ UNCHANGED <<flight, host>>
  BY <1>1, <1>5, JudgesRelies
<1>6. ~(rec.st = "pending" /\ ~rec.own)
  BY <1>1 DEF RecordOK
<1> QED  BY <1>1, <1>2, <1>3, <1>4, <1>5, <1>6, PlanCases

LEMMA PlanDeleteRelies ==
    ASSUME AInv, IInv', NEW c \in Slots, PlanDelete(c)  PROVE AInv'
<1>1. CASE GiveUp(c, Reply("success"))
  BY <1>1, GiveUpRelies DEF PlanDelete
<1>2. CASE rec.st # "none" /\ Choose(c, "delete", rec.rev)
  BY <1>2, ChooseRelies DEF PlanDelete, Suits, Ops
<1> QED  BY <1>1, <1>2 DEF PlanDelete

LEMMA FailedPreparationRelies ==
    ASSUME AInv, IInv', NEW c \in Slots, PreparationFails(c)  PROVE AInv'
<1>1. spent'.cli = spent.cli
  BY FaultsAreNotCli DEF PreparationFails, AInv, IInv
<1> QED  BY <1>1, GiveUpRelies DEF PreparationFails

(* Submits that rejoin, or stop waiting for the record. *)
LEMMA AnsweredSubmitRelies ==
    ASSUME AInv, IInv', NEW c \in Slots,
           \/ Rejoin(c) \/ AwaitRecorded(c) \/ AwaitOutcome(c) \/ AwaitOverdue(c)
           \/ AwaitForgotten(c) \/ AwaitFails(c) \/ RefuseStatus(c) \/ StatusVerdict(c)
    PROVE  AInv'
<1>1. UNCHANGED <<cluster, helm>> /\ \E reply : Answer(c, reply)
  BY DEF Rejoin, AwaitRecorded, AwaitOutcome, AwaitOverdue, AwaitForgotten, AwaitFails,
         RefuseStatus, StatusVerdict
<1>2. PICK reply : Answer(c, reply)
  BY <1>1
<1>3. spent'.cli = spent.cli
  <2>1. Shape
    BY DEF AInv, IInv
  <2>2. UNCHANGED spent \/ Spend("fault")
    BY DEF Rejoin, AwaitRecorded, AwaitOutcome, AwaitOverdue, AwaitForgotten, AwaitFails,
           RefuseStatus, StatusVerdict
  <2> QED  BY <2>1, <2>2, FaultsAreNotCli
<1>4. QuietEntry
  <2>1. UNCHANGED flight \/ flight' = Report(flight)
    BY DEF Rejoin, AwaitRecorded, AwaitOutcome, AwaitOverdue, AwaitForgotten, AwaitFails,
           RefuseStatus, StatusVerdict
  <2>2. flight \in Flights
    BY DEF AInv, IInv, Shape
  <2> QED  BY <2>1, <2>2, QuietReport DEF QuietEntry
<1> QED  BY <1>1, <1>2, <1>3, <1>4, AnswerRelies

(* The worker begins with a record its operation was chosen for. *)
LEMMA ActivateRelies ==
    ASSUME AInv, IInv', NEW c \in Slots, Activate(c)  PROVE AInv'
<1>1. /\ IInv /\ Shape /\ helm \in [Actors -> Works] /\ call[c] \in Callbacks
      /\ call \in [Slots -> Callbacks] /\ flight \in Flights
      /\ NoCli /\ RecordOK /\ DeployedMeansDone /\ Owner(c)
      /\ \A d \in Slots : JudgedOK(d)
      /\ call[c].op \in Ops /\ (call[c].op = "delete") = (call[c].want = Nothing)
      /\ (call[c].op = "delete") = (call[c].kind = "delete")
  BY DEF AInv, IInv, Shape, Ownership, CallbackOK, SentOK, Activate, Owner
<1>2. UNCHANGED <<rec, live, hooksRan, spent>>
  BY DEF Activate, cluster
<1>3. /\ Worker'.op = call[c].op /\ Worker'.want = call[c].want /\ Worker'.step = "begin"
      /\ helm'["cli"] = helm["cli"]
  BY <1>1 DEF Activate, Worker, Actors, Idle
<1>4. flight'.op = call[c].op /\ flight'.phase = "running"
  BY <1>1 DEF Activate, Flights
<1>5. Suits(call[c].op, call[c].want)
  BY <1>1 DEF JudgedOK, Activate
<1>6. WorkerOK'
  BY <1>1, <1>2, <1>3, <1>4, <1>5 DEF WorkerOK, Suits
<1>7. RecordOK' /\ DeployedMeansDone' /\ NoCli'
  BY <1>1, <1>2, <1>3, <1>4 DEF RecordOK, DeployedMeansDone, InForce, NoCli
<1>8. Others(c)
  BY <1>1 DEF Activate, Answer, Others
<1>9. ASSUME NEW d \in Slots  PROVE ~Owner(d)' /\ (Reader(d)' => call'[d].backed)
  <2>1. ~Owner(d)'
    BY <1>4, NextReader
  <2>2. CASE d = c
    <3>1. call'[c].pc \in {"idle", "await"}
      BY <1>1 DEF Activate, Answer, NoCall, Callbacks
    <3> QED  BY <2>1, <2>2, <3>1 DEF Reader
  <2>3. CASE d # c
    <3>1. Reader(d)' => Reader(d)
      BY <1>8, <2>3 DEF Others, Reader
    <3>2. flight.phase = "preparing"
      BY <1>1, WhoHasIt
    <3> QED  BY <1>1, <2>1, <3>1, <3>2, WhoHasIt DEF Begun
  <2> QED  BY <2>2, <2>3
<1>10. ASSUME NEW d \in Slots, call'[d].pc = "await"  PROVE rec.st # "pending"
  <2>1. CASE d = c
    <3>1. CASE call[c].kind = "delete"
      BY <1>1, <1>10, <2>1, <3>1 DEF Activate, Answer, NoCall
    <3>2. CASE call[c].kind # "delete"
      BY <1>1, <1>5, <3>2 DEF Suits, Ops
    <3> QED  BY <3>1, <3>2
  <2>2. CASE d # c
    <3>1. call[d].pc = "await"
      BY <1>8, <1>10, <2>2 DEF Others
    <3>2. Worker.step = "none"
      BY <1>1, WhoHasIt DEF Idle
    <3> QED  BY <1>1, <3>1, <3>2 DEF JudgedOK
  <2> QED  BY <2>1, <2>2
<1>11. ASSUME NEW d \in Slots  PROVE JudgedOK(d)'
  <2>1. call'[d].pc \notin {"plan", "activate", "judge", "rewrite"}
    <3>1. call'[d].pc \in {"plan", "activate", "read", "judge", "rewrite"} =>
            Owner(d)' \/ Reader(d)'
      BY DEF Owner, Reader
    <3>2. CASE d = c
      <4>1. call'[c].pc \in {"idle", "await"}
        BY <1>1 DEF Activate, Answer, NoCall, Callbacks
      <4> QED  BY <3>2, <4>1
    <3>3. CASE d # c
      <4>1. call'[d] = call[d]
        BY <1>8, <3>3 DEF Others
      <4>2. call[d].pc \in {"judge", "rewrite"} => Owner(d)
        BY <1>1 DEF JudgedOK
      <4> QED  BY <1>1, <3>3, <4>1, <4>2, WhoHasIt
    <3> QED  BY <3>2, <3>3
  <2> QED  BY <1>2, <1>9, <1>10, <2>1 DEF JudgedOK
<1> QED  BY <1>6, <1>7, <1>11 DEF AInv

-----------------------------------------------------------------------------
(* Polls and recovery *)

LEMMA AcquireRelies ==
    ASSUME AInv, IInv', NEW c \in Slots, AcquireRecovery(c) \/ AcquireFlight(c)
    PROVE  AInv'
<1>1. /\ IInv /\ Shape /\ call[c] \in Callbacks /\ call \in [Slots -> Callbacks]
      /\ flight \in Flights
  BY DEF AInv, IInv, Shape
<1>2. Others(c) /\ call'[c].pc = "read" /\ call'[c].req = call[c].req
  BY <1>1 DEF AcquireRecovery, AcquireFlight, Others, Callbacks
<1>3. CASE AcquireRecovery(c)
  <2>1. QuietEntry
    BY <1>3 DEF AcquireRecovery, QuietEntry, NoFlight, Begun
  <2>2. ~Reader(c)'
    <3>1. flight'.phase = "preparing"
      BY <1>3 DEF AcquireRecovery, NoFlight
    <3> QED  BY <3>1, NextReader DEF Begun
  <2>3. JudgedOK(c)'
    BY <1>2, <2>2 DEF JudgedOK
  <2> QED  BY <1>2, <1>3, <2>1, <2>3, Quietly DEF AcquireRecovery
<1>4. CASE AcquireFlight(c)
  <2>1. QuietEntry /\ flight'.phase = flight.phase
    BY <1>1, <1>4 DEF AcquireFlight, QuietEntry, Flights
  <2>2. /\ flight.phase \in {"ok", "running"}
        /\ call'[c].backed = (flight.phase = "running")
    BY <1>1, <1>4 DEF AcquireFlight, Callbacks
  <2>3. JudgedOK(c)'
    BY <1>2, <2>1, <2>2 DEF JudgedOK
  <2> QED  BY <1>2, <1>4, <2>1, <2>3, Quietly DEF AcquireFlight
<1> QED  BY <1>3, <1>4

LEMMA ReadRecordRelies ==
    ASSUME AInv, IInv', NEW c \in Slots, ReadRecord(c)  PROVE AInv'
<1>1. /\ Shape /\ call[c] \in Callbacks /\ call \in [Slots -> Callbacks] /\ JudgedOK(c)
  BY DEF AInv, IInv, Shape
<1>2. PICK reply : call' = [call EXCEPT ![c].pc = "reconcile", ![c].got = reply,
                                        ![c].seen = rec]
  BY DEF ReadRecord
<1>3. /\ Others(c) /\ call'[c].pc = "reconcile" /\ call'[c].req = call[c].req
      /\ call'[c].gen = call[c].gen /\ call'[c].backed = call[c].backed
      /\ call[c].pc = "read" /\ flight' = flight
  BY <1>1, <1>2 DEF Others, Callbacks, ReadRecord
<1>4. JudgedOK(c)'
  BY <1>1, <1>3 DEF JudgedOK, Reader
<1> QED  BY <1>3, <1>4, Quietly DEF ReadRecord, QuietEntry

(* Nobody reads an operation of its own that is pending and unbacked.        *)
LEMMA ReadAbandonedRelies ==
    ASSUME AInv, IInv', NEW c \in Slots, ReadAbandoned(c)  PROVE AInv'
<1>1. IInv /\ JudgedOK(c) /\ RecordOK /\ call[c].pc = "read" /\ rec.st = "pending"
      /\ ~call[c].backed
  BY DEF AInv, ReadAbandoned, Unbacked, Pending
<1>2. ~Reader(c)
  BY <1>1 DEF JudgedOK, RecordOK
<1>3. Owner(c)
  BY <1>1, <1>2, WhoHasIt
<1> QED  BY <1>1, <1>3, JudgesRelies DEF ReadAbandoned

LEMMA LeaveRelies ==
    ASSUME AInv, IInv', NEW c \in Slots, Reconcile(c) \/ ReadFails(c)  PROVE AInv'
<1>1. Shape /\ flight \in Flights
  BY DEF AInv, IInv, Shape
<1>2. PICK reply : Leave(c, reply, flight) \/ Leave(c, reply, Report(flight))
  BY DEF Reconcile, ReadFails
<1>3. QuietEntry /\ Answer(c, reply)
  BY <1>1, <1>2, QuietLeave DEF Leave
<1>4. spent'.cli = spent.cli /\ UNCHANGED <<cluster, helm>>
  BY <1>1, FaultsAreNotCli DEF Reconcile, ReadFails
<1> QED  BY <1>3, <1>4, AnswerRelies

LEMMA JudgeRelies ==
    ASSUME AInv, IInv', NEW c \in Slots, Judge(c)  PROVE AInv'
<1>1. /\ Shape /\ call[c] \in Callbacks /\ call \in [Slots -> Callbacks] /\ JudgedOK(c)
      /\ call[c].pc = "judge" /\ call[c].seen \in Revisions
  BY DEF AInv, IInv, Shape, Judge, Callbacks
<1>2. PICK verdict \in {"deployed", "failed"} :
        /\ verdict = "deployed" => CanConfirm(call[c].seen)
        /\ call' = [call EXCEPT ![c].pc = "rewrite", ![c].seen.st = verdict]
  BY DEF Judge
<1>3. /\ Others(c) /\ call'[c].pc = "rewrite" /\ call'[c].req = call[c].req
      /\ call'[c].gen = call[c].gen /\ call'[c].seen.st = verdict
      /\ call'[c].seen.rev = call[c].seen.rev /\ call'[c].seen.own = call[c].seen.own
      /\ call'[c].seen.want = call[c].seen.want
  BY <1>1, <1>2 DEF Others, Callbacks, Revisions
<1>4. rec' = rec /\ live' = live
  BY DEF Judge, cluster
<1>5. JudgedOK(c)'
  BY <1>1, <1>2, <1>3, <1>4 DEF JudgedOK, Reader, Owner, CanConfirm
<1> QED  BY <1>3, <1>5, Quietly DEF Judge, QuietEntry

(* A recovery writes its verdict: it is true of the objects, and nobody else *)
(* relied on the record.                                                     *)
LEMMA VerdictRelies ==
    ASSUME AInv, IInv', NEW c \in Slots, call[c].pc = "rewrite", Stored(call[c].seen),
           UNCHANGED <<live, hooksRan, helm>>, spent'.cli = spent.cli,
           flight'.phase \notin Begun, Others(c),
           call'[c].pc \in {"idle", "plan", "read", "reconcile"}
    PROVE  AInv'
<1>1. /\ IInv /\ call[c] \in Callbacks /\ NoCli /\ RecordOK
      /\ \A d \in Slots : JudgedOK(d)
      /\ rec \in Revisions /\ call[c].seen \in Revisions
  BY DEF AInv, IInv, Shape, Callbacks
<1>2. /\ Owner(c) /\ rec.st = "pending" /\ rec.rev = call[c].seen.rev
      /\ rec.want = call[c].seen.want /\ call[c].seen.own
      /\ call[c].seen.st \in {"deployed", "failed"}
      /\ call[c].seen.st = "deployed" => CanConfirm(call[c].seen)
  BY <1>1 DEF JudgedOK
<1>3. /\ rec'.st = call[c].seen.st /\ rec'.rev = rec.rev /\ rec'.own
      /\ rec'.want = rec.want
  BY <1>1, <1>2, StoredType
<1>4. Worker = Idle /\ Worker' = Idle
  BY <1>1, <1>2, WhoHasIt DEF Worker
<1>5. WorkerOK' /\ RecordOK' /\ NoCli'
  BY <1>1, <1>2, <1>3, <1>4 DEF WorkerOK, RecordOK, NoCli, Idle, Begun
<1>6. DeployedMeansDone'
  BY <1>2, <1>3 DEF DeployedMeansDone, CanConfirm
<1>7. ASSUME NEW d \in Slots  PROVE JudgedOK(d)'
  <2>1. ~Reader(d)'
    BY NextReader
  <2>2. CASE d = c
    BY <2>1, <2>2 DEF JudgedOK
  <2>3. CASE d # c
    <3>1. call'[d] = call[d] /\ ~Owner(d)
      BY <1>1, <1>2, <2>3, WhoHasIt DEF Others
    <3>2. call[d].pc \notin {"activate", "judge", "rewrite"}
      BY <1>1, <3>1, WhoHasIt DEF JudgedOK
    <3> QED  BY <1>2, <1>3, <2>1, <3>1, <3>2 DEF JudgedOK
  <2> QED  BY <2>2, <2>3
<1> QED  BY <1>5, <1>6, <1>7 DEF AInv

LEMMA RewriteRelies ==
    ASSUME AInv, IInv', NEW c \in Slots, Rewrite(c)  PROVE AInv'
<1>1. /\ call[c].pc = "rewrite" /\ Stored(call[c].seen) /\ call \in [Slots -> Callbacks]
      /\ call[c] \in Callbacks
      /\ UNCHANGED <<live, hooksRan, helm, flight, spent>>
  BY DEF AInv, IInv, Shape, Rewrite
<1>2. Others(c)
  BY <1>1 DEF Others, Rewrite
<1>3. flight.phase = "preparing"
  BY <1>1, WhoHasIt DEF AInv, JudgedOK
<1>4. call'[c].pc \in {"plan", "read", "reconcile"}
  <2>1. CASE call[c].req = NoReq
    BY <1>1, <2>1 DEF Rewrite, Callbacks
  <2>2. CASE call[c].req # NoReq /\ call[c].seen.st = "deployed"
    BY <1>1, <2>2 DEF Rewrite, Callbacks
  <2>3. CASE call[c].req # NoReq /\ call[c].seen.st # "deployed"
    BY <1>1, <2>3 DEF Rewrite, Callbacks
  <2> QED  BY <2>1, <2>2, <2>3
<1> QED  BY <1>1, <1>2, <1>3, <1>4, VerdictRelies DEF Begun

(* A recovery gives up: the entry is the callback's own, and goes or stays.  *)
LEMMA UnrecoveredStep ==
    ASSUME AInv, IInv', NEW c \in Slots, call[c].pc = "rewrite", Unrecovered(c)
    PROVE  /\ Others(c) /\ call'[c].pc \in {"idle", "reconcile"}
           /\ flight'.phase \notin Begun /\ JudgedOK(c)'
<1>1. call \in [Slots -> Callbacks] /\ call[c] \in Callbacks /\ Owner(c) /\ IInv
  BY DEF AInv, IInv, Shape, JudgedOK
<1>2. flight.phase = "preparing"
  BY <1>1, WhoHasIt
<1>3. CASE call[c].req = NoReq
  <2>1. Answer(c, Reply("error")) /\ flight' \in {NoFlight, flight}
    BY <1>3 DEF Unrecovered, GiveUp
  <2>2. call'[c] = NoCall /\ Others(c)
    BY <1>1, <2>1 DEF Answer, Others
  <2> QED  BY <1>2, <2>1, <2>2, NextReader DEF JudgedOK, NoCall, NoFlight, Begun
<1>4. CASE call[c].req # NoReq
  <2>1. call'[c].pc = "reconcile" /\ Others(c) /\ flight' = flight
    BY <1>1, <1>4 DEF Unrecovered, Others, Callbacks
  <2> QED  BY <1>2, <2>1, NextReader DEF JudgedOK, Begun
<1> QED  BY <1>3, <1>4

(* The verdict may be on record all the same.                                *)
LEMMA RewriteErrsRelies ==
    ASSUME AInv, IInv', NEW c \in Slots, RewriteErrs(c)  PROVE AInv'
<1>1. call[c].pc = "rewrite" /\ Unrecovered(c) /\ UNCHANGED <<live, hooksRan, helm>>
  BY DEF RewriteErrs
<1>2. spent'.cli = spent.cli
  BY FaultsAreNotCli DEF RewriteErrs, AInv, IInv
<1>3. CASE UNCHANGED rec
  BY <1>1, <1>2, <1>3, UnrecoveredStep, Quietly DEF cluster, QuietEntry
<1>4. CASE Stored(call[c].seen)
  BY <1>1, <1>2, <1>4, UnrecoveredStep, VerdictRelies
<1> QED  BY <1>3, <1>4 DEF RewriteErrs

(* The revision a recovery read is still there when it writes. *)
LEMMA NoRewriteFails ==
    ASSUME AInv, NEW c \in Slots  PROVE ~RewriteFails(c)
<1>1. call[c].pc = "rewrite" =>
        rec.st = "pending" /\ rec.rev = call[c].seen.rev /\ rec.rev \in Nat
  BY DEF AInv, JudgedOK, IInv, Shape, Revisions
<1> QED  BY <1>1 DEF RewriteFails

-----------------------------------------------------------------------------
(* The agent, time and death *)

LEMMA AgentRelies ==
    ASSUME AInv, IInv',
           \/ \E kind \in Kinds, w \in Wants \cup {Nothing} : Command(kind, w)
           \/ AgentRestarts
           \/ RecordAges \/ DeadlinePasses \/ RetireFlight
    PROVE  AInv'
<1>1. Shape /\ flight \in Flights /\ rec \in Revisions
  BY DEF AInv, IInv, Shape
<1>2. CASE (\E kind \in Kinds, w \in Wants \cup {Nothing} : Command(kind, w)) \/ AgentRestarts
  <2>1. UNCHANGED <<cluster, helm, call, flight>> /\ spent'.cli = spent.cli
    BY <1>1, <1>2, FaultsAreNotCli DEF Command, AgentRestarts
  <2> QED  BY <2>1, Quietly, SlotIsNotZero DEF QuietEntry, Others
<1>3. CASE RecordAges
  <2>1. /\ rec'.st = rec.st /\ rec'.rev = rec.rev /\ rec'.own = rec.own
        /\ rec'.want = rec.want
    BY <1>1, <1>3 DEF RecordAges, Revisions
  <2>2. UNCHANGED <<live, hooksRan, helm, flight, call, spent>>
    BY <1>3 DEF RecordAges
  <2> QED  BY <2>1, <2>2 DEF AInv, NoCli, WorkerOK, RecordOK, DeployedMeansDone, InForce,
               JudgedOK, Worker, Applied, Suits, Settled, CanConfirm, Owner, Reader
<1>4. CASE DeadlinePasses
  <2>1. QuietEntry /\ UNCHANGED <<cluster, helm, call, spent>>
    BY <1>1, <1>4 DEF DeadlinePasses, QuietEntry, Flights
  <2> QED  BY <2>1, Quietly, SlotIsNotZero DEF Others
<1>5. CASE RetireFlight
  <2>1. QuietEntry /\ UNCHANGED <<cluster, helm, call, spent>>
    BY <1>1, <1>5, QuietReport DEF RetireFlight
  <2> QED  BY <2>1, Quietly, SlotIsNotZero DEF Others
<1> QED  BY <1>2, <1>3, <1>4, <1>5

LEMMA SendRelies == ASSUME AInv, IInv', NEW c \in Slots, Send(c)  PROVE AInv'
<1>1. call \in [Slots -> Callbacks] /\ host.stage \in {"submit", "poll"}
  BY DEF AInv, IInv, Shape, Send
<1>2. Others(c) /\ call'[c].pc = host.stage
  BY <1>1 DEF Send, Others, NoCall
<1>3. JudgedOK(c)'
  BY <1>1, <1>2 DEF JudgedOK, Reader
<1> QED  BY <1>2, <1>3, Quietly DEF Send, QuietEntry

(* What is written stays true when nobody is left to rely on it. *)
LEMMA CrashRelies == ASSUME AInv, IInv', PluginCrashes  PROVE AInv'
<1>1. /\ Shape /\ helm \in [Actors -> Works] /\ NoCli /\ RecordOK /\ DeployedMeansDone
  BY DEF AInv, IInv, Shape
<1>2. UNCHANGED <<rec, live, hooksRan>> /\ flight'.phase = "none"
  BY DEF PluginCrashes, cluster, NoFlight
<1>3. Worker'.step = "none" /\ helm'["cli"] = helm["cli"]
  BY <1>1 DEF PluginCrashes, Worker, Actors, Idle
<1>4. spent'.cli = spent.cli
  BY <1>1, FaultsAreNotCli DEF PluginCrashes
<1>5. \A c \in Slots : call'[c].pc = "idle"
  BY DEF PluginCrashes, NoCall
<1>6. WorkerOK' /\ NoCli' /\ RecordOK' /\ DeployedMeansDone'
  BY <1>1, <1>2, <1>3, <1>4 DEF WorkerOK, NoCli, RecordOK, DeployedMeansDone, InForce
<1>7. \A c \in Slots : JudgedOK(c)'
  BY <1>5 DEF JudgedOK, Reader
<1> QED  BY <1>6, <1>7 DEF AInv

-----------------------------------------------------------------------------
(* The worker *)

(* While the worker works nobody decides anything: a step of its that keeps  *)
(* the record's word keeps every callback's.                                 *)
LEMMA WorkerRelies ==
    ASSUME AInv, IInv', Worker.step # "none",
           NEW h, helm' = [helm EXCEPT !["plugin"] = h],
           UNCHANGED <<call, spent>>, WorkerOK', RecordOK', DeployedMeansDone',
           \/ rec'.st # "pending"
           \/ h.step \in {"apply", "record"}
           \/ rec'.st = rec.st /\ Worker.step \notin {"apply", "record"}
    PROVE  AInv'
<1>1. /\ IInv /\ NoCli /\ helm \in [Actors -> Works] /\ flight.phase = "running"
      /\ \A c \in Slots : JudgedOK(c)
  BY WorkerPhase DEF AInv, IInv, Shape
<1>2. NoCli'
  BY <1>1 DEF NoCli, Actors
<1>3. Worker' = h
  BY <1>1 DEF Worker, Actors
<1>4. ASSUME NEW c \in Slots  PROVE JudgedOK(c)'
  <2>1. call'[c] = call[c] /\ JudgedOK(c) /\ ~Owner(c) /\ ~Owner(c)'
    BY <1>1, WhoHasIt DEF Owner
  <2>2. (Reader(c)' => Reader(c)) /\ (Reader(c) => call[c].backed)
    BY <1>1, <2>1 DEF Reader, JudgedOK
  <2>3. call[c].pc \notin {"activate", "judge", "rewrite"}
    BY <2>1 DEF JudgedOK, Owner
  <2>4. call[c].pc = "await" =>
          rec.st # "pending" \/ Worker.step \in {"apply", "record"}
    BY <2>1 DEF JudgedOK
  <2> QED  BY <1>3, <2>1, <2>2, <2>3, <2>4 DEF JudgedOK
<1> QED  BY <1>2, <1>4 DEF AInv

(* What each kind of worker has recorded, or is about to. *)
LEMMA WorkerFacts ==
    ASSUME AInv, Worker.step # "none"
    PROVE  /\ Worker.op \in Ops /\ Worker.op = flight.op
           /\ (Worker.op = "delete") = (Worker.want = Nothing)
           /\ Worker.want \in Wants \cup {Nothing} /\ Worker.rev \in Nat
           /\ flight \in Flights /\ flight.phase = "running"
           /\ rec \in Revisions /\ live \in [Objs -> Wants \cup {Nothing}]
           /\ helm \in [Actors -> Works] /\ Worker \in Works
           /\ WorkerOK /\ RecordOK /\ DeployedMeansDone
<1>1. flight.phase = "running" /\ flight # NoFlight
  BY WorkerPhase DEF AInv, NoFlight
<1>2. flight.op \in Ops
  BY <1>1 DEF AInv, IInv, Ownership, FlightOK
<1> QED  BY <1>1, <1>2, WorkerPhase DEF AInv, IInv, Shape, WorkerOK, Works

LEMMA RecordsRelies ==
    ASSUME AInv, IInv', HelmRecords("plugin")  PROVE AInv'
<1>1. Worker.step = "begin" /\ "plugin" \in Actors
  BY DEF HelmRecords, Worker, Actors
<1>2. /\ Worker.op \in Ops /\ Worker.op = flight.op /\ Worker.want \in Wants \cup {Nothing}
      /\ (Worker.op = "delete") = (Worker.want = Nothing) /\ Worker \in Works
      /\ rec \in Revisions /\ helm \in [Actors -> Works] /\ flight.phase = "running"
      /\ WorkerOK /\ RecordOK /\ DeployedMeansDone /\ Suits(Worker.op, Worker.want)
  BY <1>1, WorkerFacts DEF WorkerOK
<1>3. rec' = Recorded("plugin")
  BY DEF HelmRecords, Recorded
<1> DEFINE h == [Worker EXCEPT !.step = "apply", !.left = Objs, !.rev = rec'.rev]
<1>4. helm' = [helm EXCEPT !["plugin"] = h]
  <2>1. helm' = [helm EXCEPT !["plugin"].step = "apply", !["plugin"].left = Objs,
                             !["plugin"].rev = rec'.rev]
    BY DEF HelmRecords
  <2> QED  BY <1>1, <1>2, <2>1 DEF Worker
<1>5. /\ h.step = "apply" /\ h.left = Objs /\ h.rev = rec'.rev
      /\ h.op = Worker.op /\ h.want = Worker.want
  BY <1>2 DEF Works
<1>6. /\ rec'.st = IF Worker.op = "delete" THEN "uninstalling" ELSE "pending"
      /\ Worker.op # "delete" => rec'.want = Worker.want
      /\ rec'.own /\ rec'.want \in Wants
  <2>1. CASE Worker.op = "install"
    BY <1>2, <1>3, <2>1 DEF Recorded, Worker
  <2>2. CASE Worker.op = "upgrade"
    BY <1>2, <1>3, <2>2 DEF Recorded, Worker
  <2>3. CASE Worker.op = "delete"
    BY <1>2, <1>3, <2>3 DEF Recorded, Worker, RecordOK, Revisions, Suits
  <2> QED  BY <1>2, <2>1, <2>2, <2>3 DEF Ops
<1> HIDE DEF h
<1>7. Worker' = h /\ UNCHANGED <<live, flight, call, spent>>
  BY <1>1, <1>2, <1>4 DEF Worker, HelmRecords
<1>8. WorkerOK'
  BY <1>2, <1>5, <1>6, <1>7 DEF WorkerOK
<1>9. RecordOK' /\ DeployedMeansDone'
  BY <1>2, <1>6, <1>7 DEF RecordOK, DeployedMeansDone
<1> QED  BY <1>1, <1>4, <1>5, <1>7, <1>8, <1>9, WorkerRelies

(* A failed operation leaves its record failed, or half uninstalled; one     *)
(* that Helm refuses leaves the record as it was.                            *)
LEMMA WorkerStops ==
    ASSUME AInv, IInv', Worker.step # "none",
           HelmRefuses("plugin") \/ HelmReturns("plugin") \/ HelmFails("plugin")
    PROVE  AInv'
<1>1. "plugin" \in Actors
  BY DEF Actors
<1>2. /\ Worker.op \in Ops /\ Worker.op = flight.op
      /\ flight \in Flights /\ flight.phase = "running" /\ rec \in Revisions
      /\ helm \in [Actors -> Works] /\ WorkerOK /\ RecordOK /\ DeployedMeansDone
  BY WorkerFacts
<1>3. PICK phase \in {"ok", "err"} :
        /\ Ends("plugin", phase)
        /\ phase = "ok" => Worker.step = "return" /\ rec' = rec
  BY DEF HelmRefuses, HelmReturns, HelmFails, Worker, cluster
<1>4. /\ helm' = [helm EXCEPT !["plugin"] = Idle] /\ Worker' = Idle
      /\ flight'.phase = phase /\ flight'.op = flight.op
  BY <1>1, <1>2, <1>3 DEF Ends, Worker, Flights
<1>5. UNCHANGED <<live, hooksRan, call, spent>>
  BY DEF HelmRefuses, HelmReturns, HelmFails, cluster
<1>6. \/ rec' = rec /\ Worker.step \notin {"apply", "record"}
      \/ rec' = rec /\ rec.st = "uninstalling"
      \/ rec.st # "none" /\ rec' = [rec EXCEPT !.st = "failed"]
  <2>1. CASE HelmRefuses("plugin") \/ HelmReturns("plugin")
    BY <2>1 DEF HelmRefuses, HelmReturns, cluster, Worker
  <2>2. CASE HelmFails("plugin")
    <3>1. Worker.step \in {"begin", "apply", "record"}
      BY <1>1, <1>2, <2>2 DEF HelmFails, Worker, Works
    <3>2. CASE Worker.step = "begin"
      BY <2>2, <3>2 DEF HelmFails, Worker
    <3>3. CASE Worker.step # "begin" /\ Worker.op = "delete"
      BY <1>2, <2>2, <3>1, <3>3 DEF HelmFails, Worker, WorkerOK
    <3>4. CASE Worker.step # "begin" /\ Worker.op # "delete"
      <4>1. rec.st = "pending" /\ rec.rev = Worker.rev
        BY <1>2, <3>1, <3>4 DEF WorkerOK
      <4> QED  BY <2>2, <3>4, <4>1 DEF HelmFails, Worker
    <3> QED  BY <3>2, <3>3, <3>4
  <2> QED  BY <2>1, <2>2
<1>7. /\ \/ rec' = rec
         \/ /\ rec'.st = "failed" /\ rec.st # "none" /\ rec'.own = rec.own
            /\ rec'.want = rec.want
      /\ \/ rec'.st # "pending"
         \/ rec'.st = rec.st /\ Worker.step \notin {"apply", "record"}
  <2>1. CASE rec' = rec
    BY <1>2, <1>6, <2>1 DEF Revisions
  <2>2. CASE rec.st # "none" /\ rec' = [rec EXCEPT !.st = "failed"]
    BY <1>2, <2>2 DEF Revisions
  <2> QED  BY <1>6, <2>1, <2>2
<1>8. WorkerOK'
  BY <1>4 DEF WorkerOK, Idle
<1>9. RecordOK'
  <2>1. phase = "ok" =>
          rec'.st = IF flight.op = "delete" THEN "none" ELSE "deployed"
    BY <1>2, <1>3 DEF WorkerOK
  <2> QED  BY <1>2, <1>4, <1>5, <1>7, <2>1 DEF RecordOK
<1>10. DeployedMeansDone'
  BY <1>2, <1>5, <1>7 DEF DeployedMeansDone, InForce
<1> QED  BY <1>4, <1>5, <1>7, <1>8, <1>9, <1>10, WorkerRelies

LEMMA AppliesRelies ==
    ASSUME AInv, IInv', NEW o \in Objs, HelmApplies("plugin", o)  PROVE AInv'
<1>1. Worker.step = "apply" /\ o \in Worker.left /\ "plugin" \in Actors
  BY DEF HelmApplies, Worker, Actors
<1>2. /\ Worker.op \in Ops /\ Worker.op = flight.op /\ Worker \in Works
      /\ (Worker.op = "delete") = (Worker.want = Nothing)
      /\ live \in [Objs -> Wants \cup {Nothing}] /\ flight.phase = "running"
      /\ helm \in [Actors -> Works] /\ WorkerOK /\ RecordOK
      /\ rec.st \in {"pending", "uninstalling"}
  BY <1>1, WorkerFacts DEF WorkerOK
<1> DEFINE h == [Worker EXCEPT !.left = @ \ {o}]
           v == IF Worker.op = "delete" THEN Nothing ELSE Worker.want
<1>3. helm' = [helm EXCEPT !["plugin"] = h] /\ live' = [live EXCEPT ![o] = v]
  BY <1>1, <1>2 DEF HelmApplies, Worker
<1>4. /\ h.step = "apply" /\ h.left = Worker.left \ {o}
      /\ h.op = Worker.op /\ h.want = Worker.want /\ h.rev = Worker.rev
  BY <1>1, <1>2 DEF Works
<1> HIDE DEF h, v
<1>5. live'[o] = v /\ \A p \in Objs \ {o} : live'[p] = live[p]
  BY <1>2, <1>3
<1>6. Worker' = h /\ UNCHANGED <<rec, hooksRan, flight, call, spent>>
  BY <1>1, <1>2, <1>3 DEF Worker, HelmApplies
<1>7. \A p \in Objs \ h.left : Applied(p)'
  BY <1>1, <1>2, <1>4, <1>5, <1>6 DEF Applied, WorkerOK, v
<1>8. WorkerOK'
  BY <1>1, <1>2, <1>4, <1>6, <1>7 DEF WorkerOK
<1>9. RecordOK' /\ DeployedMeansDone'
  BY <1>2, <1>6 DEF RecordOK, DeployedMeansDone
<1> QED  BY <1>1, <1>3, <1>4, <1>6, <1>8, <1>9, WorkerRelies

LEMMA HooksRelies ==
    ASSUME AInv, IInv', HelmRunsHooks("plugin")  PROVE AInv'
<1>1. Worker.step = "apply" /\ Worker.left = {} /\ "plugin" \in Actors
  BY DEF HelmRunsHooks, Worker, Actors
<1>2. /\ Worker.op = flight.op /\ Worker \in Works /\ flight.phase = "running"
      /\ (Worker.op = "delete") = (Worker.want = Nothing)
      /\ helm \in [Actors -> Works] /\ WorkerOK /\ RecordOK
      /\ rec.st \in {"pending", "uninstalling"}
      /\ \A p \in Objs : Applied(p)
  BY <1>1, WorkerFacts DEF WorkerOK
<1> DEFINE h == [Worker EXCEPT !.step = "record"]
<1>3. helm' = [helm EXCEPT !["plugin"] = h]
  BY <1>1, <1>2 DEF HelmRunsHooks, Worker
<1>4. /\ h.step = "record" /\ h.op = Worker.op /\ h.want = Worker.want /\ h.rev = Worker.rev
  BY <1>1, <1>2 DEF Works
<1> HIDE DEF h
<1>5. Worker' = h /\ UNCHANGED <<rec, live, flight, call, spent>>
  BY <1>1, <1>2, <1>3 DEF Worker, HelmRunsHooks
<1>6. Worker.op # "delete" /\ Worker.want \in Hooked => hooksRan' = Worker.rev
  BY DEF HelmRunsHooks, Worker
<1>7. WorkerOK'
  BY <1>1, <1>2, <1>4, <1>5, <1>6 DEF WorkerOK, Applied
<1>8. RecordOK' /\ DeployedMeansDone'
  BY <1>2, <1>5 DEF RecordOK, DeployedMeansDone
<1> QED  BY <1>1, <1>3, <1>4, <1>5, <1>7, <1>8, WorkerRelies

(* Helm writes "deployed", or removes the record, with everything done.      *)
LEMMA FinishesRelies ==
    ASSUME AInv, IInv', HelmFinishes("plugin")  PROVE AInv'
<1>1. Worker.step = "record" /\ "plugin" \in Actors
  BY DEF HelmFinishes, Worker, Actors
<1>2. /\ Worker.op \in Ops /\ Worker.op = flight.op /\ Worker \in Works
      /\ (Worker.op = "delete") = (Worker.want = Nothing)
      /\ Worker.want \in Wants \cup {Nothing} /\ Worker.rev \in Nat
      /\ rec \in Revisions /\ flight.phase = "running"
      /\ helm \in [Actors -> Works] /\ WorkerOK /\ RecordOK
      /\ Worker.op = "delete" => rec.st = "uninstalling"
      /\ Worker.op # "delete" =>
           rec.st = "pending" /\ rec.rev = Worker.rev /\ rec.want = Worker.want
      /\ \A p \in Objs : Applied(p)
      /\ Worker.op # "delete" /\ Worker.want \in Hooked => hooksRan = Worker.rev
  BY <1>1, WorkerFacts DEF WorkerOK
<1> DEFINE h == [Worker EXCEPT !.step = "return"]
           r == [rec EXCEPT !.rev = Worker.rev, !.st = "deployed", !.want = Worker.want]
<1>3. /\ helm' = [helm EXCEPT !["plugin"] = h] /\ UNCHANGED flight
      /\ Worker.op = "delete" => rec' = NoRec
      /\ Worker.op # "delete" => Stored(r)
  BY <1>1, <1>2 DEF HelmFinishes, Worker
<1>4. /\ h.step = "return" /\ h.op = Worker.op /\ h.want = Worker.want /\ h.rev = Worker.rev
  BY <1>1, <1>2 DEF Works
<1>5. /\ r \in Revisions /\ r.st = "deployed" /\ r.rev = Worker.rev /\ r.own = rec.own
      /\ r.want = Worker.want
  BY <1>2 DEF Revisions, Statuses
<1> HIDE DEF h, r
<1>6. Worker' = h /\ UNCHANGED <<live, hooksRan, call, spent>>
  BY <1>1, <1>2, <1>3 DEF Worker, HelmFinishes
<1>7. Worker.op # "delete" =>
        /\ rec'.st = "deployed" /\ rec'.rev = Worker.rev /\ rec'.own = rec.own
        /\ rec'.want = Worker.want
  BY <1>2, <1>3, <1>5, StoredType
<1>8. Worker.op = "delete" => rec'.st = "none" /\ rec'.rev = 0 /\ rec'.want = Nothing
  BY <1>3 DEF NoRec
<1>9. WorkerOK'
  BY <1>2, <1>3, <1>4, <1>6, <1>7, <1>8 DEF WorkerOK
<1>10. RecordOK'
  BY <1>2, <1>3, <1>6, <1>7, <1>8 DEF RecordOK, Applied
<1>11. DeployedMeansDone'
  <2>1. Worker.op # "delete" => /\ \A p \in Objs : live[p] = Worker.want
                                /\ rec.own /\ Worker.want # Nothing
    BY <1>2 DEF Applied, RecordOK
  <2>2. CASE Worker.op = "delete"
    BY <1>8, <2>2 DEF DeployedMeansDone
  <2>3. CASE Worker.op # "delete"
    <3>1. \A p \in Objs : live'[p] = rec'.want /\ live'[p] # Nothing
      BY <1>6, <1>7, <2>1, <2>3
    <3>2. rec'.want \in Hooked => hooksRan' = rec'.rev
      BY <1>2, <1>6, <1>7, <2>3
    <3> QED  BY <1>7, <2>1, <2>3, <3>1, <3>2 DEF DeployedMeansDone, InForce
  <2> QED  BY <2>2, <2>3
<1>12. rec'.st # "pending"
  BY <1>7, <1>8
<1> QED  BY <1>1, <1>3, <1>4, <1>6, <1>9, <1>10, <1>11, <1>12, WorkerRelies

(* No step is the CLI's. *)
LEMMA NobodyElse ==
    ASSUME MaxCli = 0, AInv
    PROVE  /\ ~ \/ HelmRecords("cli") \/ HelmRefuses("cli") \/ HelmRunsHooks("cli")
                \/ HelmFinishes("cli") \/ HelmReturns("cli") \/ HelmFails("cli")
                \/ \E o \in Objs : HelmApplies("cli", o)
           /\ \A op \in Ops, w \in Wants \cup {Nothing} : ~CliStarts(op, w)
<1>1. helm["cli"].step = "none" /\ spent.cli = 0
  BY DEF AInv, NoCli, Idle
<1> QED  BY <1>1 DEF HelmRecords, HelmRefuses, HelmRunsHooks, HelmFinishes, HelmReturns,
                     HelmFails, HelmApplies, CliStarts

-----------------------------------------------------------------------------
(* What holds while no other tool changes the release *)

LEMMA StartRelies == Init => AInv
<1> SUFFICES ASSUME Init  PROVE AInv
  OBVIOUS
<1>1. IInv
  BY InitOK
<1>2. helm = [a \in Actors |-> Idle] /\ Worker = Idle /\ helm["cli"] = Idle
  BY DEF Init, Worker, Actors
<1>3. NoCli /\ WorkerOK
  BY <1>2 DEF NoCli, WorkerOK, Idle, Init
<1>4. RecordOK /\ DeployedMeansDone
  BY DEF Init, RecordOK, DeployedMeansDone, NoRec, NoFlight
<1>5. \A c \in Slots : JudgedOK(c)
  BY DEF Init, JudgedOK, NoCall, Reader
<1> QED  BY <1>1, <1>3, <1>4, <1>5 DEF AInv

LEMMA StepRelies == ASSUME MaxCli = 0, AInv, [Next]_vars  PROVE AInv'
<1>1. IInv'
  BY StepOK DEF AInv
<1>2. ASSUME NEW c \in Slots,
             \/ Send(c)
             \/ Reserve(c) \/ Rejoin(c) \/ Plan(c) \/ PlanDelete(c) \/ Activate(c)
             \/ AwaitRecorded(c) \/ AwaitOutcome(c) \/ AwaitOverdue(c)
             \/ AwaitForgotten(c)
             \/ AcquireRecovery(c) \/ RefuseStatus(c) \/ StatusVerdict(c)
             \/ AcquireFlight(c) \/ ReadRecord(c) \/ ReadAbandoned(c) \/ Reconcile(c)
             \/ Judge(c) \/ Rewrite(c) \/ RewriteFails(c)
             \/ PreparationFails(c) \/ AwaitFails(c) \/ ReadFails(c) \/ RewriteErrs(c)
      PROVE  AInv'
  BY <1>1, <1>2, SendRelies, ReserveRelies, PlanRelies, PlanDeleteRelies, ActivateRelies,
     AnsweredSubmitRelies, AcquireRelies, ReadRecordRelies, ReadAbandonedRelies, LeaveRelies,
     JudgeRelies, RewriteRelies, NoRewriteFails, RewriteErrsRelies, FailedPreparationRelies
<1>3. ASSUME \/ HelmRecords("plugin") \/ HelmRefuses("plugin") \/ HelmRunsHooks("plugin")
             \/ HelmFinishes("plugin") \/ HelmReturns("plugin") \/ HelmFails("plugin")
             \/ \E o \in Objs : HelmApplies("plugin", o)
      PROVE  AInv'
  <2>1. Worker.step # "none"
    BY <1>3 DEF HelmRecords, HelmRefuses, HelmRunsHooks, HelmFinishes, HelmReturns,
                HelmFails, HelmApplies, Worker
  <2> QED  BY <1>1, <1>3, <2>1, RecordsRelies, WorkerStops, HooksRelies, FinishesRelies,
              AppliesRelies
<1>4. ASSUME NEW a \in Actors,
             \/ HelmRecords(a) \/ HelmRefuses(a) \/ HelmRunsHooks(a)
             \/ HelmFinishes(a) \/ HelmReturns(a) \/ HelmFails(a)
             \/ \E o \in Objs : HelmApplies(a, o)
      PROVE  AInv'
  <2>1. CASE a = "plugin"
    BY <1>3, <1>4, <2>1
  <2>2. CASE a = "cli"
    BY <1>4, <2>2, NobodyElse
  <2> QED  BY <2>1, <2>2 DEF Actors
<1>5. CASE UNCHANGED vars
  <2>1. UNCHANGED <<cluster, helm, call, flight, spent>>
    BY <1>5 DEF vars, cluster
  <2> QED  BY <1>1, <2>1, SlotIsNotZero, Quietly DEF Others, QuietEntry
<1> QED  BY <1>1, <1>2, <1>4, <1>5, NextCases, NobodyElse, AgentRelies, CrashRelies

(* The record, what the worker has done of it and what every callback        *)
(* remembers of it agree, through crashes, restarts and faults.              *)
THEOREM RecordIsTrusted == ASSUME MaxCli = 0  PROVE Spec => []AInv
<1>1. Init => AInv
  BY StartRelies
<1>2. AInv /\ [Next]_vars => AInv'
  BY StepRelies
<1> QED  BY <1>1, <1>2, PTL DEF Spec

(* DeployedMeansDone: Helm's last write, and a recovery's verdict, record as *)
(* deployed only what was applied, and as hooked only what has run its hooks.*)
THEOREM DeployedIsDone == ASSUME MaxCli = 0  PROVE Spec => []DeployedMeansDone
<1>1. AInv => DeployedMeansDone
  BY DEF AInv
<1> QED  BY <1>1, RecordIsTrusted, PTL

(* RecoveryIsAlone: from reading an abandoned record to writing it back the  *)
(* recovering callback has the release to itself, whether it is a submit or  *)
(* a poll, and however often the plugin was killed before.                   *)
THEOREM RecoveriesAreAlone == ASSUME MaxCli = 0  PROVE Spec => []RecoveryIsAlone
<1>1. ASSUME AInv  PROVE RecoveryIsAlone
  <2>1. IInv /\ call \in [Slots -> Callbacks] /\ \A c \in Slots : JudgedOK(c)
    BY <1>1 DEF AInv, IInv, Shape
  <2>2. ASSUME NEW c \in Slots, call[c].pc \in {"judge", "rewrite"}
        PROVE  /\ Worker = Idle /\ rec.st = "pending"
               /\ rec.rev = call[c].seen.rev /\ rec.want = call[c].seen.want
               /\ \A d \in Slots \ {c} : call[d].pc \in {"idle", "submit", "poll"}
    <3>1. /\ Owner(c) /\ rec.st = "pending" /\ rec.rev = call[c].seen.rev
          /\ rec.want = call[c].seen.want
      BY <2>1, <2>2 DEF JudgedOK
    <3>2. flight.phase = "preparing" /\ Worker = Idle /\ Worker.step = "none"
      BY <2>1, <3>1, WhoHasIt DEF Idle
    <3>3. ASSUME NEW d \in Slots \ {c}  PROVE call[d].pc \in {"idle", "submit", "poll"}
      <4>1. ~Owner(d) /\ ~Reader(d)
        BY <2>1, <3>1, <3>2, WhoHasIt DEF Begun
      <4>2. call[d].pc # "await"
        BY <2>1, <3>1, <3>2 DEF JudgedOK
      <4>3. call[d].pc \in Stages
        BY <2>1 DEF Callbacks
      <4> QED  BY <2>1, <4>1, <4>2, <4>3, WhoHasIt DEF Stages
    <3> QED  BY <3>1, <3>2, <3>3
  <2> QED  BY <2>2 DEF RecoveryIsAlone, Worker
<1> QED  BY <1>1, RecordIsTrusted, PTL

(* NoRepeatedWork: when the upgrade takes Helm's lock the record still does  *)
(* not say that the release is already at the state wanted.                  *)
THEOREM WorkIsNotRepeated == ASSUME MaxCli = 0  PROVE Spec => NoRepeatedWork
<1> DEFINE A == HelmRecords("plugin") /\ helm["plugin"].op = "upgrade" =>
                  ~Settled(rec, helm["plugin"].want)
<1>1. AInv /\ [Next]_vars => [A]_vars
  BY DEF AInv, WorkerOK, Suits, HelmRecords, Worker
<1> QED  BY <1>1, RecordIsTrusted, PTL DEF Spec, NoRepeatedWork

=============================================================================
