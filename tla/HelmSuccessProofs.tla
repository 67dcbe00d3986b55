-------------------------- MODULE HelmSuccessProofs --------------------------
(***************************************************************************)
(* What the agent may conclude from a success: when no other tool changes  *)
(* the release, and beside one operation of another tool.                  *)
(***************************************************************************)
EXTENDS HelmRecoveryProofs

(* The entry of an operation that has begun names the revision its worker    *)
(* writes, and no other revision of the release has that number.             *)
EntryOK ==
    flight.phase \in Begun =>
      /\ (flight.kind = "delete") = (flight.op = "delete")
      /\ Worker.step # "none" => Worker.want = flight.want
      /\ flight.op # "delete" =>
           /\ flight.rev # 0
           /\ rec.rev = flight.rev => rec.want = flight.want
           /\ Worker.step = "begin" =>
                flight.rev = IF flight.op = "install" THEN 1 ELSE rec.rev + 1
           /\ Worker.step \in {"apply", "record", "return"} => Worker.rev = flight.rev
           /\ flight.phase = "ok" => rec.rev = flight.rev

(* What a submit chose, what a poll reads, and what the poll makes of it.    *)
ChosenOK(c) ==
    /\ \/ call[c].pc \in {"plan", "activate"}
       \/ call[c].pc \in {"judge", "rewrite"} /\ call[c].req = NoReq
       => flight.kind = call[c].kind /\ flight.want = call[c].want
    /\ call[c].pc = "activate" =>
         /\ call[c].op = "install" => call[c].rev = 1
         /\ call[c].op = "upgrade" => call[c].rev = rec.rev + 1
    /\ call[c].pc = "await" =>
         /\ call[c].kind # "delete"
         /\ flight.gen = call[c].gen =>
              flight.want = call[c].want /\ flight.kind = call[c].kind
    /\ Reader(c) => flight.op = call[c].req.op
    /\ call[c].pc = "reconcile" /\ Owner(c) /\ call[c].got.kind = "success" =>
         IF call[c].req.op = "delete" THEN rec.st = "none"
         ELSE rec.st = "deployed" /\ rec.rev = call[c].req.rev

(* The callback that the agent waits for was sent what the agent now drives. *)
AskedOK ==
    /\ host.slot # 0 => /\ call[host.slot].pc # "idle"
                        /\ call[host.slot].kind = host.kind
                        /\ call[host.slot].want = host.want
                        /\ call[host.slot].req = host.req
    /\ host.stage = "poll" => (host.req.op = "delete") = (host.kind = "delete")

BInv == AInv /\ EntryOK /\ AskedOK /\ \A c \in Slots : ChosenOK(c)

-----------------------------------------------------------------------------
(* An agent that never restarts waits for every callback there is *)

Alone == \A c \in Slots : call[c].pc # "idle" => host.slot = c

(* A submit that waits for the record finds its own entry. *)
Present == \A c \in Slots : call[c].pc = "await" => flight.gen = call[c].gen

(* The identifier names a revision of the state wanted: the entry's while    *)
(* there is one, the record's afterwards.                                    *)
Names(req, kind, want) ==
    /\ flight.phase \in Begun =>
         /\ flight.gen = req.gen /\ (flight.op = "delete") = (kind = "delete")
         /\ kind # "delete" => flight.rev = req.rev /\ flight.want = want
    /\ flight.phase \notin Begun /\ kind # "delete" =>
         (rec.rev = req.rev => rec.want = want)

PollOK == host.stage = "poll" => Names(host.req, host.kind, host.want)

(* Every chart has hooks, so that recovery never confirms, or nothing is     *)
(* ever left to recover.                                                     *)
NeverConfirmed == Wants \subseteq Hooked \/ MaxCrash = 0

ForceOK == /\ rec.st = "deployed" => InForce(rec.want)
           /\ rec.st = "pending" => \/ Worker.step \in {"apply", "record"}
                                    \/ Wants \subseteq Hooked

LInv == BInv /\ Alone /\ Present /\ PollOK /\ ForceOK

-----------------------------------------------------------------------------
(* Steps of callbacks that leave the release and Helm alone *)

LEMMA AnswerHost ==
    ASSUME Shape, NEW c \in Slots, NEW STATE reply, Answer(c, reply)
    PROVE  /\ call'[c] = NoCall /\ Others(c)
           /\ host.slot # c => host' = host
           /\ host.slot = c =>
                /\ host'.slot = 0 /\ host'.told = reply.kind
                /\ host'.kind = host.kind /\ host'.want = host.want
                /\ host'.req = IF reply.kind = "progress" THEN reply.req ELSE NoReq
                /\ host'.stage = "poll" <=> reply.kind = "progress"
<1>1. call'[c] = NoCall /\ Others(c) /\ host \in Agents
  BY DEF Answer, Others, Shape
<1>2. CASE host.slot # c
  BY <1>1, <1>2 DEF Answer
<1>3. CASE host.slot = c
  <2> DEFINE m == CASE reply.kind = "success" -> host.kind # "delete"
                    [] reply.id -> TRUE
                    [] OTHER -> host.managed
             r == IF reply.kind = "progress" THEN reply.req ELSE NoReq
             s == CASE reply.kind = "progress" -> "poll"
                    [] reply.kind = "conflict" -> "submit"
                    [] OTHER -> "idle"
  <2>1. host' = [host EXCEPT !.slot = 0, !.told = reply.kind, !.managed = m,
                             !.req = r, !.stage = s]
    BY <1>3 DEF Answer
  <2>2. s = "poll" <=> reply.kind = "progress"
    OBVIOUS
  <2> HIDE DEF m, s
  <2>3. /\ host'.slot = 0 /\ host'.told = reply.kind /\ host'.req = r /\ host'.stage = s
        /\ host'.kind = host.kind /\ host'.want = host.want
    <3> HIDE DEF r
    <3> QED  BY <1>1, <2>1 DEF Agents
  <2> QED  BY <1>1, <1>3, <2>2, <2>3
<1> QED  BY <1>2, <1>3

(* The entry stays that of the same operation, or comes or goes before one.  *)
SameEntry == /\ flight'.gen = flight.gen /\ flight'.kind = flight.kind
             /\ flight'.want = flight.want /\ flight'.op = flight.op
             /\ flight'.rev = flight.rev /\ flight'.phase = flight.phase

EntryStep == \/ UNCHANGED flight \/ SameEntry \/ flight' = NoFlight
             \/ flight = NoFlight /\ flight'.phase = "preparing"

LEMMA EntryStays ==
    ASSUME BInv, AInv', NEW c, UNCHANGED <<cluster, helm>>, EntryStep, Others(c)
    PROVE  EntryOK' /\ \A d \in Slots \ {c} : ChosenOK(d)'
<1>1. UNCHANGED <<rec, live, hooksRan, helm, Worker>> /\ IInv /\ IInv' /\ EntryOK
  BY DEF cluster, Worker, AInv, BInv
<1>2. EntryOK'
  BY <1>1 DEF EntryOK, EntryStep, SameEntry, NoFlight, Begun
<1>3. ASSUME NEW d \in Slots \ {c}  PROVE ChosenOK(d)'
  <2>1. /\ call'[d] = call[d] /\ (Owner(d)' <=> Owner(d)) /\ (Reader(d)' <=> Reader(d))
        /\ ChosenOK(d) /\ CallbackOK(d) /\ CallbackOK(d)'
    BY <1>1, <1>3 DEF Others, Owner, Reader, BInv, IInv, Ownership
  <2>2. CASE UNCHANGED flight \/ SameEntry
    BY <1>1, <2>1, <2>2 DEF ChosenOK, SameEntry
  <2>3. CASE flight' = NoFlight \/ (flight = NoFlight /\ flight'.phase = "preparing")
    <3>1. ~Owner(d) /\ ~Reader(d)
      BY <2>1, <2>3 DEF CallbackOK, OwnerOK, ReaderOK, NoFlight, Begun
    <3>2. call[d].pc \notin {"plan", "activate"}
      BY <3>1 DEF Owner
    <3>3. ~(call[d].pc \in {"judge", "rewrite"} /\ call[d].req = NoReq)
      BY <3>1 DEF Owner, Reader
    <3>4. call[d].pc = "await" => call[d].kind # "delete" /\ flight'.gen # call[d].gen
      BY <2>1, <2>3 DEF ChosenOK, CallbackOK, WaiterOK, NoFlight, Begun
    <3> QED  BY <2>1, <3>1, <3>2, <3>3, <3>4 DEF ChosenOK
  <2> QED  BY <2>2, <2>3 DEF EntryStep
<1> QED  BY <1>2, <1>3

LEMMA AskedAnswered ==
    ASSUME BInv, NEW c \in Slots, NEW STATE reply, Answer(c, reply),
           reply.kind = "progress" /\ host.slot = c =>
             (reply.req.op = "delete") = (host.kind = "delete")
    PROVE  AskedOK' /\ Others(c) /\ call'[c] = NoCall
<1>1. Shape /\ AskedOK
  BY DEF BInv, AInv, IInv
<1>2. /\ call'[c] = NoCall /\ Others(c)
      /\ host.slot # c => host' = host
      /\ host.slot = c =>
           /\ host'.slot = 0 /\ host'.kind = host.kind
           /\ host'.req = IF reply.kind = "progress" THEN reply.req ELSE NoReq
           /\ host'.stage = "poll" <=> reply.kind = "progress"
  BY <1>1, AnswerHost
<1>3. CASE host.slot = c
  BY <1>2, <1>3 DEF AskedOK
<1>4. CASE host.slot # c
  <2>1. host.slot # 0 => call'[host.slot] = call[host.slot]
    BY <1>1, <1>2, <1>4 DEF Others, Shape, Agents
  <2> QED  BY <1>1, <1>2, <1>4, <2>1 DEF AskedOK
<1> QED  BY <1>2, <1>3, <1>4

LEMMA AskedGoesOn ==
    ASSUME BInv, NEW c \in Slots, UNCHANGED host, Others(c), call'[c].pc # "idle",
           call'[c].kind = call[c].kind, call'[c].want = call[c].want,
           call'[c].req = call[c].req
    PROVE  AskedOK'
<1>1. AskedOK /\ host \in Agents
  BY DEF BInv, AInv, IInv, Shape
<1>2. host.slot # 0 /\ host.slot # c => call'[host.slot] = call[host.slot]
  BY <1>1 DEF Others, Agents
<1> QED  BY <1>1, <1>2 DEF AskedOK

LEMMA AnswerChooses ==
    ASSUME BInv, AInv', NEW c \in Slots, NEW STATE reply, Answer(c, reply),
           UNCHANGED <<cluster, helm>>, EntryStep,
           reply.kind = "progress" /\ host.slot = c =>
             (reply.req.op = "delete") = (host.kind = "delete")
    PROVE  BInv'
<1>1. AskedOK' /\ Others(c) /\ call'[c] = NoCall
  BY AskedAnswered
<1>2. ChosenOK(c)'
  BY <1>1 DEF ChosenOK, NoCall, Reader
<1> QED  BY <1>1, <1>2, EntryStays DEF BInv

LEMMA GoesOnChoosing ==
    ASSUME BInv, AInv', NEW c \in Slots, UNCHANGED <<cluster, helm, host>>, EntryStep,
           Others(c), call'[c].pc # "idle", call'[c].kind = call[c].kind,
           call'[c].want = call[c].want, call'[c].req = call[c].req, ChosenOK(c)'
    PROVE  BInv'
BY AskedGoesOn, EntryStays DEF BInv

(* What a poll was asked, when the agent waits for it. *)
LEMMA PollIsAsked ==
    ASSUME BInv, NEW c \in Slots, host.slot = c
    PROVE  /\ call[c].kind = host.kind /\ call[c].want = host.want
           /\ call[c].req = host.req
           /\ call[c].req.op \in Ops =>
                /\ host.stage = "poll"
                /\ (host.req.op = "delete") = (host.kind = "delete")
           /\ call[c].req = NoReq => host.stage # "poll"
<1>1. AskedOK /\ HostOK /\ c # 0
  BY SlotIsNotZero DEF BInv, AInv, IInv, Ownership
<1>2. NoReq.op \notin Ops
  BY DEF NoReq, Ops
<1> QED  BY <1>1, <1>2 DEF AskedOK, HostOK

LEMMA ReportIsStep ==
    ASSUME flight \in Flights, flight' = Report(flight)  PROVE EntryStep
<1>1. CASE flight.readers = {}
  BY <1>1 DEF Report, EntryStep
<1>2. CASE flight.readers # {}
  BY <1>2 DEF Report, EntryStep, SameEntry, Flights
<1> QED  BY <1>1, <1>2

LEMMA LeaveIsStep ==
    ASSUME flight \in Flights, FlightOK', NEW c \in Slots, NEW STATE reply,
           Leave(c, reply, flight) \/ Leave(c, reply, Report(flight))
    PROVE  EntryStep
<1>1. PICK f : f \in {flight, Report(flight)} /\ Leave(c, reply, f)
  OBVIOUS
<1>2. flight' \in {NoFlight, DropReader(f, c)}
  BY <1>1 DEF Leave
<1>3. f = NoFlight \/ f = flight \/ f = [flight EXCEPT !.reported = TRUE]
  BY <1>1 DEF Report
<1>4. CASE f = NoFlight
  <2>1. flight' = NoFlight \/ flight' = [NoFlight EXCEPT !.readers = @ \ {c}]
    BY <1>2, <1>4 DEF DropReader
  <2>2. flight'.phase = "none"
    BY <2>1 DEF NoFlight
  <2> QED  BY <2>2 DEF EntryStep, FlightOK
<1>5. CASE f = flight \/ f = [flight EXCEPT !.reported = TRUE]
  <2>1. flight' = NoFlight \/ flight' = [f EXCEPT !.readers = @ \ {c}]
    BY <1>2 DEF DropReader
  <2> QED  BY <1>5, <2>1 DEF EntryStep, SameEntry, Flights
<1> QED  BY <1>3, <1>4, <1>5

-----------------------------------------------------------------------------
(* Submits *)

(* What everyone's invariants say of a callback before its step. *)
LEMMA CallFacts ==
    ASSUME BInv, NEW c \in Slots
    PROVE  /\ AInv /\ IInv /\ Shape /\ EntryOK /\ AskedOK /\ RecordOK
           /\ ChosenOK(c) /\ JudgedOK(c) /\ CallbackOK(c)
           /\ call[c] \in Callbacks /\ call \in [Slots -> Callbacks]
           /\ flight \in Flights /\ FlightOK /\ rec \in Revisions /\ host \in Agents
BY DEF BInv, AInv, IInv, Shape, Ownership

LEMMA SilentChooses ==
    ASSUME BInv, AInv', NEW c \in Slots, NEW STATE reply, Answer(c, reply),
           reply.kind # "progress", UNCHANGED <<cluster, helm>>, EntryStep
    PROVE  BInv'
BY AnswerChooses

LEMMA ReserveChooses == ASSUME BInv, AInv', NEW c \in Slots, Reserve(c)  PROVE BInv'
<1>1. call[c] \in Callbacks /\ call \in [Slots -> Callbacks] /\ CallbackOK(c)
  BY CallFacts
<1>2. /\ Others(c) /\ call'[c].pc = "plan" /\ call'[c].kind = call[c].kind
      /\ call'[c].want = call[c].want /\ call'[c].req = call[c].req
  BY <1>1 DEF Reserve, Others, Callbacks
<1>3. /\ flight'.kind = call[c].kind /\ flight'.want = call[c].want
      /\ flight'.phase = "preparing" /\ flight = NoFlight
  BY DEF Reserve, NoFlight
<1>4. ChosenOK(c)'
  BY <1>2, <1>3 DEF ChosenOK, Reader
<1> QED  BY <1>2, <1>3, <1>4, GoesOnChoosing DEF Reserve, EntryStep

(* Rejoining is told of the entry, and of nothing else. *)
LEMMA RejoinChooses == ASSUME BInv, AInv', NEW c \in Slots, Rejoin(c)  PROVE BInv'
<1>1. /\ IInv /\ FlightOK /\ EntryOK /\ flight \in Flights
      /\ UNCHANGED <<cluster, helm, flight>> /\ EntryStep
  BY CallFacts DEF Rejoin, EntryStep
<1>2. CASE Answer(c, Reply("conflict"))
  <2>1. Reply("conflict").kind = "conflict"
    BY DEF Reply
  <2> QED  BY <1>1, <1>2, <2>1, SilentChooses
<1>3. CASE /\ flight.phase # "preparing" /\ flight.kind = call[c].kind
           /\ Answer(c, Progress(FlightReq, call[c].kind = "create"))
  <2>1. flight.phase \in Begun
    BY <1>1, <1>3 DEF Rejoin, FlightOK, Flights, Begun
  <2>2. (flight.op = "delete") = (call[c].kind = "delete")
    BY <1>1, <1>3, <2>1 DEF EntryOK
  <2>3. Progress(FlightReq, call[c].kind = "create").req.op = flight.op
    BY DEF Progress, FlightReq
  <2>4. host.slot = c => call[c].kind = host.kind
    BY PollIsAsked
  <2> QED  BY <1>1, <1>3, <2>2, <2>3, <2>4, AnswerChooses
<1> QED  BY <1>2, <1>3 DEF Rejoin

LEMMA GiveUpChooses ==
    ASSUME BInv, AInv', NEW c \in Slots, NEW STATE reply, GiveUp(c, reply),
           UNCHANGED <<cluster, helm>>,
           reply.kind = "progress" /\ host.slot = c =>
             (reply.req.op = "delete") = (host.kind = "delete")
    PROVE  BInv'
<1>1. Answer(c, reply) /\ EntryStep
  BY DEF GiveUp, EntryStep
<1> QED  BY <1>1, AnswerChooses

LEMMA ChooseChooses ==
    ASSUME BInv, AInv', NEW c \in Slots, call[c].pc = "plan",
           NEW STATE op, NEW STATE target, Choose(c, op, target),
           op = "install" => target = 1, op = "upgrade" => target = rec.rev + 1,
           UNCHANGED <<cluster, helm, spent>>
    PROVE  BInv'
<1>1. call[c] \in Callbacks /\ call \in [Slots -> Callbacks] /\ ChosenOK(c)
  BY CallFacts
<1>2. /\ Others(c) /\ call'[c].pc = "activate" /\ call'[c].kind = call[c].kind
      /\ call'[c].want = call[c].want /\ call'[c].req = call[c].req
      /\ call'[c].op = op /\ call'[c].rev = target
  BY <1>1 DEF Choose, Others, Callbacks
<1>3. rec' = rec /\ flight' = flight /\ host' = host
  BY DEF cluster, Choose
<1>4. ChosenOK(c)'
  BY <1>1, <1>2, <1>3 DEF ChosenOK, Reader
<1> QED  BY <1>2, <1>3, <1>4, GoesOnChoosing DEF EntryStep

LEMMA JudgesChooses ==
    ASSUME BInv, AInv', NEW c \in Slots, Owner(c), call[c].pc \in {"plan", "read"},
           call' = [call EXCEPT ![c].pc = "judge", ![c].seen = rec],
           UNCHANGED <<cluster, helm, flight, host, spent>>
    PROVE  BInv'
<1>1. call[c] \in Callbacks /\ call \in [Slots -> Callbacks] /\ ChosenOK(c) /\ CallbackOK(c)
  BY CallFacts
<1>2. /\ Others(c) /\ call'[c].pc = "judge" /\ call'[c].kind = call[c].kind
      /\ call'[c].want = call[c].want /\ call'[c].req = call[c].req
      /\ call'[c].gen = call[c].gen
  BY <1>1 DEF Others, Callbacks
<1>3. call[c].gen # call[c].req.gen
  BY <1>1 DEF CallbackOK, Owner, OwnerOK, SentOK, NoReq
<1>4. call[c].pc = "read" => call[c].req # NoReq
  BY <1>1 DEF CallbackOK, SentOK, NoReq, Ops
<1>5. ChosenOK(c)'
  BY <1>1, <1>2, <1>3, <1>4 DEF ChosenOK, Reader
<1> QED  BY <1>2, <1>5, GoesOnChoosing DEF EntryStep

LEMMA PlanChooses == ASSUME BInv, AInv', NEW c \in Slots, Plan(c)  PROVE BInv'
<1>1. /\ Shape /\ call[c].pc = "plan" /\ Owner(c) /\ RecordOK /\ CallbackOK(c)
      /\ call[c].kind # "delete" /\ UNCHANGED <<cluster, helm, spent>>
  BY CallFacts, PlanCases DEF Owner
<1>2. CASE rec.st = "none" /\ Choose(c, "install", 1)
  BY <1>1, <1>2, ChooseChooses
<1>3. CASE Choose(c, "upgrade", rec.rev + 1)
  BY <1>1, <1>3, ChooseChooses
<1>4. CASE /\ call' = [call EXCEPT ![c].pc = "judge", ![c].seen = rec]
           /\ UNCHANGED <<flight, host>>
  BY <1>1, <1>4, JudgesChooses
<1>5. ~(rec.st = "pending" /\ ~rec.own)
  BY <1>1 DEF RecordOK
<1>6. CASE GiveUp(c, Reply("error"))
  <2>1. Reply("error").kind # "progress"
    BY DEF Reply
  <2> QED  BY <1>1, <1>6, <2>1, GiveUpChooses
<1>7. CASE \E id \in BOOLEAN : GiveUp(c, [Reply("conflict") EXCEPT !.id = id])
  <2>1. PICK id \in BOOLEAN : GiveUp(c, [Reply("conflict") EXCEPT !.id = id])
    BY <1>7
  <2>2. [Reply("conflict") EXCEPT !.id = id].kind # "progress"
    BY DEF Reply
  <2> QED  BY <1>1, <2>1, <2>2, GiveUpChooses
<1>8. CASE GiveUp(c, Progress([gen |-> 0, op |-> OpOf(call[c].kind),
                               rev |-> rec.rev], call[c].kind = "create"))
  <2>1. call[c].kind \in {"create", "update"}
    BY <1>1 DEF CallbackOK, SentOK, Kinds
  <2>2. Progress([gen |-> 0, op |-> OpOf(call[c].kind), rev |-> rec.rev],
                 call[c].kind = "create").req.op # "delete"
    BY <2>1 DEF Progress, OpOf
  <2>3. host.slot = c => call[c].kind = host.kind
    BY PollIsAsked
  <2> QED  BY <1>1, <1>8, <2>1, <2>2, <2>3, GiveUpChooses
<1> QED  BY <1>1, <1>2, <1>3, <1>4, <1>5, <1>6, <1>7, <1>8, PlanCases

LEMMA PlanDeleteChooses == ASSUME BInv, AInv', NEW c \in Slots, PlanDelete(c)  PROVE BInv'
<1>1. CASE GiveUp(c, Reply("success"))
  <2>1. Reply("success").kind # "progress"
    BY DEF Reply
  <2> QED  BY <1>1, <2>1, GiveUpChooses DEF PlanDelete
<1>2. CASE Choose(c, "delete", rec.rev)
  BY <1>2, ChooseChooses DEF PlanDelete
<1> QED  BY <1>1, <1>2 DEF PlanDelete

LEMMA FailedPreparationChooses ==
    ASSUME BInv, AInv', NEW c \in Slots, PreparationFails(c)  PROVE BInv'
<1>1. Reply("error").kind # "progress"
  BY DEF Reply
<1> QED  BY <1>1, GiveUpChooses DEF PreparationFails

(* A submit that waits for the record names its entry, or what it chose.     *)
LEMMA AwaitChooses ==
    ASSUME BInv, AInv', NEW c \in Slots,
           \/ AwaitRecorded(c) \/ AwaitOutcome(c) \/ AwaitOverdue(c)
           \/ AwaitForgotten(c) \/ AwaitFails(c)
    PROVE  BInv'
<1>1. /\ IInv /\ EntryOK /\ flight \in Flights /\ ChosenOK(c) /\ CallbackOK(c)
      /\ call[c].pc = "await" /\ UNCHANGED <<cluster, helm>>
      /\ call[c].kind # "delete" /\ call[c].op # "delete"
  BY CallFacts DEF AwaitRecorded, AwaitOutcome, AwaitOverdue, AwaitForgotten, AwaitFails,
                   ChosenOK, CallbackOK, SentOK
<1>2. EntryStep
  <2>1. UNCHANGED flight \/ flight' = Report(flight)
    BY DEF AwaitRecorded, AwaitOutcome, AwaitOverdue, AwaitForgotten, AwaitFails
  <2> QED  BY <1>1, <2>1, ReportIsStep DEF EntryStep
<1>3. host.slot = c => call[c].kind = host.kind
  BY PollIsAsked
<1>4. ASSUME NEW reply, reply.kind # "progress", Answer(c, reply)  PROVE BInv'
  BY <1>1, <1>2, <1>4, SilentChooses
<1>5. CASE AwaitOutcome(c) \/ AwaitOverdue(c)
  <2>1. Answer(c, Reply("error")) \/ Answer(c, Reply("failure"))
    BY <1>5 DEF AwaitOutcome, AwaitOverdue
  <2>2. Reply("error").kind # "progress" /\ Reply("failure").kind # "progress"
    BY DEF Reply
  <2> QED  BY <1>4, <2>1, <2>2
<1>6. CASE AwaitRecorded(c) \/ AwaitFails(c)
  <2>1. \/ Answer(c, Progress(FlightReq, call[c].kind = "create"))
        \/ Answer(c, Reply("error"))
    BY <1>6 DEF AwaitRecorded, AwaitFails
  <2>2. Reply("error").kind # "progress"
    BY DEF Reply
  <2>3. flight.op # "delete"
    BY <1>1, <1>6 DEF AwaitRecorded, AwaitFails, CallbackOK, WaiterOK, ChosenOK, EntryOK
  <2>4. Progress(FlightReq, call[c].kind = "create").req.op # "delete"
    BY <2>3 DEF Progress, FlightReq
  <2> QED  BY <1>1, <1>2, <1>3, <1>4, <2>1, <2>2, <2>4, AnswerChooses
<1>7. CASE AwaitForgotten(c)
  <2> DEFINE p == Progress([gen |-> call[c].gen, op |-> call[c].op, rev |-> call[c].rev],
                           call[c].kind = "create")
  <2>1. Answer(c, Reply("conflict")) \/ Answer(c, p)
    BY <1>7 DEF AwaitForgotten
  <2>2. Reply("conflict").kind # "progress"
    BY DEF Reply
  <2>3. p.req.op # "delete"
    BY <1>1 DEF Progress
  <2> HIDE DEF p
  <2> QED  BY <1>1, <1>2, <1>3, <1>4, <2>1, <2>2, <2>3, AnswerChooses
<1> QED  BY <1>5, <1>6, <1>7

(* The worker writes the revision after the one it was chosen for. *)
LEMMA ActivateChooses == ASSUME BInv, AInv', NEW c \in Slots, Activate(c)  PROVE BInv'
<1>1. /\ AInv /\ IInv /\ Shape /\ helm \in [Actors -> Works] /\ call[c] \in Callbacks
      /\ call \in [Slots -> Callbacks] /\ flight \in Flights /\ AskedOK /\ RecordOK
      /\ Owner(c) /\ ChosenOK(c) /\ JudgedOK(c) /\ CallbackOK(c) /\ call[c].pc = "activate"
      /\ rec \in Revisions
  BY CallFacts DEF Shape, Activate, Owner
<1>2. /\ call[c].op \in Ops /\ (call[c].op = "delete") = (call[c].kind = "delete")
      /\ flight.kind = call[c].kind /\ flight.want = call[c].want
      /\ call[c].op = "install" => call[c].rev = 1 /\ rec.st = "none" /\ rec.rev = 0
      /\ call[c].op = "upgrade" => call[c].rev = rec.rev + 1
      /\ call[c].req = NoReq /\ flight.phase = "preparing"
  BY <1>1, WhoHasIt DEF CallbackOK, SentOK, ChosenOK, JudgedOK, Suits, RecordOK
<1>3. UNCHANGED <<rec, live, hooksRan, spent>>
  BY DEF Activate, cluster
<1>4. Worker'.op = call[c].op /\ Worker'.want = call[c].want /\ Worker'.step = "begin"
  BY <1>1 DEF Activate, Worker, Actors, Idle
<1>5. /\ flight'.op = call[c].op /\ flight'.rev = call[c].rev /\ flight'.phase = "running"
      /\ flight'.gen = flight.gen /\ flight'.kind = flight.kind /\ flight'.want = flight.want
  BY <1>1 DEF Activate, Flights
<1>6. EntryOK'
  <2>1. flight'.op # "delete" => flight'.rev # 0 /\ rec'.rev # flight'.rev
    BY <1>1, <1>2, <1>3, <1>5 DEF Ops, Revisions
  <2>2. flight'.op # "delete" =>
          flight'.rev = IF flight'.op = "install" THEN 1 ELSE rec'.rev + 1
    BY <1>2, <1>3, <1>5 DEF Ops
  <2> QED  BY <1>2, <1>4, <1>5, <2>1, <2>2 DEF EntryOK
<1>7. /\ AskedOK' /\ Others(c) /\ call'[c].pc \in {"idle", "await"}
      /\ call'[c].pc = "await" => /\ call[c].kind # "delete"
                                  /\ call'[c].kind = call[c].kind
                                  /\ call'[c].want = call[c].want
  <2>1. CASE call[c].kind = "delete"
    <3> DEFINE p == Progress([gen |-> call[c].gen, op |-> "delete", rev |-> call[c].rev],
                             FALSE)
    <3>1. Answer(c, p) /\ p.req.op = "delete"
      BY <2>1 DEF Activate, Progress
    <3> HIDE DEF p
    <3>2. host.slot = c => host.kind = "delete"
      BY <2>1, PollIsAsked
    <3>3. AskedOK' /\ Others(c) /\ call'[c] = NoCall
      BY <3>1, <3>2, AskedAnswered
    <3> QED  BY <3>3 DEF NoCall
  <2>2. CASE call[c].kind # "delete"
    <3>1. UNCHANGED host /\ call' = [call EXCEPT ![c].pc = "await"]
      BY <2>2 DEF Activate
    <3>2. /\ call'[c].pc = "await" /\ call'[c].kind = call[c].kind
          /\ call'[c].want = call[c].want /\ call'[c].req = call[c].req
          /\ Others(c)
      BY <1>1, <3>1 DEF Callbacks, Others
    <3> QED  BY <2>2, <3>1, <3>2, AskedGoesOn
  <2> QED  BY <2>1, <2>2
<1>8. ChosenOK(c)'
  BY <1>2, <1>5, <1>7 DEF ChosenOK, Reader
<1>9. ASSUME NEW d \in Slots \ {c}  PROVE ChosenOK(d)'
  <2>1. /\ call'[d] = call[d] /\ ~Owner(d) /\ ~Reader(d) /\ ~Owner(d)' /\ ~Reader(d)'
        /\ ChosenOK(d) /\ CallbackOK(d)
    BY <1>1, <1>2, <1>7, <1>9, WhoHasIt, CallFacts DEF Others, Owner, Reader, Begun
  <2>2. call[d].pc \notin {"plan", "activate", "judge", "rewrite", "reconcile"}
    BY <1>1, <2>1, WhoHasIt
  <2> QED  BY <1>5, <2>1, <2>2 DEF ChosenOK
<1> QED  BY <1>6, <1>7, <1>8, <1>9 DEF BInv

-----------------------------------------------------------------------------
(* Polls and recovery *)

LEMMA AcquireChooses ==
    ASSUME BInv, AInv', NEW c \in Slots, AcquireRecovery(c) \/ AcquireFlight(c)
    PROVE  BInv'
<1>1. call[c] \in Callbacks /\ call \in [Slots -> Callbacks] /\ flight \in Flights
  BY CallFacts
<1>2. /\ Others(c) /\ call'[c].pc = "read" /\ call'[c].kind = call[c].kind
      /\ call'[c].want = call[c].want /\ call'[c].req = call[c].req
  BY <1>1 DEF AcquireRecovery, AcquireFlight, Others, Callbacks
<1>3. CASE AcquireRecovery(c)
  <2>1. EntryStep /\ flight'.phase = "preparing"
    BY <1>3 DEF AcquireRecovery, EntryStep, NoFlight
  <2>2. ~Reader(c)'
    <3>1. IInv'
      BY DEF AInv
    <3> QED  BY <2>1, <3>1, NextReader DEF Begun
  <2>3. ChosenOK(c)'
    BY <1>2, <2>2 DEF ChosenOK
  <2> QED  BY <1>2, <1>3, <2>1, <2>3, GoesOnChoosing DEF AcquireRecovery
<1>4. CASE AcquireFlight(c)
  <2>1. SameEntry
    BY <1>1, <1>4 DEF AcquireFlight, SameEntry, Flights
  <2>2. flight.op = call[c].req.op
    BY <1>4 DEF AcquireFlight, Matches, FlightReq
  <2>3. ChosenOK(c)'
    BY <1>2, <2>1, <2>2 DEF ChosenOK, Owner, SameEntry
  <2> QED  BY <1>2, <1>4, <2>1, <2>3, GoesOnChoosing DEF AcquireFlight, EntryStep
<1> QED  BY <1>3, <1>4

(* A poll reads success from a deployed record at the revision it asks for,  *)
(* or, for a delete, from no record.                                         *)
LEMMA ReadRecordChooses ==
    ASSUME BInv, AInv', NEW c \in Slots, ReadRecord(c)  PROVE BInv'
<1>1. /\ call[c] \in Callbacks /\ call \in [Slots -> Callbacks] /\ ChosenOK(c)
      /\ rec.rev \in Nat /\ call[c].req.rev \in Nat
  BY CallFacts DEF Callbacks, Ids, Revisions
<1>2. PICK reply \in IF call[c].req.op = "delete" THEN {DeleteReply(c)}
                     ELSE InstallReplies(c) :
        call' = [call EXCEPT ![c].pc = "reconcile", ![c].got = reply, ![c].seen = rec]
  BY DEF ReadRecord
<1>3. reply.kind = "success" =>
        IF call[c].req.op = "delete" THEN rec.st = "none"
        ELSE rec.st = "deployed" /\ rec.rev = call[c].req.rev
  BY <1>1, ReadReplyTypes
<1>4. /\ Others(c) /\ call'[c].pc = "reconcile" /\ call'[c].kind = call[c].kind
      /\ call'[c].want = call[c].want /\ call'[c].req = call[c].req
      /\ call'[c].gen = call[c].gen /\ call'[c].got = reply
  BY <1>1, <1>2 DEF Others, Callbacks
<1>5. rec' = rec /\ flight' = flight /\ call[c].pc = "read"
  BY DEF ReadRecord, cluster
<1>6. ChosenOK(c)'
  BY <1>1, <1>3, <1>4, <1>5 DEF ChosenOK, Reader, Owner
<1> QED  BY <1>4, <1>5, <1>6, GoesOnChoosing DEF ReadRecord, EntryStep

LEMMA ReadAbandonedChooses ==
    ASSUME BInv, AInv', NEW c \in Slots, ReadAbandoned(c)  PROVE BInv'
<1>1. IInv /\ JudgedOK(c) /\ RecordOK /\ call[c].pc = "read" /\ rec.st = "pending"
      /\ ~call[c].backed
  BY CallFacts DEF ReadAbandoned, Unbacked, Pending
<1>2. ~Reader(c)
  BY <1>1 DEF JudgedOK, RecordOK
<1>3. Owner(c)
  BY <1>1, <1>2, WhoHasIt
<1> QED  BY <1>1, <1>3, JudgesChooses DEF ReadAbandoned

(* A poll that is told to go on is told so of what it asked. *)
LEMMA PollChooses ==
    ASSUME BInv, AInv', NEW c \in Slots, NEW STATE reply, Answer(c, reply),
           call[c].req.op \in Ops, reply.kind = "progress" => reply.req = call[c].req,
           UNCHANGED <<cluster, helm>>, EntryStep
    PROVE  BInv'
BY PollIsAsked, AnswerChooses

LEMMA LeaveChooses ==
    ASSUME BInv, AInv', NEW c \in Slots, Reconcile(c) \/ ReadFails(c)  PROVE BInv'
<1>1. /\ flight \in Flights /\ call[c].req.op \in Ops
      /\ call[c].pc = "reconcile" /\ call[c].got.kind = "progress" =>
           call[c].got.req = call[c].req
      /\ UNCHANGED <<cluster, helm>>
  BY CallFacts DEF CallbackOK, SentOK, Reconcile, ReadFails
<1>2. FlightOK'
  BY DEF AInv, IInv, Ownership
<1>3. ASSUME NEW STATE reply, reply.kind = "progress" => reply.req = call[c].req,
             Leave(c, reply, flight) \/ Leave(c, reply, Report(flight))
      PROVE  BInv'
  <2>1. Answer(c, reply) /\ EntryStep
    BY <1>1, <1>2, <1>3, LeaveIsStep DEF Leave
  <2> QED  BY <1>1, <1>3, <2>1, PollChooses
<1>4. /\ Reply("error").kind = "error"
      /\ \A op : Withheld("failure", op).kind = "failure"
      /\ \A w : Progress(call[c].req, w).req = call[c].req
  BY DEF Reply, Withheld, Progress
<1>5. CASE Reconcile(c)
  <2>1. \/ Leave(c, call[c].got, flight)
        \/ Leave(c, Withheld("failure", flight.op), Report(flight))
        \/ Leave(c, Progress(call[c].req, flight.op = "install"), flight)
        \/ Leave(c, call[c].got, Report(flight))
    BY <1>5, ReconcileCases
  <2>2. call[c].pc = "reconcile"
    BY <1>5 DEF Reconcile
  <2>3. CASE Leave(c, call[c].got, flight) \/ Leave(c, call[c].got, Report(flight))
    BY <1>1, <1>3, <2>2, <2>3
  <2>4. CASE Leave(c, Withheld("failure", flight.op), Report(flight))
    BY <1>3, <1>4, <2>4
  <2>5. CASE Leave(c, Progress(call[c].req, flight.op = "install"), flight)
    <3> DEFINE p == Progress(call[c].req, flight.op = "install")
    <3>1. p.req = call[c].req
      BY DEF Progress
    <3> HIDE DEF p
    <3>2. Leave(c, p, flight)
      BY <2>5 DEF p
    <3> QED  BY <1>3, <3>1, <3>2
  <2> QED  BY <2>1, <2>3, <2>4, <2>5
<1>6. CASE ReadFails(c)
  <2>1. \/ Leave(c, Reply("error"), flight)
        \/ Leave(c, Withheld("failure", call[c].req.op), flight)
        \/ Leave(c, Withheld("failure", flight.op), flight)
        \/ Leave(c, Withheld("failure", flight.op), Report(flight))
        \/ Leave(c, Progress(call[c].req, TRUE), flight)
    BY <1>6 DEF ReadFails
  <2> QED  BY <1>3, <1>4, <2>1
<1> QED  BY <1>5, <1>6

LEMMA StatusChooses ==
    ASSUME BInv, AInv', NEW c \in Slots, RefuseStatus(c) \/ StatusVerdict(c)
    PROVE  BInv'
<1>1. /\ UNCHANGED <<cluster, helm>>
      /\ UNCHANGED flight \/ flight' = Report(flight)
      /\ Answer(c, Reply("conflict")) \/ Answer(c, Withheld("failure", flight.op))
  BY DEF RefuseStatus, StatusVerdict
<1>2. EntryStep
  BY <1>1, CallFacts, ReportIsStep DEF EntryStep
<1>3. Reply("conflict").kind = "conflict" /\ Withheld("failure", flight.op).kind = "failure"
  BY DEF Reply, Withheld
<1> QED  BY <1>1, <1>2, <1>3, SilentChooses

LEMMA JudgeChooses == ASSUME BInv, AInv', NEW c \in Slots, Judge(c)  PROVE BInv'
<1>1. /\ call[c] \in Callbacks /\ call \in [Slots -> Callbacks] /\ ChosenOK(c)
      /\ call[c].pc = "judge" /\ call[c].seen \in Revisions
  BY CallFacts DEF Judge, Callbacks
<1>2. PICK verdict : call' = [call EXCEPT ![c].pc = "rewrite", ![c].seen.st = verdict]
  BY DEF Judge
<1>3. /\ Others(c) /\ call'[c].pc = "rewrite" /\ call'[c].kind = call[c].kind
      /\ call'[c].want = call[c].want /\ call'[c].req = call[c].req
      /\ call'[c].gen = call[c].gen
  BY <1>1, <1>2 DEF Others, Callbacks
<1>4. flight' = flight
  BY DEF Judge
<1>5. ChosenOK(c)'
  BY <1>1, <1>3, <1>4 DEF ChosenOK, Reader
<1> QED  BY <1>3, <1>5, GoesOnChoosing DEF Judge, EntryStep

(* What a recovery does to the record and to its own callback. *)
LEMMA RewriteStep ==
    ASSUME BInv, NEW c \in Slots, Rewrite(c)
    PROVE  /\ Owner(c) /\ flight.phase = "preparing" /\ rec.st = "pending"
           /\ rec'.st = call[c].seen.st /\ rec'.rev = rec.rev /\ rec'.own
           /\ rec'.want = rec.want
           /\ call[c].seen.st = "deployed" => rec.want \notin Hooked
           /\ UNCHANGED <<live, hooksRan, helm, flight, host, spent>> /\ Others(c)
           /\ \/ call[c].req = NoReq /\ call'[c].pc = "plan"
              \/ call'[c].pc = "read"
              \/ /\ call'[c].pc = "reconcile" /\ call'[c].got.kind = "conflict"
           /\ call'[c].kind = call[c].kind /\ call'[c].want = call[c].want
           /\ call'[c].req = call[c].req /\ call'[c].gen = call[c].gen
<1>1. /\ IInv /\ JudgedOK(c) /\ call[c] \in Callbacks /\ call \in [Slots -> Callbacks]
      /\ rec \in Revisions /\ call[c].seen \in Revisions /\ call[c].pc = "rewrite"
  BY CallFacts DEF Callbacks, Rewrite
<1>2. /\ Owner(c) /\ rec.st = "pending" /\ rec.rev = call[c].seen.rev
      /\ rec.want = call[c].seen.want /\ call[c].seen.own
      /\ call[c].seen.st = "deployed" => rec.want \notin Hooked
  BY <1>1 DEF JudgedOK, CanConfirm
<1>3. /\ rec'.st = call[c].seen.st /\ rec'.rev = rec.rev /\ rec'.own
      /\ rec'.want = rec.want
  BY <1>1, <1>2, StoredType DEF Rewrite
<1>4. flight.phase = "preparing"
  BY <1>1, <1>2, WhoHasIt
<1>5. UNCHANGED <<live, hooksRan, helm, flight, host, spent>> /\ Others(c)
  BY <1>1 DEF Rewrite, Others
<1> DEFINE w == Withheld("conflict", call[c].req.op)
<1>6. w.kind = "conflict"
  BY DEF Withheld, Reply
<1> HIDE DEF w
<1>7. CASE call[c].req = NoReq
  <2>1. call' = [call EXCEPT ![c] = [call[c] EXCEPT !.pc = "plan", !.again = TRUE]]
    BY <1>1, <1>7 DEF Rewrite
  <2> QED  BY <1>1, <1>2, <1>3, <1>4, <1>5, <1>7, <2>1 DEF Callbacks
<1>8. CASE call[c].req # NoReq /\ call[c].seen.st = "deployed"
  <2>1. call' = [call EXCEPT ![c] = [call[c] EXCEPT !.pc = "read"]]
    BY <1>1, <1>8 DEF Rewrite
  <2> QED  BY <1>1, <1>2, <1>3, <1>4, <1>5, <1>8, <2>1 DEF Callbacks
<1>9. CASE call[c].req # NoReq /\ call[c].seen.st # "deployed"
  <2>1. call' = [call EXCEPT ![c] = [call[c] EXCEPT !.pc = "reconcile", !.got = w]]
    BY <1>1, <1>9 DEF Rewrite, w
  <2> QED  BY <1>1, <1>2, <1>3, <1>4, <1>5, <1>6, <1>9, <2>1 DEF Callbacks
<1> QED  BY <1>7, <1>8, <1>9

LEMMA RewriteChooses == ASSUME BInv, AInv', NEW c \in Slots, Rewrite(c)  PROVE BInv'
<1>1. /\ IInv /\ IInv' /\ EntryOK /\ ChosenOK(c)
  BY CallFacts DEF AInv
<1>2. /\ Owner(c) /\ flight.phase = "preparing" /\ rec.st = "pending"
      /\ rec'.rev = rec.rev /\ rec'.want = rec.want
      /\ UNCHANGED <<helm, flight, host>> /\ Others(c)
      /\ \/ call[c].req = NoReq /\ call'[c].pc = "plan"
         \/ call'[c].pc = "read"
         \/ call'[c].pc = "reconcile" /\ call'[c].got.kind = "conflict"
      /\ call'[c].kind = call[c].kind /\ call'[c].want = call[c].want
      /\ call'[c].req = call[c].req /\ call'[c].gen = call[c].gen
      /\ call[c].pc = "rewrite"
  BY RewriteStep DEF Rewrite
<1>3. EntryOK'
  BY <1>2 DEF EntryOK, Begun
<1>4. AskedOK'
  BY <1>2, AskedGoesOn
<1>5. ~Reader(c)'
  BY <1>1, <1>2, NextReader DEF Begun
<1>6. ChosenOK(c)'
  BY <1>1, <1>2, <1>5 DEF ChosenOK
<1>7. ASSUME NEW d \in Slots \ {c}  PROVE ChosenOK(d)'
  <2>1. /\ call'[d] = call[d] /\ ~Owner(d) /\ ~Owner(d)' /\ ~Reader(d)' /\ ChosenOK(d)
        /\ ~Reader(d)
    BY <1>1, <1>2, <1>7, WhoHasIt, NextReader, CallFacts DEF Others, Owner, Begun
  <2>2. call[d].pc \notin {"plan", "activate", "judge", "rewrite", "reconcile"}
    BY <1>1, <2>1, WhoHasIt
  <2> QED  BY <1>2, <2>1, <2>2 DEF ChosenOK
<1> QED  BY <1>3, <1>4, <1>6, <1>7 DEF BInv

(* A recovery whose write failed: the verdict may be on record all the same, *)
(* and the callback answers or goes on to reconcile.                         *)
LEMMA RewriteErrsStep ==
    ASSUME BInv, NEW c \in Slots, RewriteErrs(c)
    PROVE  /\ call[c].pc = "rewrite" /\ Owner(c)
           /\ flight.phase = "preparing" /\ rec.st = "pending"
           /\ rec' = rec \/ (rec'.st = call[c].seen.st /\ rec'.own)
           /\ rec'.rev = rec.rev /\ rec'.want = rec.want
           /\ call[c].seen.st = "deployed" => rec.want \notin Hooked
           /\ UNCHANGED <<live, hooksRan, helm>> /\ Others(c)
           /\ \/ /\ Answer(c, Reply("error")) /\ call'[c] = NoCall
                 /\ flight' \in {flight, NoFlight}
              \/ /\ UNCHANGED <<flight, host>>
                 /\ call'[c].pc = "reconcile" /\ call'[c].got.kind = "failure"
                 /\ call'[c].kind = call[c].kind /\ call'[c].want = call[c].want
                 /\ call'[c].req = call[c].req /\ call'[c].gen = call[c].gen
<1>1. /\ IInv /\ JudgedOK(c) /\ call[c] \in Callbacks /\ call \in [Slots -> Callbacks]
      /\ rec \in Revisions /\ call[c].seen \in Revisions /\ call[c].pc = "rewrite"
  BY CallFacts DEF Callbacks, RewriteErrs
<1>2. /\ Owner(c) /\ rec.st = "pending" /\ rec.rev = call[c].seen.rev
      /\ rec.want = call[c].seen.want /\ call[c].seen.own
      /\ call[c].seen.st = "deployed" => rec.want \notin Hooked
  BY <1>1 DEF JudgedOK, CanConfirm
<1>3. /\ rec' = rec \/ (rec'.st = call[c].seen.st /\ rec'.own)
      /\ rec'.rev = rec.rev /\ rec'.want = rec.want
  BY <1>1, <1>2, StoredType DEF RewriteErrs
<1>4. flight.phase = "preparing"
  BY <1>1, <1>2, WhoHasIt
<1>5. UNCHANGED <<live, hooksRan, helm>> /\ Unrecovered(c)
  BY DEF RewriteErrs
<1>6. CASE call[c].req = NoReq
  <2>1. Answer(c, Reply("error")) /\ flight' \in {flight, NoFlight}
    BY <1>5, <1>6 DEF Unrecovered, GiveUp
  <2>2. call'[c] = NoCall /\ Others(c)
    BY <1>1, <2>1 DEF Answer, Others
  <2> QED  BY <1>1, <1>2, <1>3, <1>4, <1>5, <2>1, <2>2
<1>7. CASE call[c].req # NoReq
  <2> DEFINE w == Withheld("failure", call[c].req.op)
  <2>1. w.kind = "failure"
    BY DEF Withheld, Reply
  <2>2. /\ call' = [call EXCEPT ![c] = [call[c] EXCEPT !.pc = "reconcile", !.got = w]]
        /\ UNCHANGED <<flight, host>>
    BY <1>1, <1>5, <1>7 DEF Unrecovered
  <2> HIDE DEF w
  <2> QED  BY <1>1, <1>2, <1>3, <1>4, <1>5, <2>1, <2>2 DEF Callbacks, Others
<1> QED  BY <1>6, <1>7

LEMMA RewriteErrsChooses ==
    ASSUME BInv, AInv', NEW c \in Slots, RewriteErrs(c)  PROVE BInv'
<1>1. /\ IInv /\ IInv' /\ EntryOK /\ ChosenOK(c)
  BY CallFacts DEF AInv
<1>2. /\ call[c].pc = "rewrite" /\ Owner(c) /\ flight.phase = "preparing"
      /\ rec'.rev = rec.rev /\ rec'.want = rec.want /\ UNCHANGED helm /\ Others(c)
      /\ flight' \in {flight, NoFlight}
  BY RewriteErrsStep
<1>3. EntryOK'
  BY <1>2 DEF EntryOK, Begun, NoFlight
<1>4. AskedOK' /\ call'[c].pc \in {"idle", "reconcile"}
      /\ (call'[c].pc = "reconcile" => call'[c].got.kind = "failure")
  <2>1. CASE Answer(c, Reply("error")) /\ call'[c] = NoCall
    BY <2>1, AskedAnswered DEF Reply, NoCall
  <2>2. CASE /\ UNCHANGED <<flight, host>>
             /\ call'[c].pc = "reconcile" /\ call'[c].got.kind = "failure"
             /\ call'[c].kind = call[c].kind /\ call'[c].want = call[c].want
             /\ call'[c].req = call[c].req
    BY <1>2, <2>2, AskedGoesOn
  <2> QED  BY <2>1, <2>2, RewriteErrsStep
<1>5. ~Reader(c)'
  BY <1>1, <1>2, NextReader DEF Begun, NoFlight
<1>6. ChosenOK(c)'
  BY <1>4, <1>5 DEF ChosenOK
<1>7. ASSUME NEW d \in Slots \ {c}  PROVE ChosenOK(d)'
  <2>1. /\ call'[d] = call[d] /\ ~Owner(d) /\ ~Reader(d)' /\ ~Reader(d)
        /\ ChosenOK(d) /\ CallbackOK(d)
    BY <1>1, <1>2, <1>7, WhoHasIt, NextReader, CallFacts DEF Others, Begun, NoFlight
  <2>2. call[d].pc \notin {"plan", "activate", "judge", "rewrite", "reconcile"}
    BY <1>1, <2>1, WhoHasIt
  <2>3. CASE flight' = flight
    BY <1>2, <2>1, <2>2, <2>3 DEF ChosenOK
  <2>4. CASE flight' = NoFlight
    <3>1. call[d].pc = "await" => call[d].kind # "delete" /\ flight'.gen # call[d].gen
      BY <2>1, <2>4 DEF ChosenOK, CallbackOK, WaiterOK, NoFlight
    <3> QED  BY <2>1, <2>2, <3>1 DEF ChosenOK
  <2> QED  BY <1>2, <2>3, <2>4
<1> QED  BY <1>3, <1>4, <1>6, <1>7 DEF BInv

-----------------------------------------------------------------------------
(* The agent, time, death and the worker *)

LEMMA SendChooses == ASSUME BInv, AInv', NEW c \in Slots, Send(c)  PROVE BInv'
<1>1. call \in [Slots -> Callbacks] /\ host \in Agents /\ AskedOK /\ c # 0
  BY CallFacts, SlotIsNotZero
<1>2. /\ Others(c) /\ call'[c].pc = host.stage /\ call'[c].kind = host.kind
      /\ call'[c].want = host.want /\ call'[c].req = host.req
      /\ host.stage \in {"submit", "poll"}
  BY <1>1 DEF Send, Others, NoCall
<1>3. /\ host'.slot = c /\ host'.stage = host.stage /\ host'.kind = host.kind
      /\ host'.want = host.want /\ host'.req = host.req
  BY <1>1 DEF Send, Agents
<1>4. AskedOK'
  BY <1>1, <1>2, <1>3 DEF AskedOK
<1>5. ChosenOK(c)'
  BY <1>2 DEF ChosenOK, Reader
<1> QED  BY <1>2, <1>4, <1>5, EntryStays DEF BInv, Send, EntryStep

LEMMA AgentChooses ==
    ASSUME BInv, AInv',
           \/ \E kind \in Kinds, w \in Wants \cup {Nothing} : Command(kind, w)
           \/ AgentRestarts
    PROVE  BInv'
<1>1. UNCHANGED <<cluster, helm, call, flight>>
  BY DEF Command, AgentRestarts
<1>2. AskedOK'
  <2>1. host \in Agents /\ HostOK /\ AskedOK
    BY DEF BInv, AInv, IInv, Shape, Ownership
  <2>2. CASE \E kind \in Kinds, w \in Wants \cup {Nothing} : Command(kind, w)
    <3>1. host'.slot = host.slot /\ host'.stage = "submit" /\ host.slot = 0
      BY <2>1, <2>2 DEF Command, HostOK, Agents
    <3> QED  BY <3>1 DEF AskedOK
  <2>3. CASE AgentRestarts
    <3>1. host'.slot = 0 /\ host'.stage = "submit"
      BY <2>1, <2>3 DEF AgentRestarts, Agents
    <3> QED  BY <3>1 DEF AskedOK
  <2> QED  BY <2>2, <2>3
<1> QED  BY <1>1, <1>2, EntryStays, SlotIsNotZero DEF BInv, Others, EntryStep

LEMMA TimeChooses ==
    ASSUME BInv, AInv', RecordAges \/ DeadlinePasses \/ RetireFlight  PROVE BInv'
<1>1. flight \in Flights /\ rec \in Revisions /\ AskedOK /\ EntryOK
      /\ \A c \in Slots : ChosenOK(c)
  BY DEF BInv, AInv, IInv, Shape
<1>2. UNCHANGED <<call, host>>
  BY DEF RecordAges, DeadlinePasses, RetireFlight
<1>3. AskedOK'
  BY <1>1, <1>2 DEF AskedOK
<1>4. CASE RecordAges
  <2>1. /\ rec'.rev = rec.rev /\ rec'.want = rec.want /\ rec'.st = rec.st
        /\ UNCHANGED <<helm, flight>>
    BY <1>1, <1>4 DEF RecordAges, Revisions
  <2> QED  BY <1>1, <1>2, <1>3, <2>1 DEF BInv, EntryOK, ChosenOK, Worker, Owner, Reader
<1>5. CASE DeadlinePasses \/ RetireFlight
  <2>1. EntryStep
    <3>1. CASE DeadlinePasses
      BY <1>1, <3>1 DEF DeadlinePasses, EntryStep, SameEntry, Flights
    <3>2. CASE RetireFlight
      BY <1>1, <3>2, ReportIsStep DEF RetireFlight
    <3> QED  BY <1>5, <3>1, <3>2
  <2>2. UNCHANGED <<cluster, helm>>
    BY <1>5 DEF DeadlinePasses, RetireFlight
  <2> QED  BY <1>2, <1>3, <2>1, <2>2, EntryStays, SlotIsNotZero DEF BInv, Others
<1> QED  BY <1>4, <1>5

LEMMA CrashChooses == ASSUME BInv, AInv', PluginCrashes  PROVE BInv'
<1>1. host \in Agents /\ AskedOK /\ HostOK
  BY DEF BInv, AInv, IInv, Shape, Ownership
<1>2. flight'.phase \notin Begun /\ \A c \in Slots : call'[c].pc = "idle"
  BY DEF PluginCrashes, NoFlight, NoCall, Begun
<1>3. EntryOK' /\ \A c \in Slots : ChosenOK(c)'
  BY <1>2 DEF EntryOK, ChosenOK, Reader
<1>4. AskedOK'
  <2>1. CASE host.slot = 0
    BY <1>1, <2>1 DEF PluginCrashes, AskedOK
  <2>2. CASE host.slot # 0
    <3>1. PICK stage \in {host.stage, "idle"} :
            host' = [host EXCEPT !.slot = 0, !.stage = stage,
                       !.req = IF stage = "poll" THEN @ ELSE NoReq]
      BY <2>2 DEF PluginCrashes
    <3>2. /\ host'.slot = 0 /\ host'.kind = host.kind /\ host'.stage = stage
          /\ stage = "poll" => host'.req = host.req
      BY <1>1, <3>1 DEF Agents
    <3> QED  BY <1>1, <3>1, <3>2 DEF AskedOK
  <2> QED  BY <2>1, <2>2
<1> QED  BY <1>3, <1>4 DEF BInv

(* A step of the worker's: nobody owns the entry, and readers read the same. *)
LEMMA WorkerChooses ==
    ASSUME BInv, AInv', Worker.step # "none", UNCHANGED <<call, host>>,
           flight'.gen = flight.gen, flight'.kind = flight.kind,
           flight'.want = flight.want, flight'.op = flight.op,
           EntryOK'
    PROVE  BInv'
<1>1. IInv /\ AskedOK /\ flight.phase = "running" /\ \A c \in Slots : ChosenOK(c)
  BY WorkerPhase DEF BInv, AInv
<1>2. AskedOK'
  BY <1>1 DEF AskedOK
<1>3. ASSUME NEW c \in Slots  PROVE ChosenOK(c)'
  <2>1. call'[c] = call[c] /\ ~Owner(c) /\ ~Owner(c)' /\ (Reader(c)' <=> Reader(c))
        /\ ChosenOK(c)
    BY <1>1, WhoHasIt DEF Owner, Reader
  <2>2. call[c].pc \notin {"plan", "activate"}
    BY <1>1, <2>1, WhoHasIt
  <2> QED  BY <2>1, <2>2 DEF ChosenOK
<1> QED  BY <1>2, <1>3 DEF BInv

LEMMA BWorkerFacts ==
    ASSUME BInv, Worker.step # "none"
    PROVE  /\ Worker.op \in Ops /\ Worker.op = flight.op /\ Worker.want = flight.want
           /\ flight \in Flights /\ flight.phase = "running" /\ rec \in Revisions
           /\ helm \in [Actors -> Works] /\ Worker \in Works /\ WorkerOK /\ RecordOK
           /\ EntryOK /\ "plugin" \in Actors
BY WorkerFacts DEF BInv, EntryOK, Begun, Actors

LEMMA RecordsChooses ==
    ASSUME BInv, AInv', HelmRecords("plugin")  PROVE BInv'
<1>1. Worker.step = "begin"
  BY DEF HelmRecords, Worker
<1>2. /\ Worker.op \in Ops /\ Worker.op = flight.op /\ Worker.want = flight.want
      /\ flight.phase = "running" /\ rec \in Revisions
      /\ helm \in [Actors -> Works] /\ Worker \in Works /\ EntryOK /\ "plugin" \in Actors
  BY <1>1, BWorkerFacts
<1>3. rec' = Recorded("plugin")
  BY DEF HelmRecords, Recorded
<1>4. helm' = [helm EXCEPT !["plugin"].step = "apply", !["plugin"].left = Objs,
                           !["plugin"].rev = rec'.rev]
  BY DEF HelmRecords
<1>5. /\ Worker'.step = "apply" /\ Worker'.rev = rec'.rev
      /\ Worker'.op = Worker.op /\ Worker'.want = Worker.want
  BY <1>2, <1>4 DEF Worker, Works
<1>6. UNCHANGED <<flight, call, host>>
  BY DEF HelmRecords
<1>7. flight.op # "delete" => rec'.want = flight.want /\ rec'.rev = flight.rev
  <2>1. CASE Worker.op = "install"
    BY <1>1, <1>2, <1>3, <2>1 DEF Recorded, Worker, EntryOK, Begun
  <2>2. CASE Worker.op = "upgrade"
    BY <1>1, <1>2, <1>3, <2>2 DEF Recorded, Worker, EntryOK, Begun
  <2> QED  BY <1>2, <2>1, <2>2 DEF Ops
<1>8. EntryOK'
  BY <1>2, <1>5, <1>6, <1>7 DEF EntryOK, Begun
<1> QED  BY <1>1, <1>6, <1>8, WorkerChooses

LEMMA StopsChooses ==
    ASSUME BInv, AInv',
           HelmRefuses("plugin") \/ HelmReturns("plugin") \/ HelmFails("plugin")
    PROVE  BInv'
<1>1. Worker.step # "none"
  BY DEF HelmRefuses, HelmReturns, HelmFails, Worker
<1>2. /\ flight \in Flights /\ flight.phase = "running" /\ rec \in Revisions
      /\ Worker.op = flight.op /\ Worker.want = flight.want
      /\ helm \in [Actors -> Works] /\ WorkerOK /\ EntryOK /\ "plugin" \in Actors
  BY <1>1, BWorkerFacts
<1>3. PICK phase \in {"ok", "err"} :
        /\ Ends("plugin", phase)
        /\ phase = "ok" => Worker.step = "return" /\ rec' = rec
  BY DEF HelmRefuses, HelmReturns, HelmFails, Worker, cluster
<1>4. /\ Worker' = Idle /\ flight'.phase = phase /\ flight'.op = flight.op
      /\ flight'.gen = flight.gen /\ flight'.kind = flight.kind
      /\ flight'.want = flight.want /\ flight'.rev = flight.rev
  BY <1>2, <1>3 DEF Ends, Worker, Flights
<1>5. UNCHANGED <<call, host>> /\ rec'.rev = rec.rev /\ rec'.want = rec.want
  <2>1. rec' = rec \/ rec' = [rec EXCEPT !.st = "failed"]
    BY DEF HelmRefuses, HelmReturns, HelmFails, cluster
  <2> QED  BY <1>2, <2>1 DEF HelmRefuses, HelmReturns, HelmFails, Revisions
<1>6. phase = "ok" /\ flight.op # "delete" => rec.rev = flight.rev
  BY <1>2, <1>3 DEF WorkerOK, EntryOK, Begun
<1>7. EntryOK'
  BY <1>2, <1>4, <1>5, <1>6 DEF EntryOK, Begun, Idle
<1> QED  BY <1>1, <1>4, <1>5, <1>7, WorkerChooses

LEMMA WorksChooses ==
    ASSUME BInv, AInv', (\E o \in Objs : HelmApplies("plugin", o)) \/ HelmRunsHooks("plugin")
    PROVE  BInv'
<1>1. Worker.step = "apply"
  BY DEF HelmApplies, HelmRunsHooks, Worker
<1>2. /\ helm \in [Actors -> Works] /\ EntryOK /\ "plugin" \in Actors /\ Worker \in Works
      /\ flight.phase = "running"
  BY <1>1, BWorkerFacts
<1>3. /\ Worker'.step \in {"apply", "record"} /\ Worker'.rev = Worker.rev
      /\ Worker'.want = Worker.want
  BY <1>1, <1>2 DEF HelmApplies, HelmRunsHooks, Worker, Works
<1>4. UNCHANGED <<rec, flight, call, host>>
  BY DEF HelmApplies, HelmRunsHooks
<1>5. EntryOK'
  BY <1>1, <1>2, <1>3, <1>4 DEF EntryOK, Begun
<1> QED  BY <1>1, <1>4, <1>5, WorkerChooses

LEMMA FinishesChooses == ASSUME BInv, AInv', HelmFinishes("plugin")  PROVE BInv'
<1>1. Worker.step = "record"
  BY DEF HelmFinishes, Worker
<1>2. /\ helm \in [Actors -> Works] /\ EntryOK /\ "plugin" \in Actors /\ Worker \in Works
      /\ flight.phase = "running" /\ Worker.op = flight.op /\ WorkerOK /\ RecordOK
      /\ Worker.want = flight.want /\ rec \in Revisions /\ Worker.op \in Ops
  BY <1>1, BWorkerFacts
<1>3. /\ Worker.op # "delete" =>
           /\ rec.st = "pending" /\ rec.rev = Worker.rev /\ rec.want = Worker.want
           /\ rec.rev = flight.rev
  BY <1>1, <1>2 DEF WorkerOK, EntryOK, Begun
<1>4. /\ helm' = [helm EXCEPT !["plugin"].step = "return"] /\ UNCHANGED flight
      /\ Worker.op # "delete" =>
           Stored([rec EXCEPT !.rev = Worker.rev, !.st = "deployed", !.want = Worker.want])
  BY <1>2, <1>3 DEF HelmFinishes, Worker, Revisions
<1>5. Worker'.step = "return" /\ Worker'.rev = Worker.rev /\ Worker'.want = Worker.want
  BY <1>2, <1>4 DEF Worker, Works
<1>6. Worker.op # "delete" => rec'.rev = rec.rev /\ rec'.want = rec.want
  <2> DEFINE r == [rec EXCEPT !.rev = Worker.rev, !.st = "deployed", !.want = Worker.want]
  <2>1. r \in Revisions /\ r.rev = Worker.rev /\ r.want = Worker.want
    BY <1>2 DEF Revisions, Statuses, Works
  <2> HIDE DEF r
  <2>2. Worker.op # "delete" => Stored(r)
    BY <1>4 DEF r
  <2> QED  BY <1>2, <1>3, <2>1, <2>2, StoredType
<1>7. UNCHANGED <<flight, call, host>>
  BY <1>4 DEF HelmFinishes
<1>8. EntryOK'
  BY <1>2, <1>3, <1>5, <1>6, <1>7 DEF EntryOK, Begun
<1> QED  BY <1>1, <1>7, <1>8, WorkerChooses

LEMMA StartChooses == Init => BInv
<1> SUFFICES ASSUME Init  PROVE BInv
  OBVIOUS
<1>1. AInv
  BY StartRelies
<1>2. EntryOK /\ AskedOK /\ \A c \in Slots : ChosenOK(c)
  BY DEF Init, EntryOK, AskedOK, ChosenOK, NoFlight, NoCall, Begun, Reader
<1> QED  BY <1>1, <1>2 DEF BInv

LEMMA StepChooses == ASSUME MaxCli = 0, BInv, [Next]_vars  PROVE BInv'
<1>1. AInv /\ AInv'
  BY StepRelies DEF BInv
<1>2. ASSUME NEW c \in Slots,
             \/ Send(c)
             \/ Reserve(c) \/ Rejoin(c) \/ Plan(c) \/ PlanDelete(c) \/ Activate(c)
             \/ AwaitRecorded(c) \/ AwaitOutcome(c) \/ AwaitOverdue(c)
             \/ AwaitForgotten(c)
             \/ AcquireRecovery(c) \/ RefuseStatus(c) \/ StatusVerdict(c)
             \/ AcquireFlight(c) \/ ReadRecord(c) \/ ReadAbandoned(c) \/ Reconcile(c)
             \/ Judge(c) \/ Rewrite(c) \/ RewriteFails(c)
             \/ PreparationFails(c) \/ AwaitFails(c) \/ ReadFails(c) \/ RewriteErrs(c)
      PROVE  BInv'
  BY <1>1, <1>2, SendChooses, ReserveChooses, RejoinChooses, PlanChooses, PlanDeleteChooses,
     ActivateChooses, AwaitChooses, AcquireChooses, StatusChooses, ReadRecordChooses,
     ReadAbandonedChooses, LeaveChooses, JudgeChooses, RewriteChooses, NoRewriteFails,
     RewriteErrsChooses, FailedPreparationChooses
<1>3. ASSUME NEW a \in Actors,
             \/ HelmRecords(a) \/ HelmRefuses(a) \/ HelmRunsHooks(a)
             \/ HelmFinishes(a) \/ HelmReturns(a) \/ HelmFails(a)
             \/ \E o \in Objs : HelmApplies(a, o)
      PROVE  BInv'
  <2>1. CASE a = "plugin"
    BY <1>1, <1>3, <2>1, RecordsChooses, StopsChooses, WorksChooses, FinishesChooses
  <2>2. CASE a = "cli"
    BY <1>1, <1>3, <2>2, NobodyElse
  <2> QED  BY <2>1, <2>2 DEF Actors
<1>4. CASE UNCHANGED vars
  <2>1. UNCHANGED <<cluster, helm, call, flight, host>>
    BY <1>4 DEF vars, cluster
  <2>2. AskedOK'
    BY <2>1 DEF BInv, AskedOK
  <2> QED  BY <1>1, <2>1, <2>2, SlotIsNotZero, EntryStays DEF BInv, Others, EntryStep
<1> QED  BY <1>1, <1>2, <1>3, <1>4, NextCases, NobodyElse, AgentChooses, TimeChooses,
            CrashChooses

(* Every revision number in use names one operation: the worker's, the       *)
(* entry's, a waiting callback's and the record's are of the same desired    *)
(* state whenever they are equal.                                            *)
THEOREM RevisionsNameOperations == ASSUME MaxCli = 0  PROVE Spec => []BInv
<1>1. Init => BInv
  BY StartChooses
<1>2. BInv /\ [Next]_vars => BInv'
  BY StepChooses
<1> QED  BY <1>1, <1>2, PTL DEF Spec

(* What a success means whoever drives the command a second time.            *)
Achieved == IF host.kind = "delete"
            THEN rec.st = "none" /\ \A o \in Objs : live[o] = Nothing
            ELSE /\ rec.st = "deployed" /\ rec.own /\ \A o \in Objs : live[o] # Nothing
                 /\ rec.want \in Hooked => InForce(rec.want)

(* However often the agent restarts and the plugin crashes, a delete that is *)
(* told to have succeeded has left nothing, and a create or an update that   *)
(* is has left a release of formae's that is deployed, with every object of  *)
(* it there and, when its chart has hooks, with the objects of that very     *)
(* revision and its hooks run.                                               *)
THEOREM SuccessIsAchieved ==
    ASSUME MaxCli = 0  PROVE Spec => [][Told("success") => Achieved]_vars
<1> DEFINE A == Told("success") => Achieved
<1>1. ASSUME BInv, [Next]_vars, Told("success")  PROVE Achieved
  <2>1. AInv /\ IInv /\ RecordOK /\ DeployedMeansDone
    BY <1>1 DEF BInv, AInv
  <2>2. PICK c \in Slots :
          /\ host.slot = c
          /\ \/ PlanDelete(c) /\ rec.st = "none"
             \/ /\ Reconcile(c) /\ call[c].got.kind = "success"
                /\ Owner(c) \/ (Reader(c) /\ flight.phase = "ok")
    BY <1>1, <2>1, SuccessIsTold
  <2>3. IF host.kind = "delete" THEN rec.st = "none" ELSE rec.st = "deployed"
    <3>1. CASE PlanDelete(c) /\ rec.st = "none"
      BY <1>1, <2>2, <3>1, PollIsAsked DEF PlanDelete
    <3>2. CASE /\ Reconcile(c) /\ call[c].got.kind = "success"
               /\ Owner(c) \/ (Reader(c) /\ flight.phase = "ok")
      <4>1. call[c].pc = "reconcile" /\ ChosenOK(c) /\ call[c].req.op \in Ops
        BY <1>1, <3>2, CallFacts DEF Reconcile, CallbackOK, SentOK
      <4>2. (call[c].req.op = "delete") = (host.kind = "delete")
        BY <1>1, <2>2, <4>1, PollIsAsked
      <4> QED  BY <2>1, <3>2, <4>1, <4>2 DEF ChosenOK, RecordOK
    <3> QED  BY <2>2, <3>1, <3>2
  <2> QED  BY <2>1, <2>3 DEF Achieved, RecordOK, DeployedMeansDone
<1>2. BInv /\ [Next]_vars => [A]_vars
  BY <1>1
<1> QED  BY <1>2, RevisionsNameOperations, PTL DEF Spec

-----------------------------------------------------------------------------
(* What the agent was told to poll for *)

(* The other callbacks are idle while the agent waits for one. *)
LEMMA AloneAtWork ==
    ASSUME LInv, NEW c \in Slots, call[c].pc # "idle"
    PROVE  /\ host.slot = c /\ \A d \in Slots \ {c} : call[d].pc = "idle"
           /\ call[c].kind = host.kind /\ call[c].want = host.want
           /\ call[c].req = host.req
           /\ call[c].req = NoReq => host.stage # "poll"
           /\ call[c].req.op \in Ops =>
                /\ host.stage = "poll"
                /\ (host.req.op = "delete") = (host.kind = "delete")
                /\ Names(call[c].req, host.kind, host.want)
           /\ BInv /\ Shape
<1>1. BInv /\ Alone /\ PollOK /\ host.slot = c
  BY DEF LInv, Alone
<1>2. \A d \in Slots \ {c} : call[d].pc = "idle"
  BY <1>1 DEF Alone
<1> QED  BY <1>1, <1>2, PollIsAsked, CallFacts DEF PollOK

(* What an identifier names survives the entry's coming and going. *)
LEMMA PollStays ==
    ASSUME LInv, UNCHANGED <<rec>>, EntryStep,
           host'.stage = "poll" => Names(host'.req, host'.kind, host'.want)
    PROVE  PollOK'
<1>1. EntryOK
  BY DEF LInv, BInv
<1>2. CASE UNCHANGED flight \/ SameEntry
  BY <1>2 DEF PollOK, Names, SameEntry
<1>3. CASE flight' = NoFlight \/ (flight = NoFlight /\ flight'.phase = "preparing")
  BY <1>1, <1>3 DEF PollOK, Names, EntryOK, NoFlight, Begun
<1> QED  BY <1>2, <1>3 DEF EntryStep

(* An answer is heard, and the plugin is at rest. *)
LEMMA AnswerLeads ==
    ASSUME LInv, BInv', NEW c \in Slots, call[c].pc # "idle",
           NEW STATE reply, Answer(c, reply), UNCHANGED <<cluster, helm>>, EntryStep,
           reply.kind = "progress" => Names(reply.req, host.kind, host.want)
    PROVE  LInv'
<1>1. /\ host.slot = c /\ \A d \in Slots \ {c} : call[d].pc = "idle"
      /\ ForceOK /\ Shape
  BY AloneAtWork DEF LInv
<1>2. /\ call'[c] = NoCall /\ Others(c)
      /\ host'.kind = host.kind /\ host'.want = host.want
      /\ host'.req = IF reply.kind = "progress" THEN reply.req ELSE NoReq
      /\ host'.stage = "poll" <=> reply.kind = "progress"
  BY <1>1, AnswerHost
<1>3. \A d \in Slots : call'[d].pc = "idle"
  BY <1>1, <1>2 DEF Others, NoCall
<1>4. Alone' /\ Present'
  BY <1>3 DEF Alone, Present
<1>5. PollOK'
  BY <1>2, PollStays DEF cluster
<1>6. ForceOK'
  BY <1>1 DEF ForceOK, InForce, Worker, cluster
<1> QED  BY <1>4, <1>5, <1>6 DEF LInv

LEMMA SilentLeads ==
    ASSUME LInv, BInv', NEW c \in Slots, call[c].pc # "idle",
           NEW STATE reply, Answer(c, reply), reply.kind # "progress",
           UNCHANGED <<cluster, helm>>, EntryStep
    PROVE  LInv'
BY AnswerLeads

LEMMA GoesOnLeading ==
    ASSUME LInv, BInv', NEW c \in Slots, call[c].pc # "idle",
           UNCHANGED <<cluster, helm, host>>, EntryStep, Others(c),
           call'[c].pc \notin {"idle", "await"}
    PROVE  LInv'
<1>1. /\ host.slot = c /\ \A d \in Slots \ {c} : call[d].pc = "idle"
      /\ ForceOK /\ PollOK
  BY AloneAtWork DEF LInv
<1>2. Alone' /\ Present'
  BY <1>1 DEF Alone, Present, Others
<1>3. PollOK'
  BY <1>1, PollStays DEF PollOK, cluster
<1>4. ForceOK'
  BY <1>1 DEF ForceOK, InForce, Worker, cluster
<1> QED  BY <1>2, <1>3, <1>4 DEF LInv

LEMMA GiveUpLeads ==
    ASSUME LInv, BInv', NEW c \in Slots, call[c].pc # "idle",
           NEW STATE reply, GiveUp(c, reply), UNCHANGED <<cluster, helm>>,
           reply.kind = "progress" => Names(reply.req, host.kind, host.want)
    PROVE  LInv'
<1>1. Answer(c, reply) /\ EntryStep
  BY DEF GiveUp, EntryStep
<1> QED  BY <1>1, AnswerLeads

(* The entry names what a submit of its own operation waits for. *)
LEMMA EntryNames ==
    ASSUME LInv, NEW kind, NEW want, NEW w, flight.phase \in Begun, flight.kind = kind,
           kind # "delete" => flight.want = want
    PROVE  Names(Progress(FlightReq, w).req, kind, want)
<1>1. EntryOK
  BY DEF LInv, BInv
<1> DEFINE r == Progress(FlightReq, w).req
<1>2. r.gen = flight.gen /\ r.rev = flight.rev
  BY DEF Progress, FlightReq
<1> HIDE DEF r
<1>3. Names(r, kind, want)
  BY <1>1, <1>2 DEF Names, EntryOK
<1> QED  BY <1>3 DEF r

LEMMA ReserveLeads == ASSUME LInv, BInv', NEW c \in Slots, Reserve(c)  PROVE LInv'
<1>1. call[c].pc = "submit" /\ Shape
  BY DEF Reserve, LInv, BInv, AInv, IInv
<1>2. Others(c) /\ call'[c].pc = "plan"
  BY <1>1 DEF Reserve, Others, Shape, Callbacks
<1>3. EntryStep
  BY DEF Reserve, EntryStep, NoFlight
<1> QED  BY <1>1, <1>2, <1>3, GoesOnLeading DEF Reserve

LEMMA RejoinLeads == ASSUME LInv, BInv', NEW c \in Slots, Rejoin(c)  PROVE LInv'
<1>1. /\ call[c].pc = "submit" /\ UNCHANGED <<cluster, helm, flight>> /\ EntryStep
      /\ BInv
  BY DEF Rejoin, EntryStep, LInv
<1>2. CASE Answer(c, Reply("conflict"))
  <2>1. Reply("conflict").kind = "conflict"
    BY DEF Reply
  <2> QED  BY <1>1, <1>2, <2>1, SilentLeads
<1>3. CASE /\ flight.phase # "preparing" /\ flight.kind = call[c].kind
           /\ call[c].kind # "delete" => flight.want = call[c].want
           /\ Answer(c, Progress(FlightReq, call[c].kind = "create"))
  <2>1. flight.phase \in Begun
    BY <1>1, <1>3, CallFacts DEF Rejoin, FlightOK, Flights, Begun
  <2>2. call[c].kind = host.kind /\ call[c].want = host.want
    BY <1>1, AloneAtWork
  <2> DEFINE withhold == call[c].kind = "create"
  <2>3. Names(Progress(FlightReq, withhold).req, host.kind, host.want)
    <3> HIDE DEF withhold
    <3> QED  BY <1>3, <2>1, <2>2, EntryNames
  <2> QED  BY <1>1, <1>3, <2>3, AnswerLeads
<1> QED  BY <1>2, <1>3 DEF Rejoin

(* A plan that finds nothing to do names the record, which is of the state   *)
(* wanted.                                                                   *)
LEMMA PlanLeads == ASSUME LInv, BInv', NEW c \in Slots, Plan(c)  PROVE LInv'
<1>1. /\ Shape /\ call[c].pc = "plan" /\ Owner(c) /\ BInv /\ AInv /\ IInv
      /\ UNCHANGED <<cluster, helm, spent>>
      /\ call[c] \in Callbacks /\ call \in [Slots -> Callbacks]
  BY CallFacts, PlanCases DEF Owner, LInv
<1>2. ASSUME NEW op, NEW target, Choose(c, op, target)  PROVE LInv'
  <2>1. Others(c) /\ call'[c].pc = "activate" /\ UNCHANGED <<flight, host>>
    BY <1>1, <1>2 DEF Choose, Others, Callbacks
  <2> QED  BY <1>1, <2>1, GoesOnLeading DEF EntryStep
<1>3. CASE /\ call' = [call EXCEPT ![c].pc = "judge", ![c].seen = rec]
           /\ UNCHANGED <<flight, host>>
  <2>1. Others(c) /\ call'[c].pc = "judge"
    BY <1>1, <1>3 DEF Others, Callbacks
  <2> QED  BY <1>1, <1>3, <2>1, GoesOnLeading DEF EntryStep
<1>4. CASE GiveUp(c, Reply("error"))
  <2>1. Reply("error").kind # "progress"
    BY DEF Reply
  <2> QED  BY <1>1, <1>4, <2>1, GiveUpLeads
<1>5. CASE \E id \in BOOLEAN : GiveUp(c, [Reply("conflict") EXCEPT !.id = id])
  <2>1. PICK id \in BOOLEAN : GiveUp(c, [Reply("conflict") EXCEPT !.id = id])
    BY <1>5
  <2>2. [Reply("conflict") EXCEPT !.id = id].kind # "progress"
    BY DEF Reply
  <2> QED  BY <1>1, <2>1, <2>2, GiveUpLeads
<1>6. CASE /\ Settled(rec, call[c].want)
           /\ GiveUp(c, Progress([gen |-> 0, op |-> OpOf(call[c].kind),
                                  rev |-> rec.rev], call[c].kind = "create"))
  <2> DEFINE p == Progress([gen |-> 0, op |-> OpOf(call[c].kind), rev |-> rec.rev],
                           call[c].kind = "create")
  <2>1. rec.want = host.want
    BY <1>1, <1>6, AloneAtWork DEF Settled
  <2>2. flight.phase \notin Begun
    BY <1>1, WhoHasIt DEF Begun
  <2>3. Names(p.req, host.kind, host.want)
    BY <2>1, <2>2 DEF Names
  <2> HIDE DEF p
  <2>4. GiveUp(c, p)
    BY <1>6 DEF p
  <2> QED  BY <1>1, <2>3, <2>4, GiveUpLeads
<1> QED  BY <1>1, <1>2, <1>3, <1>4, <1>5, <1>6, PlanCases

LEMMA PlanDeleteLeads ==
    ASSUME LInv, BInv', NEW c \in Slots, PlanDelete(c) \/ PreparationFails(c)
    PROVE  LInv'
<1>1. /\ call[c].pc # "idle" /\ UNCHANGED <<cluster, helm>>
      /\ call \in [Slots -> Callbacks]
      /\ \/ GiveUp(c, Reply("success")) \/ GiveUp(c, Reply("error"))
         \/ Choose(c, "delete", rec.rev)
  BY CallFacts DEF PlanDelete, PreparationFails, LInv
<1>2. Reply("success").kind # "progress" /\ Reply("error").kind # "progress"
  BY DEF Reply
<1>3. CASE Choose(c, "delete", rec.rev)
  <2>1. Others(c) /\ call'[c].pc = "activate" /\ UNCHANGED <<flight, host>>
    BY <1>1, <1>3 DEF Choose, Others, Callbacks
  <2> QED  BY <1>1, <2>1, GoesOnLeading DEF EntryStep
<1> QED  BY <1>1, <1>2, <1>3, GiveUpLeads

LEMMA AwaitLeads ==
    ASSUME LInv, BInv', NEW c \in Slots,
           \/ AwaitRecorded(c) \/ AwaitOutcome(c) \/ AwaitOverdue(c)
           \/ AwaitForgotten(c) \/ AwaitFails(c)
    PROVE  LInv'
<1>1. /\ IInv /\ BInv /\ flight \in Flights /\ ChosenOK(c) /\ CallbackOK(c)
      /\ call[c].pc = "await" /\ UNCHANGED <<cluster, helm>>
      /\ flight.gen = call[c].gen /\ ~AwaitForgotten(c)
  BY CallFacts DEF AwaitRecorded, AwaitOutcome, AwaitOverdue, AwaitForgotten, AwaitFails,
                   LInv, Present
<1>2. EntryStep
  <2>1. UNCHANGED flight \/ flight' = Report(flight)
    BY DEF AwaitRecorded, AwaitOutcome, AwaitOverdue, AwaitForgotten, AwaitFails
  <2> QED  BY <1>1, <2>1, ReportIsStep DEF EntryStep
<1>3. \/ Answer(c, Progress(FlightReq, call[c].kind = "create"))
      \/ Answer(c, Reply("error")) \/ Answer(c, Reply("failure"))
  BY <1>1 DEF AwaitRecorded, AwaitOutcome, AwaitOverdue, AwaitFails
<1>4. Reply("error").kind # "progress" /\ Reply("failure").kind # "progress"
  BY DEF Reply
<1> DEFINE withhold == call[c].kind = "create"
<1>5. Names(Progress(FlightReq, withhold).req, host.kind, host.want)
  <2>1. /\ flight.phase \in Begun /\ flight.kind = host.kind
        /\ flight.want = host.want
    BY <1>1, AloneAtWork DEF CallbackOK, WaiterOK, ChosenOK
  <2> HIDE DEF withhold
  <2> QED  BY <2>1, EntryNames
<1> QED  BY <1>1, <1>2, <1>3, <1>4, <1>5, AnswerLeads, SilentLeads

(* The agent is told of the delete's entry, or waits for the entry's record. *)
LEMMA ActivateLeads == ASSUME LInv, BInv', NEW c \in Slots, Activate(c)  PROVE LInv'
<1>1. /\ BInv /\ Shape /\ helm \in [Actors -> Works] /\ call[c] \in Callbacks
      /\ call \in [Slots -> Callbacks] /\ flight \in Flights /\ ForceOK
      /\ call[c].pc = "activate" /\ flight.gen = call[c].gen /\ CallbackOK(c)
      /\ IInv /\ Owner(c)
  BY CallFacts DEF Shape, Activate, Owner, LInv
<1>2. /\ host.slot = c /\ \A d \in Slots \ {c} : call[d].pc = "idle"
      /\ call[c].kind = host.kind /\ host.stage # "poll"
  BY <1>1, AloneAtWork DEF CallbackOK, SentOK
<1>3. Worker = Idle /\ flight.phase = "preparing"
  BY <1>1, WhoHasIt
<1>4. UNCHANGED <<rec, live, hooksRan>> /\ Worker.step = "none"
  BY <1>3 DEF Activate, cluster, Idle
<1>5. ForceOK'
  BY <1>1, <1>4 DEF ForceOK, InForce
<1>6. /\ flight'.op = call[c].op /\ flight'.phase = "running"
      /\ flight'.gen = call[c].gen
  BY <1>1 DEF Activate, Flights
<1>7. CASE call[c].kind = "delete"
  <2> DEFINE p == Progress([gen |-> call[c].gen, op |-> "delete", rev |-> call[c].rev],
                           FALSE)
  <2>1. Answer(c, p) /\ p.req.gen = call[c].gen
    BY <1>7 DEF Activate, Progress
  <2>2. call[c].op = "delete"
    BY <1>1, <1>7 DEF CallbackOK, SentOK
  <2>3. p.kind = "progress"
    BY DEF Progress
  <2> HIDE DEF p
  <2>4. /\ call'[c] = NoCall /\ Others(c) /\ host'.req = p.req
        /\ host'.kind = "delete"
    BY <1>1, <1>2, <1>7, <2>1, <2>3, AnswerHost
  <2>5. Alone' /\ Present'
    BY <1>2, <2>4 DEF Alone, Present, Others, NoCall
  <2>6. PollOK'
    BY <1>6, <2>1, <2>2, <2>4 DEF PollOK, Names, Begun
  <2> QED  BY <1>5, <2>5, <2>6 DEF LInv
<1>8. CASE call[c].kind # "delete"
  <2>1. UNCHANGED host /\ call' = [call EXCEPT ![c].pc = "await"]
    BY <1>8 DEF Activate
  <2>2. call'[c].pc = "await" /\ call'[c].gen = call[c].gen /\ Others(c)
    BY <1>1, <2>1 DEF Others, Callbacks
  <2>3. Alone' /\ Present'
    BY <1>2, <1>6, <2>1, <2>2 DEF Alone, Present, Others
  <2>4. PollOK'
    BY <1>2, <2>1 DEF PollOK
  <2> QED  BY <1>5, <2>3, <2>4 DEF LInv
<1> QED  BY <1>7, <1>8

LEMMA PollsLead ==
    ASSUME LInv, BInv', NEW c \in Slots,
           \/ AcquireRecovery(c) \/ AcquireFlight(c) \/ ReadRecord(c) \/ ReadAbandoned(c)
           \/ Judge(c)
    PROVE  LInv'
<1>1. call[c].pc # "idle" /\ call \in [Slots -> Callbacks] /\ flight \in Flights
  BY CallFacts DEF AcquireRecovery, AcquireFlight, ReadRecord, ReadAbandoned, Judge, LInv
<1>2. UNCHANGED <<cluster, helm, host>>
  BY DEF AcquireRecovery, AcquireFlight, ReadRecord, ReadAbandoned, Judge
<1>3. Others(c) /\ call'[c].pc \in {"read", "reconcile", "judge", "rewrite"}
  <2>1. CASE AcquireRecovery(c) \/ AcquireFlight(c)
    <3>1. Others(c) /\ call'[c].pc = "read"
      BY <1>1, <2>1 DEF AcquireRecovery, AcquireFlight, Others, Callbacks
    <3> QED  BY <3>1
  <2>2. CASE ReadRecord(c)
    <3>1. PICK reply :
            call' = [call EXCEPT ![c].pc = "reconcile", ![c].got = reply, ![c].seen = rec]
      BY <2>2 DEF ReadRecord
    <3>2. Others(c) /\ call'[c].pc = "reconcile"
      BY <1>1, <3>1 DEF Others, Callbacks
    <3> QED  BY <3>2
  <2>3. CASE ReadAbandoned(c)
    <3>1. Others(c) /\ call'[c].pc = "judge"
      BY <1>1, <2>3 DEF ReadAbandoned, Others, Callbacks
    <3> QED  BY <3>1
  <2>4. CASE Judge(c)
    <3>1. PICK verdict : call' = [call EXCEPT ![c].pc = "rewrite", ![c].seen.st = verdict]
      BY <2>4 DEF Judge
    <3>2. Others(c) /\ call'[c].pc = "rewrite"
      BY <1>1, <3>1 DEF Others, Callbacks
    <3> QED  BY <3>2
  <2> QED  BY <2>1, <2>2, <2>3, <2>4
<1>4. EntryStep
  <2>1. CASE AcquireRecovery(c)
    BY <2>1 DEF AcquireRecovery, EntryStep, NoFlight
  <2>2. CASE AcquireFlight(c)
    BY <1>1, <2>2 DEF AcquireFlight, EntryStep, SameEntry, Flights
  <2> QED  BY <2>1, <2>2 DEF ReadRecord, ReadAbandoned, Judge, EntryStep
<1> QED  BY <1>1, <1>2, <1>3, <1>4, GoesOnLeading

(* A poll that ends goes on naming what it asked. *)
LEMMA AnsweredPollLeads ==
    ASSUME LInv, BInv', NEW c \in Slots, call[c].pc # "idle", NEW STATE reply,
           Answer(c, reply), call[c].req.op \in Ops,
           reply.kind = "progress" => reply.req = call[c].req,
           UNCHANGED <<cluster, helm>>, EntryStep
    PROVE  LInv'
BY AloneAtWork, AnswerLeads

LEMMA LeaveLeads ==
    ASSUME LInv, BInv', NEW c \in Slots, Reconcile(c) \/ ReadFails(c)  PROVE LInv'
<1>1. /\ flight \in Flights /\ call[c].req.op \in Ops /\ call[c].pc # "idle"
      /\ call[c].pc = "reconcile" /\ call[c].got.kind = "progress" =>
           call[c].got.req = call[c].req
      /\ UNCHANGED <<cluster, helm>>
  BY CallFacts DEF CallbackOK, SentOK, Reconcile, ReadFails, LInv
<1>2. FlightOK'
  BY DEF BInv, AInv, IInv, Ownership
<1>3. ASSUME NEW STATE reply, reply.kind = "progress" => reply.req = call[c].req,
             Leave(c, reply, flight) \/ Leave(c, reply, Report(flight))
      PROVE  LInv'
  <2>1. Answer(c, reply) /\ EntryStep
    BY <1>1, <1>2, <1>3, LeaveIsStep DEF Leave
  <2> QED  BY <1>1, <1>3, <2>1, AnsweredPollLeads
<1>4. /\ Reply("error").kind = "error"
      /\ \A op : Withheld("failure", op).kind = "failure"
      /\ \A w : Progress(call[c].req, w).req = call[c].req
  BY DEF Reply, Withheld, Progress
<1>5. CASE Reconcile(c)
  <2>1. \/ Leave(c, call[c].got, flight)
        \/ Leave(c, Withheld("failure", flight.op), Report(flight))
        \/ Leave(c, Progress(call[c].req, flight.op = "install"), flight)
        \/ Leave(c, call[c].got, Report(flight))
    BY <1>5, ReconcileCases
  <2>2. call[c].pc = "reconcile"
    BY <1>5 DEF Reconcile
  <2>3. CASE Leave(c, call[c].got, flight) \/ Leave(c, call[c].got, Report(flight))
    BY <1>1, <1>3, <2>2, <2>3
  <2>4. CASE Leave(c, Withheld("failure", flight.op), Report(flight))
    BY <1>3, <1>4, <2>4
  <2>5. CASE Leave(c, Progress(call[c].req, flight.op = "install"), flight)
    <3> DEFINE p == Progress(call[c].req, flight.op = "install")
    <3>1. p.req = call[c].req
      BY DEF Progress
    <3> HIDE DEF p
    <3>2. Leave(c, p, flight)
      BY <2>5 DEF p
    <3> QED  BY <1>3, <3>1, <3>2
  <2> QED  BY <2>1, <2>3, <2>4, <2>5
<1>6. CASE ReadFails(c)
  <2>1. \/ Leave(c, Reply("error"), flight)
        \/ Leave(c, Withheld("failure", call[c].req.op), flight)
        \/ Leave(c, Withheld("failure", flight.op), flight)
        \/ Leave(c, Withheld("failure", flight.op), Report(flight))
        \/ Leave(c, Progress(call[c].req, TRUE), flight)
    BY <1>6 DEF ReadFails
  <2> QED  BY <1>3, <1>4, <2>1
<1> QED  BY <1>5, <1>6

LEMMA StatusLeads ==
    ASSUME LInv, BInv', NEW c \in Slots, RefuseStatus(c) \/ StatusVerdict(c)
    PROVE  LInv'
<1>1. /\ UNCHANGED <<cluster, helm>> /\ call[c].pc # "idle"
      /\ UNCHANGED flight \/ flight' = Report(flight)
      /\ Answer(c, Reply("conflict")) \/ Answer(c, Withheld("failure", flight.op))
  BY DEF RefuseStatus, StatusVerdict
<1>2. EntryStep
  BY <1>1, CallFacts, ReportIsStep DEF EntryStep, LInv
<1>3. Reply("conflict").kind = "conflict" /\ Withheld("failure", flight.op).kind = "failure"
  BY DEF Reply, Withheld
<1> QED  BY <1>1, <1>2, <1>3, SilentLeads

(* A recovery cannot confirm: what it finds pending has hooks. *)
LEMMA RewriteLeads == ASSUME LInv, BInv', NEW c \in Slots, Rewrite(c)  PROVE LInv'
<1>1. /\ BInv /\ IInv /\ JudgedOK(c) /\ RecordOK /\ ForceOK /\ PollOK
      /\ call[c].pc = "rewrite"
  BY CallFacts DEF LInv, Rewrite
<1>2. /\ Owner(c) /\ rec.st = "pending" /\ rec'.st = call[c].seen.st
      /\ rec'.rev = rec.rev /\ rec'.want = rec.want
      /\ call[c].seen.st = "deployed" => rec.want \notin Hooked
      /\ UNCHANGED <<flight, host>> /\ Others(c)
      /\ call'[c].pc \in {"plan", "read", "reconcile"}
  BY <1>1, RewriteStep
<1>3. rec.want \in Hooked
  <2>1. Worker.step = "none"
    BY <1>1, <1>2, WhoHasIt DEF Idle
  <2> QED  BY <1>1, <1>2, <2>1 DEF ForceOK, RecordOK
<1>4. rec'.st = "failed"
  BY <1>1, <1>2, <1>3 DEF JudgedOK
<1>5. Alone' /\ Present'
  <2>1. host.slot = c /\ \A d \in Slots \ {c} : call[d].pc = "idle"
    BY <1>1, AloneAtWork
  <2> QED  BY <1>2, <2>1 DEF Alone, Present, Others
<1>6. PollOK' /\ ForceOK'
  BY <1>1, <1>2, <1>4 DEF PollOK, Names, ForceOK
<1> QED  BY <1>5, <1>6 DEF LInv

LEMMA RewriteErrsLeads == ASSUME LInv, BInv', NEW c \in Slots, RewriteErrs(c)  PROVE LInv'
<1>1. /\ BInv /\ IInv /\ JudgedOK(c) /\ RecordOK /\ ForceOK /\ PollOK /\ Shape
      /\ call[c].pc = "rewrite"
  BY CallFacts DEF LInv, RewriteErrs
<1>2. /\ Owner(c) /\ flight.phase = "preparing" /\ rec.st = "pending"
      /\ rec' = rec \/ rec'.st = call[c].seen.st
      /\ rec'.rev = rec.rev /\ rec'.want = rec.want
      /\ call[c].seen.st = "deployed" => rec.want \notin Hooked
      /\ UNCHANGED <<live, hooksRan, helm>> /\ Others(c)
  BY <1>1, RewriteErrsStep
<1>3. Wants \subseteq Hooked /\ rec.want \in Hooked
  <2>1. Worker.step = "none"
    BY <1>1, <1>2, WhoHasIt DEF Idle
  <2> QED  BY <1>1, <1>2, <2>1 DEF ForceOK, RecordOK
<1>4. rec'.st \in {"pending", "failed"}
  BY <1>1, <1>2, <1>3 DEF JudgedOK
<1>5. ForceOK'
  BY <1>3, <1>4 DEF ForceOK
<1>6. host.slot = c /\ \A d \in Slots \ {c} : call[d].pc = "idle"
  BY <1>1, AloneAtWork
<1>7. CASE Answer(c, Reply("error")) /\ call'[c] = NoCall
  <2>1. host'.stage # "poll"
    BY <1>1, <1>6, <1>7, AnswerHost DEF Reply
  <2>2. \A d \in Slots : call'[d].pc = "idle"
    BY <1>2, <1>6, <1>7 DEF Others, NoCall
  <2> QED  BY <1>5, <2>1, <2>2 DEF LInv, Alone, Present, PollOK
<1>8. CASE UNCHANGED <<flight, host>> /\ call'[c].pc = "reconcile"
  <2>1. Alone' /\ Present'
    BY <1>2, <1>6, <1>8 DEF Alone, Present, Others
  <2>2. PollOK'
    BY <1>1, <1>2, <1>8 DEF PollOK, Names, Begun
  <2> QED  BY <1>5, <2>1, <2>2 DEF LInv
<1> QED  BY <1>1, <1>7, <1>8, RewriteErrsStep

LEMMA AgentLeads ==
    ASSUME LInv, BInv',
           \/ \E kind \in Kinds, w \in Wants \cup {Nothing} : Command(kind, w)
           \/ \E c \in Slots : Send(c)
    PROVE  LInv'
<1>1. /\ call \in [Slots -> Callbacks] /\ host \in Agents /\ HostOK
      /\ Alone /\ Present /\ PollOK /\ ForceOK
  BY DEF LInv, BInv, AInv, IInv, Shape, Ownership
<1>2. UNCHANGED <<rec, live, hooksRan, helm, flight>> /\ host.slot = 0
  BY <1>1 DEF Command, Send, cluster, HostOK
<1>3. \A d \in Slots : call[d].pc = "idle"
  BY <1>1, <1>2, SlotIsNotZero DEF Alone
<1>4. ForceOK'
  BY <1>1, <1>2 DEF ForceOK, InForce, Worker
<1>5. CASE \E kind \in Kinds, w \in Wants \cup {Nothing} : Command(kind, w)
  <2>1. UNCHANGED call /\ host'.stage = "submit"
    BY <1>1, <1>5 DEF Command, Agents
  <2> QED  BY <1>3, <1>4, <2>1 DEF LInv, Alone, Present, PollOK
<1>6. CASE \E c \in Slots : Send(c)
  <2>1. PICK c \in Slots : Send(c)
    BY <1>6
  <2>2. /\ Others(c) /\ call'[c].pc \in {"submit", "poll"}
    BY <1>1, <2>1 DEF Send, Others, NoCall
  <2>3. /\ host'.slot = c /\ host'.stage = host.stage /\ host'.kind = host.kind
        /\ host'.want = host.want /\ host'.req = host.req
    BY <1>1, <2>1 DEF Send, Agents
  <2>4. Alone' /\ Present'
    BY <1>3, <2>2, <2>3 DEF Alone, Present, Others
  <2>5. PollOK'
    BY <1>1, <1>2, <2>3 DEF PollOK, Names
  <2> QED  BY <1>4, <2>4, <2>5 DEF LInv
<1> QED  BY <1>5, <1>6

LEMMA TimeLeads ==
    ASSUME LInv, BInv', RecordAges \/ DeadlinePasses \/ RetireFlight  PROVE LInv'
<1>1. /\ flight \in Flights /\ rec \in Revisions
      /\ Alone /\ Present /\ PollOK /\ ForceOK
  BY DEF LInv, BInv, AInv, IInv, Shape
<1>2. UNCHANGED <<call, host, live, hooksRan, helm>>
  BY DEF RecordAges, DeadlinePasses, RetireFlight, cluster
<1>3. Alone'
  BY <1>1, <1>2 DEF Alone
<1>4. CASE RecordAges
  <2>1. /\ rec'.rev = rec.rev /\ rec'.want = rec.want /\ rec'.st = rec.st
        /\ rec'.own = rec.own /\ UNCHANGED flight
    BY <1>1, <1>4 DEF RecordAges, Revisions
  <2>2. Present' /\ PollOK'
    BY <1>1, <1>2, <2>1 DEF Present, PollOK, Names
  <2>3. ForceOK'
    BY <1>1, <1>2, <2>1 DEF ForceOK, InForce, Worker
  <2> QED  BY <1>3, <2>2, <2>3 DEF LInv
<1>5. CASE DeadlinePasses \/ RetireFlight
  <2>1. UNCHANGED rec
    BY <1>5 DEF DeadlinePasses, RetireFlight, cluster
  <2>2. EntryStep /\ Present'
    <3>1. CASE DeadlinePasses
      BY <1>1, <1>2, <3>1 DEF DeadlinePasses, EntryStep, SameEntry, Flights, Present
    <3>2. CASE RetireFlight
      BY <1>1, <1>2, <3>2, ReportIsStep DEF RetireFlight, Present
    <3> QED  BY <1>5, <3>1, <3>2
  <2>3. PollOK'
    BY <1>1, <1>2, <2>1, <2>2, PollStays DEF PollOK
  <2>4. ForceOK'
    BY <1>1, <1>2, <2>1 DEF ForceOK, InForce, Worker
  <2> QED  BY <1>3, <2>2, <2>3, <2>4 DEF LInv
<1> QED  BY <1>4, <1>5

(* The worker dies: what it leaves pending has hooks. *)
LEMMA CrashLeads ==
    ASSUME NeverConfirmed, LInv, BInv', PluginCrashes  PROVE LInv'
<1>1. host \in Agents /\ ForceOK /\ PollOK /\ spent.crash \in Nat
  BY DEF LInv, BInv, AInv, IInv, Shape, Spending
<1>2. Wants \subseteq Hooked
  BY <1>1 DEF PluginCrashes, May, NeverConfirmed
<1>3. UNCHANGED <<rec, live, hooksRan>> /\ flight' = NoFlight
  BY DEF PluginCrashes, cluster
<1>4. \A c \in Slots : call'[c].pc = "idle"
  BY DEF PluginCrashes, NoCall
<1>5. Alone' /\ Present'
  BY <1>4 DEF Alone, Present
<1>6. ForceOK'
  BY <1>1, <1>2, <1>3 DEF ForceOK, InForce
<1>7. PollOK'
  <2>1. host'.stage = "poll" =>
          /\ host.stage = "poll" /\ host'.req = host.req
          /\ host'.kind = host.kind /\ host'.want = host.want
    <3>1. CASE host.slot = 0
      BY <3>1 DEF PluginCrashes
    <3>2. CASE host.slot # 0
      <4>1. PICK stage \in {host.stage, "idle"} :
              host' = [host EXCEPT !.slot = 0, !.stage = stage,
                         !.req = IF stage = "poll" THEN @ ELSE NoReq]
        BY <3>2 DEF PluginCrashes
      <4>2. /\ host'.kind = host.kind /\ host'.want = host.want /\ host'.stage = stage
            /\ stage = "poll" => host'.req = host.req
        BY <1>1, <4>1 DEF Agents
      <4> QED  BY <4>1, <4>2
    <3> QED  BY <3>1, <3>2
  <2> QED  BY <1>1, <1>3, <2>1, PollStays DEF PollOK, EntryStep
<1> QED  BY <1>5, <1>6, <1>7 DEF LInv

(* A step of the worker's: the entry goes on naming what it named. *)
LEMMA WorkerLeads ==
    ASSUME LInv, BInv', Worker.step # "none", UNCHANGED <<call, host>>,
           flight'.gen = flight.gen, flight'.want = flight.want, flight'.op = flight.op,
           flight'.rev = flight.rev, flight'.phase \in Begun, ForceOK'
    PROVE  LInv'
<1>1. /\ flight.phase = "running" /\ Alone /\ Present /\ PollOK
  BY WorkerPhase DEF LInv, BInv, AInv
<1>2. Alone' /\ Present' /\ PollOK'
  BY <1>1 DEF Alone, Present, PollOK, Names, Begun
<1> QED  BY <1>2 DEF LInv

LEMMA WorkLeads ==
    ASSUME LInv, BInv',
           \/ HelmRecords("plugin") \/ HelmRunsHooks("plugin") \/ HelmFinishes("plugin")
           \/ \E o \in Objs : HelmApplies("plugin", o)
    PROVE  LInv'
<1>1. Worker.step \in {"begin", "apply", "record"} /\ BInv /\ ForceOK
  BY DEF HelmRecords, HelmRunsHooks, HelmFinishes, HelmApplies, Worker, LInv
<1>2. /\ Worker.op \in Ops /\ rec \in Revisions /\ helm \in [Actors -> Works]
      /\ Worker \in Works /\ WorkerOK /\ RecordOK /\ "plugin" \in Actors
      /\ flight.phase = "running"
  BY <1>1, BWorkerFacts
<1>3. /\ Worker.step = "record" /\ Worker.op # "delete" =>
           rec.st = "pending" /\ rec.rev = Worker.rev
  BY <1>2 DEF WorkerOK
<1>4. UNCHANGED <<call, host, flight>>
  BY <1>1, <1>2, <1>3 DEF HelmRecords, HelmRunsHooks, HelmFinishes, HelmApplies, Worker,
                          Revisions
<1>5. ForceOK'
  <2>1. CASE HelmRecords("plugin")
    <3>1. rec' = Recorded("plugin")
      BY <2>1 DEF HelmRecords, Recorded
    <3>2. rec'.st \in {"pending", "uninstalling"}
      BY <1>2, <3>1 DEF Recorded, Revisions, Worker, Ops
    <3>3. helm' = [helm EXCEPT !["plugin"].step = "apply", !["plugin"].left = Objs,
                               !["plugin"].rev = rec'.rev]
      BY <2>1 DEF HelmRecords
    <3>4. Worker'.step = "apply"
      BY <1>2, <3>3 DEF Worker, Works
    <3> QED  BY <3>2, <3>4 DEF ForceOK
  <2>2. CASE HelmRunsHooks("plugin") \/ \E o \in Objs : HelmApplies("plugin", o)
    <3>1. Worker.step = "apply" /\ rec.st # "deployed" /\ UNCHANGED rec
      BY <1>2, <2>2 DEF HelmRunsHooks, HelmApplies, Worker, WorkerOK
    <3>2. Worker'.step \in {"apply", "record"}
      BY <1>2, <2>2 DEF HelmRunsHooks, HelmApplies, Worker, Works
    <3> QED  BY <3>1, <3>2 DEF ForceOK
  <2>3. CASE HelmFinishes("plugin")
    <3> DEFINE r == [rec EXCEPT !.rev = Worker.rev, !.st = "deployed", !.want = Worker.want]
    <3>1. /\ r \in Revisions /\ r.rev = Worker.rev /\ r.want = Worker.want
          /\ r.st = "deployed" /\ r.own = rec.own
      BY <1>2 DEF Revisions, Statuses, Works
    <3> HIDE DEF r
    <3>2. /\ Worker.step = "record" /\ UNCHANGED <<live, hooksRan>>
          /\ Worker.op = "delete" => rec' = NoRec
      BY <2>3 DEF HelmFinishes, Worker
    <3>3. Worker.op # "delete" => Stored(r)
      BY <1>2, <1>3, <2>3, <3>2 DEF HelmFinishes, Worker, Revisions, r
    <3>4. CASE Worker.op = "delete"
      BY <3>2, <3>4 DEF NoRec, ForceOK
    <3>5. CASE Worker.op # "delete"
      <4>1. /\ rec'.st = "deployed" /\ rec'.rev = Worker.rev /\ rec'.own = rec.own
            /\ rec'.want = Worker.want
        BY <1>2, <1>3, <3>1, <3>2, <3>3, <3>5, StoredType
      <4>2. rec.own /\ \A o \in Objs : live[o] = Worker.want
        BY <1>2, <1>3, <3>2, <3>5 DEF WorkerOK, Applied, RecordOK
      <4>3. Worker.want \in Hooked => hooksRan = Worker.rev
        BY <1>2, <3>2, <3>5 DEF WorkerOK
      <4> QED  BY <3>2, <4>1, <4>2, <4>3 DEF ForceOK, InForce
    <3> QED  BY <3>4, <3>5
  <2> QED  BY <2>1, <2>2, <2>3
<1> QED  BY <1>1, <1>2, <1>4, <1>5, WorkerLeads DEF Begun

LEMMA StopsLead ==
    ASSUME LInv, BInv',
           HelmRefuses("plugin") \/ HelmReturns("plugin") \/ HelmFails("plugin")
    PROVE  LInv'
<1>1. Worker.step # "none" /\ BInv /\ ForceOK
  BY DEF HelmRefuses, HelmReturns, HelmFails, Worker, LInv
<1>2. /\ flight \in Flights /\ flight.phase = "running" /\ rec \in Revisions
      /\ Worker.op \in Ops /\ Worker \in Works
      /\ helm \in [Actors -> Works] /\ WorkerOK /\ "plugin" \in Actors
  BY <1>1, BWorkerFacts
<1>3. PICK phase \in {"ok", "err"} : Ends("plugin", phase)
  BY DEF HelmRefuses, HelmReturns, HelmFails
<1>4. /\ flight'.phase = phase /\ flight'.op = flight.op
      /\ flight'.gen = flight.gen /\ flight'.want = flight.want /\ flight'.rev = flight.rev
  BY <1>2, <1>3 DEF Ends, Flights
<1>5. UNCHANGED <<call, host, live, hooksRan>>
  BY DEF HelmRefuses, HelmReturns, HelmFails, cluster
<1>6. \/ rec'.st = "failed"
      \/ rec' = rec /\ (rec.st = "pending" => Worker.step \in {"begin", "return"})
  <2>1. CASE HelmRefuses("plugin") \/ HelmReturns("plugin")
    BY <2>1 DEF HelmRefuses, HelmReturns, cluster, Worker
  <2>2. CASE HelmFails("plugin")
    BY <1>2, <2>2 DEF HelmFails, Worker, WorkerOK, Revisions, Works
  <2> QED  BY <2>1, <2>2
<1>7. rec' = rec /\ rec.st = "pending" => Wants \subseteq Hooked
  BY <1>1, <1>6 DEF ForceOK
<1>8. ForceOK'
  BY <1>1, <1>5, <1>6, <1>7 DEF ForceOK, InForce
<1> QED  BY <1>1, <1>4, <1>5, <1>8, WorkerLeads DEF Begun

LEMMA StartLeads == Init => LInv
<1> SUFFICES ASSUME Init  PROVE LInv
  OBVIOUS
<1>1. BInv
  BY StartChooses
<1>2. Alone /\ Present /\ PollOK /\ ForceOK
  BY DEF Init, Alone, Present, PollOK, ForceOK, NoCall, NoRec
<1> QED  BY <1>1, <1>2 DEF LInv

LEMMA StepLeads ==
    ASSUME MaxCli = 0, MaxRestart = 0, NeverConfirmed, LInv, [Next]_vars  PROVE LInv'
<1>1. BInv /\ BInv' /\ AInv
  BY StepChooses DEF LInv, BInv
<1>2. ASSUME NEW c \in Slots,
             \/ Send(c)
             \/ Reserve(c) \/ Rejoin(c) \/ Plan(c) \/ PlanDelete(c) \/ Activate(c)
             \/ AwaitRecorded(c) \/ AwaitOutcome(c) \/ AwaitOverdue(c)
             \/ AwaitForgotten(c)
             \/ AcquireRecovery(c) \/ RefuseStatus(c) \/ StatusVerdict(c)
             \/ AcquireFlight(c) \/ ReadRecord(c) \/ ReadAbandoned(c) \/ Reconcile(c)
             \/ Judge(c) \/ Rewrite(c) \/ RewriteFails(c)
             \/ PreparationFails(c) \/ AwaitFails(c) \/ ReadFails(c) \/ RewriteErrs(c)
      PROVE  LInv'
  BY <1>1, <1>2, AgentLeads, ReserveLeads, RejoinLeads, PlanLeads, PlanDeleteLeads,
     ActivateLeads, AwaitLeads, PollsLead, StatusLeads, LeaveLeads, RewriteLeads,
     RewriteErrsLeads, NoRewriteFails
<1>3. ASSUME NEW a \in Actors,
             \/ HelmRecords(a) \/ HelmRefuses(a) \/ HelmRunsHooks(a)
             \/ HelmFinishes(a) \/ HelmReturns(a) \/ HelmFails(a)
             \/ \E o \in Objs : HelmApplies(a, o)
      PROVE  LInv'
  <2>1. CASE a = "plugin"
    BY <1>1, <1>3, <2>1, WorkLeads, StopsLead
  <2>2. CASE a = "cli"
    BY <1>1, <1>3, <2>2, NobodyElse
  <2> QED  BY <2>1, <2>2 DEF Actors
<1>4. ~AgentRestarts
  <2>1. spent.restart \in Nat
    BY <1>1 DEF AInv, IInv, Shape, Spending
  <2> QED  BY <2>1 DEF AgentRestarts, May
<1>5. CASE UNCHANGED vars
  <2>1. UNCHANGED <<rec, live, hooksRan, helm, call, flight, host>>
    BY <1>5 DEF vars
  <2> QED  BY <1>1, <2>1 DEF LInv, Alone, Present, PollOK, Names, ForceOK, InForce, Worker
<1> QED  BY <1>1, <1>2, <1>3, <1>4, <1>5, NextCases, NobodyElse, AgentLeads, TimeLeads,
            CrashLeads

-----------------------------------------------------------------------------
(* What the agent polls for is what it asked for: the entry or the record at *)
(* the revision it was given is of the state it wants, and a deployed record *)
(* is in force.                                                              *)
THEOREM PollsNameTheWanted ==
    ASSUME MaxCli = 0, MaxRestart = 0, NeverConfirmed  PROVE Spec => []LInv
<1>1. Init => LInv
  BY StartLeads
<1>2. LInv /\ [Next]_vars => LInv'
  BY StepLeads
<1> QED  BY <1>1, <1>2, PTL DEF Spec

LEMMA SuccessIsFound ==
    ASSUME LInv, [Next]_vars, Told("success")
    PROVE  IF host.kind = "delete"
           THEN rec.st = "none" /\ \A o \in Objs : live[o] = Nothing
           ELSE InForce(host.want)
<1>1. BInv /\ IInv /\ RecordOK /\ EntryOK /\ ForceOK
  BY DEF LInv, BInv, AInv
<1>2. PICK c \in Slots :
        /\ host.slot = c
        /\ \/ PlanDelete(c) /\ rec.st = "none"
           \/ /\ Reconcile(c) /\ call[c].got.kind = "success"
              /\ Owner(c) \/ (Reader(c) /\ flight.phase = "ok")
  BY <1>1, SuccessIsTold
<1>3. CASE PlanDelete(c) /\ rec.st = "none"
  <2>1. host.kind = "delete"
    BY <1>1, <1>2, <1>3, PollIsAsked DEF PlanDelete
  <2> QED  BY <1>1, <1>3, <2>1 DEF RecordOK
<1>4. CASE /\ Reconcile(c) /\ call[c].got.kind = "success"
           /\ Owner(c) \/ (Reader(c) /\ flight.phase = "ok")
  <2>1. call[c].pc = "reconcile" /\ ChosenOK(c) /\ CallbackOK(c)
    BY <1>1, <1>4, CallFacts DEF Reconcile
  <2>2. /\ call[c].req = host.req /\ call[c].req.op \in Ops
        /\ (host.req.op = "delete") = (host.kind = "delete")
        /\ Names(host.req, host.kind, host.want)
    BY <2>1, AloneAtWork DEF CallbackOK, SentOK
  <2>3. CASE Owner(c)
    <3>1. flight.phase \notin Begun
      BY <1>1, <2>3, WhoHasIt DEF Begun
    <3>2. IF host.kind = "delete" THEN rec.st = "none"
          ELSE rec.st = "deployed" /\ rec.want = host.want
      BY <1>4, <2>1, <2>2, <2>3, <3>1 DEF ChosenOK, Names
    <3> QED  BY <1>1, <3>2 DEF RecordOK, ForceOK
  <2>4. CASE Reader(c) /\ flight.phase = "ok"
    <3>1. flight.op = host.req.op
      BY <2>1, <2>2, <2>4 DEF ChosenOK
    <3>2. IF host.kind = "delete" THEN rec.st = "none"
          ELSE rec.st = "deployed" /\ rec.want = host.want
      BY <1>1, <2>2, <2>4, <3>1 DEF RecordOK, EntryOK, Names, Begun
    <3> QED  BY <1>1, <3>2 DEF RecordOK, ForceOK
  <2> QED  BY <1>4, <2>3, <2>4
<1> QED  BY <1>2, <1>3, <1>4

(* SuccessIsLive: an agent that does not restart is told of success only     *)
(* when the record, every object and the post-deploy hooks are those of the  *)
(* state it asked for, or nothing is left; whatever faults, deadlines and    *)
(* retirements come between, and across crashes of the plugin when every     *)
(* chart has hooks.                                                          *)
THEOREM SuccessHolds ==
    ASSUME MaxCli = 0, MaxRestart = 0, NeverConfirmed  PROVE Spec => SuccessIsLive
<1> DEFINE A == Told("success") =>
                  IF host.kind = "delete"
                  THEN rec.st = "none" /\ \A o \in Objs : live[o] = Nothing
                  ELSE InForce(host.want)
<1>1. LInv /\ [Next]_vars => [A]_vars
  BY SuccessIsFound
<1> QED  BY <1>1, PollsNameTheWanted, PTL DEF Spec, SuccessIsLive

-----------------------------------------------------------------------------
(* What the agent can rely on between its commands *)

(* The release is in one state at most. *)
LEMMA OneState == \A v, w \in At : v = w
BY DEF At, Serves, InForce

LEMMA StateStays == UNCHANGED <<rec, live, hooksRan>> => UNCHANGED At
BY DEF At, Serves, InForce

LEMMA Stutters ==
    ASSUME UNCHANGED <<At, Asked, Promised, Owed>>, spent'.restart = spent.restart
    PROVE  [Promise!Next]_(Promise!vars)
BY DEF Promise!vars

(* Work on what is owed leads to what is owed. *)
LEMMA WorksPromised ==
    ASSUME UNCHANGED <<Asked, Promised>>, spent'.restart = spent.restart,
           At' \in {At, {}} \cup {{w} : w \in Owed},
           Owed # {}, Owed' \subseteq Owed, Asked \subseteq Owed'
    PROVE  [Promise!Next]_(Promise!vars)
BY DEF Promise!Next, Promise!Work

(* While a callback is at work, the agent waits for it. *)
LEMMA OneServed ==
    ASSUME LInv, NEW c \in Slots, call[c].pc # "idle"
    PROVE  /\ host.slot = c /\ call[c].want = host.want
           /\ Asked = {host.want} /\ Promised = {} /\ Serving = {host.want}
           /\ Owed = {host.want} \cup Working
<1>1. /\ host.slot = c /\ \A d \in Slots \ {c} : call[d].pc = "idle"
      /\ call[c].want = host.want /\ HostOK
  BY AloneAtWork, CallFacts DEF LInv, IInv, Ownership
<1>2. host.stage # "idle"
  BY <1>1, SlotIsNotZero DEF HostOK
<1>3. Serving = {host.want}
  BY <1>1 DEF Serving
<1> QED  BY <1>1, <1>2, <1>3 DEF Asked, Promised, Owed

(* A callback that has not answered yet. *)
Proceeds(c) == /\ UNCHANGED host /\ Others(c)
             /\ call'[c].pc # "idle" /\ call'[c].want = call[c].want

(* Only a worker that starts adds to the work that goes on. *)
Engages == \/ UNCHANGED helm
           \/ Working = {} /\ Working' = {host.want}

LEMMA GoesOnPromised ==
    ASSUME LInv, NEW c \in Slots, call[c].pc # "idle", Proceeds(c),
           UNCHANGED At, Engages, spent'.restart = spent.restart
    PROVE  [Promise!Next]_(Promise!vars)
<1>1. /\ call[c].want = host.want /\ Asked = {host.want}
      /\ Serving = {host.want} /\ Owed = {host.want} \cup Working
      /\ \A d \in Slots \ {c} : call[d].pc = "idle"
  BY OneServed, AloneAtWork
<1>2. UNCHANGED <<Asked, Promised>>
  BY DEF Proceeds, Asked, Promised
<1>3. Serving' = {host.want}
  BY <1>1 DEF Proceeds, Others, Serving
<1>4. Owed' = {host.want} \cup Working'
  BY <1>1, <1>2, <1>3 DEF Owed
<1>5. {host.want} \cup Working' = {host.want} \cup Working
  BY DEF Engages, Working
<1> QED  BY <1>1, <1>2, <1>4, <1>5, Stutters

(* A callback that answers: the command goes on, fails, or has succeeded.    *)
LEMMA AnswersPromised ==
    ASSUME LInv, BInv', [Next]_vars, NEW c \in Slots, call[c].pc # "idle",
           NEW STATE reply, Answer(c, reply), UNCHANGED At,
           UNCHANGED helm \/ (reply.kind = "progress" /\ Engages),
           spent'.restart = spent.restart
    PROVE  [Promise!Next]_(Promise!vars)
<1>1. /\ host.slot = c /\ call[c].want = host.want /\ Asked = {host.want}
      /\ Promised = {} /\ Owed = {host.want} \cup Working
      /\ \A d \in Slots \ {c} : call[d].pc = "idle"
      /\ Shape /\ BInv
  BY OneServed, AloneAtWork
<1>2. /\ call'[c] = NoCall /\ Others(c)
      /\ host'.slot = 0 /\ host'.told = reply.kind
      /\ host'.kind = host.kind /\ host'.want = host.want
      /\ host'.stage = "poll" <=> reply.kind = "progress"
  BY <1>1, AnswerHost
<1>3. HostOK /\ HostOK' /\ IInv
  BY <1>1 DEF BInv, AInv, IInv, Ownership
<1>4. Serving' = {}
  BY <1>1, <1>2 DEF Serving, Others, NoCall
<1>5. Engages /\ (UNCHANGED helm => UNCHANGED Working)
  BY DEF Engages, Working
<1>6. CASE host'.stage # "idle"
  <2>1. Asked' = {host.want} /\ Promised' = {}
    BY <1>2, <1>6 DEF Asked, Promised
  <2>2. Owed' = {host.want} \cup Working'
    BY <1>4, <2>1 DEF Owed
  <2>3. {host.want} \cup Working' = {host.want} \cup Working
    BY <1>5 DEF Engages
  <2> QED  BY <1>1, <2>1, <2>2, <2>3, Stutters
<1>7. CASE host'.stage = "idle"
  <2>1. Asked' = {} /\ UNCHANGED Working
    BY <1>2, <1>5, <1>7 DEF Asked
  <2>2. Owed' = Working
    BY <1>4, <2>1 DEF Owed
  <2>3. CASE reply.kind # "success"
    <3>1. Promised' = {}
      BY <1>2, <2>3 DEF Promised
    <3> QED  BY <1>1, <2>1, <2>2, <3>1 DEF Promise!Next, Promise!Fail
  <2>4. CASE reply.kind = "success"
    <3>1. Told("success")
      BY <1>1, <1>2, <2>4, SlotIsNotZero DEF Told
    <3>2. Working = {}
      BY <1>3, <3>1, SuccessIsQuiet DEF Working, Idle
    <3>3. At = {host.want}
      <4>1. host.want \in Wants \cup {Nothing} /\ host.stage # "idle"
        BY <1>1, <1>3, SlotIsNotZero DEF Shape, Agents, HostOK
      <4>2. (host.kind = "delete") = (host.want = Nothing)
        BY <1>3, <4>1 DEF HostOK
      <4>3. Serves(host.want)
        BY <3>1, <4>2, SuccessIsFound DEF Serves
      <4> QED  BY <4>1, <4>3, OneState DEF At
    <3>4. Promised' = {host.want}
      BY <1>2, <1>7, <2>4 DEF Promised
    <3> QED  BY <1>1, <2>1, <2>2, <3>2, <3>3, <3>4 DEF Promise!Next, Promise!Succeed
  <2> QED  BY <2>3, <2>4
<1> QED  BY <1>6, <1>7

LEMMA CallbackPromised ==
    ASSUME LInv, BInv', [Next]_vars, NEW c \in Slots, call[c].pc # "idle",
           UNCHANGED cluster, UNCHANGED helm, spent'.restart = spent.restart,
           Proceeds(c) \/ \E reply : Answer(c, reply)
    PROVE  [Promise!Next]_(Promise!vars)
<1>1. Engages /\ UNCHANGED At
  BY StateStays DEF Engages, cluster
<1>2. CASE Proceeds(c)
  BY <1>1, <1>2, GoesOnPromised
<1>3. CASE \E reply : Answer(c, reply)
  <2>1. PICK reply : Answer(c, reply)
    BY <1>3
  <2> QED  BY <1>1, <2>1, AnswersPromised
<1> QED  BY <1>2, <1>3

LEMMA RestartsStay ==
    ASSUME LInv, NEW what \in {"commands", "crash", "cli", "fault"},
           UNCHANGED spent \/ Spend(what)
    PROVE  spent'.restart = spent.restart
<1>1. spent \in Spending
  BY DEF LInv, BInv, AInv, IInv, Shape
<1> QED  BY <1>1 DEF Spend, Spending

LEMMA SubmitPromised ==
    ASSUME LInv, BInv', [Next]_vars, NEW c \in Slots,
           \/ Reserve(c) \/ Rejoin(c) \/ Plan(c) \/ PlanDelete(c) \/ PreparationFails(c)
    PROVE  [Promise!Next]_(Promise!vars)
<1>1. /\ call[c].pc # "idle" /\ UNCHANGED <<cluster, helm>>
      /\ UNCHANGED spent \/ Spend("fault")
  BY DEF Reserve, Rejoin, Plan, PlanDelete, PreparationFails
<1>2. call \in [Slots -> Callbacks] /\ spent'.restart = spent.restart /\ AInv /\ IInv
  BY <1>1, RestartsStay, CallFacts DEF LInv
<1>3. ASSUME NEW op, NEW target, Choose(c, op, target)  PROVE Proceeds(c)
  BY <1>2, <1>3 DEF Choose, Proceeds, Others, Callbacks
<1>4. ASSUME NEW STATE reply, GiveUp(c, reply)  PROVE \E r : Answer(c, r)
  BY <1>4 DEF GiveUp
<1>5. CASE Reserve(c)
  BY <1>1, <1>2, <1>5, CallbackPromised DEF Reserve, Proceeds, Others, Callbacks
<1>6. CASE Rejoin(c)
  <2>1. \E reply : Answer(c, reply)
    BY <1>6 DEF Rejoin
  <2> QED  BY <1>1, <1>2, <2>1, CallbackPromised
<1>7. CASE Plan(c)
  <2>1. \/ \E op, target : Choose(c, op, target)
        \/ /\ call' = [call EXCEPT ![c].pc = "judge", ![c].seen = rec]
           /\ UNCHANGED <<flight, host>>
        \/ \E reply : GiveUp(c, reply)
    BY <1>2, <1>7, PlanCases DEF IInv
  <2>2. CASE \E op, target : Choose(c, op, target)
    BY <1>1, <1>2, <1>3, <2>2, CallbackPromised
  <2>3. CASE /\ call' = [call EXCEPT ![c].pc = "judge", ![c].seen = rec]
             /\ UNCHANGED <<flight, host>>
    <3>1. Proceeds(c)
      BY <1>2, <2>3 DEF Proceeds, Others, Callbacks
    <3> QED  BY <1>1, <1>2, <3>1, CallbackPromised
  <2>4. CASE \E reply : GiveUp(c, reply)
    BY <1>1, <1>2, <1>4, <2>4, CallbackPromised
  <2> QED  BY <2>1, <2>2, <2>3, <2>4
<1>8. CASE PlanDelete(c) \/ PreparationFails(c)
  <2>1. \/ GiveUp(c, Reply("success")) \/ GiveUp(c, Reply("error"))
        \/ Choose(c, "delete", rec.rev)
    BY <1>8 DEF PlanDelete, PreparationFails
  <2> QED  BY <1>1, <1>2, <1>3, <1>4, <2>1, CallbackPromised
<1> QED  BY <1>5, <1>6, <1>7, <1>8

LEMMA ActivatePromised ==
    ASSUME LInv, BInv', [Next]_vars, NEW c \in Slots, Activate(c)
    PROVE  [Promise!Next]_(Promise!vars)
<1>1. /\ call[c].pc # "idle" /\ UNCHANGED <<cluster, spent>> /\ Owner(c)
  BY DEF Activate, Owner
<1>2. /\ call \in [Slots -> Callbacks] /\ helm \in [Actors -> Works] /\ "plugin" \in Actors
      /\ IInv /\ UNCHANGED At /\ call[c].want = host.want
  BY <1>1, CallFacts, OneServed, StateStays DEF LInv, Shape, Actors, cluster
<1>3. Working = {}
  BY <1>1, <1>2, WhoHasIt DEF Working, Worker, Idle
<1>4. Working' = {host.want}
  BY <1>2 DEF Activate, Working, Idle
<1>5. Engages
  BY <1>3, <1>4 DEF Engages
<1>6. CASE call[c].kind = "delete"
  <2> DEFINE p == Progress([gen |-> call[c].gen, op |-> "delete", rev |-> call[c].rev],
                           FALSE)
  <2>1. Answer(c, p) /\ p.kind = "progress"
    BY <1>6 DEF Activate, Progress
  <2> HIDE DEF p
  <2> QED  BY <1>1, <1>2, <1>5, <2>1, AnswersPromised
<1>7. CASE call[c].kind # "delete"
  <2>1. UNCHANGED host /\ call' = [call EXCEPT ![c].pc = "await"]
    BY <1>7 DEF Activate
  <2>2. Proceeds(c)
    BY <1>2, <2>1 DEF Proceeds, Others, Callbacks
  <2> QED  BY <1>1, <1>2, <1>5, <2>2, GoesOnPromised
<1> QED  BY <1>6, <1>7

LEMMA AnsweringPromised ==
    ASSUME LInv, BInv', [Next]_vars, NEW c \in Slots,
           \/ AwaitRecorded(c) \/ AwaitOutcome(c) \/ AwaitOverdue(c)
           \/ AwaitForgotten(c) \/ AwaitFails(c)
           \/ RefuseStatus(c) \/ StatusVerdict(c) \/ Reconcile(c) \/ ReadFails(c)
    PROVE  [Promise!Next]_(Promise!vars)
<1>1. /\ call[c].pc # "idle" /\ UNCHANGED <<cluster, helm>>
      /\ UNCHANGED spent \/ Spend("fault")
  BY DEF AwaitRecorded, AwaitOutcome, AwaitOverdue, AwaitForgotten, AwaitFails,
         RefuseStatus, StatusVerdict, Reconcile, ReadFails
<1>2. \E reply : Answer(c, reply)
  <2>1. CASE AwaitRecorded(c) \/ AwaitOutcome(c) \/ AwaitOverdue(c)
             \/ AwaitForgotten(c) \/ AwaitFails(c)
    BY <2>1 DEF AwaitRecorded, AwaitOutcome, AwaitOverdue, AwaitForgotten, AwaitFails
  <2>2. CASE RefuseStatus(c) \/ StatusVerdict(c)
    BY <2>2 DEF RefuseStatus, StatusVerdict
  <2>3. ASSUME NEW STATE reply, NEW STATE f, Leave(c, reply, f)
        PROVE  \E r : Answer(c, r)
    BY <2>3 DEF Leave
  <2>4. CASE Reconcile(c)
    BY <2>3, <2>4, ReconcileCases
  <2>5. CASE ReadFails(c)
    BY <2>3, <2>5 DEF ReadFails
  <2> QED  BY <2>1, <2>2, <2>4, <2>5
<1>3. spent'.restart = spent.restart
  BY <1>1, RestartsStay
<1> QED  BY <1>1, <1>2, <1>3, CallbackPromised

LEMMA PollsPromised ==
    ASSUME LInv, BInv', [Next]_vars, NEW c \in Slots,
           \/ AcquireRecovery(c) \/ AcquireFlight(c) \/ ReadRecord(c) \/ ReadAbandoned(c)
           \/ Judge(c)
    PROVE  [Promise!Next]_(Promise!vars)
<1>1. /\ call[c].pc # "idle" /\ UNCHANGED <<cluster, helm, host, spent>>
      /\ call \in [Slots -> Callbacks]
  BY CallFacts DEF AcquireRecovery, AcquireFlight, ReadRecord, ReadAbandoned, Judge, LInv
<1>2. Proceeds(c)
  <2>1. CASE AcquireRecovery(c) \/ AcquireFlight(c) \/ ReadAbandoned(c)
    <3>1. /\ Others(c) /\ call'[c].pc \in {"read", "judge"}
          /\ call'[c].want = call[c].want
      BY <1>1, <2>1 DEF AcquireRecovery, AcquireFlight, ReadAbandoned, Others, Callbacks
    <3> QED  BY <1>1, <3>1 DEF Proceeds
  <2>2. CASE ReadRecord(c)
    <3>1. PICK reply :
            call' = [call EXCEPT ![c].pc = "reconcile", ![c].got = reply, ![c].seen = rec]
      BY <2>2 DEF ReadRecord
    <3> QED  BY <1>1, <3>1 DEF Proceeds, Others, Callbacks
  <2>3. CASE Judge(c)
    <3>1. PICK verdict : call' = [call EXCEPT ![c].pc = "rewrite", ![c].seen.st = verdict]
      BY <2>3 DEF Judge
    <3> QED  BY <1>1, <3>1 DEF Proceeds, Others, Callbacks
  <2> QED  BY <2>1, <2>2, <2>3
<1> QED  BY <1>1, <1>2, CallbackPromised

(* A recovery finds the release in no state and leaves it in none. *)
LEMMA RewritePromised ==
    ASSUME LInv, BInv', [Next]_vars, NEW c \in Slots, Rewrite(c)
    PROVE  [Promise!Next]_(Promise!vars)
<1>1. /\ BInv /\ IInv /\ JudgedOK(c) /\ RecordOK /\ ForceOK /\ call[c].pc = "rewrite"
      /\ call \in [Slots -> Callbacks]
      /\ UNCHANGED <<live, hooksRan, helm, host, spent>>
  BY CallFacts DEF LInv, Rewrite
<1>2. /\ Owner(c) /\ rec.st = "pending" /\ rec'.st = call[c].seen.st
      /\ call[c].seen.st = "deployed" => rec.want \notin Hooked
      /\ Others(c) /\ call'[c].pc \in {"plan", "read", "reconcile"}
  BY <1>1, RewriteStep
<1>3. rec'.st = "failed"
  <2>1. Worker.step = "none"
    BY <1>1, <1>2, WhoHasIt DEF Idle
  <2> QED  BY <1>1, <1>2, <2>1 DEF ForceOK, RecordOK, JudgedOK
<1>4. At = {} /\ At' = {}
  BY <1>2, <1>3 DEF At, Serves, InForce
<1>5. call'[c].want = call[c].want
  BY <1>1 DEF Rewrite, Callbacks
<1>6. Proceeds(c) /\ Engages
  BY <1>1, <1>2, <1>5 DEF Proceeds, Engages
<1> QED  BY <1>1, <1>4, <1>6, GoesOnPromised

LEMMA RewriteErrsPromised ==
    ASSUME LInv, BInv', [Next]_vars, NEW c \in Slots, RewriteErrs(c)
    PROVE  [Promise!Next]_(Promise!vars)
<1>1. /\ BInv /\ IInv /\ JudgedOK(c) /\ RecordOK /\ ForceOK /\ call[c].pc = "rewrite"
      /\ Spend("fault")
  BY CallFacts DEF LInv, RewriteErrs
<1>2. /\ Owner(c) /\ rec.st = "pending"
      /\ rec' = rec \/ rec'.st = call[c].seen.st
      /\ call[c].seen.st = "deployed" => rec.want \notin Hooked
      /\ UNCHANGED <<live, hooksRan, helm>> /\ Others(c)
  BY <1>1, RewriteErrsStep
<1>3. rec'.st \in {"pending", "failed"}
  <2>1. Worker.step = "none"
    BY <1>1, <1>2, WhoHasIt DEF Idle
  <2> QED  BY <1>1, <1>2, <2>1 DEF ForceOK, RecordOK, JudgedOK
<1>4. At = {} /\ At' = {}
  BY <1>2, <1>3 DEF At, Serves, InForce
<1>5. spent'.restart = spent.restart
  BY <1>1, RestartsStay
<1>6. CASE Answer(c, Reply("error"))
  BY <1>1, <1>2, <1>4, <1>5, <1>6, AnswersPromised
<1>7. CASE /\ UNCHANGED <<flight, host>> /\ call'[c].pc = "reconcile"
           /\ call'[c].want = call[c].want
  <2>1. Proceeds(c) /\ Engages
    BY <1>2, <1>7 DEF Proceeds, Engages
  <2> QED  BY <1>1, <1>4, <1>5, <2>1, GoesOnPromised
<1> QED  BY <1>1, <1>6, <1>7, RewriteErrsStep

LEMMA AgentPromised ==
    ASSUME LInv,
           \/ \E kind \in Kinds, w \in Wants \cup {Nothing} : Command(kind, w)
           \/ \E c \in Slots : Send(c)
    PROVE  [Promise!Next]_(Promise!vars)
<1>1. /\ call \in [Slots -> Callbacks] /\ host \in Agents
      /\ UNCHANGED <<rec, live, hooksRan, helm>>
  BY DEF LInv, BInv, AInv, IInv, Shape, Command, Send, cluster
<1>2. UNCHANGED <<At, Working>>
  BY <1>1, StateStays DEF Working
<1>3. ASSUME NEW kind \in Kinds, NEW w \in Wants \cup {Nothing}, Command(kind, w)
      PROVE  Promise!Ask(w)
  <2>1. /\ host.stage = "idle" /\ host'.stage = "submit" /\ host'.want = w
        /\ UNCHANGED call /\ spent'.restart = spent.restart
    BY <1>1, <1>3, RestartsStay DEF Command, Agents
  <2>2. /\ Asked = {} /\ Asked' = {w} /\ Promised' = {} /\ UNCHANGED Serving
    BY <2>1 DEF Asked, Promised, Serving
  <2>3. Owed' = Owed \cup {w}
    BY <1>2, <2>2 DEF Owed
  <2> QED  BY <1>2, <2>1, <2>2, <2>3 DEF Promise!Ask
<1>4. ASSUME NEW c \in Slots, Send(c)  PROVE [Promise!Next]_(Promise!vars)
  <2>1. /\ host.stage \in {"submit", "poll"} /\ call[c].pc = "idle"
        /\ Others(c) /\ call'[c].pc # "idle" /\ call'[c].want = host.want
        /\ UNCHANGED spent
    BY <1>1, <1>4 DEF Send, Others, NoCall
  <2>2. host'.stage = host.stage /\ host'.want = host.want
    BY <1>1, <1>4 DEF Send, Agents
  <2>3. Asked = {host.want} /\ UNCHANGED <<Asked, Promised>>
    BY <2>1, <2>2 DEF Asked, Promised
  <2>4. Serving' = Serving \cup {host.want}
    BY <2>1 DEF Serving, Others
  <2>5. UNCHANGED Owed
    BY <1>2, <2>3, <2>4 DEF Owed
  <2> QED  BY <1>2, <2>1, <2>3, <2>5, Stutters
<1> QED  BY <1>3, <1>4 DEF Promise!Next

LEMMA TimePromised ==
    ASSUME LInv, RecordAges \/ DeadlinePasses \/ RetireFlight
    PROVE  [Promise!Next]_(Promise!vars)
<1>1. rec \in Revisions
  BY DEF LInv, BInv, AInv, IInv, Shape
<1>2. UNCHANGED <<call, host, live, hooksRan, helm, spent>>
  BY DEF RecordAges, DeadlinePasses, RetireFlight, cluster
<1>3. /\ rec'.rev = rec.rev /\ rec'.want = rec.want /\ rec'.st = rec.st
      /\ rec'.own = rec.own
  BY <1>1 DEF RecordAges, DeadlinePasses, RetireFlight, cluster, Revisions
<1>4. UNCHANGED At
  BY <1>2, <1>3 DEF At, Serves, InForce
<1>5. UNCHANGED <<Asked, Promised, Owed>>
  BY <1>2 DEF Asked, Promised, Owed, Working, Serving
<1> QED  BY <1>2, <1>4, <1>5, Stutters

(* The worker and the callbacks die; the agent goes on or gives up. *)
LEMMA CrashPromised ==
    ASSUME LInv, PluginCrashes  PROVE [Promise!Next]_(Promise!vars)
<1>1. /\ host \in Agents /\ HostOK /\ UNCHANGED At /\ spent'.restart = spent.restart
      /\ helm \in [Actors -> Works]
  BY StateStays, RestartsStay DEF LInv, BInv, AInv, IInv, Ownership, Shape, PluginCrashes, cluster
<1>2. Working' = {} /\ Serving' = {}
  BY <1>1 DEF PluginCrashes, Working, Serving, NoCall, Idle, Actors
<1>3. Owed' = Asked' /\ Asked \subseteq Owed
  BY <1>2 DEF Owed
<1>4. CASE UNCHANGED <<Asked, Promised>>
  <2>1. CASE Owed = {}
    <3>1. UNCHANGED Owed
      BY <1>3, <1>4, <2>1
    <3> QED  BY <1>1, <1>4, <3>1, Stutters
  <2>2. CASE Owed # {}
    BY <1>1, <1>3, <1>4, <2>2, WorksPromised
  <2> QED  BY <2>1, <2>2
<1>5. CASE ~UNCHANGED <<Asked, Promised>>
  <2>1. host.slot # 0
    BY <1>5 DEF PluginCrashes, Asked, Promised
  <2>2. PICK stage \in {host.stage, "idle"} :
          host' = [host EXCEPT !.slot = 0, !.stage = stage,
                     !.req = IF stage = "poll" THEN @ ELSE NoReq]
    BY <2>1 DEF PluginCrashes
  <2>3. host'.stage = stage /\ host'.want = host.want /\ host'.told = host.told
    BY <1>1, <2>2 DEF Agents
  <2>4. /\ Asked = {host.want} /\ Promised = {} /\ host.told # "success"
    BY <1>1, <2>1 DEF HostOK, Asked, Promised
  <2>5. Promised' = {} /\ Asked' = {}
    BY <1>5, <2>2, <2>3, <2>4 DEF Asked, Promised
  <2> QED  BY <1>1, <1>3, <2>4, <2>5 DEF Promise!Next, Promise!Fail
<1> QED  BY <1>4, <1>5

(* The worker leads the release to the state it is for, and it is owed.      *)
LEMMA WorkerPromised ==
    ASSUME LInv,
           \/ HelmRecords("plugin") \/ HelmRunsHooks("plugin") \/ HelmFinishes("plugin")
           \/ \E o \in Objs : HelmApplies("plugin", o)
           \/ HelmRefuses("plugin") \/ HelmReturns("plugin") \/ HelmFails("plugin")
    PROVE  [Promise!Next]_(Promise!vars)
<1>1. Worker.step # "none" /\ BInv /\ ForceOK
  BY DEF HelmRecords, HelmRunsHooks, HelmFinishes, HelmApplies, HelmRefuses, HelmReturns,
         HelmFails, Worker, LInv
<1>2. /\ Worker.op \in Ops /\ rec \in Revisions /\ helm \in [Actors -> Works]
      /\ Worker \in Works /\ WorkerOK /\ RecordOK /\ "plugin" \in Actors
  BY <1>1, BWorkerFacts
<1>3. UNCHANGED <<call, host, spent>>
  BY DEF HelmRecords, HelmRunsHooks, HelmFinishes, HelmApplies, HelmRefuses, HelmReturns,
         HelmFails, cluster
<1>4. UNCHANGED <<Asked, Promised, Serving>>
  BY <1>3 DEF Asked, Promised, Serving
<1>5. Working = {Worker.want} /\ Working' \subseteq Working
  <2>1. CASE HelmRecords("plugin")
    <3>1. helm' = [helm EXCEPT !["plugin"].step = "apply", !["plugin"].left = Objs,
                               !["plugin"].rev = rec'.rev]
      BY <2>1 DEF HelmRecords
    <3> QED  BY <1>1, <1>2, <3>1 DEF Working, Worker, Works
  <2>2. CASE HelmRunsHooks("plugin") \/ HelmFinishes("plugin")
             \/ \E o \in Objs : HelmApplies("plugin", o)
    BY <1>1, <1>2, <2>2 DEF HelmRunsHooks, HelmFinishes, HelmApplies, Ends, Working, Worker,
                            Works, Idle
  <2>3. CASE HelmRefuses("plugin") \/ HelmReturns("plugin") \/ HelmFails("plugin")
    BY <1>1, <1>2, <2>3 DEF HelmRefuses, HelmReturns, HelmFails, Ends, Working, Worker, Idle
  <2> QED  BY <2>1, <2>2, <2>3
<1>6. Owed # {} /\ Worker.want \in Owed /\ Owed' \subseteq Owed /\ Asked \subseteq Owed'
  BY <1>4, <1>5 DEF Owed
<1>7. At' \in {At, {}, {Worker.want}}
  <2>1. CASE HelmRecords("plugin")
    <3>1. rec' = Recorded("plugin")
      BY <2>1 DEF HelmRecords, Recorded
    <3>2. rec'.st \in {"pending", "uninstalling"}
      BY <1>2, <3>1 DEF Recorded, Revisions, Worker, Ops
    <3> QED  BY <3>2 DEF At, Serves, InForce
  <2>2. CASE HelmRunsHooks("plugin") \/ \E o \in Objs : HelmApplies("plugin", o)
    <3>1. rec.st \in {"pending", "uninstalling"} /\ UNCHANGED rec
      BY <1>2, <2>2 DEF HelmRunsHooks, HelmApplies, Worker, WorkerOK
    <3> QED  BY <3>1 DEF At, Serves, InForce
  <2>3. CASE HelmFinishes("plugin")
    <3> DEFINE r == [rec EXCEPT !.rev = Worker.rev, !.st = "deployed", !.want = Worker.want]
    <3>1. Worker.step = "record" /\ UNCHANGED <<live, hooksRan>>
      BY <2>3 DEF HelmFinishes, Worker
    <3>2. CASE Worker.op = "delete"
      <4>1. rec' = NoRec /\ Worker.want = Nothing
        BY <1>2, <2>3, <3>1, <3>2 DEF HelmFinishes, Worker, WorkerOK
      <4>2. \A w \in At' : w = Nothing
        BY <4>1 DEF At, Serves, InForce, NoRec
      <4> QED  BY <4>1, <4>2
    <3>3. CASE Worker.op # "delete"
      <4>1. /\ r \in Revisions /\ r.rev = Worker.rev /\ r.want = Worker.want
            /\ r.st = "deployed"
        BY <1>2 DEF Revisions, Statuses, Works
      <4> HIDE DEF r
      <4>2. rec.st = "pending" /\ rec.rev = Worker.rev
        BY <1>2, <3>1, <3>3 DEF WorkerOK
      <4>3. Stored(r)
        BY <1>2, <2>3, <3>1, <3>3, <4>2 DEF HelmFinishes, Worker, Revisions, r
      <4>4. rec'.st = "deployed" /\ rec'.want = Worker.want
        BY <1>2, <4>1, <4>2, <4>3, StoredType
      <4>5. \A w \in At' : w = Worker.want
        BY <4>4 DEF At, Serves, InForce
      <4> QED  BY <4>5
    <3> QED  BY <3>2, <3>3
  <2>4. CASE HelmRefuses("plugin") \/ HelmReturns("plugin") \/ HelmFails("plugin")
    <3>1. UNCHANGED <<live, hooksRan>> /\ (UNCHANGED rec \/ rec'.st = "failed")
      BY <1>2, <2>4 DEF HelmRefuses, HelmReturns, HelmFails, cluster, Revisions
    <3>2. CASE UNCHANGED rec
      BY <3>1, <3>2, StateStays
    <3>3. CASE rec'.st = "failed"
      BY <3>3 DEF At, Serves, InForce
    <3> QED  BY <3>1, <3>2, <3>3
  <2> QED  BY <2>1, <2>2, <2>3, <2>4
<1>8. At' \in {At, {}} \cup {{w} : w \in Owed}
  BY <1>6, <1>7
<1> QED  BY <1>3, <1>4, <1>6, <1>8, WorksPromised

LEMMA StartPromised == Init => Promise!Init
<1> SUFFICES ASSUME Init  PROVE Promise!Init
  OBVIOUS
<1>1. Serves(Nothing)
  BY DEF Init, Serves, NoRec
<1>2. At = {Nothing}
  BY <1>1, OneState DEF At
<1>3. Asked = {} /\ Promised = {} /\ Owed = {} /\ spent.restart = 0
  BY DEF Init, Asked, Promised, Owed, Working, Serving, Actors, Idle, NoCall
<1> QED  BY <1>2, <1>3 DEF Promise!Init

LEMMA StepPromised ==
    ASSUME MaxCli = 0, MaxRestart = 0, LInv, BInv', [Next]_vars
    PROVE  [Promise!Next]_(Promise!vars)
<1>1. BInv /\ AInv
  BY DEF LInv, BInv
<1>2. ASSUME NEW c \in Slots,
             \/ Send(c)
             \/ Reserve(c) \/ Rejoin(c) \/ Plan(c) \/ PlanDelete(c) \/ Activate(c)
             \/ AwaitRecorded(c) \/ AwaitOutcome(c) \/ AwaitOverdue(c)
             \/ AwaitForgotten(c)
             \/ AcquireRecovery(c) \/ RefuseStatus(c) \/ StatusVerdict(c)
             \/ AcquireFlight(c) \/ ReadRecord(c) \/ ReadAbandoned(c) \/ Reconcile(c)
             \/ Judge(c) \/ Rewrite(c) \/ RewriteFails(c)
             \/ PreparationFails(c) \/ AwaitFails(c) \/ ReadFails(c) \/ RewriteErrs(c)
      PROVE  [Promise!Next]_(Promise!vars)
  BY <1>1, <1>2, AgentPromised, SubmitPromised, ActivatePromised, AnsweringPromised,
     PollsPromised, RewritePromised, RewriteErrsPromised, NoRewriteFails
<1>3. ASSUME NEW a \in Actors,
             \/ HelmRecords(a) \/ HelmRefuses(a) \/ HelmRunsHooks(a)
             \/ HelmFinishes(a) \/ HelmReturns(a) \/ HelmFails(a)
             \/ \E o \in Objs : HelmApplies(a, o)
      PROVE  [Promise!Next]_(Promise!vars)
  <2>1. CASE a = "plugin"
    BY <1>3, <2>1, WorkerPromised
  <2>2. CASE a = "cli"
    BY <1>1, <1>3, <2>2, NobodyElse
  <2> QED  BY <2>1, <2>2 DEF Actors
<1>4. ~AgentRestarts
  <2>1. spent.restart \in Nat
    BY <1>1 DEF AInv, IInv, Shape, Spending
  <2> QED  BY <2>1 DEF AgentRestarts, May
<1>5. CASE UNCHANGED vars
  <2>1. UNCHANGED <<rec, live, hooksRan, helm, call, host, spent>>
    BY <1>5 DEF vars
  <2>2. UNCHANGED <<At, Asked, Promised, Owed>>
    BY <2>1, StateStays DEF Asked, Promised, Owed, Working, Serving
  <2> QED  BY <2>1, <2>2, Stutters
<1> QED  BY <1>1, <1>2, <1>3, <1>4, <1>5, NextCases, NobodyElse, AgentPromised,
            TimePromised, CrashPromised

(* ImplementsReleasePromise: with an agent that does not restart, the        *)
(* provisioner keeps the promise of module ReleasePromise.  A release        *)
(* changes only while something asked of it is not over and only to what     *)
(* was asked for, and a success ends all that was asked for before.          *)
THEOREM PromiseIsKept ==
    ASSUME MaxCli = 0, MaxRestart = 0, NeverConfirmed
    PROVE  Spec => ImplementsReleasePromise
<1>1. LInv /\ LInv' /\ [Next]_vars => [Promise!Next]_(Promise!vars)
  BY StepPromised DEF LInv
<1> QED  BY <1>1, StartPromised, PollsNameTheWanted, PTL
         DEF Spec, ImplementsReleasePromise, Promise!Spec

LEMMA NoRestart ==
    ASSUME MaxRestart = 0, LInv, [Next]_vars  PROVE spent'.restart = spent.restart
<1>1. ~AgentRestarts
  <2>1. spent.restart \in Nat
    BY DEF LInv, BInv, AInv, IInv, Shape, Spending
  <2> QED  BY <2>1 DEF AgentRestarts, May
<1>2. UNCHANGED spent \/ Spend("commands") \/ Spend("crash") \/ Spend("cli") \/ Spend("fault")
  <2>1. ASSUME NEW c \in Slots, Send(c) \/ Callback(c) \/ Fault(c)
        PROVE  UNCHANGED spent \/ Spend("fault")
    BY <2>1 DEF Send, Callback, Submit, Poll, Recover, Fault, Reserve, Rejoin, Plan, PlanDelete,
                Activate, AwaitRecorded, AwaitOutcome, AwaitOverdue, AwaitForgotten,
                AcquireRecovery, RefuseStatus, StatusVerdict, AcquireFlight, ReadRecord,
                ReadAbandoned, Reconcile, Judge, Rewrite, RewriteFails, PreparationFails,
                AwaitFails, ReadFails, RewriteErrs
  <2>2. ASSUME NEW a \in Actors, Helm(a) \/ HelmFails(a)  PROVE UNCHANGED spent
    BY <2>2 DEF Helm, HelmRecords, HelmRefuses, HelmRunsHooks, HelmFinishes, HelmReturns,
                HelmFails, HelmApplies
  <2> QED  BY <1>1, <2>1, <2>2 DEF Next, Command, CliStarts, RecordAges, DeadlinePasses,
                                   RetireFlight, PluginCrashes, vars
<1> QED  BY <1>2, RestartsStay

(* What was promised is so, and nothing that was asked for may yet change it. *)
Stands == Promised # {} => At = Promised /\ Owed = {}

(* What the agent was told of a release stands until its next command: after *)
(* a success the release is in the state asked for, whatever deadlines and   *)
(* retirements pass and although the plugin dies, and neither a worker nor a *)
(* callback is left that might change it.                                    *)
THEOREM SuccessStands ==
    ASSUME MaxCli = 0, MaxRestart = 0, NeverConfirmed  PROVE Spec => []Stands
<1> DEFINE P == spent.restart = 0
<1>1. Init => Stands /\ P
  BY DEF Init, Stands, Promised
<1>2. ASSUME Stands, P, LInv, LInv', [Next]_vars  PROVE Stands' /\ P'
  <2>1. P'
    BY <1>2, NoRestart
  <2>2. [Promise!Next]_(Promise!vars)
    BY <1>2, StepPromised DEF LInv
  <2>3. Asked \subseteq Owed
    BY DEF Owed
  <2> QED  BY <1>2, <2>1, <2>2, <2>3 DEF Stands, Promise!Next, Promise!vars, Promise!Ask,
              Promise!Work, Promise!Succeed, Promise!Fail, Promise!StopListening
<1>3. Stands /\ P /\ LInv /\ LInv' /\ [Next]_vars => Stands' /\ P'
  BY <1>2
<1> QED  BY <1>1, <1>3, PollsNameTheWanted, PTL DEF Spec

-----------------------------------------------------------------------------
(* Beside another tool *)

Cli == helm["cli"]

(* The other tool's only operation cannot take the record any more; nor will *)
(* it remove it.                                                             *)
CliSpent == spent.cli >= MaxCli /\ Cli.step # "begin"
CliKeeps == CliSpent /\ Cli.op # "delete"

CliWrites == Cli.step \in {"apply", "record"} /\ Cli.op # "delete"

(* The record of an operation of the other tool lasts as long as it writes,  *)
(* and no other record has its number.                                       *)
CliOK ==
    /\ Cli.step # "none" => spent.cli >= MaxCli /\ Cli.op \in Ops
    /\ CliWrites => /\ rec.st # "none" /\ rec.rev >= Cli.rev
                    /\ rec.rev = Cli.rev => rec.want = Cli.want
    /\ rec.st = "pending" /\ ~rec.own => CliWrites /\ rec.rev = Cli.rev

(* If there is a record, it is of this revision or a later one, and what it  *)
(* says of this one is true; if there is none, there will not be one again.  *)
Lasting(rev, own, want) ==
    IF rec.st = "none" THEN CliSpent
    ELSE rec.rev >= rev /\ (rec.rev = rev => rec.own = own /\ rec.want = want)

(* An operation that was planned finds what it was planned for, or the other *)
(* tool has come first and is done with taking records.                      *)
Clear(op, rev) ==
    IF op = "install"
    THEN IF rec.st = "none" THEN rev = 1 ELSE CliKeeps
    ELSE IF rec.st = "none" THEN CliSpent
         ELSE rec.rev + 1 >= rev /\ (rec.rev + 1 > rev => CliKeeps)

(* The worker's record is its own until it is written last.                  *)
Writing ==
    IF rec.st = "none" THEN CliSpent
    ELSE /\ rec.st \in {"pending", "uninstalling"} /\ rec.own
         /\ rec.rev = Worker.rev /\ rec.want = Worker.want /\ Worker.rev >= flight.rev
         /\ CliWrites => Cli.rev < rec.rev
         /\ rec.rev > flight.rev => CliKeeps

JobOK ==
    /\ flight.phase \in Begun => (flight.kind = "delete") = (flight.op = "delete")
    /\ flight.phase = "running" => Worker.op = flight.op /\ Worker.want = flight.want
    /\ flight.phase \in {"running", "ok"} /\ flight.op # "delete" =>
         /\ Worker.step = "begin" => Clear(flight.op, flight.rev)
         /\ Worker.step \in {"apply", "record"} => Writing
         /\ Worker.step \in {"return", "none"} => Lasting(flight.rev, TRUE, flight.want)

(* What the agent polls for is the entry's, or was found settled. *)
Covers(req, kind, want) ==
    IF req.gen = 0
    THEN /\ flight.phase \in {"none", "preparing"} /\ req.op # "delete"
         /\ Lasting(req.rev, TRUE, want)
    ELSE /\ flight.phase \in Begun /\ FlightReq = req
         /\ flight.kind = kind /\ flight.want = want

PollIsOurs == host.stage = "poll" /\ host.kind # "delete" =>
                Covers(host.req, host.kind, host.want)

(* The poll has read another tool's revision under the number of its own,    *)
(* while its worker was yet to begin: that one will have the next number.    *)
Overtaken ==
    \/ flight.phase = "err"
    \/ /\ flight.phase \in Begun /\ CliKeeps /\ rec.st # "none"
       /\ Worker.step = "return" \/ flight.phase = "ok" =>
            /\ rec.st = "deployed" /\ rec.own /\ rec.want = flight.want
            /\ CliWrites => Cli.rev < rec.rev

ServedOK(c) ==
    /\ \/ call[c].pc \in {"plan", "activate"}
       \/ call[c].pc \in {"judge", "rewrite"} /\ call[c].req = NoReq
       => flight.kind = call[c].kind /\ flight.want = call[c].want
    /\ call[c].pc = "activate" /\ call[c].op # "delete" => Clear(call[c].op, call[c].rev)
    /\ call[c].pc = "await" => /\ flight.gen = call[c].gen
                               /\ flight.kind = call[c].kind /\ flight.want = call[c].want
    /\ Reader(c) /\ ~call[c].backed => flight.phase # "running"
    /\ call[c].pc \in {"judge", "rewrite"} =>
         /\ flight.phase # "running"
         /\ Lasting(call[c].seen.rev, call[c].seen.own, call[c].seen.want)
    /\ call[c].pc = "rewrite" => call[c].seen.st \in {"deployed", "failed"}
    /\ call[c].pc = "reconcile" /\ call[c].got.kind = "success" /\ host.kind # "delete" =>
         Ours(call[c].seen) \/ (host.req.gen # 0 /\ Overtaken)

EntryKept == flight.reported = FALSE /\ \A c \in flight.readers : Reader(c)

OursOK == CliOK /\ JobOK /\ PollIsOurs /\ AskedOK /\ Alone /\ EntryKept
          /\ \A c \in Slots : ServedOK(c)

Unharmed == spent.crash = 0 /\ spent.restart = 0

OInv == IInv /\ (Unharmed => OursOK)

(* Between the other tool's first and last write the plugin does not remove  *)
(* the release.                                                              *)
Spares == HelmFinishes("plugin") /\ helm["plugin"].op = "delete" =>
            Cli.step \notin {"apply", "record"}

-----------------------------------------------------------------------------
(* The record, while the plugin looks on *)

(* Nobody takes the record, or removes it. *)
SameRecord ==
    /\ rec'.rev = rec.rev /\ rec'.own = rec.own /\ rec'.want = rec.want
    /\ rec.st = "none" <=> rec'.st = "none"
    /\ CliSpent => CliSpent'
    /\ CliKeeps => CliKeeps'
    /\ CliWrites' => CliWrites /\ Cli'.rev = Cli.rev
    /\ rec'.st = rec.st \/ (CliWrites /\ rec.rev = Cli.rev)
         \/ (~CliKeeps /\ rec'.st = "uninstalling")

Removed == rec' = NoRec /\ CliSpent' /\ ~CliKeeps /\ ~CliWrites'

(* The other tool's operation takes it. *)
Taken ==
    /\ ~CliSpent /\ CliKeeps'
    /\ rec'.st # "none" /\ Cli'.rev = rec'.rev
    /\ \/ rec.st = "none" 
       \/ rec.st \in {"deployed", "failed"} /\ rec'.rev = rec.rev + 1

CliMoves == SameRecord \/ Removed \/ Taken

LEMMA RecordFacts ==
    ASSUME IInv
    PROVE  /\ rec \in Revisions /\ rec.rev \in Nat /\ flight \in Flights /\ flight.rev \in Nat
           /\ helm \in [Actors -> Works] /\ Worker \in Works /\ Cli \in Works
           /\ Cli.rev \in Nat /\ Worker.rev \in Nat /\ host \in Agents /\ FlightOK /\ HostOK
           /\ call \in [Slots -> Callbacks] /\ spent \in Spending
BY DEF IInv, Shape, Ownership, Worker, Cli, Actors, Revisions, Flights, Works

(* What the plugin relies on survives whatever the other tool does. *)
LEMMA MovesKeep ==
    ASSUME OursOK, IInv, IInv', CliMoves, CliOK', UNCHANGED <<flight, call, host, Worker>>
    PROVE  OursOK'
<1>1. /\ CliOK /\ JobOK /\ PollIsOurs /\ AskedOK /\ Alone /\ EntryKept
      /\ \A c \in Slots : ServedOK(c)
      /\ rec.rev \in Nat /\ rec'.rev \in Nat /\ flight.rev \in Nat /\ NoRec.st = "none"
      /\ host \in Agents /\ host.req.rev \in Nat /\ call \in [Slots -> Callbacks]
      /\ Cli.rev \in Nat /\ Cli'.rev \in Nat
  <2>1. rec' \in Revisions /\ rec'.rev \in Nat /\ Cli'.rev \in Nat
    BY DEF IInv, Shape, Revisions, Cli, Actors, Works
  <2> QED  BY <2>1, RecordFacts DEF OursOK, NoRec, Agents, Ids
<1>2. ASSUME NEW rev \in Nat, NEW own, NEW want, Lasting(rev, own, want)
      PROVE  IF rec'.st = "none" THEN CliSpent'
             ELSE rec'.rev >= rev /\ (rec'.rev = rev => rec'.own = own /\ rec'.want = want)
  BY <1>1, <1>2 DEF Lasting, CliMoves, SameRecord, Removed, Taken
<1>3. ASSUME NEW op, NEW rev \in Nat, Clear(op, rev)
      PROVE  IF op = "install"
             THEN IF rec'.st = "none" THEN rev = 1 ELSE CliKeeps'
             ELSE IF rec'.st = "none" THEN CliSpent'
                  ELSE rec'.rev + 1 >= rev /\ (rec'.rev + 1 > rev => CliKeeps')
  BY <1>1, <1>3 DEF Clear, CliMoves, SameRecord, Removed, Taken
<1>4. Writing => Writing'
  BY <1>1 DEF Writing, CliMoves, SameRecord, Removed, Taken, CliKeeps
<1>5. Overtaken => Overtaken'
  BY <1>1 DEF Overtaken, CliMoves, SameRecord, Removed, Taken, CliKeeps
<1>6. JobOK'
  <2>1. Clear(flight.op, flight.rev) => Clear(flight.op, flight.rev)'
    BY <1>1, <1>3 DEF Clear
  <2>2. Lasting(flight.rev, TRUE, flight.want) => Lasting(flight.rev, TRUE, flight.want)'
    BY <1>1, <1>2 DEF Lasting
  <2> QED  BY <1>1, <1>4, <2>1, <2>2 DEF JobOK
<1>7. PollIsOurs'
  <2>1. Lasting(host.req.rev, TRUE, host.want) => Lasting(host.req.rev, TRUE, host.want)'
    BY <1>1, <1>2 DEF Lasting
  <2> QED  BY <1>1, <2>1 DEF PollIsOurs, Covers, FlightReq
<1>8. ASSUME NEW c \in Slots  PROVE ServedOK(c)'
  <2>1. call[c].rev \in Nat /\ call[c].seen.rev \in Nat
    BY <1>1 DEF Callbacks, Revisions
  <2>2. Clear(call[c].op, call[c].rev) => Clear(call[c].op, call[c].rev)'
    BY <2>1, <1>3 DEF Clear
  <2>3. Lasting(call[c].seen.rev, call[c].seen.own, call[c].seen.want) =>
          Lasting(call[c].seen.rev, call[c].seen.own, call[c].seen.want)'
    BY <2>1, <1>2 DEF Lasting
  <2> QED  BY <1>1, <1>5, <2>2, <2>3 DEF ServedOK, Ours, Reader
<1>9. AskedOK' /\ Alone' /\ EntryKept'
  BY <1>1 DEF AskedOK, Alone, EntryKept, Reader
<1> QED  BY <1>6, <1>7, <1>8, <1>9 DEF OursOK

(* The other tool's operation, step by step. *)
LEMMA CliStartsMoves ==
    ASSUME OursOK, IInv, MaxCli \in {0, 1}, NEW op \in Ops, NEW w, CliStarts(op, w)
    PROVE  CliMoves /\ CliOK' /\ UNCHANGED <<flight, call, host, Worker>>
<1>1. /\ helm \in [Actors -> Works] /\ rec \in Revisions /\ CliOK /\ spent \in Spending
      /\ Cli = Idle /\ spent.cli < MaxCli /\ spent.cli \in Nat
      /\ UNCHANGED <<rec, flight, call, host>>
  BY RecordFacts DEF OursOK, CliStarts, Cli, cluster, Spending
<1>2. /\ Cli'.step = "begin" /\ Cli'.op = op /\ UNCHANGED Worker
      /\ spent'.cli = spent.cli + 1
  BY <1>1 DEF CliStarts, Cli, Worker, Actors, Idle, Spend, Spending
<1>3. Cli.step = "none" /\ Cli.op = "none"
  BY <1>1 DEF Idle
<1>4. CliMoves
  BY <1>1, <1>2, <1>3 DEF CliMoves, SameRecord, CliSpent, CliKeeps, CliWrites
<1>5. CliOK'
  BY <1>1, <1>2, <1>3 DEF CliOK, CliWrites
<1> QED  BY <1>1, <1>2, <1>4, <1>5

LEMMA CliWorksMoves ==
    ASSUME OursOK, IInv, IInv', (\E o \in Objs : HelmApplies("cli", o)) \/ HelmRunsHooks("cli")
    PROVE  CliMoves /\ CliOK' /\ UNCHANGED <<flight, call, host, Worker>>
<1>1. /\ helm \in [Actors -> Works] /\ rec \in Revisions /\ CliOK /\ "cli" \in Actors
      /\ Cli.step = "apply" /\ UNCHANGED <<rec, flight, call, host, spent>>
  BY RecordFacts DEF OursOK, HelmApplies, HelmRunsHooks, Cli, Actors
<1>2. /\ Cli'.step \in {"apply", "record"} /\ Cli'.op = Cli.op /\ Cli'.rev = Cli.rev
      /\ Cli'.want = Cli.want /\ UNCHANGED Worker
  BY <1>1 DEF HelmApplies, HelmRunsHooks, Cli, Worker, Actors, Works
<1>3. CliMoves /\ CliOK'
  BY <1>1, <1>2 DEF CliMoves, SameRecord, CliSpent, CliKeeps, CliWrites, CliOK
<1> QED  BY <1>1, <1>2, <1>3

LEMMA CliTakes ==
    ASSUME OursOK, IInv, IInv', HelmRecords("cli")
    PROVE  CliMoves /\ CliOK' /\ UNCHANGED <<flight, call, host, Worker>>
<1>1. /\ helm \in [Actors -> Works] /\ rec \in Revisions /\ CliOK /\ "cli" \in Actors
      /\ Cli.step = "begin" /\ UNCHANGED <<flight, call, host, spent>>
      /\ Allowed(Cli.op) /\ rec' = Recorded("cli")
      /\ helm' = [helm EXCEPT !["cli"].step = "apply", !["cli"].left = Objs,
                              !["cli"].rev = rec'.rev]
  BY RecordFacts DEF OursOK, HelmRecords, Cli, Actors, Recorded
<1>2. /\ Cli'.step = "apply" /\ Cli'.op = Cli.op /\ Cli'.rev = rec'.rev
      /\ Cli'.want = Cli.want /\ UNCHANGED Worker
  BY <1>1 DEF Cli, Worker, Actors, Works
<1>3. ~CliSpent /\ CliSpent' /\ Cli.op \in Ops
  BY <1>1, <1>2 DEF CliSpent, CliOK
<1>4. CASE Cli.op = "delete"
  <2>1. /\ rec'.st = "uninstalling" /\ rec'.rev = rec.rev /\ rec'.own = rec.own
        /\ rec'.want = rec.want /\ rec.st # "none"
    BY <1>1, <1>4 DEF Recorded, Cli, Revisions, Allowed
  <2> QED  BY <1>1, <1>2, <1>3, <1>4, <2>1
           DEF CliMoves, SameRecord, CliKeeps, CliWrites, CliOK
<1>5. CASE Cli.op = "install"
  <2>1. rec'.st = "pending" /\ rec'.want = Cli.want /\ rec.st = "none" /\ rec'.rev = 1
    BY <1>1, <1>5 DEF Recorded, Cli, Allowed
  <2> QED  BY <1>1, <1>2, <1>3, <1>5, <2>1 DEF CliMoves, Taken, CliKeeps, CliWrites, CliOK
<1>6. CASE Cli.op = "upgrade"
  <2>1. /\ rec'.st = "pending" /\ rec'.want = Cli.want /\ rec.st \in {"deployed", "failed"}
        /\ rec'.rev = rec.rev + 1 /\ rec.rev \in Nat
    BY <1>1, <1>6 DEF Recorded, Cli, Allowed, Revisions
  <2> QED  BY <1>1, <1>2, <1>3, <1>6, <2>1 DEF CliMoves, Taken, CliKeeps, CliWrites, CliOK
<1> QED  BY <1>1, <1>2, <1>3, <1>4, <1>5, <1>6 DEF Ops

LEMMA CliFinishes ==
    ASSUME OursOK, IInv, IInv', HelmFinishes("cli")
    PROVE  CliMoves /\ CliOK' /\ UNCHANGED <<flight, call, host, Worker>>
<1>1. /\ helm \in [Actors -> Works] /\ rec \in Revisions /\ CliOK /\ "cli" \in Actors
      /\ Cli.step = "record" /\ UNCHANGED <<flight, call, host, spent>>
      /\ Cli.op \in Ops /\ spent.cli >= MaxCli /\ Cli \in Works /\ rec.rev \in Nat
      /\ Cli.rev \in Nat
  BY RecordFacts DEF OursOK, HelmFinishes, Cli, Actors, CliOK, Ends
<1>2. CliSpent
  BY <1>1 DEF CliSpent
<1>3. ~(Cli.op # "delete" /\ (rec.st = "none" \/ rec.rev < Cli.rev))
  BY <1>1 DEF CliOK, CliWrites
<1>4. helm' = [helm EXCEPT !["cli"].step = "return"]
  BY <1>3 DEF HelmFinishes, Cli
<1>5. /\ Cli'.step = "return" /\ Cli'.op = Cli.op /\ Cli'.rev = Cli.rev /\ UNCHANGED Worker
      /\ CliSpent' /\ ~CliWrites'
  BY <1>1, <1>4 DEF Cli, Worker, Actors, Works, CliSpent, CliWrites
<1>6. CASE Cli.op = "delete"
  <2>1. rec' = NoRec
    BY <1>1, <1>6 DEF HelmFinishes, Cli
  <2> QED  BY <1>1, <1>5, <1>6, <2>1 DEF CliMoves, Removed, CliKeeps, CliOK, NoRec
<1>7. CASE Cli.op # "delete"
  <2> DEFINE r == [rec EXCEPT !.rev = Cli.rev, !.st = "deployed", !.want = Cli.want]
  <2>1. /\ r \in Revisions /\ r.rev = Cli.rev /\ r.want = Cli.want
        /\ r.st = "deployed" /\ r.own = rec.own
    BY <1>1 DEF Revisions, Statuses, Works
  <2> HIDE DEF r
  <2>2. Stored(r)
    BY <1>3, <1>7 DEF HelmFinishes, Cli, r
  <2>3. /\ rec.rev = Cli.rev => /\ rec'.st = "deployed" /\ rec'.rev = rec.rev
                                /\ rec'.own = rec.own /\ rec'.want = Cli.want
        /\ rec.rev # Cli.rev => rec' = rec
    BY <1>1, <2>1, <2>2, StoredType
  <2>4. CliWrites /\ rec.st # "none"
    BY <1>1, <1>7 DEF CliWrites, CliOK
  <2>5. SameRecord
    <3>1. rec.rev = Cli.rev => rec.want = Cli.want
      BY <1>1, <2>4 DEF CliOK
    <3> QED  BY <1>2, <1>5, <2>3, <2>4, <3>1 DEF SameRecord, CliKeeps
  <2>6. CliOK'
    BY <1>1, <1>5, <2>3, <2>4 DEF CliOK
  <2> QED  BY <1>1, <1>5, <2>5, <2>6 DEF CliMoves
<1> QED  BY <1>6, <1>7

LEMMA CliEnds ==
    ASSUME OursOK, IInv, IInv', HelmRefuses("cli") \/ HelmReturns("cli") \/ HelmFails("cli")
    PROVE  CliMoves /\ CliOK' /\ UNCHANGED <<flight, call, host, Worker>>
<1>1. /\ helm \in [Actors -> Works] /\ rec \in Revisions /\ CliOK /\ "cli" \in Actors
      /\ Cli.step # "none" /\ UNCHANGED <<flight, call, host, spent>>
      /\ helm' = [helm EXCEPT !["cli"] = Idle] /\ Cli \in Works /\ rec.rev \in Nat
      /\ Cli.rev \in Nat
  BY RecordFacts DEF OursOK, HelmRefuses, HelmReturns, HelmFails, Cli, Actors, Ends
<1>2. /\ Cli' = Idle /\ Cli'.step = "none" /\ Cli'.op = "none" /\ UNCHANGED Worker
      /\ ~CliWrites' /\ CliSpent' /\ CliKeeps'
  BY <1>1 DEF Cli, Worker, Actors, CliWrites, Idle, CliSpent, CliKeeps, CliOK
<1>3. /\ rec'.rev = rec.rev /\ rec'.own = rec.own /\ rec'.want = rec.want
      /\ rec.st = "none" <=> rec'.st = "none"
      /\ rec'.st = rec.st \/ (CliWrites /\ rec.rev = Cli.rev)
      /\ rec'.st = "pending" => rec.st = "pending" /\ ~(CliWrites /\ rec.rev = Cli.rev)
  <2>1. CASE HelmRefuses("cli") \/ HelmReturns("cli")
    <3>1. Cli.step \in {"begin", "return"} /\ UNCHANGED rec
      BY <2>1 DEF HelmRefuses, HelmReturns, Cli, cluster
    <3> QED  BY <3>1 DEF CliWrites
  <2>2. CASE HelmFails("cli")
    <3>1. /\ Cli.step \in {"begin", "apply", "record"}
          /\ rec' = IF /\ Cli.step # "begin" /\ Cli.op # "delete"
                       /\ rec.st # "none" /\ rec.rev = Cli.rev
                    THEN [rec EXCEPT !.st = "failed"] ELSE rec
      BY <1>1, <2>2 DEF HelmFails, Cli, Works
    <3> QED  BY <1>1, <3>1 DEF CliWrites, Revisions, CliOK
  <2> QED  BY <2>1, <2>2
<1>4. CliMoves
  BY <1>2, <1>3 DEF CliMoves, SameRecord
<1>5. CliOK'
  BY <1>1, <1>2, <1>3 DEF CliOK
<1> QED  BY <1>1, <1>2, <1>4, <1>5

(* The other tool, and the clock. *)
LEMMA OutsidersKeepOurs ==
    ASSUME OursOK, IInv, IInv', MaxCli \in {0, 1},
           \/ \E op \in Ops, w \in Wants \cup {Nothing} : CliStarts(op, w)
           \/ HelmRecords("cli") \/ HelmRefuses("cli") \/ HelmRunsHooks("cli")
           \/ HelmFinishes("cli") \/ HelmReturns("cli") \/ HelmFails("cli")
           \/ \E o \in Objs : HelmApplies("cli", o)
           \/ RecordAges
    PROVE  OursOK'
<1>1. CASE RecordAges
  <2>1. /\ rec'.rev = rec.rev /\ rec'.own = rec.own /\ rec'.want = rec.want
        /\ rec'.st = rec.st /\ UNCHANGED <<flight, call, host, Worker, Cli, spent>>
    BY <1>1, RecordFacts DEF RecordAges, Revisions, Worker, Cli
  <2>2. CliMoves /\ CliOK'
    BY <2>1 DEF OursOK, CliMoves, SameRecord, CliOK, CliSpent, CliKeeps, CliWrites
  <2> QED  BY <2>1, <2>2, MovesKeep
<1>2. CASE ~RecordAges
  <2>1. CliMoves /\ CliOK' /\ UNCHANGED <<flight, call, host, Worker>>
    BY <1>2, CliStartsMoves, CliWorksMoves, CliTakes, CliFinishes, CliEnds
  <2> QED  BY <2>1, MovesKeep
<1> QED  BY <1>1, <1>2

-----------------------------------------------------------------------------
(* The worker, while a poll looks on *)

(* Only a submit that waits, or a poll, goes on beside the worker. *)
LEMMA BesideTheWorker ==
    ASSUME OursOK, IInv, Worker.step # "none"
    PROVE  /\ flight.phase = "running" /\ Worker.op = flight.op /\ Worker.want = flight.want
           /\ \A c \in Slots : /\ call[c].pc \notin {"plan", "activate", "judge", "rewrite"}
                               /\ Reader(c) => call[c].backed
           /\ host.stage = "poll" /\ host.kind # "delete" => host.req.gen # 0
           /\ \A c \in Slots : call[c].pc = "reconcile" => host.stage = "poll"
           /\ host.stage = "poll" /\ host.kind # "delete" =>
                flight.kind # "delete" /\ flight.op # "delete" /\ flight.want = host.want
<1>1. flight.phase = "running" /\ JobOK /\ PollIsOurs /\ AskedOK /\ Alone
      /\ \A c \in Slots : ServedOK(c)
  BY WorkerPhase DEF OursOK
<1>2. ASSUME NEW c \in Slots
      PROVE  /\ call[c].pc \notin {"plan", "activate", "judge", "rewrite"}
             /\ Reader(c) => call[c].backed
  BY <1>1, WhoHasIt DEF ServedOK
<1>3. ASSUME NEW c \in Slots, call[c].pc = "reconcile"  PROVE host.stage = "poll"
  <2>1. host.slot = c /\ c # 0
    BY <1>1, <1>3, SlotIsNotZero DEF Alone
  <2>2. call[c].req = host.req /\ call[c].req.op \in Ops
    BY <1>1, <1>3, <2>1 DEF AskedOK, IInv, Ownership, CallbackOK, SentOK
  <2> QED  BY <2>2 DEF IInv, Ownership, HostOK, NoReq, Ops
<1>4. host.stage = "poll" /\ host.kind # "delete" =>
        /\ host.req.gen # 0 /\ flight.kind = host.kind /\ flight.want = host.want
        /\ flight.op # "delete"
  BY <1>1 DEF PollIsOurs, Covers, JobOK, Begun
<1> QED  BY <1>1, <1>2, <1>3, <1>4 DEF JobOK

LEMMA WorkerKeepsOurs ==
    ASSUME OursOK, IInv, IInv', Worker.step # "none", UNCHANGED <<call, host, Cli, spent>>,
           flight'.gen = flight.gen, flight'.want = flight.want, flight'.op = flight.op,
           flight'.rev = flight.rev, flight'.kind = flight.kind, flight'.phase \in Begun,
           flight'.readers = flight.readers, flight'.reported = flight.reported,
           CliOK', JobOK', flight.op # "delete" /\ Overtaken => Overtaken'
    PROVE  OursOK'
<1>1. /\ flight.phase = "running" /\ PollIsOurs /\ AskedOK /\ Alone /\ EntryKept
      /\ \A c \in Slots : ServedOK(c)
      /\ \A c \in Slots : /\ call[c].pc \notin {"plan", "activate", "judge", "rewrite"}
                          /\ Reader(c) => call[c].backed
                          /\ call[c].pc = "reconcile" => host.stage = "poll"
      /\ host.stage = "poll" /\ host.kind # "delete" =>
           host.req.gen # 0 /\ flight.op # "delete"
  BY BesideTheWorker DEF OursOK
<1>2. PollIsOurs'
  BY <1>1 DEF PollIsOurs, Covers, FlightReq, Begun
<1>3. AskedOK' /\ Alone' /\ EntryKept'
  BY <1>1 DEF AskedOK, Alone, EntryKept, Reader
<1>4. ASSUME NEW c \in Slots  PROVE ServedOK(c)'
  BY <1>1 DEF ServedOK, Reader, Ours
<1> QED  BY <1>2, <1>3, <1>4 DEF OursOK

LEMMA WorkerTakes ==
    ASSUME OursOK, IInv, IInv', HelmRecords("plugin")  PROVE OursOK'
<1>1. /\ rec \in Revisions /\ CliOK /\ JobOK /\ "plugin" \in Actors
      /\ Worker.step = "begin" /\ UNCHANGED <<flight, call, host, spent>>
      /\ Allowed(Worker.op) /\ rec' = Recorded("plugin")
      /\ helm \in [Actors -> Works]
      /\ helm' = [helm EXCEPT !["plugin"].step = "apply", !["plugin"].left = Objs,
                              !["plugin"].rev = rec'.rev]
      /\ rec.rev \in Nat /\ flight.rev \in Nat /\ Cli.rev \in Nat
      /\ flight.op \in Ops
  BY RecordFacts, BesideTheWorker
     DEF OursOK, HelmRecords, Worker, Actors, Recorded, FlightOK, NoFlight
<1>2. /\ Worker'.step = "apply" /\ Worker'.op = Worker.op /\ Worker'.rev = rec'.rev
      /\ Worker'.want = Worker.want /\ UNCHANGED Cli
  BY <1>1 DEF Cli, Worker, Actors, Works
<1>3. flight.phase = "running" /\ Worker.op = flight.op /\ Worker.want = flight.want
  BY <1>1, BesideTheWorker
<1>4. CASE Worker.op = "delete"
  <2>1. /\ rec'.st = "uninstalling" /\ rec'.rev = rec.rev /\ rec'.own = rec.own
        /\ rec'.want = rec.want /\ rec.st # "none"
    BY <1>1, <1>4 DEF Recorded, Worker, Revisions, Allowed
  <2>2. CliOK'
    BY <1>1, <1>2, <2>1 DEF CliOK, CliWrites
  <2>3. JobOK'
    BY <1>1, <1>2, <1>3, <1>4 DEF JobOK
  <2> QED  BY <1>1, <1>2, <1>3, <1>4, <2>2, <2>3, WorkerKeepsOurs DEF Begun
<1>5. CASE Worker.op = "install"
  <2>1. /\ rec'.st = "pending" /\ rec'.want = Worker.want /\ rec.st = "none"
        /\ rec'.rev = 1 /\ rec'.own = TRUE
    BY <1>1, <1>5 DEF Recorded, Worker, Allowed
  <2>2. flight.rev = 1
    BY <1>1, <1>3, <1>5, <2>1 DEF JobOK, Clear
  <2>3. ~CliWrites /\ ~CliWrites'
    BY <1>1, <1>2, <2>1 DEF CliOK, CliWrites
  <2>4. CliOK'
    BY <1>1, <1>2, <2>1, <2>3 DEF CliOK
  <2>5. JobOK'
    BY <1>1, <1>2, <1>3, <1>5, <2>1, <2>2, <2>3 DEF JobOK, Writing
  <2>6. ~Overtaken
    BY <1>3, <2>1 DEF Overtaken
  <2> QED  BY <1>1, <1>2, <1>3, <2>4, <2>5, <2>6, WorkerKeepsOurs DEF Begun
<1>6. CASE Worker.op = "upgrade"
  <2>1. /\ rec'.st = "pending" /\ rec'.want = Worker.want /\ rec.st \in {"deployed", "failed"}
        /\ rec'.rev = rec.rev + 1 /\ rec'.own = TRUE
    BY <1>1, <1>6, RecordFacts DEF Recorded, Worker, Allowed, Revisions
  <2>2. rec.rev + 1 >= flight.rev /\ (rec.rev + 1 > flight.rev => CliKeeps)
    BY <1>1, <1>3, <1>6, <2>1 DEF JobOK, Clear
  <2>3. (CliWrites <=> CliWrites') /\ (CliKeeps <=> CliKeeps')
    BY <1>1, <1>2 DEF CliWrites, CliKeeps, CliSpent
  <2>4. CliWrites => Cli.rev < rec'.rev
    BY <1>1, <2>1 DEF CliOK
  <2>5. CliOK'
    BY <1>1, <1>2, <2>1, <2>3, <2>4 DEF CliOK
  <2>6. JobOK'
    BY <1>1, <1>2, <1>3, <1>6, <2>1, <2>2, <2>3, <2>4 DEF JobOK, Writing
  <2>7. Overtaken => Overtaken'
    BY <1>1, <1>2, <1>3, <2>1, <2>3 DEF Overtaken
  <2> QED  BY <1>1, <1>2, <1>3, <2>5, <2>6, <2>7, WorkerKeepsOurs DEF Begun
<1> QED  BY <1>1, <1>3, <1>4, <1>5, <1>6 DEF Ops

LEMMA WorkerWorks ==
    ASSUME OursOK, IInv, IInv',
           (\E o \in Objs : HelmApplies("plugin", o)) \/ HelmRunsHooks("plugin")
    PROVE  OursOK'
<1>1. /\ CliOK /\ JobOK /\ "plugin" \in Actors /\ helm \in [Actors -> Works]
      /\ Worker.step = "apply" /\ UNCHANGED <<rec, flight, call, host, spent>>
  BY RecordFacts DEF OursOK, HelmApplies, HelmRunsHooks, Worker, Actors
<1>2. /\ Worker'.step \in {"apply", "record"} /\ Worker'.op = Worker.op
      /\ Worker'.rev = Worker.rev /\ Worker'.want = Worker.want /\ UNCHANGED Cli
  BY <1>1 DEF HelmApplies, HelmRunsHooks, Cli, Worker, Actors, Works
<1>3. flight.phase = "running"
  BY <1>1, BesideTheWorker
<1>4. CliOK' /\ JobOK' /\ (Overtaken => Overtaken')
  BY <1>1, <1>2, <1>3 DEF CliOK, CliWrites, JobOK, Writing, Overtaken, CliKeeps, CliSpent
<1> QED  BY <1>1, <1>2, <1>3, <1>4, WorkerKeepsOurs DEF Begun

(* The worker's last write: the release is its own, or no longer there. *)
LEMMA WorkerFinishes ==
    ASSUME OursOK, IInv, IInv', HelmFinishes("plugin"), Spares  PROVE OursOK'
<1>1. /\ CliOK /\ JobOK /\ "plugin" \in Actors /\ helm \in [Actors -> Works]
      /\ Worker.step = "record" /\ UNCHANGED <<call, host, spent>>
      /\ rec \in Revisions /\ rec.rev \in Nat /\ Worker \in Works /\ Worker.rev \in Nat
      /\ flight \in Flights /\ flight.rev \in Nat
  BY RecordFacts DEF OursOK, HelmFinishes, Worker, Actors
<1>2. flight.phase = "running" /\ Worker.op = flight.op /\ Worker.want = flight.want
  BY <1>1, BesideTheWorker
<1>3. Worker.op # "delete" => Writing
  BY <1>1, <1>2 DEF JobOK
<1>4. CASE Worker.op # "delete" /\ (rec.st = "none" \/ rec.rev < Worker.rev)
  <2>1. UNCHANGED rec /\ Ends("plugin", "err")
    BY <1>4 DEF HelmFinishes, Worker
  <2>2. /\ flight' = [flight EXCEPT !.phase = "err"] /\ UNCHANGED Cli
    BY <1>1, <2>1 DEF Ends, Cli, Actors
  <2>3. /\ flight'.phase = "err" /\ flight'.gen = flight.gen /\ flight'.want = flight.want
        /\ flight'.op = flight.op /\ flight'.rev = flight.rev /\ flight'.kind = flight.kind
        /\ flight'.readers = flight.readers /\ flight'.reported = flight.reported
    BY <1>1, <2>2 DEF Flights
  <2>4. CliOK' /\ JobOK' /\ Overtaken'
    BY <1>1, <1>2, <2>1, <2>2, <2>3 DEF CliOK, CliWrites, JobOK, Overtaken, Begun
  <2> QED  BY <1>1, <2>2, <2>3, <2>4, WorkerKeepsOurs DEF Begun
<1>5. CASE ~(Worker.op # "delete" /\ (rec.st = "none" \/ rec.rev < Worker.rev))
  <2>1. helm' = [helm EXCEPT !["plugin"].step = "return"] /\ UNCHANGED flight
    BY <1>5 DEF HelmFinishes, Worker
  <2>2. Worker'.step = "return" /\ Worker'.op = Worker.op /\ Worker'.want = Worker.want
        /\ UNCHANGED Cli
    BY <1>1, <2>1 DEF Cli, Worker, Actors, Works
  <2>3. CASE Worker.op = "delete"
    <3>1. rec' = NoRec /\ Cli.step \notin {"apply", "record"}
      BY <2>3 DEF HelmFinishes, Spares, Worker
    <3>2. CliOK' /\ JobOK'
      BY <1>1, <1>2, <2>1, <2>2, <2>3, <3>1 DEF CliOK, CliWrites, JobOK, NoRec
    <3> QED  BY <1>1, <1>2, <2>1, <2>2, <2>3, <3>2, WorkerKeepsOurs DEF Begun
  <2>4. CASE Worker.op # "delete"
    <3> DEFINE r == [rec EXCEPT !.rev = Worker.rev, !.st = "deployed", !.want = Worker.want]
    <3>1. /\ r \in Revisions /\ r.rev = Worker.rev /\ r.want = Worker.want
          /\ r.st = "deployed" /\ r.own = rec.own
      BY <1>1 DEF Revisions, Statuses, Works
    <3> HIDE DEF r
    <3>2. Stored(r)
      BY <1>5, <2>4 DEF HelmFinishes, Worker, r
    <3>3. /\ rec.st # "none" /\ rec.own = TRUE /\ rec.rev = Worker.rev
          /\ Worker.rev >= flight.rev
          /\ CliWrites => Cli.rev < rec.rev
      BY <1>1, <1>3, <1>5, <2>4 DEF Writing, Revisions
    <3>4. /\ rec'.st = "deployed" /\ rec'.rev = rec.rev /\ rec'.own = TRUE
          /\ rec'.want = flight.want
      BY <1>1, <1>2, <3>1, <3>2, <3>3, StoredType
    <3>5. CliOK'
      BY <1>1, <2>2, <3>3, <3>4, RecordFacts DEF CliOK, CliWrites
    <3>6. JobOK'
      BY <1>1, <1>2, <2>1, <2>2, <3>3, <3>4 DEF JobOK, Lasting
    <3>7. Overtaken => Overtaken'
      BY <1>1, <1>2, <2>1, <2>2, <3>3, <3>4 DEF Overtaken, CliKeeps, CliSpent, CliWrites
    <3> QED  BY <1>1, <1>2, <2>1, <2>2, <3>5, <3>6, <3>7, WorkerKeepsOurs DEF Begun
  <2> QED  BY <2>3, <2>4
<1> QED  BY <1>4, <1>5

LEMMA WorkerEnds ==
    ASSUME OursOK, IInv, IInv',
           HelmRefuses("plugin") \/ HelmReturns("plugin") \/ HelmFails("plugin")
    PROVE  OursOK'
<1>1. /\ CliOK /\ JobOK /\ "plugin" \in Actors /\ helm \in [Actors -> Works]
      /\ Worker.step # "none" /\ UNCHANGED <<call, host, spent>>
      /\ rec \in Revisions /\ rec.rev \in Nat /\ Worker \in Works
      /\ flight \in Flights
  BY RecordFacts DEF OursOK, HelmRefuses, HelmReturns, HelmFails, Worker, Actors
<1>2. flight.phase = "running" /\ Worker.op = flight.op /\ Worker.want = flight.want
  BY <1>1, BesideTheWorker
<1>3. CASE HelmReturns("plugin")
  <2>1. /\ flight' = [flight EXCEPT !.phase = "ok"] /\ helm' = [helm EXCEPT !["plugin"] = Idle]
        /\ Worker.step = "return" /\ UNCHANGED rec
    BY <1>3 DEF HelmReturns, Ends, Worker, cluster
  <2>2. /\ flight'.phase = "ok" /\ flight'.gen = flight.gen /\ flight'.want = flight.want
        /\ flight'.op = flight.op /\ flight'.rev = flight.rev /\ flight'.kind = flight.kind
        /\ flight'.readers = flight.readers /\ flight'.reported = flight.reported
    BY <1>1, <2>1 DEF Flights
  <2>3. Worker'.step = "none" /\ UNCHANGED Cli
    BY <1>1, <2>1 DEF Worker, Cli, Actors, Idle
  <2>4. CliOK' /\ JobOK' /\ (Overtaken => Overtaken')
    BY <1>1, <1>2, <2>1, <2>2, <2>3
       DEF CliOK, CliWrites, JobOK, Lasting, Overtaken, Begun, CliKeeps, CliSpent
  <2> QED  BY <1>1, <2>2, <2>3, <2>4, WorkerKeepsOurs DEF Begun
<1>4. CASE HelmRefuses("plugin") \/ HelmFails("plugin")
  <2>1. flight' = [flight EXCEPT !.phase = "err"] /\ helm' = [helm EXCEPT !["plugin"] = Idle]
    BY <1>4 DEF HelmRefuses, HelmFails, Ends
  <2>2. /\ flight'.phase = "err" /\ flight'.gen = flight.gen /\ flight'.want = flight.want
        /\ flight'.op = flight.op /\ flight'.rev = flight.rev /\ flight'.kind = flight.kind
        /\ flight'.readers = flight.readers /\ flight'.reported = flight.reported
    BY <1>1, <2>1 DEF Flights
  <2>3. UNCHANGED Cli
    BY <1>1, <2>1 DEF Cli, Actors
  <2>4. rec' = rec \/ (rec.st # "none" /\ rec' = [rec EXCEPT !.st = "failed"])
    BY <1>4 DEF HelmRefuses, HelmFails, cluster
  <2>5. /\ rec'.rev = rec.rev /\ rec'.own = rec.own /\ rec'.want = rec.want
        /\ rec'.st = rec.st \/ (rec.st # "none" /\ rec'.st = "failed")
    BY <1>1, <2>4 DEF Revisions
  <2>6. CliOK' /\ JobOK' /\ Overtaken'
    BY <1>1, <1>2, <2>2, <2>3, <2>5 DEF CliOK, CliWrites, JobOK, Overtaken, Begun
  <2> QED  BY <1>1, <2>2, <2>3, <2>6, WorkerKeepsOurs DEF Begun
<1> QED  BY <1>3, <1>4

-----------------------------------------------------------------------------
(* The callback the agent waits for *)

(* There is one, and it does what the agent drives. *)
LEMMA ServedFacts ==
    ASSUME OursOK, IInv, NEW c \in Slots, call[c].pc # "idle"
    PROVE  /\ host.slot = c /\ host.stage # "idle"
           /\ \A d \in Slots \ {c} : call[d].pc = "idle"
           /\ call[c].kind = host.kind /\ call[c].want = host.want
           /\ call[c].req = host.req
           /\ call[c].req = NoReq => host.stage # "poll"
           /\ call[c].req.op \in Ops =>
                host.stage = "poll" /\ (host.req.op = "delete") = (host.kind = "delete")
           /\ flight.readers \subseteq {c}
           /\ ~Reader(c) => flight.readers = {}
           /\ flight.reported = FALSE
           /\ ServedOK(c) /\ CallbackOK(c)
           /\ call[c] \in Callbacks /\ call \in [Slots -> Callbacks]
<1>1. host.slot = c /\ host.slot # 0
  BY SlotIsNotZero DEF OursOK, Alone
<1>2. \A d \in Slots \ {c} : call[d].pc = "idle"
  BY <1>1 DEF OursOK, Alone
<1>3. \A d \in flight.readers : d \in Slots /\ Reader(d)
  BY RecordFacts DEF OursOK, EntryKept, Flights
<1>4. flight.readers \subseteq {c} /\ (~Reader(c) => flight.readers = {})
  BY <1>2, <1>3 DEF Reader
<1>5. /\ call[c].kind = host.kind /\ call[c].want = host.want /\ call[c].req = host.req
      /\ host.stage = "poll" => (host.req.op = "delete") = (host.kind = "delete")
  BY <1>1 DEF OursOK, AskedOK
<1>6. /\ host.stage = "poll" => host.req.op \in Ops
      /\ host.stage # "poll" => host.req = NoReq
      /\ host.stage # "idle" /\ NoReq.op \notin Ops
  BY <1>1 DEF IInv, Ownership, HostOK, NoReq, Ops
<1> QED  BY <1>1, <1>2, <1>4, <1>5, <1>6, RecordFacts
         DEF OursOK, EntryKept, IInv, Ownership

(* It goes on, and what the others rely on is kept. *)
LEMMA StepsOurs ==
    ASSUME OursOK, IInv, IInv', NEW c \in Slots, call[c].pc # "idle", UNCHANGED host,
           Others(c), call'[c].pc # "idle", call'[c].kind = call[c].kind,
           call'[c].want = call[c].want, call'[c].req = call[c].req,
           CliOK', JobOK', PollIsOurs', EntryKept', ServedOK(c)'
    PROVE  OursOK'
<1>1. host.slot = c /\ \A d \in Slots \ {c} : call[d].pc = "idle" /\ call'[d].pc = "idle"
  BY ServedFacts DEF Others
<1>2. AskedOK' /\ Alone'
  BY <1>1 DEF OursOK, AskedOK, Alone
<1>3. ASSUME NEW d \in Slots  PROVE ServedOK(d)'
  <2>1. CASE d = c
    BY <2>1
  <2>2. CASE d # c
    BY <1>1, <2>2 DEF ServedOK, Reader
  <2> QED  BY <2>1, <2>2
<1> QED  BY <1>2, <1>3 DEF OursOK

(* It goes on without touching the release. *)
LEMMA GoesOnOurs ==
    ASSUME OursOK, IInv, IInv', NEW c \in Slots, call[c].pc # "idle",
           UNCHANGED <<rec, Cli, host>>, spent'.cli = spent.cli, Others(c),
           call'[c].pc # "idle", call'[c].kind = call[c].kind,
           call'[c].want = call[c].want, call'[c].req = call[c].req,
           JobOK', PollIsOurs', EntryKept', ServedOK(c)'
    PROVE  OursOK'
<1>1. CliOK'
  BY DEF OursOK, CliOK, CliWrites
<1> QED  BY <1>1, StepsOurs

(* It is over, and the agent is told. *)
LEMMA AnswersOurs ==
    ASSUME OursOK, IInv, IInv', NEW c \in Slots, call[c].pc # "idle",
           NEW STATE reply, Answer(c, reply),
           UNCHANGED <<rec, Cli>>, spent'.cli = spent.cli,
           JobOK', flight'.readers = {}, flight'.reported = FALSE,
           reply.kind = "progress" =>
             /\ (reply.req.op = "delete") = (host.kind = "delete")
             /\ host.kind # "delete" =>
                  IF reply.req.gen = 0
                  THEN /\ flight'.phase \in {"none", "preparing"}
                       /\ Lasting(reply.req.rev, TRUE, host.want)
                  ELSE /\ flight'.phase \in Begun /\ FlightReq' = reply.req
                       /\ flight'.kind = host.kind /\ flight'.want = host.want
    PROVE  OursOK'
<1>1. host.slot = c /\ \A d \in Slots \ {c} : call[d].pc = "idle"
  BY ServedFacts
<1>2. /\ call'[c] = NoCall /\ Others(c)
      /\ host'.slot = 0 /\ host'.kind = host.kind /\ host'.want = host.want
      /\ host'.req = IF reply.kind = "progress" THEN reply.req ELSE NoReq
      /\ host'.stage = "poll" <=> reply.kind = "progress"
  BY <1>1, AnswerHost DEF IInv
<1>3. \A d \in Slots : call'[d].pc = "idle"
  BY <1>1, <1>2 DEF Others, NoCall
<1>4. CliOK'
  BY DEF OursOK, CliOK, CliWrites
<1>5. AskedOK' /\ Alone' /\ EntryKept'
  BY <1>2, <1>3 DEF AskedOK, Alone, EntryKept
<1>6. PollIsOurs'
  BY <1>2 DEF PollIsOurs, Covers, Lasting, FlightReq, CliSpent
<1>7. \A d \in Slots : ServedOK(d)'
  BY <1>3 DEF ServedOK, Reader
<1> QED  BY <1>4, <1>5, <1>6, <1>7 DEF OursOK

(* It is over without progress, and nothing is polled for. *)
LEMMA EndsOurs ==
    ASSUME OursOK, IInv, IInv', NEW c \in Slots, call[c].pc # "idle",
           NEW STATE reply, Answer(c, reply), reply.kind # "progress",
           CliOK', JobOK', flight'.readers = {}, flight'.reported = FALSE
    PROVE  OursOK'
<1>1. host.slot = c /\ \A d \in Slots \ {c} : call[d].pc = "idle"
  BY ServedFacts
<1>2. /\ call'[c] = NoCall /\ Others(c)
      /\ host'.slot = 0 /\ host'.stage # "poll"
  BY <1>1, AnswerHost DEF IInv
<1>3. \A d \in Slots : call'[d].pc = "idle"
  BY <1>1, <1>2 DEF Others, NoCall
<1>4. AskedOK' /\ Alone' /\ EntryKept' /\ PollIsOurs'
  BY <1>2, <1>3 DEF AskedOK, Alone, EntryKept, PollIsOurs
<1>5. \A d \in Slots : ServedOK(d)'
  BY <1>3 DEF ServedOK, Reader
<1> QED  BY <1>4, <1>5 DEF OursOK

(* The job is what it was, or there is none. *)
LEMMA JobStays ==
    ASSUME OursOK, UNCHANGED <<rec, Worker, Cli>>, spent'.cli = spent.cli, EntryStep
    PROVE  JobOK'
BY DEF OursOK, JobOK, EntryStep, SameEntry, NoFlight, Begun, Clear, Writing, Lasting,
       CliSpent, CliKeeps, CliWrites

(* So is what the agent polls for, when the entry stays or was not begun. *)
LEMMA PollStaysOurs ==
    ASSUME OursOK, IInv, UNCHANGED <<rec, Cli, host>>, spent'.cli = spent.cli,
           \/ UNCHANGED flight \/ SameEntry
           \/ flight.phase \notin Begun /\ flight'.phase \in {"none", "preparing"}
    PROVE  PollIsOurs'
BY DEF OursOK, PollIsOurs, Covers, Lasting, SameEntry, FlightReq, CliSpent

(* An answer other than progress ends the poll. *)
LEMMA SilentOurs ==
    ASSUME OursOK, IInv, IInv', NEW c \in Slots, call[c].pc # "idle",
           NEW STATE reply, Answer(c, reply), reply.kind # "progress",
           UNCHANGED <<rec, Worker, Cli>>, spent'.cli = spent.cli, EntryStep,
           flight'.readers = {}, flight'.reported = FALSE
    PROVE  OursOK'
BY AnswersOurs, JobStays

(* Without a reader, what is reported goes at once. *)
LEMMA ReportForgets ==
    ASSUME flight.readers = {}, flight' = Report(flight)
    PROVE  /\ flight' = NoFlight /\ EntryStep
           /\ flight'.readers = {} /\ flight'.reported = FALSE
BY DEF Report, EntryStep, NoFlight

(* The agent is told to poll for the entry, which is what it asked for. *)
LEMMA EntryOurs ==
    ASSUME OursOK, IInv, IInv', NEW c \in Slots, call[c].pc # "idle",
           UNCHANGED <<rec, Worker, Cli, flight>>, spent'.cli = spent.cli,
           flight.readers = {}, flight.phase \in Begun, flight.kind = host.kind,
           host.kind # "delete" => flight.want = host.want,
           NEW STATE w, Answer(c, Progress(FlightReq, w))
    PROVE  OursOK'
<1>1. flight.gen # 0 /\ JobOK /\ flight.reported = FALSE
  BY RecordFacts DEF FlightOK, NoFlight, Begun, OursOK, EntryKept
<1> DEFINE p == Progress(FlightReq, w)
<1>2. p.kind = "progress" /\ p.req = FlightReq /\ Answer(c, p) /\ p.req.gen # 0
  BY <1>1 DEF Progress, FlightReq
<1> HIDE DEF p
<1>3. /\ (p.req.op = "delete") = (host.kind = "delete")
      /\ host.kind # "delete" =>
           /\ flight'.phase \in Begun /\ FlightReq' = p.req
           /\ flight'.kind = host.kind /\ flight'.want = host.want
  BY <1>1, <1>2 DEF JobOK, FlightReq
<1>4. JobOK'
  BY JobStays DEF EntryStep
<1> QED  BY <1>1, <1>2, <1>3, <1>4, AnswersOurs

LEMMA ReserveOurs == ASSUME OursOK, IInv, IInv', NEW c \in Slots, Reserve(c)  PROVE OursOK'
<1>1. /\ call[c].pc = "submit" /\ UNCHANGED <<rec, Worker, Cli, host, spent>>
      /\ flight = NoFlight
  BY DEF Reserve, cluster, Worker, Cli
<1>2. /\ call[c] \in Callbacks /\ call \in [Slots -> Callbacks]
  BY <1>1, ServedFacts
<1>3. /\ call'[c].pc = "plan" /\ call'[c].kind = call[c].kind
      /\ call'[c].want = call[c].want /\ call'[c].req = call[c].req /\ Others(c)
  BY <1>1, <1>2 DEF Reserve, Others, Callbacks
<1>4. /\ flight'.kind = call[c].kind /\ flight'.want = call[c].want
      /\ flight'.phase = "preparing" /\ flight'.readers = {} /\ flight'.reported = FALSE
  BY DEF Reserve, NoFlight
<1>5. JobOK' /\ EntryKept'
  BY <1>4 DEF JobOK, EntryKept, Begun
<1>6. PollIsOurs'
  BY <1>1, <1>4, PollStaysOurs DEF Begun, NoFlight
<1>7. ServedOK(c)'
  BY <1>3, <1>4 DEF ServedOK, Reader
<1> QED  BY <1>1, <1>3, <1>5, <1>6, <1>7, GoesOnOurs

LEMMA RejoinOurs == ASSUME OursOK, IInv, IInv', NEW c \in Slots, Rejoin(c)  PROVE OursOK'
<1>1. /\ call[c].pc = "submit" /\ UNCHANGED <<rec, Worker, Cli, flight, spent>>
      /\ flight # NoFlight
  BY DEF Rejoin, cluster, Worker, Cli
<1>2. /\ flight.readers = {} /\ flight.reported = FALSE /\ EntryStep
      /\ call[c].kind = host.kind /\ call[c].want = host.want
  BY <1>1, ServedFacts DEF Reader, EntryStep
<1>3. CASE Answer(c, Reply("conflict"))
  <2>1. Reply("conflict").kind = "conflict"
    BY DEF Reply
  <2> QED  BY <1>1, <1>2, <1>3, <2>1, SilentOurs
<1>4. CASE /\ flight.phase # "preparing" /\ flight.kind = call[c].kind
           /\ call[c].kind # "delete" => flight.want = call[c].want
           /\ Answer(c, Progress(FlightReq, call[c].kind = "create"))
  <2>1. flight.phase \in Begun
    BY <1>1, <1>4, RecordFacts DEF FlightOK, Flights, Begun
  <2> QED  BY <1>1, <1>2, <1>4, <2>1, EntryOurs
<1> QED  BY <1>3, <1>4 DEF Rejoin

(* Giving up returns the entry. *)
LEMMA GiveUpOurs ==
    ASSUME OursOK, IInv, IInv', NEW c \in Slots, Owner(c),
           NEW STATE reply, GiveUp(c, reply), reply.kind # "progress",
           UNCHANGED <<cluster, helm>>, spent'.cli = spent.cli
    PROVE  OursOK'
<1>1. flight.gen = call[c].gen /\ call[c].pc # "idle" /\ UNCHANGED <<rec, Worker, Cli>>
  BY DEF IInv, Ownership, CallbackOK, OwnerOK, Owner, cluster, Worker, Cli
<1>2. Answer(c, reply) /\ EntryStep /\ flight'.readers = {} /\ flight'.reported = FALSE
  BY <1>1 DEF GiveUp, EntryStep, NoFlight
<1> QED  BY <1>1, <1>2, SilentOurs

LEMMA ChooseOurs ==
    ASSUME OursOK, IInv, IInv', NEW c \in Slots, call[c].pc = "plan",
           NEW STATE op, NEW STATE target, Choose(c, op, target),
           op # "delete" => Clear(op, target), UNCHANGED <<cluster, helm, spent>>
    PROVE  OursOK'
<1>1. /\ call[c] \in Callbacks /\ call \in [Slots -> Callbacks] /\ ServedOK(c)
      /\ flight.readers = {}
  BY ServedFacts DEF Reader
<1>2. /\ Others(c) /\ call'[c].pc = "activate" /\ call'[c].kind = call[c].kind
      /\ call'[c].want = call[c].want /\ call'[c].req = call[c].req
      /\ call'[c].op = op /\ call'[c].rev = target
  BY <1>1 DEF Choose, Others, Callbacks
<1>3. UNCHANGED <<rec, Worker, Cli, flight, host, spent>>
  BY DEF Choose, cluster, Worker, Cli
<1>4. ServedOK(c)'
  BY <1>1, <1>2, <1>3 DEF ServedOK, Reader, Clear, CliKeeps, CliSpent
<1>5. JobOK' /\ PollIsOurs'
  BY <1>3, JobStays, PollStaysOurs DEF EntryStep
<1>6. EntryKept'
  BY <1>1, <1>3 DEF OursOK, EntryKept
<1> QED  BY <1>2, <1>3, <1>4, <1>5, <1>6, GoesOnOurs

(* The record that is judged is the latest. *)
LEMMA JudgesOurs ==
    ASSUME OursOK, IInv, IInv', NEW c \in Slots, call[c].pc \in {"plan", "read"},
           call[c].pc = "read" => ~call[c].backed, rec.st # "none",
           call' = [call EXCEPT ![c].pc = "judge", ![c].seen = rec],
           UNCHANGED <<cluster, helm, flight, host, spent>>
    PROVE  OursOK'
<1>1. /\ call[c] \in Callbacks /\ call \in [Slots -> Callbacks] /\ ServedOK(c)
      /\ flight.readers \subseteq {c} /\ (~Reader(c) => flight.readers = {})
      /\ flight.reported = FALSE /\ CallbackOK(c)
  BY ServedFacts
<1>2. /\ Others(c) /\ call'[c].pc = "judge" /\ call'[c].kind = call[c].kind
      /\ call'[c].want = call[c].want /\ call'[c].req = call[c].req
      /\ call'[c].gen = call[c].gen /\ call'[c].backed = call[c].backed
      /\ call'[c].seen = rec
  BY <1>1 DEF Others, Callbacks
<1>3. UNCHANGED <<rec, Worker, Cli, flight, host, spent>>
  BY DEF cluster, Worker, Cli
<1>4. flight.phase # "running"
  <2>1. Owner(c) \/ Reader(c)
    BY DEF Owner, Reader
  <2> QED  BY <1>1, <2>1, WhoHasIt DEF ServedOK, Reader
<1>5. call[c].pc = "read" => call[c].req # NoReq
  BY <1>1 DEF CallbackOK, SentOK, NoReq, Ops
<1>6. rec.rev \in Nat
  BY RecordFacts
<1>7. ServedOK(c)'
  BY <1>1, <1>2, <1>3, <1>4, <1>5, <1>6 DEF ServedOK, Lasting
<1>8. JobOK' /\ PollIsOurs'
  BY <1>3, JobStays, PollStaysOurs DEF EntryStep
<1>9. EntryKept'
  BY <1>1, <1>2, <1>3 DEF EntryKept, Reader
<1> QED  BY <1>2, <1>3, <1>7, <1>8, <1>9, GoesOnOurs

LEMMA PlanOurs == ASSUME OursOK, IInv, IInv', NEW c \in Slots, Plan(c)  PROVE OursOK'
<1>1. /\ Shape /\ call[c].pc = "plan" /\ Owner(c) /\ call[c].kind # "delete"
      /\ UNCHANGED <<cluster, helm, spent>> /\ CliOK /\ rec.rev \in Nat
  BY PlanCases, RecordFacts DEF Owner, IInv, OursOK
<1>2. CASE rec.st = "none" /\ Choose(c, "install", 1)
  <2>1. Clear("install", 1)
    BY <1>2 DEF Clear
  <2> QED  BY <1>1, <1>2, <2>1, ChooseOurs
<1>3. CASE rec.st = "pending" /\ ~rec.own /\ Choose(c, "install", rec.rev)
  <2>1. Clear("install", rec.rev)
    BY <1>1, <1>3 DEF Clear, CliOK, CliWrites, CliKeeps, CliSpent
  <2> QED  BY <1>1, <1>3, <2>1, ChooseOurs
<1>4. CASE rec.st \notin {"none", "pending"} /\ Choose(c, "upgrade", rec.rev + 1)
  <2>1. Clear("upgrade", rec.rev + 1)
    BY <1>1, <1>4 DEF Clear
  <2> QED  BY <1>1, <1>4, <2>1, ChooseOurs
<1>5. CASE /\ rec.st = "pending"
           /\ call' = [call EXCEPT ![c].pc = "judge", ![c].seen = rec]
           /\ UNCHANGED <<flight, host>>
  BY <1>1, <1>5, JudgesOurs
<1>6. CASE GiveUp(c, Reply("error"))
  <2>1. Reply("error").kind # "progress"
    BY DEF Reply
  <2> QED  BY <1>1, <1>6, <2>1, GiveUpOurs
<1>7. CASE \E id \in BOOLEAN : GiveUp(c, [Reply("conflict") EXCEPT !.id = id])
  <2>1. PICK id \in BOOLEAN : GiveUp(c, [Reply("conflict") EXCEPT !.id = id])
    BY <1>7
  <2>2. [Reply("conflict") EXCEPT !.id = id].kind # "progress"
    BY DEF Reply
  <2> QED  BY <1>1, <2>1, <2>2, GiveUpOurs
<1>8. CASE /\ Settled(rec, call[c].want)
           /\ GiveUp(c, Progress([gen |-> 0, op |-> OpOf(call[c].kind),
                                  rev |-> rec.rev], call[c].kind = "create"))
  <2>1. call[c].kind \in {"create", "update"} /\ flight.gen = call[c].gen
        /\ UNCHANGED <<rec, Worker, Cli>>
    BY <1>1 DEF IInv, Ownership, CallbackOK, SentOK, OwnerOK, Kinds, cluster, Worker, Cli
  <2>2. call[c].kind = host.kind /\ call[c].want = host.want
    BY <1>1, ServedFacts
  <2> DEFINE p == Progress([gen |-> 0, op |-> OpOf(call[c].kind), rev |-> rec.rev],
                           call[c].kind = "create")
  <2>3. p.kind = "progress" /\ p.req.gen = 0 /\ p.req.rev = rec.rev /\ p.req.op # "delete"
        /\ GiveUp(c, p)
    BY <1>8, <2>1 DEF Progress, OpOf
  <2> HIDE DEF p
  <2>4. Answer(c, p) /\ flight' = NoFlight
    BY <2>1, <2>3 DEF GiveUp
  <2>5. flight'.phase = "none" /\ flight'.readers = {} /\ flight'.reported = FALSE /\ EntryStep
    BY <2>4 DEF NoFlight, EntryStep
  <2>6. Lasting(p.req.rev, TRUE, host.want)
    BY <1>1, <1>8, <2>2, <2>3 DEF Lasting, Settled, IInv, Shape, Revisions
  <2>7. JobOK'
    BY <1>1, <2>1, <2>5, JobStays
  <2> QED  BY <1>1, <2>1, <2>2, <2>3, <2>4, <2>5, <2>6, <2>7, AnswersOurs
<1> QED  BY <1>1, <1>2, <1>3, <1>4, <1>5, <1>6, <1>7, <1>8, PlanCases

LEMMA PlanDeleteOurs ==
    ASSUME OursOK, IInv, IInv', NEW c \in Slots, PlanDelete(c)  PROVE OursOK'
<1>1. Owner(c) /\ call[c].pc = "plan" /\ UNCHANGED <<cluster, helm, spent>>
  BY DEF PlanDelete, Owner
<1>2. CASE GiveUp(c, Reply("success"))
  <2>1. Reply("success").kind # "progress"
    BY DEF Reply
  <2> QED  BY <1>1, <1>2, <2>1, GiveUpOurs
<1>3. CASE Choose(c, "delete", rec.rev)
  BY <1>1, <1>3, ChooseOurs
<1> QED  BY <1>2, <1>3 DEF PlanDelete

LEMMA FailedPreparationOurs ==
    ASSUME OursOK, IInv, IInv', NEW c \in Slots, PreparationFails(c)  PROVE OursOK'
<1>1. Reply("error").kind # "progress" /\ Owner(c) /\ spent'.cli = spent.cli
  BY FaultsAreNotCli DEF Reply, PreparationFails, Owner, IInv
<1> QED  BY <1>1, GiveUpOurs DEF PreparationFails

(* The worker starts for what the agent asked for. *)
LEMMA ActivateOurs == ASSUME OursOK, IInv, IInv', NEW c \in Slots, Activate(c)  PROVE OursOK'
<1>1. /\ call[c].pc = "activate" /\ call[c] \in Callbacks /\ call \in [Slots -> Callbacks]
      /\ ServedOK(c) /\ CallbackOK(c) /\ flight.readers = {} /\ flight.reported = FALSE
      /\ call[c].kind = host.kind /\ call[c].want = host.want /\ flight.gen = call[c].gen
      /\ call[c].req = NoReq /\ host.stage # "poll"
  BY ServedFacts DEF Activate, Reader, CallbackOK, SentOK
<1>2. /\ call[c].op \in Ops /\ (call[c].op = "delete") = (call[c].kind = "delete")
      /\ flight.kind = call[c].kind /\ flight.want = call[c].want
      /\ call[c].op # "delete" => Clear(call[c].op, call[c].rev)
  BY <1>1 DEF CallbackOK, SentOK, ServedOK
<1>3. UNCHANGED <<rec, Cli, spent>> /\ helm \in [Actors -> Works] /\ flight \in Flights
  BY RecordFacts DEF Activate, cluster, Cli, Actors
<1>4. Worker'.op = call[c].op /\ Worker'.want = call[c].want /\ Worker'.step = "begin"
  BY <1>3 DEF Activate, Worker, Actors, Idle
<1>5. /\ flight'.op = call[c].op /\ flight'.rev = call[c].rev /\ flight'.phase = "running"
      /\ flight'.gen = flight.gen /\ flight'.kind = flight.kind /\ flight'.want = flight.want
      /\ flight'.readers = {} /\ flight'.reported = FALSE
  BY <1>1, <1>3 DEF Activate, Flights
<1>6. JobOK'
  <2>1. (flight.op # "delete" => Clear(flight.op, flight.rev))'
    BY <1>2, <1>3, <1>5 DEF Clear, CliKeeps, CliSpent
  <2> QED  BY <1>2, <1>4, <1>5, <2>1 DEF JobOK
<1>7. CASE call[c].kind = "delete"
  <2> DEFINE p == Progress([gen |-> call[c].gen, op |-> "delete", rev |-> call[c].rev], FALSE)
  <2>1. Answer(c, p) /\ p.req.op = "delete" /\ host.kind = "delete"
    BY <1>1, <1>7 DEF Activate, Progress
  <2> HIDE DEF p
  <2> QED  BY <1>1, <1>3, <1>5, <1>6, <2>1, AnswersOurs
<1>8. CASE call[c].kind # "delete"
  <2>1. UNCHANGED host /\ call' = [call EXCEPT ![c].pc = "await"]
    BY <1>8 DEF Activate
  <2>2. /\ call'[c].pc = "await" /\ call'[c].kind = call[c].kind /\ call'[c].gen = call[c].gen
        /\ call'[c].want = call[c].want /\ call'[c].req = call[c].req /\ Others(c)
    BY <1>1, <2>1 DEF Callbacks, Others
  <2>3. ServedOK(c)'
    BY <1>1, <1>2, <1>5, <2>2 DEF ServedOK, Reader
  <2>4. PollIsOurs' /\ EntryKept'
    BY <1>1, <1>5, <2>1 DEF PollIsOurs, EntryKept
  <2> QED  BY <1>1, <1>3, <1>6, <2>1, <2>2, <2>3, <2>4, GoesOnOurs
<1> QED  BY <1>7, <1>8

(* A submit that waits for the record finds its own entry. *)
LEMMA AwaitOurs ==
    ASSUME OursOK, IInv, IInv', NEW c \in Slots,
           \/ AwaitRecorded(c) \/ AwaitOutcome(c) \/ AwaitOverdue(c)
           \/ AwaitForgotten(c) \/ AwaitFails(c)
    PROVE  OursOK'
<1>1. /\ call[c].pc = "await" /\ UNCHANGED <<rec, Worker, Cli>> /\ spent'.cli = spent.cli
  BY FaultsAreNotCli DEF AwaitRecorded, AwaitOutcome, AwaitOverdue, AwaitForgotten,
                         AwaitFails, cluster, Worker, Cli, IInv
<1>2. /\ flight.gen = call[c].gen /\ flight.kind = host.kind /\ flight.want = host.want
      /\ flight.readers = {} /\ flight.reported = FALSE /\ flight.phase \in Begun
  BY <1>1, ServedFacts DEF ServedOK, CallbackOK, WaiterOK, Reader
<1>3. /\ UNCHANGED flight \/ flight' = NoFlight
      /\ \/ Answer(c, Reply("error")) \/ Answer(c, Reply("failure"))
         \/ Answer(c, Progress(FlightReq, call[c].kind = "create")) /\ UNCHANGED flight
  BY <1>2, ReportForgets
     DEF AwaitRecorded, AwaitOutcome, AwaitOverdue, AwaitForgotten, AwaitFails
<1>4. CASE Answer(c, Reply("error")) \/ Answer(c, Reply("failure"))
  <2>1. Reply("error").kind # "progress" /\ Reply("failure").kind # "progress"
    BY DEF Reply
  <2>2. EntryStep /\ flight'.readers = {} /\ flight'.reported = FALSE
    BY <1>2, <1>3 DEF EntryStep, NoFlight
  <2> QED  BY <1>1, <1>4, <2>1, <2>2, SilentOurs
<1>5. CASE Answer(c, Progress(FlightReq, call[c].kind = "create")) /\ UNCHANGED flight
  BY <1>1, <1>2, <1>5, EntryOurs
<1> QED  BY <1>3, <1>4, <1>5

-----------------------------------------------------------------------------
(* Polls and recovery, beside another tool *)

LEMMA AcquireOurs ==
    ASSUME OursOK, IInv, IInv', NEW c \in Slots, AcquireRecovery(c) \/ AcquireFlight(c)
    PROVE  OursOK'
<1>1. /\ call[c].pc = "poll" /\ call[c] \in Callbacks /\ call \in [Slots -> Callbacks]
      /\ flight \in Flights /\ flight.readers = {} /\ flight.reported = FALSE
      /\ UNCHANGED <<rec, Worker, Cli, host, spent>>
  BY ServedFacts, RecordFacts
     DEF AcquireRecovery, AcquireFlight, Reader, cluster, Worker, Cli
<1>2. /\ Others(c) /\ call'[c].pc = "read" /\ call'[c].kind = call[c].kind
      /\ call'[c].want = call[c].want /\ call'[c].req = call[c].req
  BY <1>1 DEF AcquireRecovery, AcquireFlight, Others, Callbacks
<1>3. CASE AcquireRecovery(c)
  <2>1. /\ flight = NoFlight /\ flight'.phase = "preparing" /\ flight'.readers = {}
        /\ flight'.reported = FALSE
    BY <1>3 DEF AcquireRecovery, NoFlight
  <2>2. JobOK' /\ PollIsOurs' /\ EntryKept'
    BY <1>1, <2>1, JobStays, PollStaysOurs DEF EntryStep, EntryKept, NoFlight, Begun
  <2>3. ServedOK(c)'
    BY <1>2, <2>1, NextReader DEF ServedOK, Begun
  <2> QED  BY <1>1, <1>2, <2>2, <2>3, GoesOnOurs
<1>4. CASE AcquireFlight(c)
  <2>1. /\ SameEntry /\ flight'.readers = {c} /\ flight'.reported = FALSE
        /\ flight.gen = call[c].req.gen
    BY <1>1, <1>4 DEF AcquireFlight, SameEntry, Flights, Matches, FlightReq
  <2>2. call'[c].gen = flight.gen /\ call'[c].backed = (flight.phase = "running")
    BY <1>1, <1>4 DEF AcquireFlight, Callbacks
  <2>3. JobOK' /\ PollIsOurs'
    BY <1>1, <2>1, JobStays, PollStaysOurs DEF EntryStep
  <2>4. Reader(c)' /\ EntryKept'
    BY <1>2, <2>1, <2>2 DEF Reader, EntryKept
  <2>5. ServedOK(c)'
    BY <1>2, <2>1, <2>2 DEF ServedOK, SameEntry
  <2> QED  BY <1>1, <1>2, <2>3, <2>4, <2>5, GoesOnOurs
<1> QED  BY <1>3, <1>4

LEMMA StatusOurs ==
    ASSUME OursOK, IInv, IInv', NEW c \in Slots, RefuseStatus(c) \/ StatusVerdict(c)
    PROVE  OursOK'
<1>1. call[c].pc = "poll" /\ UNCHANGED <<rec, Worker, Cli, spent>>
  BY DEF RefuseStatus, StatusVerdict, cluster, Worker, Cli
<1>2. flight.readers = {} /\ flight.reported = FALSE
  BY <1>1, ServedFacts DEF Reader
<1>3. /\ UNCHANGED flight \/ flight' = Report(flight)
      /\ Answer(c, Reply("conflict")) \/ Answer(c, Withheld("failure", flight.op))
  BY DEF RefuseStatus, StatusVerdict
<1>4. EntryStep /\ flight'.readers = {} /\ flight'.reported = FALSE
  BY <1>2, <1>3, ReportForgets DEF EntryStep
<1>5. Reply("conflict").kind = "conflict" /\ Withheld("failure", flight.op).kind = "failure"
  BY DEF Reply, Withheld
<1> QED  BY <1>1, <1>3, <1>4, <1>5, SilentOurs

(* A deployed record at the revision asked for is what the agent wants, or   *)
(* the worker will find that it has been overtaken.                          *)
LEMMA ReadIsOurs ==
    ASSUME OursOK, IInv, host.stage = "poll", host.kind # "delete",
           rec.st = "deployed", rec.rev = host.req.rev
    PROVE  Ours(rec) \/ (host.req.gen # 0 /\ Overtaken)
<1>1. Covers(host.req, host.kind, host.want) /\ JobOK
  BY DEF OursOK, PollIsOurs
<1>2. CASE host.req.gen = 0
  BY <1>1, <1>2 DEF Covers, Lasting, Ours
<1>3. CASE host.req.gen # 0
  <2>1. /\ flight.phase \in Begun /\ flight.rev = rec.rev /\ flight.want = host.want
        /\ flight.op # "delete" /\ rec.rev \in Nat
    BY <1>1, <1>3, RecordFacts DEF Covers, FlightReq, JobOK
  <2>2. CASE flight.phase = "err"
    BY <1>3, <2>2 DEF Overtaken
  <2>3. CASE flight.phase \in {"running", "ok"}
    <3>1. Worker.step \in {"none", "begin", "apply", "record", "return"}
          /\ (Worker.step = "none" <=> flight.phase # "running")
      BY WorkerPhase DEF Works
    <3>2. CASE Worker.step = "begin"
      <4>1. CliKeeps
        BY <1>1, <2>1, <2>3, <3>2 DEF JobOK, Clear
      <4> QED  BY <1>3, <2>1, <3>1, <3>2, <4>1 DEF Overtaken
    <3>3. CASE Worker.step \in {"apply", "record"}
      BY <1>1, <2>1, <2>3, <3>3 DEF JobOK, Writing
    <3>4. CASE Worker.step \in {"return", "none"}
      BY <1>1, <2>1, <2>3, <3>4 DEF JobOK, Lasting, Ours
    <3> QED  BY <3>1, <3>2, <3>3, <3>4
  <2> QED  BY <2>1, <2>2, <2>3 DEF Begun
<1> QED  BY <1>2, <1>3

LEMMA ReadRecordOurs ==
    ASSUME OursOK, IInv, IInv', NEW c \in Slots, ReadRecord(c)  PROVE OursOK'
<1>1. /\ call[c].pc = "read" /\ call[c] \in Callbacks /\ call \in [Slots -> Callbacks]
      /\ ServedOK(c) /\ flight.readers \subseteq {c} /\ (~Reader(c) => flight.readers = {})
      /\ flight.reported = FALSE /\ call[c].req = host.req /\ host.stage = "poll"
      /\ (host.req.op = "delete") = (host.kind = "delete")
      /\ rec.rev \in Nat /\ call[c].req.rev \in Nat
      /\ UNCHANGED <<rec, Worker, Cli, flight, host, spent>>
  BY ServedFacts, RecordFacts
     DEF ReadRecord, CallbackOK, SentOK, Callbacks, Ids, cluster, Worker, Cli
<1>2. PICK reply \in IF call[c].req.op = "delete" THEN {DeleteReply(c)}
                     ELSE InstallReplies(c) :
        call' = [call EXCEPT ![c].pc = "reconcile", ![c].got = reply, ![c].seen = rec]
  BY DEF ReadRecord
<1>3. reply.kind = "success" /\ call[c].req.op # "delete" =>
        rec.st = "deployed" /\ rec.rev = call[c].req.rev
  BY <1>1, ReadReplyTypes
<1>4. /\ Others(c) /\ call'[c].pc = "reconcile" /\ call'[c].kind = call[c].kind
      /\ call'[c].want = call[c].want /\ call'[c].req = call[c].req
      /\ call'[c].gen = call[c].gen /\ call'[c].got = reply /\ call'[c].seen = rec
      /\ call'[c].backed = call[c].backed
  BY <1>1, <1>2 DEF Others, Callbacks
<1>5. reply.kind = "success" /\ host.kind # "delete" =>
        Ours(rec) \/ (host.req.gen # 0 /\ Overtaken)
  BY <1>1, <1>3, ReadIsOurs
<1>6. ServedOK(c)'
  <2>1. (Overtaken => Overtaken') /\ (Reader(c)' <=> Reader(c))
    BY <1>1, <1>4 DEF Overtaken, CliKeeps, CliSpent, CliWrites, Reader
  <2> QED  BY <1>1, <1>4, <1>5, <2>1 DEF ServedOK, Ours
<1>7. JobOK' /\ PollIsOurs' /\ EntryKept'
  BY <1>1, <1>4, JobStays, PollStaysOurs DEF EntryStep, EntryKept, Reader
<1> QED  BY <1>1, <1>4, <1>6, <1>7, GoesOnOurs

LEMMA ReadAbandonedOurs ==
    ASSUME OursOK, IInv, IInv', NEW c \in Slots, ReadAbandoned(c)  PROVE OursOK'
BY JudgesOurs DEF ReadAbandoned, Unbacked, Pending

LEMMA JudgeOurs == ASSUME OursOK, IInv, IInv', NEW c \in Slots, Judge(c)  PROVE OursOK'
<1>1. /\ call[c].pc = "judge" /\ call[c] \in Callbacks /\ call \in [Slots -> Callbacks]
      /\ ServedOK(c) /\ flight.readers \subseteq {c} /\ (~Reader(c) => flight.readers = {})
      /\ flight.reported = FALSE /\ call[c].seen \in Revisions
      /\ UNCHANGED <<rec, Worker, Cli, flight, host, spent>>
  BY ServedFacts DEF Judge, Callbacks, cluster, Worker, Cli
<1>2. PICK verdict \in {"deployed", "failed"} :
        call' = [call EXCEPT ![c].pc = "rewrite", ![c].seen.st = verdict]
  BY DEF Judge
<1>3. /\ Others(c) /\ call'[c].pc = "rewrite" /\ call'[c].kind = call[c].kind
      /\ call'[c].want = call[c].want /\ call'[c].req = call[c].req
      /\ call'[c].gen = call[c].gen /\ call'[c].backed = call[c].backed
      /\ call'[c].seen.st \in {"deployed", "failed"}
      /\ call'[c].seen.rev = call[c].seen.rev /\ call'[c].seen.own = call[c].seen.own
      /\ call'[c].seen.want = call[c].seen.want
  BY <1>1, <1>2 DEF Others, Callbacks, Revisions
<1>4. ServedOK(c)'
  BY <1>1, <1>3 DEF ServedOK, Lasting, Reader, CliSpent
<1>5. JobOK' /\ PollIsOurs' /\ EntryKept'
  BY <1>1, <1>3, JobStays, PollStaysOurs DEF EntryStep, EntryKept, Reader
<1> QED  BY <1>1, <1>3, <1>4, <1>5, GoesOnOurs

(* Writing back a judged record changes its status, or only the history.     *)
LEMMA RewriteOurs == ASSUME OursOK, IInv, IInv', NEW c \in Slots, Rewrite(c)  PROVE OursOK'
<1>1. /\ call[c].pc = "rewrite" /\ call[c] \in Callbacks /\ call \in [Slots -> Callbacks]
      /\ ServedOK(c) /\ CallbackOK(c)
      /\ flight.readers \subseteq {c} /\ (~Reader(c) => flight.readers = {})
      /\ flight.reported = FALSE /\ call[c].seen \in Revisions /\ rec \in Revisions
      /\ UNCHANGED <<Worker, Cli, flight, host, spent>>
  BY ServedFacts, RecordFacts DEF Rewrite, Callbacks, Worker, Cli
<1>2. /\ rec'.rev = rec.rev /\ rec'.own = rec.own /\ rec'.want = rec.want /\ rec.st # "none"
      /\ rec'.st = rec.st \/ rec'.st \in {"deployed", "failed"}
  <2>1. /\ rec.st # "none" /\ Lasting(call[c].seen.rev, call[c].seen.own, call[c].seen.want)
        /\ Stored(call[c].seen) /\ call[c].seen.st \in {"deployed", "failed"}
    BY <1>1 DEF Rewrite, ServedOK
  <2> QED  BY <1>1, <2>1, StoredType DEF Lasting
<1>3. CliOK /\ JobOK /\ PollIsOurs /\ flight.phase # "running"
  BY <1>1 DEF OursOK, ServedOK
<1>4. CliOK'
  BY <1>1, <1>2, <1>3 DEF CliOK, CliWrites
<1>5. JobOK'
  <2>1. Worker.step = "none"
    BY <1>3, WorkerPhase
  <2> QED  BY <1>1, <1>2, <1>3, <2>1 DEF JobOK, Lasting
<1>6. PollIsOurs'
  BY <1>1, <1>2, <1>3 DEF PollIsOurs, Covers, Lasting, FlightReq
<1> DEFINE w == Withheld("conflict", call[c].req.op)
<1>7. w.kind = "conflict"
  BY DEF Withheld, Reply
<1> HIDE DEF w
<1>8. /\ Others(c)
      /\ \/ call[c].req = NoReq /\ call'[c].pc = "plan"
         \/ call[c].req # NoReq /\ call'[c].pc = "read"
         \/ /\ call[c].req # NoReq /\ call'[c].pc = "reconcile"
            /\ call'[c].got.kind = "conflict"
      /\ call'[c].kind = call[c].kind /\ call'[c].want = call[c].want
      /\ call'[c].req = call[c].req /\ call'[c].gen = call[c].gen
  <2>1. CASE call[c].req = NoReq
    <3>1. call' = [call EXCEPT ![c] = [call[c] EXCEPT !.pc = "plan", !.again = TRUE]]
      BY <1>1, <2>1 DEF Rewrite
    <3> QED  BY <1>1, <2>1, <3>1 DEF Callbacks, Others
  <2>2. CASE call[c].req # NoReq /\ call[c].seen.st = "deployed"
    <3>1. call' = [call EXCEPT ![c] = [call[c] EXCEPT !.pc = "read"]]
      BY <1>1, <2>2 DEF Rewrite
    <3> QED  BY <1>1, <2>2, <3>1 DEF Callbacks, Others
  <2>3. CASE call[c].req # NoReq /\ call[c].seen.st # "deployed"
    <3>1. call' = [call EXCEPT ![c] = [call[c] EXCEPT !.pc = "reconcile", !.got = w]]
      BY <1>1, <2>3 DEF Rewrite, w
    <3> QED  BY <1>1, <1>7, <2>3, <3>1 DEF Callbacks, Others
  <2> QED  BY <2>1, <2>2, <2>3
<1>9. Reader(c) => Reader(c)'
  BY <1>1, <1>8 DEF Reader, CallbackOK, ReaderOK, NoReq
<1>10. EntryKept'
  BY <1>1, <1>9 DEF EntryKept
<1>11. ServedOK(c)'
  BY <1>1, <1>3, <1>8 DEF ServedOK
<1> QED  BY <1>1, <1>4, <1>5, <1>6, <1>8, <1>10, <1>11, StepsOurs

LEMMA RewriteFailsOurs ==
    ASSUME OursOK, IInv, IInv', NEW c \in Slots, RewriteFails(c)  PROVE OursOK'
<1>1. /\ call[c].pc = "rewrite" /\ call[c] \in Callbacks /\ call \in [Slots -> Callbacks]
      /\ ServedOK(c) /\ CallbackOK(c)
      /\ flight.readers \subseteq {c} /\ (~Reader(c) => flight.readers = {})
      /\ flight.reported = FALSE /\ UNCHANGED <<cluster, helm, rec, Worker, Cli, spent>>
  BY ServedFacts DEF RewriteFails, cluster, Worker, Cli
<1>2. CASE call[c].req = NoReq
  <2>1. Owner(c) /\ Reply("error").kind # "progress"
    BY <1>1, <1>2 DEF Owner, Reader, CallbackOK, ReaderOK, NoReq, Reply
  <2> QED  BY <1>1, <1>2, <2>1, GiveUpOurs DEF RewriteFails, Unrecovered
<1>3. CASE call[c].req # NoReq
  <2> DEFINE w == Withheld("failure", call[c].req.op)
  <2>1. w.kind = "failure"
    BY DEF Withheld, Reply
  <2>2. /\ call' = [call EXCEPT ![c].pc = "reconcile", ![c].got = w]
        /\ UNCHANGED <<flight, host>>
    BY <1>3 DEF RewriteFails, Unrecovered
  <2> HIDE DEF w
  <2>3. /\ Others(c) /\ call'[c].pc = "reconcile" /\ call'[c].got.kind = "failure"
        /\ call'[c].kind = call[c].kind /\ call'[c].want = call[c].want
        /\ call'[c].req = call[c].req /\ call'[c].gen = call[c].gen
    BY <1>1, <2>1, <2>2 DEF Callbacks, Others
  <2>4. ServedOK(c)'
    BY <1>1, <2>2, <2>3 DEF ServedOK
  <2>5. JobOK' /\ PollIsOurs' /\ EntryKept'
    BY <1>1, <2>2, <2>3, JobStays, PollStaysOurs DEF EntryStep, EntryKept, Reader
  <2> QED  BY <1>1, <2>2, <2>3, <2>4, <2>5, GoesOnOurs
<1> QED  BY <1>2, <1>3

(* The verdict may have been written, or not: either way the revision on     *)
(* record is still the one there was.                                        *)
LEMMA RewriteErrsOurs ==
    ASSUME OursOK, IInv, IInv', NEW c \in Slots, RewriteErrs(c)  PROVE OursOK'
<1>1. /\ call[c].pc = "rewrite" /\ call[c] \in Callbacks /\ call \in [Slots -> Callbacks]
      /\ ServedOK(c) /\ CallbackOK(c)
      /\ flight.readers \subseteq {c} /\ (~Reader(c) => flight.readers = {})
      /\ flight.reported = FALSE /\ call[c].seen \in Revisions /\ rec \in Revisions
      /\ UNCHANGED <<Worker, Cli>> /\ Unrecovered(c) /\ spent'.cli = spent.cli
  BY ServedFacts, RecordFacts, FaultsAreNotCli DEF RewriteErrs, Callbacks, Worker, Cli, IInv
<1>2. \/ rec' = rec
      \/ /\ rec.st # "none" /\ rec'.st \in {"deployed", "failed"}
         /\ rec'.rev = rec.rev /\ rec'.own = rec.own /\ rec'.want = rec.want
  <2>1. ASSUME rec.st # "none", Stored(call[c].seen)
        PROVE  \/ rec' = rec
               \/ /\ rec'.st \in {"deployed", "failed"}
                  /\ rec'.rev = rec.rev /\ rec'.own = rec.own /\ rec'.want = rec.want
    <3>1. /\ Lasting(call[c].seen.rev, call[c].seen.own, call[c].seen.want)
          /\ call[c].seen.st \in {"deployed", "failed"}
      BY <1>1 DEF ServedOK
    <3> QED  BY <1>1, <2>1, <3>1, StoredType DEF Lasting
  <2> QED  BY <2>1 DEF RewriteErrs
<1>3. CliOK /\ JobOK /\ PollIsOurs /\ flight.phase # "running"
  BY <1>1 DEF OursOK, ServedOK
<1>4. CliOK'
  BY <1>1, <1>2, <1>3 DEF CliOK, CliWrites
<1>5. Worker.step = "none"
  BY <1>3, WorkerPhase
<1>6. CASE call[c].req = NoReq
  <2>1. /\ Answer(c, Reply("error")) /\ Reply("error").kind # "progress"
        /\ flight' \in {flight, NoFlight}
    BY <1>1, <1>6 DEF Unrecovered, GiveUp, Reply
  <2>2. ~Reader(c)
    BY <1>1, <1>6 DEF Reader, CallbackOK, ReaderOK, NoReq
  <2>3. flight'.readers = {} /\ flight'.reported = FALSE
    BY <1>1, <2>1, <2>2 DEF NoFlight
  <2>4. JobOK'
    BY <1>1, <1>2, <1>3, <1>5, <2>1 DEF JobOK, Lasting, CliSpent, NoFlight, Begun
  <2> QED  BY <1>1, <1>4, <2>1, <2>3, <2>4, EndsOurs
<1>7. CASE call[c].req # NoReq
  <2> DEFINE w == Withheld("failure", call[c].req.op)
  <2>1. w.kind = "failure"
    BY DEF Withheld, Reply
  <2>2. /\ call' = [call EXCEPT ![c] = [call[c] EXCEPT !.pc = "reconcile", !.got = w]]
        /\ UNCHANGED <<flight, host>>
    BY <1>1, <1>7 DEF Unrecovered
  <2> HIDE DEF w
  <2>3. /\ Others(c) /\ call'[c].pc = "reconcile" /\ call'[c].got.kind = "failure"
        /\ call'[c].kind = call[c].kind /\ call'[c].want = call[c].want
        /\ call'[c].req = call[c].req /\ call'[c].gen = call[c].gen
    BY <1>1, <2>1, <2>2 DEF Callbacks, Others
  <2>4. ServedOK(c)'
    BY <1>1, <1>3, <2>2, <2>3 DEF ServedOK
  <2>5. EntryKept'
    BY <1>1, <2>2, <2>3 DEF EntryKept, Reader
  <2>6. JobOK'
    BY <1>1, <1>2, <1>3, <1>5, <2>2 DEF JobOK, Lasting, CliSpent
  <2>7. PollIsOurs'
    BY <1>1, <1>2, <1>3, <2>2 DEF PollIsOurs, Covers, Lasting, FlightReq, CliSpent
  <2> QED  BY <1>1, <1>4, <2>2, <2>3, <2>4, <2>5, <2>6, <2>7, StepsOurs
<1> QED  BY <1>6, <1>7

(* A poll that ends is told of what it asked; the entry goes with the        *)
(* reservation, or once its outcome is told.                                 *)
LEMMA LeaveOurs ==
    ASSUME OursOK, IInv, IInv', NEW c \in Slots, call[c].pc \in {"read", "reconcile"},
           NEW STATE reply, reply.kind = "progress" => reply.req = call[c].req,
           \/ Leave(c, reply, flight)
           \/ Leave(c, reply, Report(flight)) /\ reply.kind # "progress",
           UNCHANGED <<cluster, helm>>, spent'.cli = spent.cli
    PROVE  OursOK'
<1>1. /\ flight \in Flights /\ flight.readers \subseteq {c} /\ flight.reported = FALSE
      /\ call[c].req = host.req /\ host.stage = "poll" /\ CallbackOK(c)
      /\ (host.req.op = "delete") = (host.kind = "delete") /\ Answer(c, reply)
      /\ UNCHANGED <<rec, Worker, Cli>>
  BY ServedFacts, RecordFacts DEF CallbackOK, SentOK, Leave, cluster, Worker, Cli
<1>2. host.kind # "delete" => Covers(host.req, host.kind, host.want)
  BY <1>1 DEF OursOK, PollIsOurs
<1>3. CASE Owner(c)
  <2>1. flight.phase = "preparing" /\ flight' = NoFlight
    BY <1>3, WhoHasIt DEF Leave, Owner
  <2>2. flight'.phase = "none" /\ flight'.readers = {} /\ flight'.reported = FALSE /\ EntryStep
    BY <2>1 DEF NoFlight, EntryStep
  <2>3. host.kind # "delete" => host.req.gen = 0 /\ Lasting(host.req.rev, TRUE, host.want)
    BY <1>2, <2>1 DEF Covers, Begun
  <2>4. JobOK'
    BY <1>1, <2>2, JobStays
  <2> QED  BY <1>1, <2>2, <2>3, <2>4, AnswersOurs
<1>4. CASE Reader(c)
  <2>1. call[c].gen = call[c].req.gen /\ call[c].gen # 0 /\ flight.readers = {c}
        /\ flight.phase \in Begun
    BY <1>1, <1>4 DEF Reader, CallbackOK, ReaderOK
  <2>2. CASE Leave(c, reply, flight)
    <3>1. flight' = [flight EXCEPT !.readers = @ \ {c}]
      BY <1>1, <2>1, <2>2 DEF Leave, DropReader
    <3>2. SameEntry /\ flight'.readers = {} /\ flight'.reported = FALSE
      BY <1>1, <2>1, <3>1 DEF SameEntry, Flights
    <3>3. JobOK'
      BY <1>1, <3>2, JobStays DEF EntryStep
    <3>4. host.kind # "delete" =>
            /\ flight'.phase \in Begun /\ FlightReq' = host.req
            /\ flight'.kind = host.kind /\ flight'.want = host.want
      BY <1>1, <1>2, <2>1, <3>2 DEF Covers, SameEntry, FlightReq
    <3> QED  BY <1>1, <2>1, <3>2, <3>3, <3>4, AnswersOurs
  <2>3. CASE Leave(c, reply, Report(flight)) /\ reply.kind # "progress"
    <3>1. Report(flight) = [flight EXCEPT !.reported = TRUE]
      BY <2>1 DEF Report
    <3>2. Report(flight).readers = {c} /\ Report(flight).reported
      BY <1>1, <2>1, <3>1 DEF Flights
    <3>3. flight' = NoFlight
      BY <2>1, <2>3, <3>2 DEF Leave, DropReader
    <3>4. flight'.readers = {} /\ flight'.reported = FALSE /\ EntryStep
      BY <3>3 DEF NoFlight, EntryStep
    <3> QED  BY <1>1, <2>3, <3>4, SilentOurs
  <2> QED  BY <2>2, <2>3
<1> QED  BY <1>3, <1>4, WhoHasIt

LEMMA ReconcileOurs ==
    ASSUME OursOK, IInv, IInv', NEW c \in Slots, Reconcile(c)  PROVE OursOK'
<1>1. /\ call[c].pc = "reconcile" /\ UNCHANGED <<cluster, helm>> /\ spent'.cli = spent.cli
      /\ call[c].got.kind = "progress" => call[c].got.req = call[c].req
  BY DEF Reconcile, IInv, Ownership, CallbackOK, SentOK
<1> DEFINE p == Progress(call[c].req, flight.op = "install")
           f == Withheld("failure", flight.op)
<1>2. p.req = call[c].req /\ f.kind = "failure"
  BY DEF Progress, Withheld, Reply
<1>3. \/ Leave(c, call[c].got, flight) \/ Leave(c, f, Report(flight)) \/ Leave(c, p, flight)
      \/ Leave(c, call[c].got, Report(flight)) /\ call[c].got.kind # "progress"
  BY DEF Reconcile
<1> HIDE DEF p, f
<1> QED  BY <1>1, <1>2, <1>3, LeaveOurs

LEMMA ReadFailsOurs ==
    ASSUME OursOK, IInv, IInv', NEW c \in Slots, ReadFails(c)  PROVE OursOK'
<1>1. call[c].pc = "read" /\ UNCHANGED <<cluster, helm>> /\ spent'.cli = spent.cli
  BY FaultsAreNotCli DEF ReadFails, IInv
<1> DEFINE p == Progress(call[c].req, TRUE)
           f == Withheld("failure", flight.op)
           g == Withheld("failure", call[c].req.op)
           e == Reply("error")
<1>2. p.req = call[c].req /\ f.kind = "failure" /\ g.kind = "failure" /\ e.kind = "error"
  BY DEF Progress, Withheld, Reply
<1>3. \/ Leave(c, e, flight) \/ Leave(c, g, flight) \/ Leave(c, f, Report(flight))
      \/ Leave(c, f, flight) \/ Leave(c, p, flight)
  BY DEF ReadFails
<1> HIDE DEF p, f, g, e
<1> QED  BY <1>1, <1>2, <1>3, LeaveOurs

-----------------------------------------------------------------------------
(* The agent and time, beside another tool *)

(* While the agent waits for nobody, nobody is at work, and nobody reads.    *)
LEMMA NobodyServed ==
    ASSUME OursOK, IInv, host.slot = 0
    PROVE  flight.readers = {} /\ \A c \in Slots : call[c].pc = "idle"
<1>1. \A c \in Slots : call[c].pc = "idle"
  BY SlotIsNotZero DEF OursOK, Alone
<1>2. \A c \in flight.readers : c \in Slots /\ Reader(c)
  BY RecordFacts DEF OursOK, EntryKept, Flights
<1> QED  BY <1>1, <1>2 DEF Reader

LEMMA AgentOurs ==
    ASSUME OursOK, IInv, IInv',
           \/ \E kind \in Kinds, w \in Wants \cup {Nothing} : Command(kind, w)
           \/ \E c \in Slots : Send(c)
    PROVE  OursOK'
<1>1. /\ host.slot = 0 /\ UNCHANGED <<rec, Worker, Cli, flight>> /\ spent'.cli = spent.cli
      /\ host \in Agents /\ call \in [Slots -> Callbacks]
  BY RecordFacts, FaultsAreNotCli DEF Command, Send, HostOK, cluster, Worker, Cli, IInv
<1>2. flight.readers = {} /\ \A c \in Slots : call[c].pc = "idle"
  BY <1>1, NobodyServed
<1>3. CliOK' /\ JobOK' /\ EntryKept'
  BY <1>1, <1>2, JobStays DEF OursOK, CliOK, CliWrites, EntryStep, EntryKept
<1>4. CASE \E kind \in Kinds, w \in Wants \cup {Nothing} : Command(kind, w)
  <2>1. host'.slot = 0 /\ host'.stage = "submit" /\ UNCHANGED call
    BY <1>1, <1>4 DEF Command, Agents
  <2>2. PollIsOurs' /\ AskedOK' /\ Alone'
    BY <1>2, <2>1 DEF PollIsOurs, AskedOK, Alone
  <2>3. \A c \in Slots : ServedOK(c)'
    BY <1>2, <2>1 DEF ServedOK, Reader
  <2> QED  BY <1>3, <2>2, <2>3 DEF OursOK
<1>5. CASE \E c \in Slots : Send(c)
  <2>1. PICK c \in Slots : Send(c)
    BY <1>5
  <2>2. /\ Others(c) /\ call'[c].pc = host.stage /\ call'[c].kind = host.kind
        /\ call'[c].want = host.want /\ call'[c].req = host.req
        /\ host.stage \in {"submit", "poll"}
    BY <1>1, <2>1 DEF Send, Others, NoCall
  <2>3. /\ host'.slot = c /\ host'.stage = host.stage /\ host'.kind = host.kind
        /\ host'.want = host.want /\ host'.req = host.req
    BY <1>1, <2>1 DEF Send, Agents
  <2>4. PollIsOurs'
    BY <1>1, <2>3 DEF OursOK, PollIsOurs, Covers, Lasting, FlightReq, CliSpent
  <2>5. AskedOK' /\ Alone'
    BY <1>2, <2>2, <2>3 DEF OursOK, AskedOK, Alone, Others
  <2>6. ASSUME NEW d \in Slots  PROVE ServedOK(d)'
    <3>1. call'[d].pc \in {"idle", "submit", "poll"}
      BY <1>2, <2>2 DEF Others
    <3> QED  BY <3>1 DEF ServedOK, Reader
  <2> QED  BY <1>3, <2>4, <2>5, <2>6 DEF OursOK
<1> QED  BY <1>4, <1>5

(* An agent that is not slow has given up what is retired. *)
LEMMA TimeOurs ==
    ASSUME OursOK, IInv, IInv', SlowAgent = FALSE, DeadlinePasses \/ RetireFlight
    PROVE  OursOK'
<1>1. /\ CliOK /\ JobOK /\ PollIsOurs /\ AskedOK /\ Alone /\ EntryKept
      /\ \A c \in Slots : ServedOK(c)
      /\ UNCHANGED <<rec, Worker, Cli, call, host, spent>> /\ flight \in Flights
  BY RecordFacts DEF OursOK, DeadlinePasses, RetireFlight, cluster, Worker, Cli
<1>2. CliOK' /\ AskedOK' /\ Alone'
  BY <1>1 DEF CliOK, CliWrites, AskedOK, Alone
<1>3. CASE DeadlinePasses
  <2>1. SameEntry /\ flight'.readers = flight.readers /\ flight'.reported = flight.reported
    BY <1>1, <1>3 DEF DeadlinePasses, SameEntry, Flights
  <2>2. JobOK' /\ PollIsOurs' /\ EntryKept'
    BY <1>1, <2>1, JobStays, PollStaysOurs DEF EntryStep, EntryKept, Reader
  <2>3. ASSUME NEW c \in Slots  PROVE ServedOK(c)'
    BY <1>1, <2>1 DEF ServedOK, SameEntry, Reader, Lasting, Clear, Ours, Overtaken,
                      CliKeeps, CliSpent, CliWrites
  <2> QED  BY <1>2, <2>2, <2>3 DEF OursOK
<1>4. CASE RetireFlight
  <2>1. /\ flight.phase \in {"ok", "err"} /\ host.req.gen # flight.gen
        /\ \A c \in Slots : ~(call[c].pc = "await" /\ call[c].gen = flight.gen)
        /\ \A c \in Slots : call[c].req.gen # flight.gen
        /\ flight' = Report(flight)
    BY <1>4 DEF RetireFlight
  <2>2. ASSUME NEW c \in Slots  PROVE call[c].pc \in {"idle", "submit", "poll"}
    <3>1. ~Owner(c) /\ ~Reader(c)
      BY <2>1, WhoHasIt DEF IInv, Ownership, CallbackOK, ReaderOK, Reader
    <3>2. call[c].pc # "await"
      BY <1>1, <2>1 DEF ServedOK
    <3> QED  BY <3>1, <3>2, RecordFacts DEF Callbacks, Stages, Owner, Reader
  <2>3. flight.readers = {}
    BY <1>1, <2>2 DEF EntryKept, Reader, Flights
  <2>4. /\ flight' = NoFlight /\ EntryStep
        /\ flight'.readers = {} /\ flight'.reported = FALSE
    BY <2>1, <2>3, ReportForgets
  <2>5. PollIsOurs'
    BY <1>1, <2>1, <2>4 DEF PollIsOurs, Covers, FlightReq, Lasting, CliSpent, NoFlight
  <2>6. JobOK' /\ EntryKept'
    BY <1>1, <2>4, JobStays DEF EntryKept
  <2>7. ASSUME NEW c \in Slots  PROVE ServedOK(c)'
    BY <1>1, <2>2 DEF ServedOK, Reader
  <2> QED  BY <1>2, <2>5, <2>6, <2>7 DEF OursOK
<1> QED  BY <1>3, <1>4

-----------------------------------------------------------------------------
(* What the agent may conclude beside another tool *)

LEMMA StartOurs == ASSUME Init  PROVE OursOK
<1>1. /\ Cli = Idle /\ rec = NoRec /\ flight = NoFlight
      /\ host.stage = "idle" /\ host.slot = 0
      /\ \A c \in Slots : call[c] = NoCall
  BY DEF Init, Cli, Actors
<1>2. CliOK /\ JobOK /\ PollIsOurs
  BY <1>1 DEF CliOK, CliWrites, JobOK, PollIsOurs, Idle, NoRec, NoFlight, Begun
<1>3. AskedOK /\ Alone
  BY <1>1 DEF AskedOK, Alone, NoCall
<1>4. EntryKept /\ \A c \in Slots : ServedOK(c)
  BY <1>1 DEF EntryKept, ServedOK, Reader, NoCall, NoFlight
<1> QED  BY <1>2, <1>3, <1>4 DEF OursOK

(* Nobody who died comes back to life. *)
LEMMA DeathsStay ==
    ASSUME IInv, [Next]_vars, Unharmed'
    PROVE  Unharmed /\ ~AgentRestarts /\ ~PluginCrashes
<1>1. spent \in Spending /\ spent.crash \in Nat /\ spent.restart \in Nat
  BY RecordFacts DEF Spending
<1>2. ~AgentRestarts
  <2>1. AgentRestarts => spent'.restart = spent.restart + 1
    BY <1>1 DEF AgentRestarts, Spend, Spending
  <2> QED  BY <1>1, <2>1 DEF Unharmed
<1>3. ~PluginCrashes
  <2>1. PluginCrashes => spent'.crash = spent.crash + 1
    BY <1>1 DEF PluginCrashes, Spend, Spending
  <2> QED  BY <1>1, <2>1 DEF Unharmed
<1>4. UNCHANGED spent \/ Spend("commands") \/ Spend("cli") \/ Spend("fault")
  <2>1. ASSUME NEW c \in Slots, Send(c) \/ Callback(c) \/ Fault(c)
        PROVE  UNCHANGED spent \/ Spend("fault")
    BY <2>1 DEF Send, Callback, Submit, Poll, Recover, Fault, Reserve, Rejoin, Plan, PlanDelete,
                Activate, AwaitRecorded, AwaitOutcome, AwaitOverdue, AwaitForgotten,
                AcquireRecovery, RefuseStatus, StatusVerdict, AcquireFlight, ReadRecord,
                ReadAbandoned, Reconcile, Judge, Rewrite, RewriteFails, PreparationFails,
                AwaitFails, ReadFails, RewriteErrs
  <2>2. ASSUME NEW a \in Actors, Helm(a) \/ HelmFails(a)  PROVE UNCHANGED spent
    BY <2>2 DEF Helm, HelmRecords, HelmRefuses, HelmRunsHooks, HelmFinishes, HelmReturns,
                HelmFails, HelmApplies
  <2> QED  BY <1>2, <1>3, <2>1, <2>2 DEF Next, Command, CliStarts, RecordAges, DeadlinePasses,
                                         RetireFlight, vars
<1>5. spent'.crash = spent.crash /\ spent'.restart = spent.restart
  BY <1>1, <1>4 DEF Spend, Spending
<1> QED  BY <1>2, <1>3, <1>5 DEF Unharmed

LEMMA StepOurs ==
    ASSUME MaxCli \in {0, 1}, SlowAgent = FALSE, OInv, [Next]_vars, [Spares]_vars
    PROVE  OInv'
<1>1. IInv /\ IInv'
  BY StepOK DEF OInv
<1>2. SUFFICES ASSUME Unharmed'  PROVE OursOK'
  BY <1>1 DEF OInv
<1>3. OursOK /\ ~AgentRestarts /\ ~PluginCrashes
  BY <1>1, <1>2, DeathsStay DEF OInv
<1>4. ASSUME NEW c \in Slots,
             \/ Reserve(c) \/ Rejoin(c) \/ Plan(c) \/ PlanDelete(c) \/ Activate(c)
             \/ AwaitRecorded(c) \/ AwaitOutcome(c) \/ AwaitOverdue(c)
             \/ AwaitForgotten(c) \/ AwaitFails(c) \/ PreparationFails(c)
      PROVE  OursOK'
  BY <1>1, <1>3, <1>4, ReserveOurs, RejoinOurs, PlanOurs, PlanDeleteOurs, ActivateOurs,
     AwaitOurs, FailedPreparationOurs
<1>5. ASSUME NEW c \in Slots,
             \/ AcquireRecovery(c) \/ RefuseStatus(c) \/ StatusVerdict(c)
             \/ AcquireFlight(c) \/ ReadRecord(c) \/ ReadAbandoned(c) \/ Reconcile(c)
             \/ Judge(c) \/ Rewrite(c) \/ RewriteFails(c) \/ ReadFails(c) \/ RewriteErrs(c)
      PROVE  OursOK'
  BY <1>1, <1>3, <1>5, AcquireOurs, StatusOurs, ReadRecordOurs, ReadAbandonedOurs,
     ReconcileOurs, JudgeOurs, RewriteOurs, RewriteFailsOurs, RewriteErrsOurs,
     ReadFailsOurs
<1>6. ASSUME NEW a \in Actors,
             \/ HelmRecords(a) \/ HelmRefuses(a) \/ HelmRunsHooks(a)
             \/ HelmFinishes(a) \/ HelmReturns(a) \/ HelmFails(a)
             \/ \E o \in Objs : HelmApplies(a, o)
      PROVE  OursOK'
  <2>1. CASE a = "cli"
    BY <1>1, <1>3, <1>6, <2>1, OutsidersKeepOurs
  <2>2. CASE a = "plugin"
    <3>1. HelmFinishes("plugin") => Spares
      <4>1. ASSUME HelmFinishes("plugin"), helm["plugin"].op = "delete"  PROVE vars' # vars
        <5>1. helm'["plugin"].step = "return" /\ helm["plugin"].step = "record"
          BY <1>1, <4>1, RecordFacts DEF HelmFinishes, Works, Actors
        <5> QED  BY <5>1 DEF vars
      <4> QED  BY <4>1 DEF Spares
    <3> QED  BY <1>1, <1>3, <1>6, <2>2, <3>1, WorkerTakes, WorkerWorks, WorkerFinishes,
                WorkerEnds
  <2> QED  BY <2>1, <2>2 DEF Actors
<1>7. CASE UNCHANGED vars
  <2>1. UNCHANGED <<rec, Cli, Worker, flight, call, host, spent>>
    BY <1>7 DEF vars, cluster, Cli, Worker
  <2>2. CliMoves /\ CliOK'
    BY <1>3, <2>1 DEF OursOK, CliMoves, SameRecord, CliOK, CliSpent, CliKeeps, CliWrites
  <2> QED  BY <1>1, <1>3, <2>1, <2>2, MovesKeep
<1> QED  BY <1>1, <1>3, <1>4, <1>5, <1>6, <1>7, NextCases, OutsidersKeepOurs, AgentOurs,
            TimeOurs

LEMMA TellsOurs ==
    ASSUME IInv, OursOK, [Next]_vars, Told("success"), host.kind # "delete"
    PROVE  Ours(rec) \/ Ours(call[host.slot].seen)
<1>1. PICK c \in Slots :
        /\ host.slot = c
        /\ \/ PlanDelete(c)
           \/ /\ Reconcile(c) /\ call[c].got.kind = "success"
              /\ Owner(c) \/ (Reader(c) /\ flight.phase = "ok")
  BY SuccessIsTold
<1>2. call[c].pc # "idle"
  BY <1>1 DEF PlanDelete, Reconcile
<1>3. /\ host.stage # "idle" /\ call[c].kind = host.kind /\ ServedOK(c) /\ CallbackOK(c)
      /\ (call[c].req.op \in Ops => host.stage = "poll")
  BY <1>2, ServedFacts
<1>4. /\ Reconcile(c) /\ call[c].got.kind = "success" /\ host.stage = "poll"
      /\ Owner(c) \/ (Reader(c) /\ flight.phase = "ok")
  BY <1>1, <1>3 DEF PlanDelete, Reconcile, CallbackOK, SentOK
<1>5. CASE host.req.gen # 0 /\ Overtaken
  <2>1. ~Owner(c) /\ flight.phase = "ok"
    BY <1>3, <1>4, <1>5 DEF Overtaken, CallbackOK, OwnerOK, Owner, Begun
  <2>2. rec.st = "deployed" /\ rec.own /\ rec.want = flight.want
    BY <1>5, <2>1 DEF Overtaken
  <2>3. Covers(host.req, host.kind, host.want)
    BY <1>4 DEF OursOK, PollIsOurs
  <2>4. flight.want = host.want
    BY <1>5, <2>3 DEF Covers
  <2> QED  BY <2>2, <2>4 DEF Ours
<1>6. CASE Ours(call[c].seen)
  BY <1>1, <1>6
<1>7. call[c].pc = "reconcile"
  BY <1>4 DEF Reconcile
<1> QED  BY <1>3, <1>4, <1>5, <1>6, <1>7 DEF ServedOK

(* SuccessIsOurs: one operation of another tool, whatever it does and        *)
(* whenever it begins, is not taken for the agent's, provided the agent      *)
(* polls before an outcome is forgotten and the plugin does not remove the   *)
(* release while that tool is at work.  Without the latter it is not so: a   *)
(* release created anew counts its revisions from 1, and the tool's last     *)
(* write may hit one of the same number.                                     *)
THEOREM SuccessIsTheAgents ==
    ASSUME MaxCli \in {0, 1}, SlowAgent = FALSE
    PROVE  Spec /\ [][Spares]_vars => SuccessIsOurs
<1> DEFINE A == Told("success") /\ host.kind # "delete" /\ spent.crash + spent.restart = 0
                  => Ours(rec) \/ Ours(call[host.slot].seen)
<1>1. Init => OInv
  BY InitOK, StartOurs DEF OInv
<1>2. OInv /\ [Next]_vars /\ [Spares]_vars => OInv'
  BY StepOurs
<1>3. OInv /\ [Next]_vars => [A]_vars
  <2>1. SUFFICES ASSUME OInv, [Next]_vars, Told("success"), host.kind # "delete",
                        spent.crash + spent.restart = 0
                 PROVE  Ours(rec) \/ Ours(call[host.slot].seen)
    OBVIOUS
  <2>2. Unharmed
    BY <2>1, RecordFacts DEF OInv, Unharmed, Spending
  <2> QED  BY <2>1, <2>2, TellsOurs DEF OInv
<1> QED  BY <1>1, <1>2, <1>3, PTL DEF Spec, SuccessIsOurs
=============================================================================
