------------------------- MODULE HelmReleaseProofs -------------------------
(***************************************************************************)
(* Safety of one Helm release for every number of callbacks, commands,     *)
(* crashes and faults, with and without a Helm CLI beside the plugin.      *)
(***************************************************************************)
EXTENDS HelmRelease, FiniteSetTheorems, TLAPS

Ops == {"install", "upgrade", "delete"}

Revisions == [st : Statuses, rev : Nat, own : BOOLEAN,
              want : Wants \cup {Nothing}, old : BOOLEAN]

Ids == [gen : 0..MaxGen, op : Ops \cup {"none"}, rev : Nat]

Answers == [kind : {"none", "progress", "success", "conflict", "failure", "error"},
            req : Ids, id : BOOLEAN]

Flights == [gen : 0..MaxGen, kind : Kinds \cup {"none", "status"},
            want : Wants \cup {Nothing}, op : Ops \cup {"none"}, rev : Nat,
            phase : {"none", "preparing", "running", "ok", "err"}, late : BOOLEAN,
            readers : SUBSET Slots, reported : BOOLEAN]

Works == [op : Ops \cup {"none"}, want : Wants \cup {Nothing}, rev : Nat,
          left : SUBSET Objs, step : {"none", "begin", "apply", "record", "return"}]

Callbacks == [pc : Stages, kind : Kinds \cup {"none"}, want : Wants \cup {Nothing},
              req : Ids, gen : 0..MaxGen, op : Ops \cup {"none"}, rev : Nat,
              seen : Revisions, backed : BOOLEAN, again : BOOLEAN, got : Answers]

Agents == [stage : {"idle", "submit", "poll"}, slot : Slots \cup {0},
           kind : Kinds \cup {"none"}, want : Wants \cup {Nothing}, req : Ids,
           managed : BOOLEAN, told : {"none", "progress", "success", "conflict",
                                      "failure", "error"}]

Spending == [commands : Nat, crash : Nat, restart : Nat, cli : Nat, fault : Nat]

(* TypeOK, of every variable and every field. *)
Shape == /\ rec \in Revisions
         /\ live \in [Objs -> Wants \cup {Nothing}]
         /\ hooksRan \in Nat
         /\ helm \in [Actors -> Works]
         /\ flight \in Flights
         /\ call \in [Slots -> Callbacks]
         /\ host \in Agents
         /\ spent \in Spending

-----------------------------------------------------------------------------
(* Who has the entry *)

(* A submit from its reservation to its worker, or a poll that reserved the  *)
(* release so that it may recover it.                                        *)
Owner(c) == \/ call[c].pc \in {"plan", "activate"}
            \/ /\ call[c].pc \in {"read", "judge", "rewrite", "reconcile"}
               /\ call[c].gen # call[c].req.gen

(* A poll that found its own operation. *)
Reader(c) == /\ call[c].pc \in {"read", "judge", "rewrite", "reconcile"}
             /\ call[c].gen = call[c].req.gen

Begun == {"running", "ok", "err"}

OwnerOK(c) == Owner(c) => /\ call[c].gen # 0 /\ flight.gen = call[c].gen
                          /\ flight.phase = "preparing"

ReaderOK(c) == Reader(c) => /\ call[c].gen # 0 /\ flight.gen = call[c].gen
                            /\ flight.phase \in Begun /\ c \in flight.readers

WaiterOK(c) == call[c].pc = "await" =>
                 /\ call[c].gen # 0
                 /\ flight.gen = call[c].gen => flight.phase \in Begun

OneOwner == \A c, d \in Slots : Owner(c) /\ Owner(d) => c = d

FlightOK == /\ flight # NoFlight => /\ flight.gen # 0 /\ flight.op \in Ops
                                    /\ flight.phase # "none"
            /\ flight.reported => flight.phase \in {"ok", "err"}
            /\ helm["plugin"].step # "none" <=> flight.phase = "running"
            /\ \A a \in Actors : helm[a].step = "none" => helm[a] = Idle

(* What a callback was sent. *)
SentOK(c) ==
    /\ call[c].pc \in {"submit", "plan", "activate", "await"} =>
         /\ call[c].req = NoReq /\ call[c].kind \in Kinds
         /\ (call[c].kind = "delete") = (call[c].want = Nothing)
    /\ call[c].pc \in {"poll", "read", "reconcile"} => call[c].req.op \in Ops
    /\ call[c].pc \in {"judge", "rewrite"} =>
         IF call[c].req = NoReq
         THEN call[c].kind \in Kinds /\ (call[c].kind = "delete") = (call[c].want = Nothing)
         ELSE call[c].req.op \in Ops
    /\ call[c].pc = "activate" => /\ call[c].op \in Ops
                                  /\ (call[c].op = "delete") = (call[c].kind = "delete")
    /\ call[c].pc = "await" => call[c].op \in Ops \ {"delete"}
    /\ call[c].pc = "reconcile" /\ call[c].got.kind = "progress" =>
         call[c].got.req = call[c].req

(* The agent waits for a callback only while it drives a command. *)
HostOK == /\ host.slot # 0 => host.stage # "idle"
          /\ host.stage # "idle" => /\ host.told # "success" /\ host.kind \in Kinds
                                    /\ (host.kind = "delete") = (host.want = Nothing)
          /\ host.stage = "poll" => host.req.op \in Ops
          /\ host.stage # "poll" => host.req = NoReq

CallbackOK(c) == OwnerOK(c) /\ ReaderOK(c) /\ WaiterOK(c) /\ SentOK(c)

Ownership == (\A c \in Slots : CallbackOK(c)) /\ OneOwner /\ FlightOK /\ HostOK

IInv == Shape /\ Ownership

-----------------------------------------------------------------------------
(* Names *)

(* As many names as callbacks, at most. *)
LEMMA Images ==
    ASSUME NEW f, f \in [Slots -> 0..MaxGen]
    PROVE  LET T == {f[c] : c \in Slots}
           IN  /\ IsFiniteSet(T) /\ Cardinality(T) \in Nat
               /\ Cardinality(T) <= Cardinality(Slots)
<1> DEFINE T == {f[c] : c \in Slots}
<1>1. f \in Surjection(Slots, T)
  BY DEF Surjection
<1>2. IsFiniteSet(T) /\ Cardinality(T) <= Cardinality(Slots)
  BY <1>1, FS_Surjection, SlotsAssumption
<1> QED  BY <1>2, FS_CardinalityType

(* There is always a name nothing refers to. *)
LEMMA NamesLast == Shape => 1..MaxGen \ InUse # {}
<1> SUFFICES ASSUME Shape  PROVE 1..MaxGen \ InUse # {}
  OBVIOUS
<1> DEFINE A == {call[c].gen : c \in Slots}
           B == {call[c].req.gen : c \in Slots}
           P == {flight.gen, host.req.gen}
           f == [c \in Slots |-> call[c].gen]
           g == [c \in Slots |-> call[c].req.gen]
<1>1. f \in [Slots -> 0..MaxGen] /\ g \in [Slots -> 0..MaxGen]
  BY DEF Shape, Callbacks, Ids
<1>2. A = {f[c] : c \in Slots} /\ B = {g[c] : c \in Slots}
  OBVIOUS
<1>3. /\ IsFiniteSet(A) /\ Cardinality(A) \in Nat /\ Cardinality(A) <= Cardinality(Slots)
      /\ IsFiniteSet(B) /\ Cardinality(B) \in Nat /\ Cardinality(B) <= Cardinality(Slots)
  <2> HIDE DEF f, g, A, B
  <2> QED  BY <1>1, <1>2, Images
<1>4. IsFiniteSet(P) /\ Cardinality(P) \in Nat /\ Cardinality(P) <= 2
  <2>1. P = {flight.gen} \cup {host.req.gen}
    OBVIOUS
  <2>2. IsFiniteSet({flight.gen}) /\ Cardinality({flight.gen}) = 1
    BY FS_Singleton
  <2> QED  BY <2>1, <2>2, FS_AddElement
<1>5. IsFiniteSet(P \cup A) /\ Cardinality(P \cup A) \in Nat
      /\ Cardinality(P \cup A) <= 2 + Cardinality(Slots)
  <2> HIDE DEF P, A
  <2>1. Cardinality(P \cap A) \in Nat
    BY <1>4, FS_Intersection, FS_CardinalityType
  <2>2. IsFiniteSet(P \cup A)
        /\ Cardinality(P \cup A) = Cardinality(P) + Cardinality(A) - Cardinality(P \cap A)
    BY <1>3, <1>4, FS_Union
  <2>3. Cardinality(P \cup A) \in Nat
    BY <2>2, FS_CardinalityType
  <2>4. Cardinality(Slots) \in Nat
    BY SlotsAssumption, FS_CardinalityType
  <2> QED  BY <1>3, <1>4, <2>1, <2>2, <2>3, <2>4
<1>6. InUse = (P \cup A) \cup B
  BY DEF InUse
<1>7. IsFiniteSet(InUse) /\ Cardinality(InUse) \in Nat
      /\ Cardinality(InUse) <= 2 + 2 * Cardinality(Slots)
  <2> DEFINE Q == P \cup A
  <2> HIDE DEF Q, B
  <2>1. Cardinality(Q \cap B) \in Nat
    BY <1>5, FS_Intersection, FS_CardinalityType DEF Q
  <2>2. IsFiniteSet(Q \cup B)
        /\ Cardinality(Q \cup B) = Cardinality(Q) + Cardinality(B) - Cardinality(Q \cap B)
    BY <1>3, <1>5, FS_Union DEF Q
  <2>3. Cardinality(Q \cup B) \in Nat
    BY <2>2, FS_CardinalityType
  <2>4. Cardinality(Slots) \in Nat
    BY SlotsAssumption, FS_CardinalityType
  <2>5. Cardinality(Q \cup B) <= 2 + 2 * Cardinality(Slots)
    BY <1>3, <1>5, <2>1, <2>2, <2>3, <2>4 DEF Q
  <2> QED  BY <1>6, <2>2, <2>3, <2>5 DEF Q
<1>8. Cardinality(1..MaxGen) = MaxGen
  BY NamesAssumption, SlotsAssumption, FS_CardinalityType, FS_Interval
<1>9. ASSUME 1..MaxGen \subseteq InUse  PROVE FALSE
  <2>1. Cardinality(1..MaxGen) <= Cardinality(InUse)
    BY <1>7, <1>9, FS_Subset
  <2>2. Cardinality(Slots) \in Nat
    BY SlotsAssumption, FS_CardinalityType
  <2> QED  BY <1>7, <1>8, <2>1, <2>2, NamesAssumption
<1> QED  BY <1>9

(* A generation is new when it is taken. *)
LEMMA FreshIsNew ==
    ASSUME Shape
    PROVE  /\ Fresh \in 1..MaxGen /\ Fresh \in 0..MaxGen /\ Fresh # 0
           /\ Fresh \notin InUse
           /\ \A c \in Slots : call[c].gen # Fresh /\ call[c].req.gen # Fresh
<1>1. \E g \in 1..MaxGen : g \notin InUse
  BY NamesLast
<1>2. Fresh \in 1..MaxGen /\ Fresh \notin InUse
  BY <1>1, Zenon DEF Fresh
<1> QED  BY <1>2, NamesAssumption DEF InUse

-----------------------------------------------------------------------------
(* What a step changes *)

LEMMA SlotIsNotZero == ASSUME NEW c \in Slots  PROVE c # 0
  BY SlotsAssumption

(* An answered callback is over, and the agent that waited for it goes on.   *)
LEMMA AnswerStep ==
    ASSUME Shape, HostOK, NEW c \in Slots, NEW STATE reply, reply \in Answers,
           reply.kind = "progress" => reply.req.op \in Ops, Answer(c, reply)
    PROVE  /\ call' \in [Slots -> Callbacks] /\ host' \in Agents /\ HostOK'
           /\ call'[c] = NoCall
           /\ \A d \in Slots \ {c} : call'[d] = call[d]
<1>1. NoReq \in Ids /\ NoRec \in Revisions /\ Reply("none") \in Answers
  BY NamesAssumption DEF NoReq, Ids, NoRec, Revisions, Statuses, Reply, Answers
<1>2. NoCall \in Callbacks
  BY <1>1, NamesAssumption DEF NoCall, Callbacks, Stages
<1>3. call' = [call EXCEPT ![c] = NoCall] /\ call \in [Slots -> Callbacks]
  BY DEF Answer, Shape
<1>4. call' \in [Slots -> Callbacks] /\ call'[c] = NoCall
      /\ \A d \in Slots \ {c} : call'[d] = call[d]
  BY <1>2, <1>3
<1>5. CASE host.slot # c
  <2>1. host' = host
    BY <1>5 DEF Answer
  <2> QED  BY <1>4, <2>1 DEF HostOK, Shape
<1>6. CASE host.slot = c
  <2>1. host.stage # "idle" /\ host.kind \in Kinds
        /\ (host.kind = "delete") = (host.want = Nothing)
    BY <1>6, SlotIsNotZero DEF HostOK
  <2>2. host \in Agents
    BY DEF Shape
  <2> DEFINE m == CASE reply.kind = "success" -> host.kind # "delete"
                    [] reply.id -> TRUE
                    [] OTHER -> host.managed
             r == IF reply.kind = "progress" THEN reply.req ELSE NoReq
             s == CASE reply.kind = "progress" -> "poll"
                    [] reply.kind = "conflict" -> "submit"
                    [] OTHER -> "idle"
  <2>3. host' = [host EXCEPT !.slot = 0, !.told = reply.kind, !.managed = m,
                             !.req = r, !.stage = s]
    BY <1>6 DEF Answer
  <2>4. m \in BOOLEAN
    BY <2>2, Zenon DEF Agents, Answers
  <2>5. r \in Ids /\ (reply.kind = "progress" => r.op \in Ops)
        /\ (reply.kind # "progress" => r = NoReq)
    BY <1>1 DEF Answers
  <2>6. /\ s = "poll" <=> reply.kind = "progress"
        /\ s = "submit" <=> reply.kind = "conflict"
        /\ s \in {"idle", "submit", "poll"}
    OBVIOUS
  <2>7. reply.kind \in {"none", "progress", "success", "conflict", "failure", "error"}
    BY DEF Answers
  <2> HIDE DEF m, r, s
  <2>8. /\ host'.slot = 0 /\ host'.told = reply.kind /\ host'.req = r /\ host'.stage = s
        /\ host'.kind = host.kind /\ host'.want = host.want
    BY <2>2, <2>3 DEF Agents
  <2>9. host' \in Agents
    BY <2>2, <2>3, <2>4, <2>5, <2>6, <2>7 DEF Agents
  <2>10. HostOK'
    BY <2>1, <2>5, <2>6, <2>8 DEF HostOK
  <2> QED  BY <1>4, <2>9, <2>10
<1> QED  BY <1>5, <1>6

(* How the entry may change in a step of callback c, or of nobody's.         *)
Continues(c) == /\ flight.phase \in Begun /\ flight'.phase \in Begun
                /\ flight'.gen = flight.gen
                /\ flight.readers \ {c} \subseteq flight'.readers

Reserved == /\ flight = NoFlight
            /\ flight'.gen = Fresh /\ flight'.phase = "preparing"

Started(c) == /\ c \in Slots /\ Owner(c)
              /\ flight'.gen = flight.gen /\ flight'.phase = "running"

Forgotten(c) == /\ flight' = NoFlight
                /\ \/ c \in Slots /\ Owner(c)
                   \/ flight.phase \in Begun /\ flight.readers \subseteq {c}

FlightStep(c) == \/ UNCHANGED flight \/ Continues(c) \/ Reserved \/ Started(c)
                 \/ Forgotten(c)

(* Whatever a callback does leaves the others with what they rely on.        *)
LEMMA Bystander ==
    ASSUME IInv, NEW c \in Slots \cup {0}, FlightStep(c),
           NEW d \in Slots, d # c, call'[d] = call[d]
    PROVE  CallbackOK(d)' /\ (Owner(d)' <=> Owner(d))
<1>1. CallbackOK(d) /\ SentOK(d)'
  BY DEF IInv, Ownership, CallbackOK, SentOK
<1>2. (Owner(d)' <=> Owner(d)) /\ (Reader(d)' <=> Reader(d))
  BY DEF Owner, Reader
<1>3. Owner(d) => ~(c \in Slots /\ Owner(c))
  BY DEF IInv, Ownership, OneOwner
<1>4. OwnerOK(d)' /\ ReaderOK(d)' /\ WaiterOK(d)'
  <2>1. /\ call'[d].gen = call[d].gen
        /\ call'[d].pc = "await" <=> call[d].pc = "await"
    OBVIOUS
  <2>2. OwnerOK(d) /\ ReaderOK(d) /\ WaiterOK(d)
    BY <1>1 DEF CallbackOK
  <2>3. CASE UNCHANGED flight
    BY <1>2, <2>1, <2>2, <2>3 DEF OwnerOK, ReaderOK, WaiterOK
  <2>4. CASE Continues(c)
    BY <1>2, <2>1, <2>2, <2>4 DEF OwnerOK, ReaderOK, WaiterOK, Continues, Begun
  <2>5. CASE Reserved
    <3>1. call[d].gen # Fresh
      BY FreshIsNew DEF IInv
    <3>2. flight.gen = 0
      BY <2>5 DEF Reserved, NoFlight
    <3> QED  BY <1>2, <2>1, <2>2, <2>5, <3>1, <3>2
             DEF OwnerOK, ReaderOK, WaiterOK, Reserved
  <2>6. CASE Started(c)
    <3>1. flight.phase = "preparing"
      BY <2>6 DEF Started, IInv, Ownership, CallbackOK, OwnerOK
    <3> QED  BY <1>2, <1>3, <2>1, <2>2, <2>6, <3>1
             DEF OwnerOK, ReaderOK, WaiterOK, Started, Begun
  <2>7. CASE Forgotten(c)
    <3>1. flight'.gen = 0
      BY <2>7 DEF Forgotten, NoFlight
    <3>2. ASSUME Owner(d) \/ Reader(d)  PROVE FALSE
      <4>1. CASE c \in Slots /\ Owner(c)
        <5>1. flight.phase = "preparing"
          BY <4>1 DEF IInv, Ownership, CallbackOK, OwnerOK
        <5> QED  BY <1>3, <2>2, <3>2, <4>1, <5>1 DEF ReaderOK, Begun
      <4>2. CASE flight.phase \in Begun /\ flight.readers \subseteq {c}
        BY <2>2, <3>2, <4>2 DEF OwnerOK, ReaderOK, Begun
      <4> QED  BY <2>7, <4>1, <4>2 DEF Forgotten
    <3> QED  BY <1>2, <2>1, <2>2, <3>1, <3>2 DEF OwnerOK, ReaderOK, WaiterOK
  <2> QED  BY <2>3, <2>4, <2>5, <2>6, <2>7 DEF FlightStep
<1> QED  BY <1>1, <1>2, <1>4 DEF CallbackOK

(* A step of one callback keeps everyone in order when it leaves the         *)
(* callback itself in order, and the entry only to an owner.                 *)
LEMMA OneSteps ==
    ASSUME IInv, NEW c \in Slots, FlightStep(c),
           \A d \in Slots \ {c} : call'[d] = call[d],
           CallbackOK(c)', Owner(c)' => Owner(c) \/ flight = NoFlight
    PROVE  (\A d \in Slots : CallbackOK(d)') /\ OneOwner'
<1>1. \A d \in Slots \ {c} : CallbackOK(d)' /\ (Owner(d)' <=> Owner(d))
  BY Bystander
<1>2. flight = NoFlight => \A d \in Slots : ~Owner(d)
  BY DEF IInv, Ownership, CallbackOK, OwnerOK, NoFlight
<1>3. OneOwner
  BY DEF IInv, Ownership
<1>4. ASSUME NEW d \in Slots, NEW e \in Slots, Owner(d)', Owner(e)'  PROVE d = e
  BY <1>1, <1>2, <1>3, <1>4 DEF OneOwner
<1> QED  BY <1>1, <1>4 DEF OneOwner

(* So does a step of nobody's. *)
LEMMA NobodySteps ==
    ASSUME IInv, FlightStep(0), UNCHANGED call
    PROVE  (\A d \in Slots : CallbackOK(d)') /\ OneOwner'
<1>1. \A d \in Slots : CallbackOK(d)' /\ (Owner(d)' <=> Owner(d))
  BY Bystander, SlotIsNotZero
<1> QED  BY <1>1 DEF IInv, Ownership, OneOwner

(* An answered callback relies on nothing. *)
LEMMA AnsweredOK ==
    ASSUME NEW c \in Slots, call'[c] = NoCall
    PROVE  CallbackOK(c)' /\ ~Owner(c)'
BY DEF NoCall, CallbackOK, OwnerOK, ReaderOK, WaiterOK, SentOK, Owner, Reader

-----------------------------------------------------------------------------
(* Answers *)

LEMMA ReplyTypes ==
    /\ NoReq \in Ids /\ NoRec \in Revisions /\ NoCall \in Callbacks
    /\ \A kind \in {"none", "success", "conflict", "failure", "error"} :
         /\ Reply(kind) \in Answers /\ Reply(kind).kind = kind
         /\ [Reply(kind) EXCEPT !.id = TRUE] \in Answers
         /\ [Reply(kind) EXCEPT !.id = TRUE].kind = kind
         /\ \A op \in Ops \cup {"none"} : /\ Withheld(kind, op) \in Answers
                                          /\ Withheld(kind, op).kind = kind
    /\ \A req \in Ids, withhold \in BOOLEAN :
         /\ Progress(req, withhold) \in Answers
         /\ Progress(req, withhold).kind = "progress"
         /\ Progress(req, withhold).req = req
<1>1. NoReq \in Ids /\ NoRec \in Revisions
  BY NamesAssumption DEF NoReq, Ids, NoRec, Revisions, Statuses
<1>2. ASSUME NEW kind \in {"none", "success", "conflict", "failure", "error"}
      PROVE  /\ Reply(kind) \in Answers /\ Reply(kind).kind = kind
             /\ [Reply(kind) EXCEPT !.id = TRUE] \in Answers
             /\ [Reply(kind) EXCEPT !.id = TRUE].kind = kind
             /\ \A op \in Ops \cup {"none"} : /\ Withheld(kind, op) \in Answers
                                              /\ Withheld(kind, op).kind = kind
  BY <1>1 DEF Reply, Answers, Withheld
<1>3. ASSUME NEW req \in Ids, NEW withhold \in BOOLEAN
      PROVE  /\ Progress(req, withhold) \in Answers
             /\ Progress(req, withhold).kind = "progress"
             /\ Progress(req, withhold).req = req
  BY DEF Progress, Answers
<1>4. NoCall \in Callbacks
  BY <1>1, <1>2, NamesAssumption DEF NoCall, Callbacks, Stages
<1> QED  BY <1>1, <1>2, <1>3, <1>4

(* The RequestID of an entry. *)
LEMMA FlightReqType ==
    ASSUME IInv
    PROVE  FlightReq \in Ids /\ (flight # NoFlight => FlightReq.op \in Ops)
BY DEF IInv, Shape, Flights, FlightReq, Ids, Ownership, FlightOK

LEMMA Spends ==
    ASSUME Shape, NEW what \in {"commands", "crash", "restart", "cli", "fault"},
           Spend(what)
    PROVE  spent' \in Spending
BY DEF Shape, Spend, Spending

Told2(reply) == reply \in Answers /\ (reply.kind = "progress" => reply.req.op \in Ops)

(* The record may be written, objects and hooks are left alone.              *)
OnlyRecord == UNCHANGED cluster \/ (rec' \in Revisions /\ UNCHANGED <<live, hooksRan>>)

(* A callback is answered, and at most the entry and the record change.      *)
LEMMA AnswerKeeps ==
    ASSUME IInv, NEW c \in Slots, NEW STATE reply, Told2(reply), Answer(c, reply),
           flight' \in Flights, FlightOK', FlightStep(c), UNCHANGED helm, OnlyRecord,
           spent' \in Spending
    PROVE  IInv'
<1>1. Shape /\ HostOK
  BY DEF IInv, Ownership
<1>2. /\ call' \in [Slots -> Callbacks] /\ host' \in Agents /\ HostOK'
      /\ call'[c] = NoCall
      /\ \A d \in Slots \ {c} : call'[d] = call[d]
  BY <1>1, AnswerStep DEF Told2
<1>3. (\A d \in Slots : CallbackOK(d)') /\ OneOwner'
  BY <1>2, AnsweredOK, OneSteps
<1>4. Shape'
  BY <1>1, <1>2 DEF Shape, cluster, OnlyRecord
<1> QED  BY <1>2, <1>3, <1>4 DEF IInv, Ownership

(* The same with the entry as it was. *)
LEMMA AnswerOnly ==
    ASSUME IInv, NEW c \in Slots, NEW STATE reply, Told2(reply), Answer(c, reply),
           UNCHANGED <<cluster, helm, flight>>, spent' \in Spending
    PROVE  IInv'
<1>1. flight' \in Flights /\ FlightOK' /\ FlightStep(c)
  BY DEF IInv, Shape, Ownership, FlightOK, FlightStep
<1> QED  BY <1>1, AnswerKeeps DEF OnlyRecord

(* The entry of a preparing owner can go: no worker runs. *)
LEMMA NoFlightOK ==
    ASSUME IInv, flight' = NoFlight, flight.phase # "running", UNCHANGED helm
    PROVE  flight' \in Flights /\ FlightOK'
<1>1. NoFlight \in Flights
  BY NamesAssumption DEF NoFlight, Flights
<1> QED  BY <1>1 DEF IInv, Ownership, FlightOK, NoFlight

LEMMA GiveUpKeeps ==
    ASSUME IInv, NEW c \in Slots, call[c].pc \in {"plan", "activate"},
           NEW STATE reply, Told2(reply), GiveUp(c, reply),
           UNCHANGED <<cluster, helm>>, spent' \in Spending
    PROVE  IInv' 
<1>1. Owner(c) /\ flight.gen = call[c].gen /\ flight.phase = "preparing"
  BY DEF Owner, IInv, Ownership, CallbackOK, OwnerOK
<1>2. flight' = NoFlight /\ Answer(c, reply)
  BY <1>1 DEF GiveUp
<1>3. flight' \in Flights /\ FlightOK'
  BY <1>1, <1>2, NoFlightOK
<1>4. FlightStep(c)
  BY <1>1, <1>2 DEF FlightStep, Forgotten
<1> QED  BY <1>2, <1>3, <1>4, AnswerKeeps DEF OnlyRecord

-----------------------------------------------------------------------------
(* Create, Update and Delete *)

LEMMA ReserveKeeps == ASSUME IInv, NEW c \in Slots, Reserve(c)  PROVE IInv'
<1>1. /\ Fresh \in 0..MaxGen /\ Fresh # 0 /\ call[c] \in Callbacks
      /\ call[c].kind \in Kinds /\ call[c].req = NoReq
      /\ (call[c].kind = "delete") = (call[c].want = Nothing)
  BY FreshIsNew DEF Reserve, IInv, Shape, Ownership, CallbackOK, SentOK
<1>2. OpOf(call[c].kind) \in Ops
  BY <1>1 DEF OpOf, Ops, Kinds
<1> DEFINE k == [call[c] EXCEPT !.pc = "plan", !.gen = Fresh]
<1>3. call' = [call EXCEPT ![c] = k] /\ call \in [Slots -> Callbacks]
  BY DEF Reserve, IInv, Shape
<1>4. /\ k \in Callbacks /\ k.pc = "plan" /\ k.gen = Fresh /\ k.req = NoReq
      /\ k.kind \in Kinds /\ (k.kind = "delete") = (k.want = Nothing)
  BY <1>1 DEF Callbacks, Stages
<1>5. /\ call' \in [Slots -> Callbacks] /\ call'[c] = k
      /\ \A d \in Slots \ {c} : call'[d] = call[d]
  <2> HIDE DEF k
  <2> QED  BY <1>3, <1>4
<1>6. /\ flight' \in Flights /\ flight'.gen = Fresh /\ flight'.phase = "preparing"
      /\ flight'.op \in Ops /\ flight'.reported = FALSE
  BY <1>1, <1>2 DEF Reserve, NoFlight, Flights, Callbacks
<1>7. FlightOK'
  BY <1>1, <1>6 DEF FlightOK, IInv, Ownership, Reserve, NoFlight
<1>8. FlightStep(c) /\ flight = NoFlight
  BY <1>6 DEF FlightStep, Reserved, Reserve
<1>9. CallbackOK(c)'
  <2> HIDE DEF k
  <2> QED  BY <1>1, <1>4, <1>5, <1>6
       DEF CallbackOK, OwnerOK, ReaderOK, WaiterOK, SentOK, Reader
<1>10. (\A d \in Slots : CallbackOK(d)') /\ OneOwner'
  BY <1>5, <1>8, <1>9, OneSteps
<1>11. Shape' /\ HostOK'
  BY <1>5, <1>6 DEF Shape, cluster, IInv, Ownership, HostOK, Reserve
<1> QED  BY <1>7, <1>10, <1>11 DEF IInv, Ownership

LEMMA RejoinKeeps == ASSUME IInv, NEW c \in Slots, Rejoin(c)  PROVE IInv'
<1> DEFINE joins == /\ flight.phase # "preparing"
                    /\ flight.kind = call[c].kind
                    /\ call[c].kind # "delete" => flight.want = call[c].want
<1>1. spent' \in Spending
  BY DEF Rejoin, IInv, Shape
<1>2. CASE joins
  <2>1. Answer(c, Progress(FlightReq, call[c].kind = "create"))
    BY <1>2 DEF Rejoin
  <2>2. Told2(Progress(FlightReq, call[c].kind = "create"))
    BY FlightReqType, ReplyTypes DEF Told2, Rejoin
  <2> QED  BY <1>1, <2>1, <2>2, AnswerOnly DEF Rejoin
<1>3. CASE ~joins
  <2>1. Answer(c, Reply("conflict"))
    BY <1>3 DEF Rejoin
  <2>2. Told2(Reply("conflict"))
    BY ReplyTypes DEF Told2
  <2> QED  BY <1>1, <2>1, <2>2, AnswerOnly DEF Rejoin
<1> QED  BY <1>2, <1>3

(* A callback goes on to its next stage and nothing else changes.            *)
LEMMA GoesOn ==
    ASSUME IInv, NEW c \in Slots, NEW STATE k, k \in Callbacks,
           call' = [call EXCEPT ![c] = k], UNCHANGED <<flight, host, helm>>,
           UNCHANGED spent \/ spent' \in Spending,
           k.gen = call[c].gen, k.req = call[c].req, k.kind = call[c].kind,
           k.want = call[c].want,
           \/ /\ call[c].pc \in {"plan", "activate"} /\ k.pc \in {"plan", "activate"}
              /\ k.pc = "activate" => /\ k.op \in Ops
                                      /\ (k.op = "delete") = (k.kind = "delete")
           \/ /\ call[c].pc = "plan" /\ k.pc \in {"judge", "rewrite"}
           \/ /\ call[c].pc \in {"judge", "rewrite"} /\ k.pc = "plan" /\ k.req = NoReq
              /\ k.kind \in Kinds /\ (k.kind = "delete") = (k.want = Nothing)
           \/ /\ call[c].pc \in {"read", "judge", "rewrite", "reconcile"}
              /\ k.pc \in {"judge", "rewrite"}
           \/ /\ call[c].pc \in {"read", "judge", "rewrite", "reconcile"}
              /\ k.pc \in {"read", "reconcile"} /\ k.req.op \in Ops
              /\ k.got.kind = "progress" => k.pc = "read" \/ k.got.req = k.req,
           rec' \in Revisions, UNCHANGED <<live, hooksRan>>
    PROVE  IInv'
<1>1. call \in [Slots -> Callbacks] /\ CallbackOK(c)
  BY DEF IInv, Shape, Ownership
<1>2. /\ call' \in [Slots -> Callbacks] /\ call'[c] = k
      /\ \A d \in Slots \ {c} : call'[d] = call[d]
  BY <1>1
<1>3. Owner(c)' <=> Owner(c)
  <2>1. call[c].pc \in {"plan"} => call[c].req = NoReq /\ call[c].gen # 0
    BY <1>1 DEF CallbackOK, SentOK, OwnerOK, Owner
  <2>2. call[c].req = NoReq /\ call[c].gen # 0 => call[c].gen # call[c].req.gen
    BY DEF NoReq
  <2>3. Reader(c) => call[c].gen # 0
    BY <1>1 DEF CallbackOK, ReaderOK
  <2> QED  BY <1>2, <2>1, <2>2, <2>3 DEF Owner, Reader, NoReq
<1>4. Reader(c)' => Reader(c)
  BY <1>2, <1>3 DEF Owner, Reader
<1>5. CallbackOK(c)'
  <2>1. SentOK(c)
    BY <1>1 DEF CallbackOK
  <2>2. SentOK(c)'
    <3>1. CASE call[c].pc = "plan"
      BY <1>2, <2>1, <3>1 DEF SentOK, NoReq
    <3>2. CASE call[c].pc = "activate"
      BY <1>2, <2>1, <3>2 DEF SentOK, NoReq
    <3>3. CASE call[c].pc \in {"read", "reconcile"}
      <4>1. call[c].req.op \in Ops /\ call[c].req # NoReq
        BY <2>1, <3>3 DEF SentOK, NoReq, Ops
      <4> QED  BY <1>2, <3>3, <4>1 DEF SentOK
    <3>4. CASE call[c].pc \in {"judge", "rewrite"}
      BY <1>2, <2>1, <3>4 DEF SentOK
    <3> QED  BY <3>1, <3>2, <3>3, <3>4
  <2> QED  BY <1>1, <1>2, <1>3, <1>4, <2>2 DEF CallbackOK, OwnerOK, ReaderOK, WaiterOK
<1>6. (\A d \in Slots : CallbackOK(d)') /\ OneOwner'
  BY <1>2, <1>3, <1>5, OneSteps DEF FlightStep
<1>7. Shape' /\ HostOK' /\ FlightOK'
  BY <1>2 DEF Shape, IInv, Ownership, HostOK, FlightOK
<1> QED  BY <1>6, <1>7 DEF IInv, Ownership

LEMMA ChooseKeeps ==
    ASSUME IInv, NEW c \in Slots, call[c].pc = "plan",
           NEW STATE op, op \in Ops, NEW STATE target, target \in Nat,
           (op = "delete") = (call[c].kind = "delete"),
           Choose(c, op, target), UNCHANGED <<cluster, helm, spent>>
    PROVE  IInv'
<1> DEFINE k == [call[c] EXCEPT !.pc = "activate", !.op = op, !.rev = target]
<1>1. call \in [Slots -> Callbacks] /\ call[c] \in Callbacks /\ rec' \in Revisions
  BY DEF IInv, Shape, cluster
<1>2. call' = [call EXCEPT ![c] = k] /\ UNCHANGED <<flight, host, helm, spent>>
  BY <1>1 DEF Choose
<1>3. /\ k \in Callbacks /\ k.pc = "activate" /\ k.op = op /\ k.gen = call[c].gen
      /\ k.req = call[c].req /\ k.kind = call[c].kind /\ k.want = call[c].want
  BY <1>1 DEF Callbacks, Stages
<1>4. UNCHANGED <<live, hooksRan>>
  BY DEF cluster
<1> HIDE DEF k
<1> QED  BY <1>1, <1>2, <1>3, <1>4, GoesOn

LEMMA Plans ==
    ASSUME NEW r \in Revisions, NEW kind, NEW w
    PROVE  /\ PlanSubmit(r, kind, w) \in {"install", "recover", "blocked", "retry",
                                          "settled", "foreign", "upgrade"}
           /\ PlanSubmit(r, kind, w) = "install" <=> r.st = "none"
           /\ PlanSubmit(r, kind, w) = "recover" <=> r.st = "pending" /\ r.own
           /\ PlanSubmit(r, kind, w) \in {"blocked", "retry"} => ~r.own
           /\ PlanSubmit(r, kind, w) = "settled" <=> Settled(r, w)
           /\ PlanSubmit(r, kind, w) = "foreign" => ~r.own
           /\ PlanSubmit(r, kind, w) = "upgrade" =>
                r.st \notin {"none", "pending"} /\ ~Settled(r, w)
<1>1. CASE r.st = "none"
  BY <1>1 DEF PlanSubmit, Pending, Settled
<1>2. CASE r.st = "pending" /\ r.own
  BY <1>2 DEF PlanSubmit, Pending, Settled
<1>3. CASE r.st = "pending" /\ ~r.own /\ r.old
  BY <1>3 DEF PlanSubmit, Pending, Settled
<1>4. CASE r.st = "pending" /\ ~r.own /\ ~r.old
  BY <1>4 DEF PlanSubmit, Pending, Settled
<1>5. CASE r.st \notin {"none", "pending"} /\ Settled(r, w)
  BY <1>5 DEF PlanSubmit, Pending
<1>6. CASE r.st \notin {"none", "pending"} /\ ~Settled(r, w) /\ kind = "create" /\ ~r.own
  BY <1>6 DEF PlanSubmit, Pending
<1>7. CASE r.st \notin {"none", "pending"} /\ ~Settled(r, w) /\ ~(kind = "create" /\ ~r.own)
  BY <1>7 DEF PlanSubmit, Pending
<1> QED  BY <1>1, <1>2, <1>3, <1>4, <1>5, <1>6, <1>7

(* What a submit may do when it has read the record. *)
LEMMA PlanCases ==
    ASSUME Shape, NEW c \in Slots, Plan(c)
    PROVE  /\ call[c].pc = "plan" /\ call[c].kind # "delete"
           /\ UNCHANGED <<cluster, helm, spent>>
           /\ \/ rec.st = "none" /\ Choose(c, "install", 1)
              \/ rec.st = "pending" /\ ~rec.own /\ Choose(c, "install", rec.rev)
              \/ /\ rec.st \notin {"none", "pending"} /\ ~Settled(rec, call[c].want)
                 /\ Choose(c, "upgrade", rec.rev + 1)
              \/ /\ rec.st = "pending" /\ rec.own
                 /\ call' = [call EXCEPT ![c].pc = "judge", ![c].seen = rec]
                 /\ UNCHANGED <<flight, host>>
              \/ GiveUp(c, Reply("error"))
              \/ GiveUp(c, [Reply("conflict") EXCEPT !.id = TRUE])
              \/ GiveUp(c, [Reply("conflict") EXCEPT !.id = FALSE])
              \/ /\ Settled(rec, call[c].want)
                 /\ GiveUp(c, Progress([gen |-> 0, op |-> OpOf(call[c].kind),
                                        rev |-> rec.rev], call[c].kind = "create"))
<1> DEFINE k == call[c].kind
           isCreate == k = "create"
           plan == PlanSubmit(rec, k, call[c].want)
           again == call[c].again
<1>1. rec \in Revisions
  BY DEF Shape
<1>2. /\ plan \in {"install", "recover", "blocked", "retry", "settled", "foreign", "upgrade"}
      /\ plan = "install" <=> rec.st = "none"
      /\ plan = "recover" <=> rec.st = "pending" /\ rec.own
      /\ plan = "settled" <=> Settled(rec, call[c].want)
      /\ plan = "upgrade" => rec.st \notin {"none", "pending"} /\ ~Settled(rec, call[c].want)
  <2> QED  BY <1>1, Plans
<1>3. plan = "blocked" => rec.st = "pending" /\ ~rec.own
  BY <1>1, <1>2 DEF PlanSubmit, Pending
<1>4. (CASE again /\ rec.st = "none" -> GiveUp(c, Reply("error"))
        [] plan = "install" /\ ~again -> Choose(c, "install", 1)
        [] plan = "blocked" -> Choose(c, "install", rec.rev)
        [] plan = "upgrade" -> Choose(c, "upgrade", rec.rev + 1)
        [] plan = "recover" /\ ~again ->
             /\ call' = [call EXCEPT ![c].pc = "judge", ![c].seen = rec]
             /\ UNCHANGED <<flight, host>>
        [] plan = "settled" -> GiveUp(c, Progress(
             [gen |-> 0, op |-> OpOf(k), rev |-> rec.rev], isCreate))
        [] plan = "retry" ->
             GiveUp(c, [Reply("conflict") EXCEPT !.id = ~isCreate])
        [] plan = "foreign" \/ (plan = "recover" /\ again) ->
             GiveUp(c, Reply("error")))
  BY DEF Plan
<1>5. /\ call[c].pc = "plan" /\ call[c].kind # "delete"
      /\ UNCHANGED <<cluster, helm, spent>>
  BY DEF Plan
<1>6. (~isCreate) \in BOOLEAN
  OBVIOUS
<1> HIDE DEF plan
<1>7. CASE again /\ rec.st = "none"
  <2>1. GiveUp(c, Reply("error"))
    BY <1>2, <1>4, <1>7
  <2> QED  BY <2>1, <1>5
<1>8. CASE plan = "install" /\ ~again
  <2>1. Choose(c, "install", 1)
    BY <1>2, <1>4, <1>8
  <2> QED  BY <2>1, <1>2, <1>5, <1>8
<1>9. CASE plan = "blocked"
  <2>1. Choose(c, "install", rec.rev)
    BY <1>2, <1>3, <1>4, <1>9
  <2> QED  BY <2>1, <1>3, <1>5, <1>9
<1>10. CASE plan = "upgrade"
  <2>1. Choose(c, "upgrade", rec.rev + 1)
    BY <1>2, <1>4, <1>10
  <2> QED  BY <2>1, <1>2, <1>5, <1>10
<1>11. CASE plan = "recover" /\ ~again
  <2>1. /\ call' = [call EXCEPT ![c].pc = "judge", ![c].seen = rec]
        /\ UNCHANGED <<flight, host>>
    BY <1>2, <1>4, <1>11
  <2> QED  BY <2>1, <1>2, <1>5, <1>11
<1>12. CASE plan = "settled"
  <2>1. GiveUp(c, Progress([gen |-> 0, op |-> OpOf(k), rev |-> rec.rev], isCreate))
    BY <1>2, <1>4, <1>12
  <2> QED  BY <2>1, <1>2, <1>5, <1>12
<1>13. CASE plan = "retry"
  <2>1. rec.st # "none"
    BY <1>2, <1>13
  <2>2. GiveUp(c, [Reply("conflict") EXCEPT !.id = ~isCreate])
    BY <1>2, <1>4, <1>13, <2>1
  <2>3. CASE isCreate
    <3>1. (~isCreate) = FALSE
      BY <2>3
    <3> QED  BY <1>5, <2>2, <3>1, Zenon
  <2>4. CASE ~isCreate
    <3>1. (~isCreate) = TRUE
      BY <2>4
    <3> QED  BY <1>5, <2>2, <3>1, Zenon
  <2> QED  BY <2>3, <2>4
<1>14. CASE plan = "foreign" \/ (plan = "recover" /\ again)
  <2>1. GiveUp(c, Reply("error"))
    BY <1>2, <1>4, <1>14
  <2> QED  BY <2>1, <1>5
<1>15. again \/ ~again
  OBVIOUS
<1> QED  BY <1>2, <1>7, <1>8, <1>9, <1>10, <1>11, <1>12, <1>13, <1>14, <1>15

LEMMA JudgesNext ==
    ASSUME IInv, NEW c \in Slots, call[c].pc \in {"plan", "read"},
           call' = [call EXCEPT ![c].pc = "judge", ![c].seen = rec],
           UNCHANGED <<cluster, helm, flight, host, spent>>
    PROVE  IInv'
<1> DEFINE k == [call[c] EXCEPT !.pc = "judge", !.seen = rec]
<1>1. call \in [Slots -> Callbacks] /\ call[c] \in Callbacks
      /\ rec \in Revisions /\ rec' \in Revisions
  BY DEF IInv, Shape, cluster
<1>2. call' = [call EXCEPT ![c] = k]
  BY <1>1
<1>3. /\ k \in Callbacks /\ k.pc = "judge" /\ k.gen = call[c].gen
      /\ k.req = call[c].req /\ k.kind = call[c].kind /\ k.want = call[c].want
  BY <1>1 DEF Callbacks, Stages
<1>4. UNCHANGED <<live, hooksRan>>
  BY DEF cluster
<1> HIDE DEF k
<1> QED  BY <1>1, <1>2, <1>3, <1>4, GoesOn

LEMMA PlanKeeps == ASSUME IInv, NEW c \in Slots, Plan(c)  PROVE IInv'
<1>1. /\ Shape /\ rec.rev \in Nat /\ rec.rev + 1 \in Nat /\ spent' \in Spending
      /\ call[c].kind \in Kinds \ {"delete"} /\ call[c].pc = "plan"
      /\ UNCHANGED <<cluster, helm, spent>>
  BY PlanCases DEF Plan, IInv, Shape, Revisions, Ownership, CallbackOK, SentOK
<1>2. ASSUME NEW reply \in Answers, reply.kind = "progress" => reply.req.op \in Ops,
             GiveUp(c, reply)
      PROVE  IInv'
  BY <1>1, <1>2, GiveUpKeeps DEF Told2
<1>3. CASE \E op \in {"install", "upgrade"}, target \in Nat : Choose(c, op, target)
  <2>1. PICK op \in {"install", "upgrade"}, target \in Nat : Choose(c, op, target)
    BY <1>3
  <2>2. op \in Ops /\ (op = "delete") = (call[c].kind = "delete")
    BY <1>1 DEF Ops
  <2> QED  BY <1>1, <2>1, <2>2, ChooseKeeps
<1>4. CASE /\ call' = [call EXCEPT ![c].pc = "judge", ![c].seen = rec]
           /\ UNCHANGED <<flight, host>>
  BY <1>1, <1>4, JudgesNext
<1>5. CASE GiveUp(c, Reply("error"))
  BY <1>1, <1>5, ReplyTypes, GiveUpKeeps DEF Told2
<1>6. CASE \E id \in BOOLEAN : GiveUp(c, [Reply("conflict") EXCEPT !.id = id])
  <2>1. PICK id \in BOOLEAN : GiveUp(c, [Reply("conflict") EXCEPT !.id = id])
    BY <1>6
  <2>2. Told2([Reply("conflict") EXCEPT !.id = id])
    BY ReplyTypes DEF Told2, Reply, Answers
  <2> QED  BY <1>1, <2>1, <2>2, GiveUpKeeps
<1>7. CASE GiveUp(c, Progress([gen |-> 0, op |-> OpOf(call[c].kind),
                               rev |-> rec.rev], call[c].kind = "create"))
  <2>1. [gen |-> 0, op |-> OpOf(call[c].kind), rev |-> rec.rev] \in Ids
        /\ OpOf(call[c].kind) \in Ops
    BY <1>1, NamesAssumption DEF Ids, OpOf, Ops, Kinds
  <2> DEFINE r == [gen |-> 0, op |-> OpOf(call[c].kind), rev |-> rec.rev]
  <2>2. Told2(Progress(r, call[c].kind = "create"))
    <3>1. r.op \in Ops /\ r \in Ids
      BY <2>1
    <3> HIDE DEF r
    <3> QED  BY <3>1, ReplyTypes DEF Told2
  <2> QED  BY <1>1, <1>7, <2>2, GiveUpKeeps
<1> QED  BY <1>1, <1>3, <1>4, <1>5, <1>6, <1>7, PlanCases

LEMMA PlanDeleteKeeps == ASSUME IInv, NEW c \in Slots, PlanDelete(c)  PROVE IInv'
<1>1. /\ Shape /\ rec.rev \in Nat /\ spent' \in Spending
      /\ call[c].kind = "delete" /\ call[c].pc = "plan"
      /\ UNCHANGED <<cluster, helm, spent>>
  BY DEF PlanDelete, IInv, Shape, Revisions
<1>2. CASE GiveUp(c, Reply("success"))
  BY <1>1, <1>2, ReplyTypes, GiveUpKeeps DEF Told2
<1>3. CASE Choose(c, "delete", rec.rev)
  BY <1>1, <1>3, ChooseKeeps DEF Ops
<1> QED  BY <1>2, <1>3 DEF PlanDelete

LEMMA PreparationFailsKeeps ==
    ASSUME IInv, NEW c \in Slots, PreparationFails(c)  PROVE IInv'
<1>1. spent' \in Spending
  BY Spends DEF PreparationFails, IInv
<1> QED  BY <1>1, ReplyTypes, GiveUpKeeps DEF Told2, PreparationFails

(* The worker begins: the entry is running and so is Helm. *)
LEMMA ActivateKeeps == ASSUME IInv, NEW c \in Slots, Activate(c)  PROVE IInv'
<1>1. /\ Shape /\ HostOK /\ FlightOK /\ call[c] \in Callbacks /\ call[c].pc = "activate"
      /\ call \in [Slots -> Callbacks] /\ flight \in Flights
      /\ Owner(c) /\ call[c].gen # 0 /\ flight.gen = call[c].gen
      /\ call[c].req = NoReq /\ call[c].kind \in Kinds
      /\ (call[c].kind = "delete") = (call[c].want = Nothing)
      /\ call[c].op \in Ops /\ (call[c].op = "delete") = (call[c].kind = "delete")
      /\ flight.phase = "preparing"
  BY DEF Activate, IInv, Shape, Ownership, CallbackOK, OwnerOK, SentOK, Owner
<1>2. /\ flight' \in Flights /\ flight'.gen = flight.gen /\ flight'.phase = "running"
      /\ flight'.op = call[c].op /\ flight'.reported = flight.reported
  BY <1>1 DEF Activate, Flights, Callbacks
<1> DEFINE h == [Idle EXCEPT !.op = call[c].op, !.want = call[c].want, !.step = "begin"]
<1>3. h \in Works /\ h.step = "begin"
  BY <1>1 DEF Idle, Works, Callbacks
<1>4. helm' = [helm EXCEPT !["plugin"] = h] /\ helm \in [Actors -> Works]
  BY <1>1 DEF Activate, Shape
<1>5. /\ helm' \in [Actors -> Works] /\ helm'["plugin"].step = "begin"
      /\ helm'["cli"] = helm["cli"]
  <2> HIDE DEF h
  <2> QED  BY <1>3, <1>4 DEF Actors
<1>6. flight # NoFlight /\ ~flight.reported
  BY <1>1 DEF FlightOK, NoFlight
<1>7. FlightOK'
  BY <1>1, <1>2, <1>5, <1>6 DEF FlightOK, Actors
<1>8. FlightStep(c)
  BY <1>1, <1>2 DEF FlightStep, Started
<1>9. rec' \in Revisions /\ live' = live /\ hooksRan' = hooksRan /\ spent' = spent
  BY <1>1 DEF Activate, cluster, Shape
<1>10. CASE call[c].kind = "delete"
  <2> DEFINE r == [gen |-> call[c].gen, op |-> "delete", rev |-> call[c].rev]
  <2>1. r \in Ids /\ r.op \in Ops
    BY <1>1 DEF Ids, Ops, Callbacks
  <2>2. Answer(c, Progress(r, FALSE))
    BY <1>10 DEF Activate
  <2>3. Progress(r, FALSE) \in Answers /\ Progress(r, FALSE).req = r
    <3> HIDE DEF r
    <3> QED  BY <2>1, ReplyTypes
  <2>4. /\ call' \in [Slots -> Callbacks] /\ host' \in Agents /\ HostOK'
        /\ call'[c] = NoCall
        /\ \A d \in Slots \ {c} : call'[d] = call[d]
    <3> HIDE DEF r
    <3> QED  BY <1>1, <2>1, <2>2, <2>3, AnswerStep
  <2>5. (\A d \in Slots : CallbackOK(d)') /\ OneOwner'
    BY <1>8, <2>4, AnsweredOK, OneSteps
  <2>6. Shape'
    BY <1>1, <1>2, <1>5, <1>9, <2>4 DEF Shape
  <2> QED  BY <1>7, <2>4, <2>5, <2>6 DEF IInv, Ownership
<1>11. CASE call[c].kind # "delete"
  <2> DEFINE k == [call[c] EXCEPT !.pc = "await"]
  <2>1. call' = [call EXCEPT ![c] = k] /\ host' = host
    BY <1>1, <1>11 DEF Activate
  <2>2. /\ k \in Callbacks /\ k.pc = "await" /\ k.gen = call[c].gen /\ k.op = call[c].op
        /\ k.req = call[c].req /\ k.kind = call[c].kind /\ k.want = call[c].want
    BY <1>1 DEF Callbacks, Stages
  <2>3. /\ call' \in [Slots -> Callbacks] /\ call'[c] = k
        /\ \A d \in Slots \ {c} : call'[d] = call[d]
    <3> HIDE DEF k
    <3> QED  BY <1>1, <2>1, <2>2
  <2>4. CallbackOK(c)' /\ ~Owner(c)'
    <3> HIDE DEF k
    <3> QED  BY <1>1, <1>2, <1>11, <2>2, <2>3
             DEF CallbackOK, OwnerOK, ReaderOK, WaiterOK, SentOK, Owner, Reader, Begun
  <2>5. (\A d \in Slots : CallbackOK(d)') /\ OneOwner'
    BY <1>8, <2>3, <2>4, OneSteps
  <2>6. Shape' /\ HostOK'
    BY <1>1, <1>2, <1>5, <1>9, <2>1, <2>3 DEF Shape, HostOK
  <2> QED  BY <1>7, <2>5, <2>6 DEF IInv, Ownership
<1> QED  BY <1>10, <1>11

(* A progress that names the entry. *)
LEMMA FlightProgress ==
    ASSUME IInv, flight # NoFlight, NEW STATE w, w \in BOOLEAN
    PROVE  Told2(Progress(FlightReq, w))
BY FlightReqType, ReplyTypes DEF Told2

(* A reported outcome is forgotten unless somebody still reads it.           *)
LEMMA ReportStep ==
    ASSUME IInv, flight.phase \in {"ok", "err"}, flight' = Report(flight),
           UNCHANGED helm, NEW c
    PROVE  flight' \in Flights /\ FlightOK' /\ FlightStep(c)
<1>1. flight \in Flights /\ FlightOK
  BY DEF IInv, Shape, Ownership
<1>2. CASE flight.readers = {}
  <2>1. flight' = NoFlight
    BY <1>2 DEF Report
  <2> QED  BY <1>2, <2>1, NoFlightOK DEF FlightStep, Forgotten, Begun
<1>3. CASE flight.readers # {}
  <2>1. flight' = [flight EXCEPT !.reported = TRUE]
    BY <1>3 DEF Report
  <2>2. /\ flight' \in Flights /\ flight'.gen = flight.gen /\ flight'.phase = flight.phase
        /\ flight'.op = flight.op /\ flight'.readers = flight.readers
    BY <1>1, <2>1 DEF Flights
  <2>3. FlightOK'
    <3>1. flight # NoFlight
      BY DEF NoFlight
    <3> QED  BY <1>1, <2>2, <3>1 DEF FlightOK
  <2> QED  BY <2>2, <2>3 DEF FlightStep, Continues, Begun
<1> QED  BY <1>2, <1>3

LEMMA AwaitKeeps ==
    ASSUME IInv, NEW c \in Slots,
           \/ AwaitRecorded(c) \/ AwaitOutcome(c) \/ AwaitForgotten(c)
           \/ AwaitOverdue(c) \/ AwaitFails(c)
    PROVE  IInv'
<1>1. /\ call[c].pc = "await" /\ call[c].gen # 0 /\ spent \in Spending
      /\ call[c].op \in Ops /\ call[c] \in Callbacks
  BY DEF AwaitRecorded, AwaitOutcome, AwaitForgotten, AwaitOverdue, AwaitFails,
         IInv, Shape, Ownership, CallbackOK, WaiterOK, SentOK
<1>2. flight.gen = call[c].gen => flight # NoFlight
  BY <1>1 DEF NoFlight
<1>3. (call[c].kind = "create") \in BOOLEAN
  OBVIOUS
<1>4. Told2(Reply("error")) /\ Told2(Reply("conflict")) /\ Told2(Reply("failure"))
  BY ReplyTypes DEF Told2
<1>5. CASE AwaitRecorded(c)
  <2>1. Told2(Progress(FlightReq, call[c].kind = "create"))
    BY <1>2, <1>3, <1>5, FlightProgress DEF AwaitRecorded
  <2> QED  BY <1>1, <1>5, <2>1, AnswerOnly DEF AwaitRecorded
<1>6. CASE AwaitOutcome(c)
  <2>1. flight' \in Flights /\ FlightOK' /\ FlightStep(c)
    BY <1>6, ReportStep DEF AwaitOutcome
  <2> QED  BY <1>1, <1>4, <1>6, <2>1, AnswerKeeps DEF AwaitOutcome, OnlyRecord
<1>7. CASE AwaitForgotten(c)
  <2> DEFINE r == [gen |-> call[c].gen, op |-> call[c].op, rev |-> call[c].rev]
  <2>1. r \in Ids /\ r.op \in Ops
    BY <1>1 DEF Ids, Callbacks
  <2>2. Told2(Progress(r, call[c].kind = "create"))
    <3> HIDE DEF r
    <3> QED  BY <1>3, <2>1, ReplyTypes DEF Told2
  <2>3. Answer(c, Reply("conflict")) \/ Answer(c, Progress(r, call[c].kind = "create"))
    BY <1>7 DEF AwaitForgotten
  <2> HIDE DEF r
  <2> QED  BY <1>1, <1>4, <1>7, <2>2, <2>3, AnswerOnly DEF AwaitForgotten
<1>8. CASE AwaitOverdue(c)
  BY <1>1, <1>4, <1>8, AnswerOnly DEF AwaitOverdue
<1>9. CASE AwaitFails(c)
  <2>1. Told2(Progress(FlightReq, call[c].kind = "create"))
    BY <1>2, <1>3, <1>9, FlightProgress DEF AwaitFails
  <2>2. Answer(c, Reply("error")) \/ Answer(c, Progress(FlightReq, call[c].kind = "create"))
    BY <1>9 DEF AwaitFails
  <2>3. spent' \in Spending
    BY <1>9, Spends DEF AwaitFails, IInv
  <2> QED  BY <1>4, <1>9, <2>1, <2>2, <2>3, AnswerOnly DEF AwaitFails
<1> QED  BY <1>5, <1>6, <1>7, <1>8, <1>9

-----------------------------------------------------------------------------
(* Status *)

LEMMA AcquireRecoveryKeeps ==
    ASSUME IInv, NEW c \in Slots, AcquireRecovery(c)  PROVE IInv'
<1>1. /\ Fresh \in 0..MaxGen /\ Fresh # 0 /\ call[c] \in Callbacks
      /\ call[c].req.op \in Ops /\ call[c].req.gen # Fresh
      /\ call \in [Slots -> Callbacks] /\ flight = NoFlight
  BY FreshIsNew DEF AcquireRecovery, IInv, Shape, Ownership, CallbackOK, SentOK
<1> DEFINE k == [call[c] EXCEPT !.pc = "read", !.gen = Fresh]
<1>2. call' = [call EXCEPT ![c] = k]
  BY <1>1 DEF AcquireRecovery
<1>3. k \in Callbacks /\ k.pc = "read" /\ k.gen = Fresh /\ k.req = call[c].req
  BY <1>1 DEF Callbacks, Stages
<1>4. /\ call' \in [Slots -> Callbacks] /\ call'[c] = k
      /\ \A d \in Slots \ {c} : call'[d] = call[d]
  <2> HIDE DEF k
  <2> QED  BY <1>1, <1>2, <1>3
<1>5. /\ flight' \in Flights /\ flight'.gen = Fresh /\ flight'.phase = "preparing"
      /\ flight'.op \in Ops /\ flight'.reported = FALSE
  BY <1>1 DEF AcquireRecovery, NoFlight, Flights, Callbacks, Ids
<1>6. FlightOK'
  BY <1>1, <1>5 DEF FlightOK, IInv, Ownership, AcquireRecovery, NoFlight
<1>7. FlightStep(c)
  BY <1>1, <1>5 DEF FlightStep, Reserved
<1>8. CallbackOK(c)'
  <2> HIDE DEF k
  <2> QED  BY <1>1, <1>3, <1>4, <1>5
       DEF CallbackOK, OwnerOK, ReaderOK, WaiterOK, SentOK, Reader
<1>9. (\A d \in Slots : CallbackOK(d)') /\ OneOwner'
  BY <1>1, <1>4, <1>7, <1>8, OneSteps
<1>10. Shape' /\ HostOK'
  BY <1>4, <1>5 DEF Shape, cluster, IInv, Ownership, HostOK, AcquireRecovery
<1> QED  BY <1>6, <1>9, <1>10 DEF IInv, Ownership

LEMMA AcquireFlightKeeps ==
    ASSUME IInv, NEW c \in Slots, AcquireFlight(c)  PROVE IInv'
<1>1. /\ call[c] \in Callbacks /\ call \in [Slots -> Callbacks] /\ flight \in Flights
      /\ call[c].req.op \in Ops /\ flight # NoFlight /\ flight.gen # 0
      /\ flight.phase \in {"ok", "running"} /\ FlightOK
  BY DEF AcquireFlight, IInv, Shape, Ownership, CallbackOK, SentOK, FlightOK
<1>2. call[c].req.gen = flight.gen
  BY DEF AcquireFlight, Matches, FlightReq
<1> DEFINE b == flight.phase = "running"
           k == [call[c] EXCEPT !.pc = "read", !.gen = flight.gen, !.backed = b]
<1>3. call' = [call EXCEPT ![c] = k]
  BY <1>1 DEF AcquireFlight
<1>4. k \in Callbacks /\ k.pc = "read" /\ k.gen = flight.gen /\ k.req = call[c].req
  <2>1. b \in BOOLEAN
    OBVIOUS
  <2> HIDE DEF b
  <2> QED  BY <1>1, <2>1 DEF Callbacks, Stages, Flights
<1>5. /\ call' \in [Slots -> Callbacks] /\ call'[c] = k
      /\ \A d \in Slots \ {c} : call'[d] = call[d]
  <2> HIDE DEF k
  <2> QED  BY <1>1, <1>3, <1>4
<1>6. /\ flight' \in Flights /\ flight'.gen = flight.gen /\ flight'.phase = flight.phase
      /\ flight'.op = flight.op /\ flight'.reported = flight.reported
      /\ flight'.readers = flight.readers \cup {c}
  BY <1>1 DEF AcquireFlight, Flights
<1>7. FlightOK'
  BY <1>1, <1>6 DEF FlightOK, AcquireFlight
<1>8. FlightStep(c)
  BY <1>1, <1>6 DEF FlightStep, Continues, Begun
<1>9. CallbackOK(c)' /\ ~Owner(c)'
  <2> HIDE DEF k
  <2> QED  BY <1>1, <1>2, <1>4, <1>5, <1>6
       DEF CallbackOK, OwnerOK, ReaderOK, WaiterOK, SentOK, Owner, Reader, Begun
<1>10. (\A d \in Slots : CallbackOK(d)') /\ OneOwner'
  BY <1>5, <1>8, <1>9, OneSteps
<1>11. Shape' /\ HostOK'
  BY <1>5, <1>6 DEF Shape, cluster, IInv, Ownership, HostOK, AcquireFlight
<1> QED  BY <1>7, <1>10, <1>11 DEF IInv, Ownership

LEMMA RefuseStatusKeeps ==
    ASSUME IInv, NEW c \in Slots, RefuseStatus(c)  PROVE IInv'
<1>1. Told2(Reply("conflict")) /\ spent' \in Spending
  BY ReplyTypes DEF Told2, RefuseStatus, IInv, Shape
<1> QED  BY <1>1, AnswerOnly DEF RefuseStatus

LEMMA StatusVerdictKeeps ==
    ASSUME IInv, NEW c \in Slots, StatusVerdict(c)  PROVE IInv'
<1>1. flight.op \in Ops \cup {"none"} /\ spent' \in Spending
  BY DEF IInv, Shape, Flights, StatusVerdict
<1>2. Told2(Withheld("failure", flight.op))
  BY <1>1, ReplyTypes DEF Told2
<1>3. CASE flight.phase = "err" /\ flight' = Report(flight)
  <2>1. flight' \in Flights /\ FlightOK' /\ FlightStep(c)
    BY <1>3, ReportStep DEF StatusVerdict
  <2> QED  BY <1>1, <1>2, <2>1, AnswerKeeps DEF StatusVerdict, OnlyRecord
<1>4. CASE UNCHANGED flight
  BY <1>1, <1>2, <1>4, AnswerOnly DEF StatusVerdict
<1> QED  BY <1>3, <1>4 DEF StatusVerdict

(* What a poll of an install or an upgrade can be told. *)
LEMMA InstallReplyKinds ==
    ASSUME NEW c \in Slots
    PROVE  InstallReplies(c) \subseteq
             {Progress(call[c].req, call[c].req.op = "install"),
              Withheld("failure", call[c].req.op)}
             \cup (IF rec.st = "deployed" /\ ~(rec.rev > call[c].req.rev)
                      /\ ~(rec.rev < call[c].req.rev)
                   THEN {[Reply("success") EXCEPT !.id = TRUE]} ELSE {})
<1> DEFINE op == call[c].req.op
           failed == Withheld("failure", op)
           waiting == Progress(call[c].req, op = "install")
           ready == [Reply("success") EXCEPT !.id = TRUE]
           later == CASE rec.st = "pending" -> {waiting}
                      [] rec.st = "failed" -> {failed}
                      [] rec.st = "deployed" ->
                           {ready, IF Stalled(rec, call[c].backed) THEN failed ELSE waiting}
                      [] OTHER -> {waiting}
<1>1. InstallReplies(c) =
        IF rec.st = "none"
        THEN {IF call[c].backed /\ ~flight.late THEN waiting ELSE failed}
        ELSE IF rec.rev > call[c].req.rev THEN {failed}
        ELSE IF rec.rev < call[c].req.rev THEN {waiting}
        ELSE later
  BY DEF InstallReplies
<1>2. CASE rec.st = "deployed"
  <2>1. later = {ready, IF Stalled(rec, call[c].backed) THEN failed ELSE waiting}
    BY <1>2
  <2> HIDE DEF later, ready, failed, waiting
  <2> QED  BY <1>1, <1>2, <2>1 DEF ready, failed, waiting
<1>3. CASE rec.st # "deployed"
  <2>1. later \in {{waiting}, {failed}}
    BY <1>3
  <2> HIDE DEF later
  <2> QED  BY <1>1, <1>3, <2>1
<1> QED  BY <1>2, <1>3

LEMMA DeleteReplyKinds ==
    ASSUME NEW c \in Slots
    PROVE  DeleteReply(c) \in
             {Withheld("conflict", "delete"), Withheld("failure", "delete"),
              Progress(call[c].req, FALSE)}
             \cup (IF rec.st = "none" THEN {Reply("success")} ELSE {})
<1>1. CASE rec.st = "none"
  BY <1>1 DEF DeleteReply
<1>2. CASE rec.st # "none" /\ rec.own /\ ~call[c].backed
  BY <1>2 DEF DeleteReply
<1>3. CASE rec.st # "none" /\ ~(rec.own /\ ~call[c].backed)
  BY <1>3 DEF DeleteReply
<1> QED  BY <1>1, <1>2, <1>3

LEMMA ReadReplyTypes ==
    ASSUME NEW c \in Slots, call[c] \in Callbacks,
           NEW reply \in IF call[c].req.op = "delete" THEN {DeleteReply(c)}
                         ELSE InstallReplies(c)
    PROVE  /\ reply \in Answers
           /\ reply.kind = "progress" => reply.req = call[c].req
           /\ reply.kind = "success" =>
                IF call[c].req.op = "delete" THEN rec.st = "none"
                ELSE rec.st = "deployed" /\ ~(rec.rev > call[c].req.rev)
                                         /\ ~(rec.rev < call[c].req.rev)
<1> DEFINE op == call[c].req.op
           waits == Progress(call[c].req, op = "install")
           goes == Progress(call[c].req, FALSE)
           fails == {Withheld("failure", op), Withheld("conflict", "delete"),
                     Withheld("failure", "delete")}
           gone == Reply("success")
           ready == [Reply("success") EXCEPT !.id = TRUE]
           now == rec.st = "deployed" /\ ~(rec.rev > call[c].req.rev)
                                      /\ ~(rec.rev < call[c].req.rev)
<1>1. call[c].req \in Ids /\ op \in Ops \cup {"none"} /\ (op = "install") \in BOOLEAN
      /\ "delete" \in Ops
  BY DEF Callbacks, Ids, Ops
<1>2. \/ reply \in {waits, goes} \cup fails
      \/ op = "delete" /\ rec.st = "none" /\ reply = gone
      \/ op # "delete" /\ now /\ reply = ready
  <2>1. CASE op = "delete"
    <3>1. reply = DeleteReply(c)
      BY <2>1
    <3>2. DeleteReply(c) \in fails \cup {goes} \cup (IF rec.st = "none" THEN {gone} ELSE {})
      <4>1. Withheld("conflict", "delete") \in fails /\ Withheld("failure", "delete") \in fails
        OBVIOUS
      <4> HIDE DEF fails
      <4> QED  BY <4>1, DeleteReplyKinds
    <3> HIDE DEF waits, goes, fails, gone, ready, now
    <3> QED  BY <2>1, <3>1, <3>2
  <2>2. CASE op # "delete"
    <3>1. reply \in InstallReplies(c)
      BY <2>2
    <3>2. InstallReplies(c) \subseteq {waits, Withheld("failure", op)}
                                      \cup (IF now THEN {ready} ELSE {})
      BY InstallReplyKinds, Zenon
    <3>3. Withheld("failure", op) \in fails
      OBVIOUS
    <3> HIDE DEF op, waits, goes, fails, gone, ready, now
    <3> QED  BY <2>2, <3>1, <3>2, <3>3
  <2> QED  BY <2>1, <2>2
<1>3. /\ waits \in Answers /\ waits.kind = "progress" /\ waits.req = call[c].req
      /\ goes \in Answers /\ goes.kind = "progress" /\ goes.req = call[c].req
  <2> HIDE DEF op
  <2> QED  BY <1>1, ReplyTypes
<1>4. \A r \in fails : r \in Answers /\ r.kind \in {"failure", "conflict"}
  <2> HIDE DEF op
  <2> QED  BY <1>1, ReplyTypes
<1>5. gone \in Answers /\ ready \in Answers /\ gone.kind = "success" /\ ready.kind = "success"
  BY ReplyTypes
<1>6. now => rec.st = "deployed" /\ ~(rec.rev > call[c].req.rev)
                                 /\ ~(rec.rev < call[c].req.rev)
  OBVIOUS
<1>7. reply \in Answers /\ (reply.kind = "progress" => reply.req = call[c].req)
  <2> HIDE DEF waits, goes, fails, gone, ready, now, op
  <2> QED  BY <1>2, <1>3, <1>4, <1>5
<1>8. reply.kind = "success" => IF op = "delete" THEN rec.st = "none" ELSE now
  <2> HIDE DEF waits, goes, fails, gone, ready, now, op
  <2> QED  BY <1>2, <1>3, <1>4, <1>5
<1> QED  BY <1>6, <1>7, <1>8

LEMMA ReadRecordKeeps == ASSUME IInv, NEW c \in Slots, ReadRecord(c)  PROVE IInv'
<1>1. /\ call \in [Slots -> Callbacks] /\ call[c] \in Callbacks /\ call[c].pc = "read"
      /\ rec \in Revisions /\ rec' \in Revisions /\ call[c].req.op \in Ops
  BY DEF ReadRecord, IInv, Shape, Ownership, CallbackOK, SentOK, cluster
<1>2. PICK reply \in IF call[c].req.op = "delete" THEN {DeleteReply(c)}
                     ELSE InstallReplies(c) :
        call' = [call EXCEPT ![c].pc = "reconcile", ![c].got = reply, ![c].seen = rec]
  BY DEF ReadRecord
<1>3. reply \in Answers /\ (reply.kind = "progress" => reply.req = call[c].req)
  BY <1>1, ReadReplyTypes
<1> DEFINE k == [call[c] EXCEPT !.pc = "reconcile", !.got = reply, !.seen = rec]
<1>4. call' = [call EXCEPT ![c] = k]
  BY <1>1, <1>2
<1>5. /\ k \in Callbacks /\ k.pc = "reconcile" /\ k.gen = call[c].gen /\ k.got = reply
      /\ k.req = call[c].req /\ k.kind = call[c].kind /\ k.want = call[c].want
  BY <1>1, <1>3 DEF Callbacks, Stages
<1>6. UNCHANGED <<live, hooksRan, flight, host, helm, spent>>
  BY DEF cluster, ReadRecord
<1> HIDE DEF k
<1> QED  BY <1>1, <1>3, <1>4, <1>5, <1>6, GoesOn

LEMMA ReadAbandonedKeeps == ASSUME IInv, NEW c \in Slots, ReadAbandoned(c)  PROVE IInv'
BY JudgesNext DEF ReadAbandoned

(* A poll that leaves gives its reservation back, or stops reading.          *)
LEMMA LeaveStep ==
    ASSUME IInv, NEW c \in Slots, call[c].pc \in {"read", "reconcile"}, UNCHANGED helm,
           NEW STATE f, f = flight \/ (f = Report(flight) /\ flight.phase \in {"ok", "err"}),
           flight' = IF call[c].gen = call[c].req.gen THEN DropReader(f, c) ELSE NoFlight
    PROVE  flight' \in Flights /\ FlightOK' /\ FlightStep(c)
<1>1. flight \in Flights /\ FlightOK /\ OwnerOK(c) /\ ReaderOK(c)
  BY DEF IInv, Shape, Ownership, CallbackOK
<1>2. CASE call[c].gen # call[c].req.gen
  <2>1. Owner(c) /\ flight' = NoFlight
    BY <1>2 DEF Owner
  <2>2. flight.phase = "preparing"
    BY <1>1, <2>1 DEF OwnerOK
  <2> QED  BY <2>1, <2>2, NoFlightOK DEF FlightStep, Forgotten
<1>3. CASE call[c].gen = call[c].req.gen
  <2>1. /\ flight.phase \in Begun /\ c \in flight.readers
        /\ flight' = DropReader(f, c)
    BY <1>1, <1>3 DEF Reader, ReaderOK
  <2>2. /\ f \in Flights /\ f.gen = flight.gen /\ f.phase = flight.phase /\ f.op = flight.op
        /\ f.readers = flight.readers
        /\ f.reported => flight.phase \in {"ok", "err"}
    <3>1. CASE f = flight
      <4>1. flight.reported => flight.phase \in {"ok", "err"}
        BY <1>1 DEF FlightOK
      <4> QED  BY <1>1, <3>1, <4>1, Zenon
    <3>2. CASE f = Report(flight) /\ flight.phase \in {"ok", "err"}
      <4>1. f = [flight EXCEPT !.reported = TRUE]
        BY <2>1, <3>2 DEF Report
      <4>2. flight.phase \in {"ok", "err"}
        BY <3>2
      <4>3. /\ f \in Flights /\ f.gen = flight.gen /\ f.phase = flight.phase
            /\ f.op = flight.op /\ f.readers = flight.readers
        BY <1>1, <4>1 DEF Flights
      <4> QED  BY <4>2, <4>3
    <3> QED  BY <3>1, <3>2
  <2>3. CASE f.readers \subseteq {c} /\ f.reported
    <3>1. flight' = NoFlight
      BY <2>1, <2>3 DEF DropReader
    <3> QED  BY <2>1, <2>2, <2>3, <3>1, NoFlightOK DEF FlightStep, Forgotten
  <2>4. CASE ~(f.readers \subseteq {c} /\ f.reported)
    <3>1. flight' = [f EXCEPT !.readers = @ \ {c}]
      BY <2>1, <2>4 DEF DropReader
    <3>2. /\ flight' \in Flights /\ flight'.gen = flight.gen
          /\ flight'.phase = flight.phase /\ flight'.op = flight.op
          /\ flight'.readers = flight.readers \ {c} /\ flight'.reported = f.reported
      BY <2>2, <3>1 DEF Flights
    <3>3. flight # NoFlight
      BY <2>1 DEF NoFlight, Begun
    <3>4. FlightOK'
      BY <1>1, <2>1, <2>2, <3>2, <3>3 DEF FlightOK, Begun
    <3> QED  BY <2>1, <3>2, <3>4 DEF FlightStep, Continues
  <2> QED  BY <2>3, <2>4
<1> QED  BY <1>2, <1>3

LEMMA LeaveKeeps ==
    ASSUME IInv, NEW c \in Slots, call[c].pc \in {"read", "reconcile"},
           UNCHANGED <<cluster, helm>>, spent' \in Spending,
           NEW STATE f, f = flight \/ (f = Report(flight) /\ flight.phase \in {"ok", "err"}),
           NEW STATE reply, Told2(reply), Leave(c, reply, f)
    PROVE  IInv'
<1>1. /\ flight' = IF call[c].gen = call[c].req.gen THEN DropReader(f, c) ELSE NoFlight
      /\ Answer(c, reply)
  BY DEF Leave
<1>2. flight' \in Flights /\ FlightOK' /\ FlightStep(c)
  BY <1>1, LeaveStep
<1> QED  BY <1>1, <1>2, AnswerKeeps DEF OnlyRecord

LEMMA ReadFailsKeeps == ASSUME IInv, NEW c \in Slots, ReadFails(c)  PROVE IInv'
<1>1. /\ call[c] \in Callbacks /\ call[c].pc = "read" /\ call[c].req.op \in Ops
      /\ call[c].req \in Ids /\ flight.op \in Ops \cup {"none"}
      /\ UNCHANGED <<cluster, helm>> /\ spent' \in Spending
  BY Spends DEF ReadFails, IInv, Shape, Callbacks, Flights, Ownership, CallbackOK, SentOK
<1>2. Told2(Reply("error")) /\ Told2(Withheld("failure", call[c].req.op))
      /\ Told2(Withheld("failure", flight.op))
  BY <1>1, ReplyTypes DEF Told2
<1>3. Told2(Progress(call[c].req, TRUE))
  BY <1>1, ReplyTypes DEF Told2
<1>4. \/ Leave(c, Reply("error"), flight)
      \/ Leave(c, Withheld("failure", call[c].req.op), flight)
      \/ Leave(c, Withheld("failure", flight.op), flight)
      \/ Leave(c, Withheld("failure", flight.op), Report(flight)) /\ flight.phase = "err"
      \/ Leave(c, Progress(call[c].req, TRUE), flight)
  BY DEF ReadFails
<1>5. CASE Leave(c, Reply("error"), flight)
  BY <1>1, <1>2, <1>5, LeaveKeeps
<1>6. CASE Leave(c, Withheld("failure", call[c].req.op), flight)
  BY <1>1, <1>2, <1>6, LeaveKeeps
<1>7. CASE Leave(c, Withheld("failure", flight.op), flight)
  BY <1>1, <1>2, <1>7, LeaveKeeps
<1>8. CASE Leave(c, Withheld("failure", flight.op), Report(flight)) /\ flight.phase = "err"
  BY <1>1, <1>2, <1>8, LeaveKeeps
<1>9. CASE Leave(c, Progress(call[c].req, TRUE), flight)
  BY <1>1, <1>3, <1>9, LeaveKeeps
<1> QED  BY <1>4, <1>5, <1>6, <1>7, <1>8, <1>9

(* What a poll may answer when it has read the record. *)
LEMMA ReconcileCases ==
    ASSUME NEW c \in Slots, Reconcile(c)
    PROVE  LET got == call[c].got
           IN  \/ call[c].gen # call[c].req.gen /\ Leave(c, got, flight)
               \/ /\ call[c].gen = call[c].req.gen /\ flight.phase = "err"
                  /\ Leave(c, Withheld("failure", flight.op), Report(flight))
               \/ /\ call[c].gen = call[c].req.gen /\ got.kind = "progress"
                  /\ Leave(c, got, flight)
               \/ /\ call[c].gen = call[c].req.gen
                  /\ Leave(c, Progress(call[c].req, flight.op = "install"), flight)
               \/ /\ call[c].gen = call[c].req.gen
                  /\ flight.phase \notin {"err", "running"}
                  /\ Leave(c, got, Report(flight))
BY DEF Reconcile

LEMMA ReconcileKeeps == ASSUME IInv, NEW c \in Slots, Reconcile(c)  PROVE IInv'
<1>1. /\ call[c] \in Callbacks /\ call[c].pc = "reconcile" /\ call[c].req.op \in Ops
      /\ call[c].req \in Ids /\ flight.op \in Ops \cup {"none"}
      /\ call[c].got \in Answers
      /\ call[c].got.kind = "progress" => call[c].got.req = call[c].req
      /\ UNCHANGED <<cluster, helm>> /\ spent' \in Spending
      /\ call[c].gen = call[c].req.gen => flight.phase \in Begun
  BY DEF Reconcile, IInv, Shape, Callbacks, Flights, Ownership, CallbackOK, SentOK,
         ReaderOK, Reader
<1>2. Told2(call[c].got) /\ Told2(Withheld("failure", flight.op))
  BY <1>1, ReplyTypes DEF Told2
<1>3. Told2(Progress(call[c].req, flight.op = "install"))
  <2>1. (flight.op = "install") \in BOOLEAN
    OBVIOUS
  <2> QED  BY <1>1, <2>1, ReplyTypes DEF Told2
<1>4. \/ Leave(c, call[c].got, flight)
      \/ Leave(c, Withheld("failure", flight.op), Report(flight)) /\ flight.phase = "err"
      \/ Leave(c, Progress(call[c].req, flight.op = "install"), flight)
      \/ Leave(c, call[c].got, Report(flight)) /\ flight.phase = "ok"
  BY <1>1, ReconcileCases DEF Begun
<1>5. CASE Leave(c, call[c].got, flight)
  BY <1>1, <1>2, <1>5, LeaveKeeps
<1>6. CASE Leave(c, Withheld("failure", flight.op), Report(flight)) /\ flight.phase = "err"
  BY <1>1, <1>2, <1>6, LeaveKeeps
<1>7. CASE Leave(c, Progress(call[c].req, flight.op = "install"), flight)
  BY <1>1, <1>3, <1>7, LeaveKeeps
<1>8. CASE Leave(c, call[c].got, Report(flight)) /\ flight.phase = "ok"
  BY <1>1, <1>2, <1>8, LeaveKeeps
<1> QED  BY <1>4, <1>5, <1>6, <1>7, <1>8

-----------------------------------------------------------------------------
(* Recovery *)

LEMMA JudgeKeeps == ASSUME IInv, NEW c \in Slots, Judge(c)  PROVE IInv'
<1>1. /\ call \in [Slots -> Callbacks] /\ call[c] \in Callbacks /\ call[c].pc = "judge"
      /\ rec' \in Revisions
  BY DEF Judge, IInv, Shape, cluster
<1>2. PICK verdict \in {"deployed", "failed"} :
        call' = [call EXCEPT ![c].pc = "rewrite", ![c].seen.st = verdict]
  BY DEF Judge
<1> DEFINE k == [call[c] EXCEPT !.pc = "rewrite", !.seen.st = verdict]
<1>3. call' = [call EXCEPT ![c] = k]
  BY <1>1, <1>2
<1>4. /\ k \in Callbacks /\ k.pc = "rewrite" /\ k.gen = call[c].gen
      /\ k.req = call[c].req /\ k.kind = call[c].kind /\ k.want = call[c].want
  BY <1>1 DEF Callbacks, Stages, Revisions, Statuses
<1>5. UNCHANGED <<live, hooksRan, flight, host, helm, spent>>
  BY DEF cluster, Judge
<1> HIDE DEF k
<1> QED  BY <1>1, <1>3, <1>4, <1>5, GoesOn

(* Storing a revision keeps the shape of the record. *)
LEMMA StoredType ==
    ASSUME rec \in Revisions, NEW STATE r, r \in Revisions, Stored(r)
    PROVE  /\ rec' \in Revisions
           /\ rec.rev = r.rev => /\ rec'.st = r.st /\ rec'.rev = r.rev
                                 /\ rec'.own = r.own /\ rec'.want = r.want
           /\ rec.rev # r.rev => rec' = rec
BY DEF Stored, Revisions

(* A callback that was sent no RequestID is a submit's. *)
LEMMA RecoveringSubmit ==
    ASSUME IInv, NEW c \in Slots, call[c].pc = "rewrite"
    PROVE  /\ call[c].req = NoReq => /\ call[c].kind \in Kinds
                                     /\ (call[c].kind = "delete") = (call[c].want = Nothing)
           /\ call[c].req # NoReq => call[c].req.op \in Ops
BY DEF IInv, Ownership, CallbackOK, SentOK

LEMMA RewriteKeeps == ASSUME IInv, NEW c \in Slots, Rewrite(c)  PROVE IInv'
<1>1. /\ call \in [Slots -> Callbacks] /\ call[c] \in Callbacks /\ call[c].pc = "rewrite"
      /\ rec' \in Revisions /\ UNCHANGED <<live, hooksRan, helm, flight, host, spent>>
  BY StoredType DEF Rewrite, IInv, Shape, Callbacks
<1> DEFINE w == Withheld("conflict", call[c].req.op)
           k == CASE call[c].req = NoReq ->
                       [call[c] EXCEPT !.pc = "plan", !.again = TRUE]
                  [] call[c].req # NoReq /\ call[c].seen.st = "deployed" ->
                       [call[c] EXCEPT !.pc = "read"]
                  [] OTHER -> [call[c] EXCEPT !.pc = "reconcile", !.got = w]
<1>2. call' = [call EXCEPT ![c] = k]
  BY <1>1 DEF Rewrite
<1>3. w \in Answers /\ w.kind = "conflict"
  BY <1>1, ReplyTypes DEF Callbacks, Ids
<1>4. /\ k \in Callbacks /\ k.gen = call[c].gen
      /\ k.req = call[c].req /\ k.kind = call[c].kind /\ k.want = call[c].want
      /\ call[c].req = NoReq => k.pc = "plan"
      /\ call[c].req # NoReq => \/ k.pc = "read"
                                \/ k.pc = "reconcile" /\ k.got = w
  <2> HIDE DEF w
  <2>1. CASE call[c].req = NoReq
    <3>1. k = [call[c] EXCEPT !.pc = "plan", !.again = TRUE]
      BY <2>1
    <3> HIDE DEF k
    <3> QED  BY <1>1, <2>1, <3>1 DEF Callbacks, Stages
  <2>2. CASE call[c].req # NoReq /\ call[c].seen.st = "deployed"
    <3>1. k = [call[c] EXCEPT !.pc = "read"]
      BY <2>2
    <3> HIDE DEF k
    <3> QED  BY <1>1, <2>2, <3>1 DEF Callbacks, Stages
  <2>3. CASE call[c].req # NoReq /\ call[c].seen.st # "deployed"
    <3>1. k = [call[c] EXCEPT !.pc = "reconcile", !.got = w]
      BY <2>3
    <3> HIDE DEF k
    <3> QED  BY <1>1, <1>3, <2>3, <3>1 DEF Callbacks, Stages
  <2> QED  BY <2>1, <2>2, <2>3
<1>5. /\ call[c].req = NoReq => /\ k.pc = "plan" /\ k.req = NoReq /\ k.kind \in Kinds
                                /\ (k.kind = "delete") = (k.want = Nothing)
      /\ call[c].req # NoReq => /\ k.pc \in {"read", "reconcile"} /\ k.req.op \in Ops
                                /\ k.got.kind = "progress" => k.pc = "read"
  <2> HIDE DEF k, w
  <2> QED  BY <1>1, <1>3, <1>4, RecoveringSubmit
<1> HIDE DEF k
<1> QED  BY <1>1, <1>2, <1>4, <1>5, GoesOn

(* The write of the verdict has failed, whatever became of the record.       *)
LEMMA UnrecoveredKeeps ==
    ASSUME IInv, NEW c \in Slots, call[c].pc = "rewrite", Unrecovered(c),
           rec' \in Revisions, UNCHANGED <<live, hooksRan, helm>>, spent' \in Spending
    PROVE  IInv'
<1>1. /\ call \in [Slots -> Callbacks] /\ call[c] \in Callbacks
      /\ OnlyRecord
  BY DEF IInv, Shape, OnlyRecord
<1>2. CASE call[c].req = NoReq
  <2>1. GiveUp(c, Reply("error"))
    BY <1>2 DEF Unrecovered
  <2>2. Owner(c) /\ flight.gen = call[c].gen /\ flight.phase = "preparing"
    BY <1>1, <1>2 DEF Owner, Reader, NoReq, IInv, Ownership, CallbackOK, OwnerOK, ReaderOK
  <2>3. flight' = NoFlight /\ Answer(c, Reply("error"))
    BY <2>1, <2>2 DEF GiveUp
  <2>4. flight' \in Flights /\ FlightOK' /\ FlightStep(c)
    BY <1>1, <2>2, <2>3, NoFlightOK DEF FlightStep, Forgotten
  <2>5. Told2(Reply("error"))
    BY ReplyTypes DEF Told2
  <2> QED  BY <1>1, <2>3, <2>4, <2>5, AnswerKeeps
<1>3. CASE call[c].req # NoReq
  <2> DEFINE w == Withheld("failure", call[c].req.op)
             k == [call[c] EXCEPT !.pc = "reconcile", !.got = w]
  <2>1. call' = [call EXCEPT ![c] = k] /\ UNCHANGED <<flight, host>>
    BY <1>1, <1>3 DEF Unrecovered
  <2>2. w \in Answers /\ w.kind = "failure"
    BY <1>1, ReplyTypes DEF Callbacks, Ids
  <2>3. /\ k \in Callbacks /\ k.pc = "reconcile" /\ k.gen = call[c].gen /\ k.got = w
        /\ k.req = call[c].req /\ k.kind = call[c].kind /\ k.want = call[c].want
    <3> HIDE DEF w
    <3> QED  BY <1>1, <2>2 DEF Callbacks, Stages
  <2>4. call[c].req.op \in Ops
    BY <1>1, <1>3, RecoveringSubmit
  <2> HIDE DEF k, w
  <2> QED  BY <1>1, <2>1, <2>2, <2>3, <2>4, GoesOn
<1> QED  BY <1>2, <1>3

LEMMA RewriteFailsKeeps == ASSUME IInv, NEW c \in Slots, RewriteFails(c)  PROVE IInv'
<1>1. /\ call[c].pc = "rewrite" /\ Unrecovered(c)
      /\ rec' \in Revisions /\ UNCHANGED <<live, hooksRan, helm>> /\ spent' \in Spending
  BY DEF RewriteFails, IInv, Shape, cluster
<1> QED  BY <1>1, UnrecoveredKeeps

LEMMA RewriteErrsKeeps == ASSUME IInv, NEW c \in Slots, RewriteErrs(c)  PROVE IInv'
<1>1. spent' \in Spending
  BY Spends DEF RewriteErrs, IInv
<1>2. call \in [Slots -> Callbacks] /\ call[c].seen \in Revisions /\ rec \in Revisions
  BY DEF IInv, Shape, Callbacks
<1>3. rec' \in Revisions
  BY <1>2, StoredType DEF RewriteErrs
<1>4. call[c].pc = "rewrite" /\ Unrecovered(c) /\ UNCHANGED <<live, hooksRan, helm>>
  BY DEF RewriteErrs
<1> QED  BY <1>1, <1>3, <1>4, UnrecoveredKeeps

-----------------------------------------------------------------------------
(* Helm *)

(* A step of an operation, which goes on or ends with an outcome.            *)
LEMMA HelmStep ==
    ASSUME IInv, NEW a \in Actors, NEW h \in Works, helm' = [helm EXCEPT ![a] = h],
           UNCHANGED <<call, host, spent>>,
           rec' \in Revisions, live' \in [Objs -> Wants \cup {Nothing}], hooksRan' \in Nat,
           helm[a].step # "none",
           \/ h.step # "none" /\ UNCHANGED flight
           \/ /\ h = Idle
              /\ \E phase \in {"ok", "err"} :
                   flight' = IF a = "plugin" THEN [flight EXCEPT !.phase = phase] ELSE flight
    PROVE  IInv'
<1>1. FlightOK /\ flight \in Flights /\ helm \in [Actors -> Works] /\ Shape
  BY DEF IInv, Shape, Ownership
<1>2. /\ helm' \in [Actors -> Works] /\ helm'[a] = h
      /\ \A b \in Actors \ {a} : helm'[b] = helm[b]
  BY <1>1
<1>3. CASE UNCHANGED flight /\ (h.step # "none" \/ (h = Idle /\ a # "plugin"))
  <2>1. FlightOK'
    BY <1>1, <1>2, <1>3 DEF FlightOK, Actors
  <2>2. (\A d \in Slots : CallbackOK(d)') /\ OneOwner'
    BY <1>3, NobodySteps DEF FlightStep
  <2> QED  BY <1>1, <1>2, <1>3, <2>1, <2>2 DEF IInv, Ownership, Shape, HostOK
<1>4. CASE /\ h = Idle /\ a = "plugin"
           /\ \E phase \in {"ok", "err"} : flight' = [flight EXCEPT !.phase = phase]
  <2>1. PICK phase \in {"ok", "err"} : flight' = [flight EXCEPT !.phase = phase]
    BY <1>4
  <2>2. flight.phase = "running" /\ flight # NoFlight
    BY <1>1, <1>4 DEF FlightOK, NoFlight
  <2>3. /\ flight' \in Flights /\ flight'.phase = phase /\ flight'.gen = flight.gen
        /\ flight'.op = flight.op /\ flight'.reported = flight.reported
        /\ flight'.readers = flight.readers
    BY <1>1, <2>1 DEF Flights
  <2>4. FlightOK'
    <3>1. helm'["plugin"].step = "none"
      BY <1>2, <1>4 DEF Idle
    <3>2. flight'.gen # 0 /\ flight'.op \in Ops /\ flight'.phase \in {"ok", "err"}
      BY <1>1, <2>2, <2>3 DEF FlightOK
    <3>3. \A b \in Actors : helm'[b].step = "none" => helm'[b] = Idle
      BY <1>1, <1>2, <1>4 DEF FlightOK
    <3> QED  BY <3>1, <3>2, <3>3 DEF FlightOK
  <2>5. (\A d \in Slots : CallbackOK(d)') /\ OneOwner'
    BY <2>2, <2>3, NobodySteps DEF FlightStep, Continues, Begun
  <2> QED  BY <1>1, <1>2, <2>3, <2>4, <2>5 DEF IInv, Ownership, Shape, HostOK
<1> QED  BY <1>3, <1>4

LEMMA IdleType == Idle \in Works /\ Idle.step = "none"
BY DEF Idle, Works

(* What Helm writes when it takes its lock. *)
Recorded(a) ==
    CASE helm[a].op = "install" ->
           [st |-> "pending", rev |-> 1, own |-> a = "plugin",
            want |-> helm[a].want, old |-> FALSE]
      [] helm[a].op = "upgrade" ->
           [st |-> "pending", rev |-> rec.rev + 1,
            own |-> rec.own \/ a = "plugin",
            want |-> helm[a].want, old |-> FALSE]
      [] OTHER -> [rec EXCEPT !.st = "uninstalling"]

LEMMA RecordedType ==
    ASSUME rec \in Revisions, NEW a \in Actors, helm[a] \in Works
    PROVE  /\ Recorded(a) \in Revisions
           /\ Recorded(a).st = IF helm[a].op \in {"install", "upgrade"}
                               THEN "pending" ELSE "uninstalling"
           /\ helm[a].op \in {"install", "upgrade"} =>
                Recorded(a).want = helm[a].want
<1>1. CASE helm[a].op = "install"
  BY <1>1 DEF Recorded, Revisions, Works, Statuses
<1>2. CASE helm[a].op = "upgrade"
  BY <1>2 DEF Recorded, Revisions, Works, Statuses
<1>3. CASE helm[a].op \notin {"install", "upgrade"}
  BY <1>3 DEF Recorded, Revisions, Works, Statuses
<1> QED  BY <1>1, <1>2, <1>3

LEMMA HelmRecordsKeeps == ASSUME IInv, NEW a \in Actors, HelmRecords(a)  PROVE IInv'
<1>1. /\ rec \in Revisions /\ helm[a] \in Works /\ helm \in [Actors -> Works]
      /\ live' \in [Objs -> Wants \cup {Nothing}] /\ helm[a].step = "begin"
  BY DEF HelmRecords, IInv, Shape
<1>2. rec' = Recorded(a)
  BY DEF HelmRecords, Recorded
<1>3. rec' \in Revisions /\ rec'.rev \in Nat
  BY <1>1, <1>2, RecordedType DEF Revisions
<1>4. hooksRan' \in Nat
  BY DEF HelmRecords, IInv, Shape
<1>5. PICK n \in Nat : n = rec'.rev
  BY <1>3
<1> DEFINE h == [helm[a] EXCEPT !.step = "apply", !.left = Objs, !.rev = n]
<1>6. helm' = [helm EXCEPT ![a] = h]
  <2>1. helm' = [helm EXCEPT ![a].step = "apply", ![a].left = Objs, ![a].rev = rec'.rev]
    BY DEF HelmRecords
  <2> QED  BY <1>1, <1>5, <2>1
<1>7. h \in Works /\ h.step = "apply"
  BY <1>1 DEF Works
<1> HIDE DEF h
<1> QED  BY <1>1, <1>3, <1>4, <1>6, <1>7, HelmStep DEF HelmRecords

LEMMA HelmAppliesKeeps ==
    ASSUME IInv, NEW a \in Actors, NEW o \in Objs, HelmApplies(a, o)  PROVE IInv'
<1>1. /\ rec' \in Revisions /\ helm[a] \in Works /\ helm \in [Actors -> Works]
      /\ live \in [Objs -> Wants \cup {Nothing}] /\ helm[a].step = "apply"
      /\ hooksRan' \in Nat
  BY DEF HelmApplies, IInv, Shape
<1>2. live' \in [Objs -> Wants \cup {Nothing}]
  BY <1>1 DEF HelmApplies, Works
<1> DEFINE h == [helm[a] EXCEPT !.left = @ \ {o}]
<1>3. helm' = [helm EXCEPT ![a] = h]
  BY <1>1 DEF HelmApplies
<1>4. h \in Works /\ h.step = "apply"
  BY <1>1 DEF Works
<1> HIDE DEF h
<1> QED  BY <1>1, <1>2, <1>3, <1>4, HelmStep DEF HelmApplies

LEMMA HelmRunsHooksKeeps == ASSUME IInv, NEW a \in Actors, HelmRunsHooks(a)  PROVE IInv'
<1>1. /\ rec' \in Revisions /\ helm[a] \in Works /\ helm \in [Actors -> Works]
      /\ live' \in [Objs -> Wants \cup {Nothing}] /\ helm[a].step = "apply"
      /\ hooksRan' \in Nat
  BY DEF HelmRunsHooks, IInv, Shape, Works
<1> DEFINE h == [helm[a] EXCEPT !.step = "record"]
<1>2. helm' = [helm EXCEPT ![a] = h]
  BY <1>1 DEF HelmRunsHooks
<1>3. h \in Works /\ h.step = "record"
  BY <1>1 DEF Works
<1> HIDE DEF h
<1> QED  BY <1>1, <1>2, <1>3, HelmStep DEF HelmRunsHooks

(* An operation that ends. *)
LEMMA EndsKeeps ==
    ASSUME IInv, NEW a \in Actors, NEW phase \in {"ok", "err"}, Ends(a, phase),
           helm[a].step # "none", UNCHANGED <<call, host, spent>>,
           rec' \in Revisions, live' \in [Objs -> Wants \cup {Nothing}], hooksRan' \in Nat
    PROVE  IInv'
BY IdleType, HelmStep DEF Ends

LEMMA HelmFinishesKeeps == ASSUME IInv, NEW a \in Actors, HelmFinishes(a)  PROVE IInv'
<1>1. /\ rec \in Revisions /\ helm[a] \in Works /\ helm \in [Actors -> Works]
      /\ live' \in [Objs -> Wants \cup {Nothing}] /\ helm[a].step = "record"
      /\ hooksRan' \in Nat /\ UNCHANGED <<call, host, spent>>
  BY DEF HelmFinishes, IInv, Shape
<1>2. CASE UNCHANGED rec /\ Ends(a, "err")
  BY <1>1, <1>2, EndsKeeps
<1>3. CASE /\ helm' = [helm EXCEPT ![a].step = "return"] /\ UNCHANGED flight
           /\ IF helm[a].op = "delete" THEN rec' = NoRec
              ELSE Stored([rec EXCEPT !.rev = helm[a].rev, !.st = "deployed",
                                      !.want = helm[a].want])
  <2> DEFINE h == [helm[a] EXCEPT !.step = "return"]
             r == [rec EXCEPT !.rev = helm[a].rev, !.st = "deployed", !.want = helm[a].want]
  <2>1. helm' = [helm EXCEPT ![a] = h]
    BY <1>1, <1>3
  <2>2. h \in Works /\ h.step = "return"
    BY <1>1 DEF Works
  <2>3. r \in Revisions
    BY <1>1 DEF Revisions, Works, Statuses
  <2>4. rec' = NoRec \/ Stored(r)
    BY <1>3
  <2>5. rec' \in Revisions
    <3> HIDE DEF r
    <3> QED  BY <1>1, <2>3, <2>4, StoredType, ReplyTypes
  <2> HIDE DEF h
  <2> QED  BY <1>1, <1>3, <2>1, <2>2, <2>5, HelmStep
<1> QED  BY <1>2, <1>3 DEF HelmFinishes

LEMMA HelmEndsKeeps ==
    ASSUME IInv, NEW a \in Actors, HelmRefuses(a) \/ HelmReturns(a) \/ HelmFails(a)
    PROVE  IInv'
<1>1. /\ rec \in Revisions /\ live \in [Objs -> Wants \cup {Nothing}] /\ hooksRan \in Nat
  BY DEF IInv, Shape
<1>2. CASE HelmRefuses(a)
  BY <1>1, <1>2, EndsKeeps DEF HelmRefuses, cluster
<1>3. CASE HelmReturns(a)
  BY <1>1, <1>3, EndsKeeps DEF HelmReturns, cluster
<1>4. CASE HelmFails(a)
  <2>1. rec' \in Revisions
    BY <1>1, <1>4 DEF HelmFails, Revisions, Statuses
  <2> QED  BY <1>1, <1>4, <2>1, EndsKeeps DEF HelmFails
<1> QED  BY <1>2, <1>3, <1>4

LEMMA CliStartsKeeps ==
    ASSUME IInv, NEW op \in Ops, NEW w \in Wants \cup {Nothing}, CliStarts(op, w)
    PROVE  IInv'
<1>1. FlightOK /\ Shape /\ helm \in [Actors -> Works] /\ "cli" \in Actors
  BY DEF IInv, Shape, Ownership, Actors
<1> DEFINE h == [Idle EXCEPT !.op = op, !.want = w, !.step = "begin"]
<1>2. helm' = [helm EXCEPT !["cli"] = h]
  BY DEF CliStarts
<1>3. h \in Works /\ h.step = "begin"
  BY DEF Idle, Works
<1>4. /\ helm' \in [Actors -> Works] /\ helm'["plugin"] = helm["plugin"]
      /\ helm'["cli"].step = "begin"
  <2> HIDE DEF h
  <2> QED  BY <1>1, <1>2, <1>3 DEF Actors
<1>5. FlightOK'
  BY <1>1, <1>4 DEF FlightOK, CliStarts, Actors
<1>6. (\A d \in Slots : CallbackOK(d)') /\ OneOwner'
  BY NobodySteps DEF FlightStep, CliStarts
<1>7. Shape' /\ HostOK'
  BY <1>1, <1>4, Spends DEF Shape, IInv, Ownership, HostOK, CliStarts, cluster
<1> QED  BY <1>5, <1>6, <1>7 DEF IInv, Ownership

-----------------------------------------------------------------------------
(* The agent, time and death *)

(* A step of the agent's alone. *)
LEMMA HostStep ==
    ASSUME IInv, UNCHANGED <<cluster, helm, flight, call>>, host' \in Agents, HostOK',
           spent' \in Spending
    PROVE  IInv'
<1>1. (\A d \in Slots : CallbackOK(d)') /\ OneOwner'
  BY NobodySteps DEF FlightStep
<1> QED  BY <1>1 DEF IInv, Ownership, Shape, FlightOK, cluster

LEMMA CommandKeeps ==
    ASSUME IInv, NEW kind \in Kinds, NEW w \in Wants \cup {Nothing}, Command(kind, w)
    PROVE  IInv'
<1>1. host' \in Agents
  BY DEF Command, IInv, Shape, Agents
<1>2. HostOK'
  BY DEF Command, IInv, Shape, Ownership, HostOK, Agents
<1> QED  BY <1>1, <1>2, HostStep, Spends DEF Command, IInv

LEMMA AgentRestartsKeeps == ASSUME IInv, AgentRestarts  PROVE IInv'
<1>1. host' \in Agents
  BY ReplyTypes DEF AgentRestarts, IInv, Shape, Agents
<1>2. HostOK'
  BY DEF AgentRestarts, IInv, Shape, Ownership, HostOK, Agents
<1> QED  BY <1>1, <1>2, HostStep, Spends DEF AgentRestarts, IInv

LEMMA SendKeeps == ASSUME IInv, NEW c \in Slots, Send(c)  PROVE IInv'
<1>1. /\ host \in Agents /\ host.stage \in {"submit", "poll"} /\ HostOK
      /\ call \in [Slots -> Callbacks]
  BY DEF Send, IInv, Shape, Ownership
<1> DEFINE k == [NoCall EXCEPT !.pc = host.stage, !.kind = host.kind,
                               !.want = host.want, !.req = host.req]
<1>2. call' = [call EXCEPT ![c] = k]
  BY DEF Send
<1>3. /\ k \in Callbacks /\ k.pc = host.stage /\ k.kind = host.kind /\ k.want = host.want
      /\ k.req = host.req
  <2>1. /\ host.stage \in Stages /\ host.kind \in Kinds \cup {"none"}
        /\ host.want \in Wants \cup {Nothing} /\ host.req \in Ids
    BY <1>1 DEF Agents, Stages
  <2> QED  BY <2>1, ReplyTypes DEF Callbacks
<1>4. /\ call' \in [Slots -> Callbacks] /\ call'[c] = k
      /\ \A d \in Slots \ {c} : call'[d] = call[d]
  <2> HIDE DEF k
  <2> QED  BY <1>1, <1>2, <1>3
<1>5. CallbackOK(c)' /\ ~Owner(c)'
  <2> HIDE DEF k
  <2> QED  BY <1>1, <1>3, <1>4
       DEF CallbackOK, OwnerOK, ReaderOK, WaiterOK, SentOK, Owner, Reader, HostOK
<1>6. (\A d \in Slots : CallbackOK(d)') /\ OneOwner'
  BY <1>4, <1>5, OneSteps DEF FlightStep, Send
<1>7. host' \in Agents /\ HostOK'
  BY <1>1 DEF Send, Agents, HostOK
<1> QED  BY <1>4, <1>6, <1>7 DEF IInv, Ownership, Shape, FlightOK, cluster, Send

(* A step that changes only the entry, or the age of the record. *)
LEMMA ClockStep ==
    ASSUME IInv, UNCHANGED <<live, hooksRan, helm, call, host, spent>>,
           rec' \in Revisions, flight' \in Flights, FlightOK', FlightStep(0)
    PROVE  IInv'
<1>1. (\A d \in Slots : CallbackOK(d)') /\ OneOwner'
  BY NobodySteps
<1> QED  BY <1>1 DEF IInv, Ownership, Shape, HostOK

LEMMA TimeKeeps ==
    ASSUME IInv, RecordAges \/ DeadlinePasses \/ RetireFlight
    PROVE  IInv'
<1>1. rec \in Revisions /\ flight \in Flights /\ FlightOK
  BY DEF IInv, Shape, Ownership
<1>2. CASE RecordAges
  <2>1. rec' \in Revisions
    BY <1>1, <1>2 DEF RecordAges, Revisions
  <2>2. FlightOK'
    BY <1>1, <1>2 DEF RecordAges, FlightOK
  <2> QED  BY <1>1, <1>2, <2>1, <2>2, ClockStep DEF RecordAges, FlightStep
<1>3. CASE DeadlinePasses
  <2>1. /\ flight' \in Flights /\ flight'.gen = flight.gen /\ flight'.phase = flight.phase
        /\ flight'.op = flight.op /\ flight'.reported = flight.reported
        /\ flight'.readers = flight.readers /\ flight.phase = "running"
    BY <1>1, <1>3 DEF DeadlinePasses, Flights
  <2>2. flight # NoFlight
    BY <2>1 DEF NoFlight
  <2>3. FlightOK'
    BY <1>1, <1>3, <2>1, <2>2 DEF FlightOK, DeadlinePasses
  <2> QED  BY <1>1, <1>3, <2>1, <2>3, ClockStep
           DEF DeadlinePasses, FlightStep, Continues, Begun, cluster
<1>4. CASE RetireFlight
  <2>1. flight' \in Flights /\ FlightOK' /\ FlightStep(0)
    BY <1>4, ReportStep DEF RetireFlight
  <2> QED  BY <1>1, <1>4, <2>1, ClockStep DEF RetireFlight, cluster
<1> QED  BY <1>2, <1>3, <1>4

LEMMA PluginCrashesKeeps == ASSUME IInv, PluginCrashes  PROVE IInv'
<1>1. Shape /\ HostOK /\ FlightOK /\ host \in Agents /\ helm \in [Actors -> Works]
  BY DEF IInv, Shape, Ownership
<1>2. flight' = NoFlight /\ helm' = [helm EXCEPT !["plugin"] = Idle]
      /\ call' = [c \in Slots |-> NoCall] /\ UNCHANGED cluster
  BY DEF PluginCrashes
<1>3. host' \in Agents /\ HostOK'
  <2>1. CASE host.slot = 0
    BY <1>1, <2>1 DEF PluginCrashes, HostOK
  <2>2. CASE host.slot # 0
    <3>1. PICK stage \in {host.stage, "idle"} :
            host' = [host EXCEPT !.slot = 0, !.stage = stage,
                                 !.req = IF stage = "poll" THEN @ ELSE NoReq]
      BY <2>2 DEF PluginCrashes
    <3>2. host' \in Agents
      BY <1>1, <3>1, ReplyTypes DEF Agents
    <3>3. /\ host'.slot = 0 /\ host'.stage = stage /\ host'.told = host.told
          /\ host'.kind = host.kind /\ host'.want = host.want
          /\ host'.req = IF stage = "poll" THEN host.req ELSE NoReq
      BY <1>1, <3>1 DEF Agents
    <3> QED  BY <1>1, <3>1, <3>2, <3>3 DEF HostOK
  <2> QED  BY <2>1, <2>2
<1>4. helm' \in [Actors -> Works] /\ helm'["plugin"] = Idle /\ helm'["cli"] = helm["cli"]
  BY <1>1, <1>2, IdleType DEF Actors
<1>5. flight' \in Flights /\ FlightOK'
  <2>1. NoFlight \in Flights
    BY NamesAssumption DEF NoFlight, Flights
  <2> QED  BY <1>1, <1>2, <1>4, <2>1, IdleType DEF FlightOK, NoFlight, Actors
<1>6. /\ call' \in [Slots -> Callbacks]
      /\ \A c \in Slots : CallbackOK(c)' /\ ~Owner(c)'
  BY <1>2, ReplyTypes, AnsweredOK
<1>7. OneOwner'
  BY <1>6 DEF OneOwner
<1>8. Shape'
  <2>1. spent' \in Spending
    BY <1>1, Spends DEF PluginCrashes
  <2> QED  BY <1>1, <1>2, <1>3, <1>4, <1>5, <1>6, <2>1 DEF Shape, cluster
<1> QED  BY <1>3, <1>5, <1>6, <1>7, <1>8 DEF IInv, Ownership

-----------------------------------------------------------------------------
(* The invariant *)

LEMMA InitOK == Init => IInv
<1> SUFFICES ASSUME Init  PROVE IInv
  OBVIOUS
<1>1. NoFlight \in Flights
  BY NamesAssumption DEF NoFlight, Flights
<1>2. Shape
  BY <1>1, ReplyTypes, IdleType DEF Init, Shape, Agents, Spending, Kinds
<1>3. \A c \in Slots : CallbackOK(c) /\ ~Owner(c)
  BY DEF Init, NoCall, CallbackOK, OwnerOK, ReaderOK, WaiterOK, SentOK, Owner, Reader
<1>4. OneOwner
  BY <1>3 DEF OneOwner
<1>5. FlightOK /\ HostOK
  BY IdleType DEF Init, FlightOK, HostOK, NoFlight, Actors
<1> QED  BY <1>2, <1>3, <1>4, <1>5 DEF IInv, Ownership

(* The steps, by who takes them. *)
LEMMA NextCases ==
    ASSUME [Next]_vars
    PROVE  \/ \E kind \in Kinds, w \in Wants \cup {Nothing} : Command(kind, w)
           \/ \E c \in Slots :
                \/ Send(c)
                \/ Reserve(c) \/ Rejoin(c) \/ Plan(c) \/ PlanDelete(c) \/ Activate(c)
                \/ AwaitRecorded(c) \/ AwaitOutcome(c) \/ AwaitOverdue(c)
                \/ AwaitForgotten(c)
                \/ AcquireRecovery(c) \/ RefuseStatus(c) \/ StatusVerdict(c)
                \/ AcquireFlight(c) \/ ReadRecord(c) \/ ReadAbandoned(c) \/ Reconcile(c)
                \/ Judge(c) \/ Rewrite(c) \/ RewriteFails(c)
                \/ PreparationFails(c) \/ AwaitFails(c) \/ ReadFails(c) \/ RewriteErrs(c)
           \/ \E a \in Actors :
                \/ HelmRecords(a) \/ HelmRefuses(a) \/ HelmRunsHooks(a)
                \/ HelmFinishes(a) \/ HelmReturns(a) \/ HelmFails(a)
                \/ \E o \in Objs : HelmApplies(a, o)
           \/ \E op \in Ops, w \in Wants \cup {Nothing} : CliStarts(op, w)
           \/ AgentRestarts \/ RecordAges \/ DeadlinePasses \/ RetireFlight
           \/ PluginCrashes
           \/ UNCHANGED vars
BY DEF Next, Callback, Submit, Poll, Recover, Fault, Helm, Ops

LEMMA StepOK == ASSUME IInv, [Next]_vars  PROVE IInv'
<1>1. ASSUME NEW c \in Slots,
             \/ Send(c)
             \/ Reserve(c) \/ Rejoin(c) \/ Plan(c) \/ PlanDelete(c) \/ Activate(c)
             \/ AwaitRecorded(c) \/ AwaitOutcome(c) \/ AwaitOverdue(c)
             \/ AwaitForgotten(c)
             \/ AcquireRecovery(c) \/ RefuseStatus(c) \/ StatusVerdict(c)
             \/ AcquireFlight(c) \/ ReadRecord(c) \/ ReadAbandoned(c) \/ Reconcile(c)
             \/ Judge(c) \/ Rewrite(c) \/ RewriteFails(c)
             \/ PreparationFails(c) \/ AwaitFails(c) \/ ReadFails(c) \/ RewriteErrs(c)
      PROVE  IInv'
  BY <1>1, SendKeeps, ReserveKeeps, RejoinKeeps, PlanKeeps, PlanDeleteKeeps, ActivateKeeps,
     AwaitKeeps, AcquireRecoveryKeeps, RefuseStatusKeeps, StatusVerdictKeeps,
     AcquireFlightKeeps, ReadRecordKeeps, ReadAbandonedKeeps, ReconcileKeeps, JudgeKeeps,
     RewriteKeeps, RewriteFailsKeeps, RewriteErrsKeeps, PreparationFailsKeeps, ReadFailsKeeps
<1>2. ASSUME NEW a \in Actors,
             \/ HelmRecords(a) \/ HelmRefuses(a) \/ HelmRunsHooks(a)
             \/ HelmFinishes(a) \/ HelmReturns(a) \/ HelmFails(a)
             \/ \E o \in Objs : HelmApplies(a, o)
      PROVE  IInv'
  BY <1>2, HelmRecordsKeeps, HelmEndsKeeps, HelmRunsHooksKeeps, HelmFinishesKeeps,
     HelmAppliesKeeps
<1>3. CASE UNCHANGED vars
  BY <1>3 DEF vars, IInv, Shape, Ownership, CallbackOK, OwnerOK, ReaderOK, WaiterOK, SentOK,
              Owner, Reader, OneOwner, FlightOK, HostOK
<1> QED  BY <1>1, <1>2, <1>3, NextCases, CommandKeeps, CliStartsKeeps, AgentRestartsKeeps,
            TimeKeeps, PluginCrashesKeeps

(* The record, the entry and everyone's view of it have their types, and     *)
(* what a callback or the worker relies on is so: whoever owns the entry     *)
(* finds it preparing and is alone, a reader finds its operation, and Helm   *)
(* runs for the plugin exactly while the entry says so.                      *)
THEOREM OwnershipHolds == Spec => []IInv
<1>1. Init => IInv
  BY InitOK
<1>2. IInv /\ [Next]_vars => IInv'
  BY StepOK
<1> QED  BY <1>1, <1>2, PTL DEF Spec

(* TypeOK: every variable keeps its shape, a recovery writes back a verdict  *)
(* and nothing else, and there is always an unused generation.               *)
THEOREM TypesHold == Spec => []TypeOK
<1>1. ASSUME IInv  PROVE TypeOK
  <2>1. Shape
    BY <1>1 DEF IInv
  <2>2. /\ Revisions \subseteq Records /\ Ids \subseteq Requests
        /\ \A g \in Answers : g \in Replies
    BY DEF Revisions, Records, Ids, Requests, Ops, Answers, Replies
  <2>3. /\ rec \in Records /\ live \in [Objs -> Wants \cup {Nothing}] /\ hooksRan \in Nat
        /\ \A a \in Actors : helm[a].step \in {"none", "begin", "apply", "record", "return"}
    BY <2>1, <2>2 DEF Shape, Works
  <2>4. flight.readers \subseteq Slots /\ flight.gen \in 0..MaxGen
    BY <2>1 DEF Shape, Flights
  <2>5. ASSUME NEW c \in Slots
        PROVE  /\ call[c].pc \in Stages /\ call[c].seen \in Records
               /\ call[c].req \in Requests /\ call[c].got \in Replies
    <3>1. call[c] \in Callbacks
      BY <2>1 DEF Shape
    <3>2. /\ call[c].pc \in Stages /\ call[c].seen \in Revisions
          /\ call[c].req \in Ids /\ call[c].got \in Answers
      BY <3>1 DEF Callbacks
    <3> QED  BY <2>2, <3>2
  <2>6. host.req \in Requests /\ host.stage \in {"idle", "submit", "poll"}
    BY <2>1, <2>2 DEF Shape, Agents
  <2> QED  BY <2>1, <2>3, <2>4, <2>5, <2>6, NamesLast DEF TypeOK
<1> QED  BY <1>1, OwnershipHolds, PTL

-----------------------------------------------------------------------------
(* Who tells the agent of success *)

LEMMA AnswerTells ==
    ASSUME Shape, NEW c \in Slots, NEW STATE reply, Answer(c, reply), NEW what, Told(what)
    PROVE  host.slot = c /\ reply.kind = what
<1>1. host \in Agents
  BY DEF Shape
<1>2. CASE host.slot # c
  BY <1>2 DEF Answer, Told
<1>3. CASE host.slot = c
  <2> DEFINE m == CASE reply.kind = "success" -> host.kind # "delete"
                    [] reply.id -> TRUE
                    [] OTHER -> host.managed
             r == IF reply.kind = "progress" THEN reply.req ELSE NoReq
             s == CASE reply.kind = "progress" -> "poll"
                    [] reply.kind = "conflict" -> "submit"
                    [] OTHER -> "idle"
  <2>1. host' = [host EXCEPT !.slot = 0, !.told = reply.kind, !.managed = m,
                             !.req = r, !.stage = s]
    BY <1>3 DEF Answer
  <2> HIDE DEF m, r, s
  <2>2. host'.told = reply.kind
    BY <1>1, <2>1 DEF Agents
  <2> QED  BY <1>3, <2>2 DEF Told
<1> QED  BY <1>2, <1>3

(* Nobody tells while the agent is not answered. *)
LEMMA NotTold == UNCHANGED host => ~Told("success")
BY DEF Told

LEMMA OthersDoNotTell ==
    ASSUME IInv,
           \/ \E kind \in Kinds, w \in Wants \cup {Nothing} : Command(kind, w)
           \/ \E c \in Slots : Send(c)
           \/ AgentRestarts \/ PluginCrashes
    PROVE  ~Told("success")
<1>1. HostOK /\ host \in Agents
  BY DEF IInv, Shape, Ownership
<1>2. CASE \E kind \in Kinds, w \in Wants \cup {Nothing} : Command(kind, w)
  BY <1>1, <1>2 DEF Command, Told, HostOK
<1>3. CASE \E c \in Slots : Send(c)
  BY <1>3 DEF Send, Told
<1>4. CASE AgentRestarts
  <2>1. host'.told = host.told
    BY <1>1, <1>4 DEF AgentRestarts, Agents
  <2> QED  BY <1>1, <1>4, <2>1 DEF Told, HostOK, AgentRestarts
<1>5. CASE PluginCrashes
  <2>1. host'.told = host.told
    BY <1>1, <1>5 DEF PluginCrashes, Agents
  <2> QED  BY <1>1, <2>1 DEF Told, HostOK
<1> QED  BY <1>2, <1>3, <1>4, <1>5

(* Failures, conflicts and progress are no success. *)
LEMMA NoSuccessReply ==
    ASSUME Shape, NEW c \in Slots, NEW STATE reply, reply.kind # "success", Answer(c, reply)
    PROVE  ~Told("success")
BY AnswerTells

LEMMA SubmitTells ==
    ASSUME IInv, NEW c \in Slots,
           \/ Reserve(c) \/ Rejoin(c) \/ Plan(c) \/ PlanDelete(c) \/ Activate(c)
           \/ AwaitRecorded(c) \/ AwaitOutcome(c) \/ AwaitOverdue(c) \/ AwaitForgotten(c)
           \/ PreparationFails(c) \/ AwaitFails(c),
           Told("success")
    PROVE  /\ PlanDelete(c) /\ host.slot = c /\ rec.st = "none"
           /\ GiveUp(c, Reply("success"))
<1>1. Shape
  BY DEF IInv
<1>2. \A kind \in {"none", "success", "conflict", "failure", "error"}, id \in BOOLEAN :
        /\ Reply(kind).kind = kind /\ [Reply(kind) EXCEPT !.id = id].kind = kind
  BY DEF Reply
<1>3. \A req, w : Progress(req, w).kind = "progress"
  BY DEF Progress
<1>4. ASSUME Plan(c)  PROVE FALSE
  <2>1. \/ UNCHANGED host
        \/ GiveUp(c, Reply("error"))
        \/ \E id \in BOOLEAN : GiveUp(c, [Reply("conflict") EXCEPT !.id = id])
        \/ GiveUp(c, Progress([gen |-> 0, op |-> OpOf(call[c].kind),
                               rev |-> rec.rev], call[c].kind = "create"))
    BY <1>1, <1>4, PlanCases DEF Choose
  <2>2. CASE UNCHANGED host
    BY <2>2, NotTold
  <2>3. CASE GiveUp(c, Reply("error"))
    BY <1>1, <1>2, <2>3, NoSuccessReply DEF GiveUp
  <2>4. CASE \E id \in BOOLEAN : GiveUp(c, [Reply("conflict") EXCEPT !.id = id])
    <3>1. PICK id \in BOOLEAN : GiveUp(c, [Reply("conflict") EXCEPT !.id = id])
      BY <2>4
    <3>2. [Reply("conflict") EXCEPT !.id = id].kind = "conflict"
      BY DEF Reply
    <3> QED  BY <1>1, <3>1, <3>2, NoSuccessReply DEF GiveUp
  <2>5. CASE GiveUp(c, Progress([gen |-> 0, op |-> OpOf(call[c].kind),
                                 rev |-> rec.rev], call[c].kind = "create"))
    <3> DEFINE r == [gen |-> 0, op |-> OpOf(call[c].kind), rev |-> rec.rev]
    <3>1. Answer(c, Progress(r, call[c].kind = "create"))
      BY <2>5 DEF GiveUp
    <3> HIDE DEF r
    <3> QED  BY <1>1, <1>3, <3>1, NoSuccessReply
  <2> QED  BY <2>1, <2>2, <2>3, <2>4, <2>5
<1>5. ASSUME Reserve(c)  PROVE FALSE
  BY <1>5, NotTold DEF Reserve
<1>6. ASSUME Rejoin(c)  PROVE FALSE
  <2>1. \/ Answer(c, Progress(FlightReq, call[c].kind = "create"))
        \/ Answer(c, Reply("conflict"))
    BY <1>6 DEF Rejoin
  <2> QED  BY <1>1, <1>2, <1>3, <2>1, NoSuccessReply
<1>7. ASSUME Activate(c)  PROVE FALSE
  <2>1. UNCHANGED host \/ \E r : Answer(c, Progress(r, FALSE))
    BY <1>7 DEF Activate
  <2> QED  BY <1>1, <1>3, <2>1, NoSuccessReply, NotTold
<1>8. ASSUME AwaitRecorded(c) \/ AwaitOutcome(c) \/ AwaitOverdue(c) \/ AwaitFails(c)
      PROVE  FALSE
  <2>1. \/ Answer(c, Progress(FlightReq, call[c].kind = "create"))
        \/ Answer(c, Reply("error")) \/ Answer(c, Reply("failure"))
    BY <1>8 DEF AwaitRecorded, AwaitOutcome, AwaitOverdue, AwaitFails
  <2> QED  BY <1>1, <1>2, <1>3, <2>1, NoSuccessReply
<1>9. ASSUME AwaitForgotten(c)  PROVE FALSE
  <2> DEFINE r == [gen |-> call[c].gen, op |-> call[c].op, rev |-> call[c].rev]
  <2>1. Answer(c, Reply("conflict")) \/ Answer(c, Progress(r, call[c].kind = "create"))
    BY <1>9 DEF AwaitForgotten
  <2> HIDE DEF r
  <2> QED  BY <1>1, <1>2, <1>3, <2>1, NoSuccessReply
<1>10. ASSUME PreparationFails(c)  PROVE FALSE
  BY <1>1, <1>2, <1>10, NoSuccessReply DEF PreparationFails, GiveUp
<1>11. CASE PlanDelete(c)
  <2>1. CASE rec.st = "none" /\ GiveUp(c, Reply("success"))
    BY <1>1, <1>11, <2>1, AnswerTells DEF GiveUp
  <2>2. CASE Choose(c, "delete", rec.rev)
    BY <2>2, NotTold DEF Choose
  <2> QED  BY <1>11, <2>1, <2>2 DEF PlanDelete
<1> QED  BY <1>4, <1>5, <1>6, <1>7, <1>8, <1>9, <1>10, <1>11

LEMMA PollTells ==
    ASSUME IInv, NEW c \in Slots,
           \/ AcquireRecovery(c) \/ RefuseStatus(c) \/ StatusVerdict(c)
           \/ AcquireFlight(c) \/ ReadRecord(c) \/ ReadAbandoned(c) \/ Reconcile(c)
           \/ Judge(c) \/ Rewrite(c) \/ RewriteFails(c) \/ RewriteErrs(c) \/ ReadFails(c),
           Told("success")
    PROVE  /\ Reconcile(c) /\ host.slot = c /\ call[c].got.kind = "success"
           /\ Owner(c) \/ (Reader(c) /\ flight.phase = "ok")
<1>1. Shape
  BY DEF IInv
<1>2. /\ Reply("error").kind = "error" /\ Reply("conflict").kind = "conflict"
      /\ \A op : Withheld("failure", op).kind = "failure"
      /\ \A req, w : Progress(req, w).kind = "progress"
  BY DEF Reply, Withheld, Progress
<1>3. ASSUME \/ AcquireRecovery(c) \/ AcquireFlight(c) \/ ReadRecord(c)
             \/ ReadAbandoned(c) \/ Judge(c) \/ Rewrite(c)
      PROVE  FALSE
  BY <1>3, NotTold DEF AcquireRecovery, AcquireFlight, ReadRecord, ReadAbandoned, Judge,
                       Rewrite
<1>4. ASSUME RefuseStatus(c) \/ StatusVerdict(c)  PROVE FALSE
  <2>1. Answer(c, Reply("conflict")) \/ Answer(c, Withheld("failure", flight.op))
    BY <1>4 DEF RefuseStatus, StatusVerdict
  <2> QED  BY <1>1, <1>2, <2>1, NoSuccessReply
<1>5. ASSUME RewriteFails(c) \/ RewriteErrs(c)  PROVE FALSE
  <2>1. UNCHANGED host \/ Answer(c, Reply("error"))
    BY <1>5 DEF RewriteFails, RewriteErrs, Unrecovered, GiveUp
  <2> QED  BY <1>1, <1>2, <2>1, NoSuccessReply, NotTold
<1>6. ASSUME ReadFails(c)  PROVE FALSE
  <2>1. \/ Answer(c, Reply("error"))
        \/ Answer(c, Withheld("failure", call[c].req.op))
        \/ Answer(c, Withheld("failure", flight.op))
        \/ Answer(c, Progress(call[c].req, TRUE))
    <3>1. \/ Leave(c, Reply("error"), flight)
          \/ Leave(c, Withheld("failure", call[c].req.op), flight)
          \/ Leave(c, Withheld("failure", flight.op), flight)
          \/ Leave(c, Withheld("failure", flight.op), Report(flight))
          \/ Leave(c, Progress(call[c].req, TRUE), flight)
      BY <1>6 DEF ReadFails
    <3> QED  BY <3>1 DEF Leave
  <2> QED  BY <1>1, <1>2, <2>1, NoSuccessReply
<1>7. CASE Reconcile(c)
  <2>1. \/ call[c].gen # call[c].req.gen /\ Answer(c, call[c].got)
        \/ Answer(c, Withheld("failure", flight.op))
        \/ call[c].got.kind = "progress" /\ Answer(c, call[c].got)
        \/ Answer(c, Progress(call[c].req, flight.op = "install"))
        \/ /\ call[c].gen = call[c].req.gen /\ flight.phase \notin {"err", "running"}
           /\ Answer(c, call[c].got)
    BY <1>7, ReconcileCases DEF Leave
  <2>2. call[c].pc = "reconcile"
    BY <1>7 DEF Reconcile
  <2>3. ReaderOK(c)
    BY DEF IInv, Ownership, CallbackOK
  <2>4. ASSUME Answer(c, call[c].got)  PROVE host.slot = c /\ call[c].got.kind = "success"
    BY <1>1, <2>4, AnswerTells
  <2> QED  BY <1>1, <1>2, <1>7, <2>1, <2>2, <2>3, <2>4, NoSuccessReply
           DEF Owner, Reader, ReaderOK, Begun
<1> QED  BY <1>3, <1>4, <1>5, <1>6, <1>7

(* The agent hears of success from a delete that finds nothing, or from a    *)
(* poll that has the entry to itself or whose worker has ended well.         *)
LEMMA SuccessIsTold ==
    ASSUME IInv, [Next]_vars, Told("success")
    PROVE  \E c \in Slots :
             /\ host.slot = c
             /\ \/ PlanDelete(c) /\ rec.st = "none" /\ GiveUp(c, Reply("success"))
                \/ /\ Reconcile(c) /\ call[c].got.kind = "success"
                   /\ Owner(c) \/ (Reader(c) /\ flight.phase = "ok")
<1>1. ASSUME NEW a \in Actors,
             \/ HelmRecords(a) \/ HelmRefuses(a) \/ HelmRunsHooks(a)
             \/ HelmFinishes(a) \/ HelmReturns(a) \/ HelmFails(a)
             \/ \E o \in Objs : HelmApplies(a, o)
      PROVE  UNCHANGED host
  BY <1>1 DEF HelmRecords, HelmRefuses, HelmRunsHooks, HelmFinishes, HelmReturns, HelmFails,
              HelmApplies
<1>2. ASSUME \/ \E op \in Ops, w \in Wants \cup {Nothing} : CliStarts(op, w)
             \/ RecordAges \/ DeadlinePasses \/ RetireFlight \/ UNCHANGED vars
      PROVE  UNCHANGED host
  BY <1>2 DEF CliStarts, RecordAges, DeadlinePasses, RetireFlight, vars
<1> QED  BY <1>1, <1>2, NextCases, NotTold, OthersDoNotTell, SubmitTells, PollTells

LEMMA SuccessIsQuiet ==
    ASSUME IInv, [Next]_vars, Told("success")  PROVE helm["plugin"] = Idle
<1>1. PICK c \in Slots :
        \/ PlanDelete(c)
        \/ Owner(c)
        \/ flight.phase = "ok"
  BY SuccessIsTold
<1>2. FlightOK /\ OwnerOK(c)
  BY DEF IInv, Ownership, CallbackOK
<1>3. flight.phase \in {"preparing", "ok"}
  BY <1>1, <1>2 DEF PlanDelete, Owner, OwnerOK
<1>4. "plugin" \in Actors
  BY DEF Actors
<1> QED  BY <1>2, <1>3, <1>4 DEF FlightOK

(* NoSuccessWhileRunning: whatever the Helm CLI does, whatever fails and     *)
(* dies, the agent is not told of success while the plugin's worker runs.    *)
THEOREM SuccessAwaitsTheWorker == Spec => NoSuccessWhileRunning
<1> DEFINE A == Told("success") => helm["plugin"] = Idle
<1>1. IInv /\ [Next]_vars => [A]_vars
  BY SuccessIsQuiet
<1> QED  BY <1>1, OwnershipHolds, PTL DEF Spec, NoSuccessWhileRunning

=============================================================================
