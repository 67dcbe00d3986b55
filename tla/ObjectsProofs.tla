---------------------------- MODULE ObjectsProofs ----------------------------
(***************************************************************************)
(* Safety of the provisioners under the lifecycle decorator, for every     *)
(* provisioner, any number of replicas and any number of commands, of      *)
(* steps of other clients and of failing calls.                            *)
(***************************************************************************)
EXTENDS Objects, TLAPS

(* No rollout adds pods before it takes old ones away.                       *)
NoSurge == Surges \subseteq {0}

Reasons == {"ProgressDeadlineExceeded", "ReplicaFailure", "Failed", "Complete",
            "Suspended", "DeletionContentFailure"}

Phases == {"none", "Pending", "Running", "Succeeded", "Failed", "Evicted", "Unknown",
           "NoAddress", "Assigned", "Available", "Bound", "Lost"}

Finalizers == (UNION {q.guards : q \in Provisioners}) \cup {"other", "foreground"}

Object ==
    [uid : Nat \ {0}, gen : Nat, seen : Nat, cond : SUBSET Reasons, phase : Phases,
     old : Nat, oldReady : Nat, new : Nat, newReady : Nat,
     deleting : BOOLEAN, aged : BOOLEAN, finalizers : SUBSET Finalizers]

(* The pods of a workload; a paused rollout starts none.                     *)
Pods(o) ==
    /\ o.seen <= o.gen
    /\ o.oldReady <= o.old /\ o.newReady <= o.new
    /\ o.old + o.new <= Replicas + plan.surge
    /\ plan.hold = "paused" => o.new = 0

ObjectOK(o) == o \in Object /\ Pods(o)

WorldOK ==
    /\ p \in Managed
    /\ plan \in [surge : Surges, hold : Holds]
    /\ obj = None \/ ObjectOK(obj)
    /\ There => served
    /\ born \in Nat /\ obj.uid <= born

KnownOK ==
    /\ known \in {"unknown", "served", "unserved"}
    /\ known = "unserved" => p.versioned

Call ==
    [op : {"none", "create", "update", "delete", "status"},
     pc : {"idle", "called", "patch", "reread", "readback", "finalize"},
     uid : Nat, sent : {None} \cup Object]

(* What a callback knows of the object when it is between two API calls.     *)
CallOK ==
    /\ call \in Call
    /\ call.uid <= born
    /\ call.pc = "called" => call.op # "none"
    /\ call.pc = "patch" => call.op = "update" /\ ObjectOK(call.sent)
    /\ call.pc = "reread" => call.op = "update"
    /\ call.pc = "finalize" =>
         call.op = "status" /\ call.sent \in Object /\ Escalates(call.sent)
    /\ call.pc = "readback" =>
         /\ call.op = "delete"
         /\ There /\ obj.uid = call.uid => obj.deleting

(* The exceptions of DeletedIsGone.                                          *)
Excused ==
    \/ p = PersistentVolumeClaim /\ obj.phase = "Lost"
    \/ known = "unserved" /\ served

(* An answer of status to op about the object uid is true.                   *)
Truthful(op, status, uid) ==
    \/ ~There \/ obj.uid # uid \/ Excused
    \/ /\ status = "NotFound" => obj.deleting
       /\ op = "delete" => status # "Success"

AnswerOK ==
    /\ answer.uid \in Nat /\ answer.uid <= born
    /\ Truthful(answer.op, answer.status, answer.uid)

AgentOK == agent \in {"none", "create", "update", "delete"}

IInv == WorldOK /\ KnownOK /\ CallOK /\ AnswerOK /\ AgentOK

-----------------------------------------------------------------------------
(* Operators *)

(* Where a kind's own record matters, it is told apart by its kind.          *)
LEMMA CustomIsServed == ~CustomResource.versioned
BY DEF CustomResource, Plain

LEMMA WorkloadsDiffer ==
    /\ Deployment # StatefulSet /\ Deployment # DaemonSet /\ StatefulSet # DaemonSet
    /\ \A q \in Workloads : q \notin {Namespace, PersistentVolumeClaim, CustomResource, Pod,
                                      Job, ReplicaSet, Service, PersistentVolume}
<1>1. /\ Deployment.kind = "Deployment" /\ StatefulSet.kind = "StatefulSet"
      /\ DaemonSet.kind = "DaemonSet"
  BY DEF Deployment, StatefulSet, DaemonSet, Spaced, Plain
<1>2. /\ Namespace.kind = "Namespace" /\ PersistentVolumeClaim.kind = "PersistentVolumeClaim"
      /\ CustomResource.kind = "CustomResource" /\ Pod.kind = "Pod" /\ Job.kind = "Job"
  BY DEF Namespace, PersistentVolumeClaim, CustomResource, Pod, Job, Spaced, Plain
<1>3. /\ Service.kind = "Service" /\ PersistentVolume.kind = "PersistentVolume"
      /\ ReplicaSet.kind = "ReplicaSet"
  BY DEF Service, PersistentVolume, ReplicaSet, Spaced, Plain
<1> QED  BY <1>1, <1>2, <1>3 DEF Workloads

(* No rule answers anything but these three. *)
LEMMA StatusRange ==
    ASSUME NEW q, NEW o, NEW hold
    PROVE  OperationStatus(q, o, hold) \in {"Success", "InProgress", "Failure"}
<1>1. /\ DeploymentStatus(o, hold) \in {"Success", "InProgress", "Failure"}
      /\ StatefulSetStatus(o, hold) \in {"Success", "InProgress", "Failure"}
      /\ DaemonSetStatus(o, hold) \in {"Success", "InProgress", "Failure"}
      /\ ReplicaSetStatus(o) \in {"Success", "InProgress", "Failure"}
      /\ JobStatus(o) \in {"Success", "InProgress", "Failure"}
  BY DEF DeploymentStatus, StatefulSetStatus, DaemonSetStatus, ReplicaSetStatus, JobStatus
<1>2. /\ PodStatus(o) \in {"Success", "InProgress", "Failure"}
      /\ ServiceStatus(o) \in {"Success", "InProgress", "Failure"}
      /\ PersistentVolumeStatus(o) \in {"Success", "InProgress", "Failure"}
      /\ ClaimStatus(o) \in {"Success", "InProgress", "Failure"}
      /\ NamespaceStatus(o) \in {"Success", "InProgress", "Failure"}
  BY DEF PodStatus, ServiceStatus, PersistentVolumeStatus, ClaimStatus, NamespaceStatus
<1> QED  BY <1>1, <1>2 DEF OperationStatus

(* Without a surge the rule of a workload says Success only of a rollout     *)
(* that has landed: there is no room for old pods beside the new ones.       *)
LEMMA SuccessLands ==
    ASSUME WorldOK, NoSurge, p \in Workloads, NEW o, ObjectOK(o),
           OperationStatus(p, o, plan.hold) = "Success"
    PROVE  RolledOut(o)
<1>1. /\ o.seen \in Nat /\ o.gen \in Nat /\ o.old \in Nat /\ o.oldReady \in Nat
      /\ o.new \in Nat /\ o.newReady \in Nat /\ Replicas \in Nat \ {0}
      /\ o.seen <= o.gen /\ o.oldReady <= o.old /\ o.newReady <= o.new
      /\ o.old + o.new <= Replicas /\ (plan.hold = "paused" => o.new = 0)
  <2>1. plan.surge = 0
    BY DEF WorldOK, NoSurge
  <2> QED  BY <2>1, ReplicasAssumption DEF ObjectOK, Pods, Object
<1>2. Reachable \in Nat /\ Reachable <= Replicas
      /\ (plan.hold \in {"paused", "ondelete"} => Reachable = 0)
      /\ (plan.hold = "partition" => Reachable = Replicas - 1)
  BY <1>1 DEF Reachable
<1>3. CASE p = Deployment
  <2>1. DeploymentStatus(o, plan.hold) = "Success"
    BY <1>3, WorkloadsDiffer DEF OperationStatus
  <2>2. /\ o.seen >= o.gen
        /\ plan.hold = "paused" \/ (o.new >= Replicas /\ o.oldReady + o.newReady >= Replicas)
    BY <2>1 DEF DeploymentStatus, ObservedGenerationReady, Ready
  <2> QED  BY <1>1, <1>2, <2>2 DEF RolledOut
<1>4. CASE p = StatefulSet
  <2>1. StatefulSetStatus(o, plan.hold) = "Success"
    BY <1>4, WorkloadsDiffer DEF OperationStatus
  <2>2. /\ o.seen >= o.gen /\ o.oldReady + o.newReady >= Replicas
        /\ plan.hold # "ondelete" => o.new >= StatefulSetTarget(plan.hold)
    BY <2>1 DEF StatefulSetStatus, ObservedGenerationReady, Ready
  <2> QED  BY <1>1, <1>2, <2>2 DEF RolledOut, StatefulSetTarget
<1>5. CASE p = DaemonSet
  <2>1. DaemonSetStatus(o, plan.hold) = "Success"
    BY <1>5, WorkloadsDiffer DEF OperationStatus
  <2>2. /\ o.seen >= o.gen /\ o.oldReady + o.newReady >= Replicas
        /\ plan.hold # "ondelete" => o.new >= Replicas
    BY <2>1 DEF DaemonSetStatus, ObservedGenerationReady, Ready
  <2> QED  BY <1>1, <1>2, <2>2 DEF RolledOut
<1> QED  BY <1>3, <1>4, <1>5 DEF Workloads

-----------------------------------------------------------------------------
(* What steps do to the object *)

(* The object is gone, is another one, or has not come back from deletion.   *)
Evolves ==
    /\ p' = p /\ plan' = plan /\ born <= born'
    /\ served => served' \/ ~There'
    /\ \/ ~There'
       \/ obj'.uid > born
       \/ /\ There /\ obj'.uid = obj.uid
          /\ obj.deleting => obj'.deleting
          /\ obj.phase = "Lost" => obj'.phase = "Lost"

LEMMA RemovedOK ==
    ASSUME NEW o, ObjectOK(o), NEW f
    PROVE  \/ Removed(o, f) = None
           \/ /\ ObjectOK(Removed(o, f)) /\ Removed(o, f).uid = o.uid
              /\ Removed(o, f).deleting = o.deleting /\ Removed(o, f).phase = o.phase
<1>1. CASE Removed(o, f) = [o EXCEPT !.finalizers = @ \ f]
  <2>1. o.finalizers \ f \in SUBSET Finalizers
    BY DEF ObjectOK, Object
  <2> QED  BY <1>1, <2>1 DEF ObjectOK, Object, Pods
<1> QED  BY <1>1 DEF Removed

LEMMA MarkedOK ==
    ASSUME NEW o, ObjectOK(o), NEW propagation
    PROVE  \/ Marked(o, propagation) = None
           \/ /\ ObjectOK(Marked(o, propagation)) /\ Marked(o, propagation).uid = o.uid
              /\ Marked(o, propagation).deleting
              /\ Marked(o, propagation).phase = o.phase
<1> DEFINE more == IF propagation = "Foreground" THEN {"foreground"} ELSE {}
           m == [o EXCEPT !.deleting = TRUE, !.finalizers = @ \cup more]
<1>1. o.finalizers \cup more \in SUBSET Finalizers
  BY DEF ObjectOK, Object, Finalizers
<1> HIDE DEF more
<1>2. ObjectOK(m) /\ m.uid = o.uid /\ m.deleting /\ m.phase = o.phase
  BY <1>1 DEF ObjectOK, Object, Pods
<1>3. Marked(o, propagation) = Removed(m, {})
  BY DEF Marked, more
<1> HIDE DEF m
<1> QED  BY <1>2, <1>3, RemovedOK

LEMMA BirthsOK ==
    ASSUME WorldOK, NEW o \in Births
    PROVE  ObjectOK(o) /\ o.uid = born + 1
<1>1. PICK ph \in FirstPhases, f \in {{}, {"other"}} :
        o = [uid |-> born + 1, gen |-> 1, seen |-> IF p \in Workloads THEN 0 ELSE 1,
             cond |-> {}, phase |-> ph, old |-> 0, oldReady |-> 0, new |-> 0, newReady |-> 0,
             deleting |-> FALSE, aged |-> FALSE, finalizers |-> p.guards \cup f]
  BY DEF Births
<1>2. ph \in Phases
  BY DEF FirstPhases, Phases
<1>3. p.guards \cup f \in SUBSET Finalizers
  BY ManagedAssumption DEF WorldOK, Finalizers
<1>4. plan.surge \in Nat
  BY ManagedAssumption DEF WorldOK
<1>5. o \in Object /\ o.uid = born + 1 /\ o.seen <= o.gen /\ o.old = 0 /\ o.new = 0
      /\ o.oldReady = 0 /\ o.newReady = 0
  BY <1>1, <1>2, <1>3 DEF Object, WorldOK
<1> QED  BY <1>4, <1>5, ReplicasAssumption DEF ObjectOK, Pods

LEMMA ApplyWorld ==
    ASSUME WorldOK, NEW changes, Apply(changes), served, UNCHANGED <<p, plan, served>>
    PROVE  WorldOK' /\ Evolves /\ There' /\ ObjectOK(obj')
<1>1. CASE obj' \in Births /\ born' = born + 1
  <2>1. ObjectOK(obj') /\ obj'.uid = born + 1
    BY <1>1, BirthsOK
  <2>2. ObjectOK(obj)' /\ born \in Nat
    BY <2>1 DEF ObjectOK, Pods, WorldOK
  <2> QED  BY <1>1, <2>1, <2>2 DEF WorldOK, Evolves, There
<1>2. CASE There /\ born' = born
           /\ (obj' = [obj EXCEPT !.gen = @ + 1] \/ obj' = obj)
  <2>1. ObjectOK(obj) /\ obj.uid # 0 /\ obj.uid <= born
    BY <1>2 DEF WorldOK, There, None
  <2>2. /\ ObjectOK(obj') /\ obj'.uid = obj.uid /\ obj'.deleting = obj.deleting
        /\ obj'.phase = obj.phase
    BY <1>2, <2>1 DEF ObjectOK, Object, Pods
  <2>3. ObjectOK(obj)'
    BY <2>2 DEF ObjectOK, Pods
  <2> QED  BY <1>2, <2>1, <2>2, <2>3 DEF WorldOK, Evolves, There
<1> QED  BY <1>1, <1>2 DEF Apply

(* The object is marked, removed, or changed in some other field.            *)
LEMMA ChangeWorld ==
    ASSUME WorldOK, There, UNCHANGED <<p, plan, born, served>>,
           \/ obj' = None
           \/ /\ ObjectOK(obj') /\ obj'.uid = obj.uid
              /\ obj.deleting => obj'.deleting
              /\ obj.phase = "Lost" => obj'.phase = "Lost"
    PROVE  WorldOK' /\ Evolves
<1>1. CASE obj' = None
  BY <1>1 DEF WorldOK, Evolves, There, None
<1>2. CASE ObjectOK(obj')
  <2>1. ObjectOK(obj)'
    BY <1>2 DEF ObjectOK, Pods
  <2> QED  BY <1>2, <2>1 DEF WorldOK, Evolves, There, None
<1> QED  BY <1>1, <1>2

LEMMA ThereOK == ASSUME WorldOK, There PROVE ObjectOK(obj)
BY DEF WorldOK, There, None

(* Controllers, finalizers, the clock and other clients. *)
LEMMA ControllerWorld ==
    ASSUME WorldOK, \/ ControllerSees \/ RollOut \/ ConditionWritten
                    \/ PhaseMoves \/ Drained \/ GraceEnds
    PROVE  WorldOK' /\ Evolves
<1>1. /\ There /\ UNCHANGED <<p, plan, born, served>>
      /\ ObjectOK(obj) /\ obj \in Object /\ Pods(obj)
      /\ plan.surge \in Nat /\ Replicas \in Nat
  <2>1. There /\ UNCHANGED <<p, plan, born, served>>
    BY DEF ControllerSees, RollOut, ConditionWritten, PhaseMoves, Drained, GraceEnds, Cluster
  <2> QED  BY <2>1, ThereOK, ManagedAssumption, ReplicasAssumption DEF ObjectOK, WorldOK
<1>2. CASE ControllerSees
  <2>1. /\ obj.old + obj.new \in Nat /\ Ready(obj) \in Nat
        /\ Ready(obj) <= obj.old + obj.new /\ obj.old + obj.new + 0 <= Replicas + plan.surge
        /\ {} \in SUBSET Reasons
    BY <1>1 DEF Ready, Object, Pods
  <2>2. /\ obj' \in Object /\ obj'.uid = obj.uid /\ obj'.deleting = obj.deleting
        /\ obj'.phase = obj.phase /\ obj'.gen = obj.gen /\ obj'.seen = obj.gen
        /\ obj'.old = obj.old + obj.new /\ obj'.oldReady = Ready(obj)
        /\ obj'.new = 0 /\ obj'.newReady = 0
    BY <1>1, <1>2, <2>1 DEF ControllerSees, Object
  <2>3. ObjectOK(obj')
    BY <1>1, <2>1, <2>2 DEF Object, ObjectOK, Pods
  <2> QED  BY <1>1, <2>2, <2>3, ChangeWorld
<1>3. CASE RollOut
  <2>1. Reachable \in Nat /\ Reachable <= Replicas /\ (plan.hold = "paused" => Reachable = 0)
    BY <1>1, ReplicasAssumption DEF Reachable
  <2>2. \/ /\ obj.old + obj.new < Replicas + plan.surge
           /\ plan.hold # "paused"
           /\ obj' = [obj EXCEPT !.new = @ + 1]
        \/ /\ obj.newReady < obj.new
           /\ obj' = [obj EXCEPT !.newReady = @ + 1]
        \/ /\ obj.old > 0 /\ obj.oldReady < obj.old
           /\ obj' = [obj EXCEPT !.old = @ - 1]
        \/ /\ obj.old > 0 /\ obj.oldReady > 0
           /\ obj' = [obj EXCEPT !.old = @ - 1, !.oldReady = @ - 1]
    BY <1>1, <1>3, <2>1 DEF RollOut, Object
  <2>3. /\ ObjectOK(obj') /\ obj'.uid = obj.uid /\ obj'.deleting = obj.deleting
        /\ obj'.phase = obj.phase
    <3>1. CASE /\ obj.old + obj.new < Replicas + plan.surge /\ plan.hold # "paused"
               /\ obj' = [obj EXCEPT !.new = @ + 1]
      BY <1>1, <3>1 DEF ObjectOK, Object, Pods
    <3>2. CASE obj.newReady < obj.new /\ obj' = [obj EXCEPT !.newReady = @ + 1]
      BY <1>1, <3>2 DEF ObjectOK, Object, Pods
    <3>3. CASE obj.old > 0 /\ obj.oldReady < obj.old /\ obj' = [obj EXCEPT !.old = @ - 1]
      <4>1. obj.old - 1 \in Nat
        BY <1>1, <3>3 DEF Object
      <4> QED  BY <1>1, <3>3, <4>1 DEF ObjectOK, Object, Pods
    <3>4. CASE /\ obj.old > 0 /\ obj.oldReady > 0
               /\ obj' = [obj EXCEPT !.old = @ - 1, !.oldReady = @ - 1]
      <4>1. obj.old - 1 \in Nat /\ obj.oldReady - 1 \in Nat
        BY <1>1, <3>4 DEF Object
      <4>2. /\ obj' \in Object /\ obj'.uid = obj.uid /\ obj'.deleting = obj.deleting
            /\ obj'.phase = obj.phase /\ obj'.gen = obj.gen /\ obj'.seen = obj.seen
            /\ obj'.old = obj.old - 1 /\ obj'.oldReady = obj.oldReady - 1
            /\ obj'.new = obj.new /\ obj'.newReady = obj.newReady
        BY <1>1, <3>4, <4>1 DEF Object
      <4> QED  BY <1>1, <4>1, <4>2 DEF Object, ObjectOK, Pods
    <3> QED  BY <2>2, <3>1, <3>2, <3>3, <3>4
  <2> QED  BY <1>1, <2>3, ChangeWorld
<1>4. CASE ConditionWritten
  <2>1. PICK c \in Conditions : obj' = [obj EXCEPT !.cond = {c}]
    BY <1>4 DEF ConditionWritten
  <2>2. c \in Reasons
    BY DEF Conditions, Reasons
  <2>3. /\ ObjectOK(obj') /\ obj'.uid = obj.uid /\ obj'.deleting = obj.deleting
        /\ obj'.phase = obj.phase
    BY <1>1, <2>1, <2>2 DEF ObjectOK, Object, Pods
  <2> QED  BY <1>1, <2>3, ChangeWorld
<1>5. CASE PhaseMoves
  <2>1. PICK ph \in NextPhases : obj' = [obj EXCEPT !.phase = ph]
    BY <1>5 DEF PhaseMoves
  <2>2. ph \in Phases /\ obj.phase # "Lost"
    BY DEF NextPhases, Phases
  <2>3. /\ ObjectOK(obj') /\ obj'.uid = obj.uid /\ obj'.deleting = obj.deleting
    BY <1>1, <2>1, <2>2 DEF ObjectOK, Object, Pods
  <2> QED  BY <1>1, <2>2, <2>3, ChangeWorld
<1>6. CASE Drained
  <2>1. PICK f : obj' = Removed(obj, {f})
    BY <1>6 DEF Drained
  <2> QED  BY <1>1, <2>1, RemovedOK, ChangeWorld
<1>7. CASE GraceEnds
  <2>1. /\ ObjectOK(obj') /\ obj'.uid = obj.uid /\ obj'.deleting = obj.deleting
        /\ obj'.phase = obj.phase
    BY <1>1, <1>7 DEF GraceEnds, ObjectOK, Object, Pods
  <2> QED  BY <1>1, <2>1, ChangeWorld
<1> QED  BY <1>2, <1>3, <1>4, <1>5, <1>6, <1>7

LEMMA OtherWorld ==
    ASSUME WorldOK, OtherClient
    PROVE  WorldOK' /\ Evolves
<1>1. UNCHANGED <<p, plan>>
  BY DEF OtherClient, Cluster
<1>2. CASE served /\ Apply(TRUE) /\ UNCHANGED served
  <2>1. WorldOK' /\ Evolves /\ There' /\ ObjectOK(obj')
    BY <1>1, <1>2, ApplyWorld
  <2> QED  BY <2>1
<1>3. CASE There /\ obj' = Marked(obj, "Default") /\ UNCHANGED <<born, served>>
  BY <1>1, <1>3, ThereOK, MarkedOK, ChangeWorld
<1>4. CASE ~served /\ served' = TRUE /\ UNCHANGED <<obj, born>>
  <2>1. WorldOK'
    BY <1>1, <1>4 DEF WorldOK, ObjectOK, Pods, There
  <2> QED  BY <1>1, <1>4, <2>1 DEF WorldOK, Evolves, There
<1>5. CASE obj' = None /\ UNCHANGED born
  BY <1>1, <1>5 DEF WorldOK, Evolves, There, None
<1> QED  BY <1>2, <1>3, <1>4, <1>5 DEF OtherClient

-----------------------------------------------------------------------------
(* What steps do to the rest *)

LEMMA NoneFacts == None \notin Object /\ None.uid = 0
BY DEF None, Object

(* An answer that was true stays true: what is gone does not come back, and  *)
(* what is being deleted stays so.                                           *)
LEMMA TruthStays ==
    ASSUME WorldOK, Evolves, NEW op, NEW status, NEW uid \in Nat, uid <= born,
           Truthful(op, status, uid), known = "unserved" => known' = "unserved"
    PROVE  Truthful(op, status, uid)'
<1>1. CASE ~There' \/ obj'.uid # uid
  BY <1>1 DEF Truthful, There
<1>2. CASE There' /\ obj'.uid = uid
  <2>1. obj'.uid <= born /\ ~(obj'.uid > born)
    BY <1>2 DEF WorldOK
  <2>2. /\ There /\ obj'.uid = obj.uid
        /\ obj.deleting => obj'.deleting
        /\ obj.phase = "Lost" => obj'.phase = "Lost"
        /\ p' = p /\ (served => served')
    BY <1>2, <2>1 DEF Evolves
  <2>3. \/ Excused
        \/ /\ status = "NotFound" => obj.deleting
           /\ op = "delete" => status # "Success"
    BY <1>2, <2>2 DEF Truthful
  <2>4. Excused => Excused'
    BY <2>2 DEF Excused
  <2> QED  BY <2>2, <2>3, <2>4 DEF Truthful
<1> QED  BY <1>1, <1>2

LEMMA AnswerStays ==
    ASSUME WorldOK, WorldOK', AnswerOK, Evolves, answer' = answer,
           known = "unserved" => known' = "unserved"
    PROVE  AnswerOK'
<1>1. answer.uid \in Nat /\ answer.uid <= born /\ born \in Nat /\ born <= born'
  BY DEF AnswerOK, WorldOK, Evolves
<1>2. Truthful(answer.op, answer.status, answer.uid)'
  BY <1>1, TruthStays DEF AnswerOK
<1>3. answer'.uid \in Nat /\ answer'.uid <= born'
  <2>1. born' \in Nat
    BY DEF WorldOK
  <2> QED  BY <1>1, <2>1
<1> QED  BY <1>2, <1>3 DEF AnswerOK

(* An idle call and one between two API calls survive what others do.        *)
LEMMA CallStays ==
    ASSUME WorldOK, WorldOK', CallOK, Evolves, call' = call
    PROVE  CallOK'
<1>1. call.uid \in Nat /\ call.uid <= born /\ born \in Nat /\ born' \in Nat /\ born <= born'
  BY DEF CallOK, Call, WorldOK, Evolves
<1>2. call.uid <= born'
  BY <1>1
<1>3. plan' = plan
  BY DEF Evolves
<1>4. call.pc = "patch" => ObjectOK(call.sent)'
  BY <1>3 DEF CallOK, ObjectOK, Pods
<1>5. call.pc = "finalize" => Escalates(call.sent)'
  BY DEF CallOK, Escalates, Evolves
<1>6. call.pc = "readback" => ((There /\ obj.uid = call.uid) => obj.deleting)'
  BY <1>1 DEF CallOK, Evolves, There, WorldOK
<1> QED  BY <1>2, <1>4, <1>5, <1>6 DEF CallOK

LEMMA Bystander ==
    ASSUME IInv, WorldOK', Evolves, UNCHANGED <<known, agent, call, answer>>
    PROVE  IInv'
<1>1. KnownOK' /\ AgentOK'
  BY DEF IInv, KnownOK, AgentOK, Evolves
<1> QED  BY <1>1, AnswerStays, CallStays DEF IInv

(* Nothing happens to the object. *)
LEMMA StillEvolves ==
    ASSUME WorldOK, UNCHANGED <<p, plan, obj, served, born>>
    PROVE  WorldOK' /\ Evolves
<1>1. born <= born'
  BY DEF WorldOK
<1>2. WorldOK'
  BY DEF WorldOK, ObjectOK, Pods, There
<1>3. Evolves
  <2>1. /\ p' = p /\ plan' = plan /\ served' = served /\ obj' = obj
    OBVIOUS
  <2>2. There \/ ~There'
    BY <2>1 DEF There
  <2> QED  BY <1>1, <2>1, <2>2 DEF Evolves
<1> QED  BY <1>2, <1>3

-----------------------------------------------------------------------------
(* What the steps of a callback do *)

(* An answer that is true when it is given ends the callback.                *)
LEMMA ReplyKeeps ==
    ASSUME IInv, WorldOK', KnownOK', Evolves, NEW status, Reply(status),
           NEW op, NEW uid, op = call.op, uid = call.uid, Truthful(op, status, uid)'
    PROVE  IInv'
<1>1. /\ answer' = [op |-> call.op, status |-> status, uid |-> call.uid]
      /\ call' = Idle /\ agent' \in Goes(status)
  BY DEF Reply
<1>2. call.uid \in Nat /\ call.uid <= born /\ born \in Nat /\ born' \in Nat /\ born <= born'
  BY DEF IInv, CallOK, Call, WorldOK, Evolves
<1>3. AnswerOK'
  <2>1. answer'.op = op /\ answer'.status = status /\ answer'.uid = uid
    BY <1>1
  <2>2. Truthful(answer.op, answer.status, answer.uid)'
    BY <2>1 DEF Truthful
  <2> QED  BY <1>2, <2>1, <2>2 DEF AnswerOK
<1>4. CallOK'
  BY <1>1, <1>2 DEF CallOK, Call, Idle
<1>5. AgentOK'
  BY <1>1 DEF Goes, AgentOK, IInv
<1> QED  BY <1>3, <1>4, <1>5 DEF IInv

(* An answer of a callback that changes nothing in the cluster: it is enough *)
(* that it is true of what is there.                                         *)
LEMMA AnswersKeeps ==
    ASSUME IInv, NEW status, Reply(status), UNCHANGED <<p, plan, known, obj, served, born>>,
           NEW op, NEW uid, op = call.op, uid = call.uid, Truthful(op, status, uid)
    PROVE  IInv'
<1>1. WorldOK' /\ Evolves
  BY StillEvolves DEF IInv
<1>2. KnownOK'
  BY DEF IInv, KnownOK
<1>3. uid \in Nat /\ uid <= born
  BY DEF IInv, CallOK, Call
<1>4. Truthful(op, status, uid)'
  BY <1>1, <1>3, TruthStays DEF IInv
<1> QED  BY <1>1, <1>2, <1>4, ReplyKeeps

(* An error, and what is in progress, says nothing of the object.            *)
LEMMA NoClaim ==
    ASSUME NEW op, NEW uid, NEW status,
           status \notin {"NotFound"} \cup IF op = "delete" THEN {"Success"} ELSE {}
    PROVE  Truthful(op, status, uid)
BY DEF Truthful

LEMMA AskKeeps ==
    ASSUME IInv, NEW op \in {"create", "update", "delete", "status"}, Ask(op)
    PROVE  IInv'
<1>1. WorldOK' /\ Evolves
  BY StillEvolves DEF Ask, world, IInv
<1>2. call' = [op |-> op, pc |-> "called", uid |-> obj.uid, sent |-> None]
  BY DEF Ask, Idle
<1>3. obj.uid \in Nat /\ obj.uid <= born /\ born' = born
  BY ThereOK DEF IInv, WorldOK, There, ObjectOK, Object, Ask, world
<1>4. CallOK'
  BY <1>2, <1>3 DEF CallOK, Call
<1>5. answer'.uid = 0 /\ answer'.op = "none" /\ answer'.status = "none"
  BY DEF Ask, NoAnswer
<1>6. AnswerOK'
  <2>1. born' \in Nat
    BY <1>3 DEF IInv, WorldOK
  <2>2. Truthful(answer.op, answer.status, answer.uid)'
    BY <1>5 DEF Truthful
  <2> QED  BY <1>5, <2>1, <2>2 DEF AnswerOK
<1>7. KnownOK' /\ AgentOK'
  BY DEF Ask, IInv, KnownOK, AgentOK
<1> QED  BY <1>1, <1>4, <1>6, <1>7 DEF IInv

LEMMA MemoKeeps ==
    ASSUME IInv, ResolveVersion \/ ResetMapper
    PROVE  IInv'
<1>1. UNCHANGED <<p, plan, agent, call, answer, obj, born, served>>
  BY DEF ResolveVersion, ResetMapper, world
<1>2. WorldOK' /\ Evolves
  BY <1>1, StillEvolves DEF IInv
<1>3. KnownOK' /\ AgentOK'
  BY <1>1 DEF ResolveVersion, ResetMapper, IInv, KnownOK, AgentOK
<1>4. known # "unserved"
  BY DEF ResolveVersion, ResetMapper
<1> QED  BY <1>1, <1>2, <1>3, <1>4, AnswerStays, CallStays DEF IInv

(* What is remembered of a kind while an apply or a delete is on its way.    *)
LEMMA RememberKeeps ==
    ASSUME IInv, Remember, p' = p
    PROVE  KnownOK' /\ (known = "unserved" => known' = "unserved")
BY CustomIsServed DEF IInv, KnownOK, Remember

(* Errors, and answers that an operation is in progress, of callbacks that   *)
(* leave the cluster alone.                                                  *)
LEMMA RefusalsKeep ==
    ASSUME IInv, NEW op, NEW uid, op = call.op, uid = call.uid,
           \/ RequestRefused \/ EstablishTimeout \/ CallFails \/ NoMapping
           \/ FinalizeFails \/ ReadBackFails
    PROVE  IInv'
<1>1. PICK status \in {"Error", "InProgress"} :
        Reply(status) /\ UNCHANGED <<p, plan, known, obj, served, born>>
  BY DEF RequestRefused, EstablishTimeout, CallFails, NoMapping, FinalizeFails, ReadBackFails,
         Answers, world
<1>2. Truthful(op, status, uid)
  BY <1>1, NoClaim
<1> QED  BY <1>1, <1>2, AnswersKeeps

(* Of a kind that the client remembers as not served it may say anything.    *)
LEMMA UnsupportedKeeps ==
    ASSUME IInv, NEW op, NEW uid, op = call.op, uid = call.uid, Unsupported
    PROVE  IInv'
<1>1. PICK status :
        Reply(status) /\ UNCHANGED <<p, plan, known, obj, served, born>>
  BY DEF Unsupported, Answers, world
<1>2. ~There \/ Excused
  BY DEF Unsupported, TypeUnsupported, IInv, WorldOK, Excused
<1>3. Truthful(op, status, uid)
  BY <1>2 DEF Truthful
<1> QED  BY <1>1, <1>3, AnswersKeeps

LEMMA CreateKeeps ==
    ASSUME IInv, NEW op, NEW uid, op = call.op, uid = call.uid, Create
    PROVE  IInv'
<1>1. PICK changes : Apply(changes)
  BY DEF Create
<1>2. served /\ UNCHANGED <<p, plan, served>> /\ Remember /\ op = "create"
  BY DEF Create
<1>3. WorldOK' /\ Evolves
  BY <1>1, <1>2, ApplyWorld DEF IInv
<1>4. KnownOK'
  BY <1>2, RememberKeeps
<1>5. PICK status \in {"Success", "InProgress", "Failure", "Error"} : Reply(status)
  BY StatusRange DEF Create, AnswerLost
<1>6. Truthful(op, status, uid)'
  BY <1>2, <1>5 DEF Truthful
<1> QED  BY <1>3, <1>4, <1>5, <1>6, ReplyKeeps

LEMMA UpdateKeeps ==
    ASSUME IInv, NEW op, NEW uid, op = call.op, uid = call.uid, Update
    PROVE  IInv'
<1>1. PICK changes : Apply(changes)
  BY DEF Update
<1>2. served /\ UNCHANGED <<p, plan, served>> /\ Remember /\ op = "update"
  BY DEF Update
<1>3. WorldOK' /\ Evolves /\ ObjectOK(obj')
  BY <1>1, <1>2, ApplyWorld DEF IInv
<1>4. KnownOK' /\ (known = "unserved" => known' = "unserved")
  BY <1>2, RememberKeeps
<1>5. CASE \E status \in {"Success", "InProgress", "Failure", "Error"} : Reply(status)
  <2>1. PICK status \in {"Success", "InProgress", "Failure", "Error"} : Reply(status)
    BY <1>5
  <2>2. Truthful(op, status, uid)'
    BY <1>2, <2>1 DEF Truthful
  <2> QED  BY <1>3, <1>4, <2>1, <2>2, ReplyKeeps
<1>6. CASE /\ \/ call' = [call EXCEPT !.pc = "patch", !.sent = obj']
              \/ call' = [call EXCEPT !.pc = "reread"]
           /\ UNCHANGED <<agent, answer>>
  <2>1. call \in Call /\ call.uid <= born'
    BY <1>3 DEF IInv, CallOK, Call, Evolves, WorldOK
  <2>2. ObjectOK(obj') /\ obj' \in Object /\ plan' = plan
    BY <1>2, <1>3 DEF ObjectOK
  <2>3. CASE call' = [call EXCEPT !.pc = "patch", !.sent = obj']
    <3>1. /\ call'.op = op /\ call'.pc = "patch" /\ call'.uid = call.uid /\ call'.sent = obj'
          /\ call' \in Call
      BY <2>1, <2>2, <2>3 DEF Call
    <3>2. ObjectOK(call.sent)'
      BY <2>2, <3>1 DEF ObjectOK, Pods
    <3> QED  BY <1>2, <2>1, <3>1, <3>2, <1>3, <1>4, <1>6, AnswerStays
             DEF CallOK, IInv, AgentOK
  <2>4. CASE call' = [call EXCEPT !.pc = "reread"]
    <3>1. /\ call'.op = op /\ call'.pc = "reread" /\ call'.uid = call.uid
          /\ call' \in Call
      BY <2>1, <2>4 DEF Call
    <3> QED  BY <1>2, <2>1, <3>1, <1>3, <1>4, <1>6, AnswerStays
             DEF CallOK, IInv, AgentOK
  <2> QED  BY <1>6, <2>3, <2>4
<1> QED  BY <1>5, <1>6, StatusRange DEF Update, AnswerLost

LEMMA PatchKeeps ==
    ASSUME IInv, NEW op, NEW uid, op = call.op, uid = call.uid,
           ReconcileMetadata \/ Reread
    PROVE  IInv'
<1>1. op = "update" /\ UNCHANGED <<p, plan, known, obj, served, born>>
  BY DEF ReconcileMetadata, Reread, Answers, world, IInv, CallOK
<1>2. CASE \E status \in {"Success", "InProgress", "Failure", "Error"} : Reply(status)
  <2>1. PICK status \in {"Success", "InProgress", "Failure", "Error"} : Reply(status)
    BY <1>2
  <2>2. Truthful(op, status, uid)
    BY <1>1, <2>1, NoClaim
  <2> QED  BY <1>1, <2>1, <2>2, AnswersKeeps
<1>3. CASE /\ call' = [call EXCEPT !.pc = "reread", !.sent = None]
           /\ UNCHANGED <<agent, answer>>
  <2>1. WorldOK' /\ Evolves
    BY <1>1, StillEvolves DEF IInv
  <2>2. AnswerOK' /\ KnownOK' /\ AgentOK'
    BY <1>1, <1>3, <2>1, AnswerStays DEF IInv, KnownOK, AgentOK
  <2>3. /\ call'.op = op /\ call'.pc = "reread" /\ call'.uid = call.uid
        /\ call' \in Call
    BY <1>3 DEF IInv, CallOK, Call
  <2>4. CallOK'
    BY <1>1, <2>3 DEF IInv, CallOK
  <2> QED  BY <2>1, <2>2, <2>4 DEF IInv
<1>4. \/ \E status \in {"Success", "InProgress", "Failure", "Error"} : Reply(status)
      \/ /\ call' = [call EXCEPT !.pc = "reread", !.sent = None]
         /\ UNCHANGED <<agent, answer>>
  BY StatusRange DEF ReconcileMetadata, Reread, Answers
<1> QED  BY <1>2, <1>3, <1>4

(* What is read back after a delete is being deleted, or is another object.  *)
LEMMA DeleteKeeps ==
    ASSUME IInv, NEW op, NEW uid, op = call.op, uid = call.uid, Delete
    PROVE  IInv'
<1>1. /\ obj' = IF There THEN Marked(obj, p.propagation) ELSE obj
      /\ UNCHANGED <<p, plan, served, born>> /\ Remember /\ op = "delete"
  BY DEF Delete
<1>2. WorldOK' /\ Evolves /\ (There' => obj'.deleting)
  <2>1. CASE There
    <3>1. ObjectOK(obj)
      BY <2>1, ThereOK DEF IInv
    <3>2. \/ obj' = None
          \/ ObjectOK(obj') /\ obj'.uid = obj.uid /\ obj'.deleting /\ obj'.phase = obj.phase
      BY <1>1, <2>1, <3>1, MarkedOK
    <3> QED  BY <1>1, <2>1, <3>2, ChangeWorld, NoneFacts DEF IInv, There
  <2>2. CASE ~There
    BY <1>1, <2>2, StillEvolves DEF IInv, There
  <2> QED  BY <2>1, <2>2
<1>3. KnownOK' /\ (known = "unserved" => known' = "unserved")
  BY <1>1, RememberKeeps
<1>4. CASE Reply("Error")
  <2>1. Truthful(op, "Error", uid)'
    BY DEF Truthful
  <2> QED  BY <1>2, <1>3, <1>4, <2>1, ReplyKeeps
<1>5. CASE call' = [call EXCEPT !.pc = "readback"] /\ UNCHANGED <<agent, answer>>
  <2>1. AnswerOK' /\ AgentOK'
    BY <1>2, <1>3, <1>5, AnswerStays DEF IInv, AgentOK
  <2>2. /\ call'.op = op /\ call'.pc = "readback" /\ call'.uid = call.uid
        /\ call' \in Call
    BY <1>5 DEF IInv, CallOK, Call
  <2>3. CallOK'
    BY <1>1, <1>2, <2>2 DEF IInv, CallOK
  <2> QED  BY <1>2, <1>3, <2>1, <2>3 DEF IInv
<1> QED  BY <1>4, <1>5 DEF Delete, AnswerLost

LEMMA ReadBackKeeps ==
    ASSUME IInv, NEW op, NEW uid, op = call.op, uid = call.uid, ReadBack
    PROVE  IInv'
<1>1. PICK status : /\ Reply(status) /\ UNCHANGED <<p, plan, known, obj, served, born>>
                    /\ status = IF ReadsGone \/ ~obj.deleting THEN "Success" ELSE "InProgress"
  BY DEF ReadBack, Answers, world
<1>2. (There /\ obj.uid = uid) => obj.deleting
  BY DEF ReadBack, IInv, CallOK
<1>3. ReadsGone => (~There \/ Excused)
  BY DEF ReadsGone, ReadsAsGone, Excused
<1>4. Truthful(op, status, uid)
  BY <1>1, <1>2, <1>3 DEF Truthful
<1> QED  BY <1>1, <1>4, AnswersKeeps

LEMMA StatusKeeps ==
    ASSUME IInv, NEW op, NEW uid, op = call.op, uid = call.uid, Status
    PROVE  IInv'
<1>1. op = "status" /\ UNCHANGED <<p, plan, known, obj, served, born>>
  BY DEF Status, Answers, world
<1>2. CASE /\ There /\ Escalates(obj)
           /\ call' = [call EXCEPT !.pc = "finalize", !.sent = obj]
           /\ UNCHANGED <<agent, answer>>
  <2>1. WorldOK' /\ Evolves
    BY <1>1, StillEvolves DEF IInv
  <2>2. AnswerOK' /\ KnownOK' /\ AgentOK'
    BY <1>1, <1>2, <2>1, AnswerStays DEF IInv, KnownOK, AgentOK
  <2>3. obj \in Object
    BY <1>2, ThereOK DEF IInv, ObjectOK
  <2>4. /\ call'.op = op /\ call'.pc = "finalize" /\ call'.uid = call.uid /\ call'.sent = obj
        /\ call' \in Call
    BY <1>2, <2>3 DEF IInv, CallOK, Call
  <2>5. CallOK'
    BY <1>1, <1>2, <2>3, <2>4 DEF IInv, CallOK, Escalates
  <2> QED  BY <2>1, <2>2, <2>5 DEF IInv
<1>3. CASE \E status : /\ Reply(status)
                       /\ status = "NotFound" => (~There \/ obj.deleting)
  <2>1. PICK status : Reply(status) /\ (status = "NotFound" => (~There \/ obj.deleting))
    BY <1>3
  <2>2. Truthful(op, status, uid)
    BY <1>1, <2>1 DEF Truthful
  <2> QED  BY <1>1, <2>1, <2>2, AnswersKeeps
<1>4. StatusOf(obj) = "NotFound" => obj.deleting
  BY StatusRange DEF StatusOf
<1> QED  BY <1>2, <1>3, <1>4 DEF Status, Answers

LEMMA ForceKeeps ==
    ASSUME IInv, NEW op, NEW uid, op = call.op, uid = call.uid, ForceRemoveFinalizers
    PROVE  IInv'
<1>1. /\ UNCHANGED <<p, plan, served, born, known>> /\ Reply("InProgress")
      /\ obj' = IF obj = call.sent THEN Removed(obj, {"kubernetes"}) ELSE obj
  BY DEF ForceRemoveFinalizers
<1>2. WorldOK' /\ Evolves
  <2>1. CASE There
    <3>1. ObjectOK(obj)
      BY <2>1, ThereOK DEF IInv
    <3>2. \/ obj' = None
          \/ /\ ObjectOK(obj') /\ obj'.uid = obj.uid /\ obj'.deleting = obj.deleting
             /\ obj'.phase = obj.phase
      BY <1>1, <3>1, RemovedOK
    <3> QED  BY <1>1, <2>1, <3>2, ChangeWorld DEF IInv
  <2>2. CASE ~There
    <3>1. obj = None
      BY <2>2 DEF IInv, WorldOK, ObjectOK, Object, There
    <3>2. obj # call.sent
      BY <3>1, NoneFacts DEF ForceRemoveFinalizers, IInv, CallOK
    <3> QED  BY <1>1, <3>2, StillEvolves DEF IInv
  <2> QED  BY <2>1, <2>2
<1>3. KnownOK'
  BY <1>1 DEF IInv, KnownOK
<1>4. Truthful(op, "InProgress", uid)'
  BY DEF Truthful
<1> QED  BY <1>1, <1>2, <1>3, <1>4, ReplyKeeps

-----------------------------------------------------------------------------
LEMMA InitIInv == Init => IInv
<1> SUFFICES ASSUME Init PROVE IInv
  OBVIOUS
<1>1. /\ obj.uid = 0 /\ obj = None /\ ~There
  BY DEF Init, None, There
<1>2. WorldOK
  BY <1>1, ManagedAssumption DEF Init, WorldOK, HoldsOf
<1>3. CallOK /\ AnswerOK
  BY <1>1 DEF Init, Idle, NoAnswer, CallOK, Call, AnswerOK, Truthful
<1> QED  BY <1>2, <1>3 DEF Init, IInv, KnownOK, AgentOK

LEMMA NextIInv == IInv /\ [Next]_vars => IInv'
<1> SUFFICES ASSUME IInv, [Next]_vars PROVE IInv'
  OBVIOUS
<1>1. PICK op, uid : op = call.op /\ uid = call.uid
  OBVIOUS
<1>2. CASE Commands \/ Polls
  BY <1>2, AskKeeps DEF Commands, Polls
<1>3. CASE ResolveVersion \/ ResetMapper
  BY <1>3, MemoKeeps
<1>4. CASE \/ RequestRefused \/ EstablishTimeout \/ CallFails \/ NoMapping
           \/ FinalizeFails \/ ReadBackFails
  BY <1>1, <1>4, RefusalsKeep
<1>5. CASE Unsupported \/ Create \/ Update
  BY <1>1, <1>5, UnsupportedKeeps, CreateKeeps, UpdateKeeps
<1>6. CASE ReconcileMetadata \/ Reread \/ Delete \/ ReadBack
  BY <1>1, <1>6, PatchKeeps, DeleteKeeps, ReadBackKeeps
<1>7. CASE Status \/ ForceRemoveFinalizers
  BY <1>1, <1>7, StatusKeeps, ForceKeeps
<1>8. CASE ControllerSees \/ RollOut \/ ConditionWritten \/ PhaseMoves \/ Drained \/ GraceEnds
  <2>1. WorldOK' /\ Evolves
    BY <1>8, ControllerWorld DEF IInv
  <2>2. UNCHANGED <<known, agent, call, answer>>
    BY <1>8 DEF ControllerSees, RollOut, ConditionWritten, PhaseMoves, Drained, GraceEnds,
                Cluster
  <2> QED  BY <2>1, <2>2, Bystander
<1>9. CASE OtherClient
  <2>1. WorldOK' /\ Evolves
    BY <1>9, OtherWorld DEF IInv
  <2>2. UNCHANGED <<known, agent, call, answer>>
    BY <1>9 DEF OtherClient, Cluster
  <2> QED  BY <2>1, <2>2, Bystander
<1>10. CASE UNCHANGED vars
  BY <1>10, StillEvolves, Bystander DEF vars, IInv
<1> QED  BY <1>2, <1>3, <1>4, <1>5, <1>6, <1>7, <1>8, <1>9, <1>10 DEF Next, Steps

(* The inductive invariant holds of every behaviour.                         *)
THEOREM ObjectsAreTracked == Spec => []IInv
BY InitIInv, NextIInv, PTL DEF Spec

(* The variables keep their types, and the object in the API server is one   *)
(* that was created (the fields of ResourceStatus and ProgressResult that    *)
(* the provisioners answer with).                                            *)
THEOREM ObjectTypes == Spec => []TypeOK
<1>1. IInv => TypeOK
  <2> SUFFICES ASSUME IInv PROVE TypeOK
    OBVIOUS
  <2>1. obj.uid \in Nat /\ obj.uid <= born /\ born \in Nat
    BY NoneFacts DEF IInv, WorldOK, ObjectOK, Object
  <2> QED  BY <2>1 DEF IInv, WorldOK, KnownOK, CallOK, Call, AgentOK, TypeOK
<1> QED  BY <1>1, ObjectsAreTracked, PTL

(* What a delete or a poll says to be gone or going is so, but for a claim   *)
(* that lost its volume and a client that remembers an older cluster         *)
(* (lifecycle.go Delete, Status).                                            *)
THEOREM GoneIsTold == Spec => []DeletedIsGone
<1>1. IInv => DeletedIsGone
  BY DEF IInv, AnswerOK, Truthful, Excused, DeletedIsGone
<1> QED  BY <1>1, ObjectsAreTracked, PTL

(* Finalizers are cleared only of the namespace that was seen stuck          *)
(* (namespace.go Status, forceRemoveFinalizers).                             *)
THEOREM ForceIsForTheStuck == Spec => OnlyTheStuckAreForced
<1> DEFINE A == (call.pc = "finalize" /\ call'.pc = "idle" /\ obj' # obj) =>
                    /\ obj.uid = call.sent.uid
                    /\ obj.deleting /\ obj.aged /\ "DeletionContentFailure" \in obj.cond
<1>1. IInv /\ [Next]_vars => [A]_vars
  <2> SUFFICES ASSUME IInv, Next, call.pc = "finalize", call'.pc = "idle", obj' # obj
               PROVE  /\ obj.uid = call.sent.uid
                      /\ obj.deleting /\ obj.aged /\ "DeletionContentFailure" \in obj.cond
    OBVIOUS
  <2>1. Escalates(call.sent)
    BY DEF IInv, CallOK
  <2>2. CASE ForceRemoveFinalizers
    <3>1. obj = call.sent
      BY <2>2 DEF ForceRemoveFinalizers
    <3> QED  BY <2>1, <3>1 DEF Escalates
  <2>3. CASE FinalizeFails
    BY <2>3 DEF FinalizeFails, world
  <2>4. CASE \/ Commands \/ Polls \/ ResolveVersion \/ ResetMapper
             \/ Unsupported \/ RequestRefused \/ EstablishTimeout \/ Create \/ Update
             \/ ReconcileMetadata \/ Reread \/ Delete \/ ReadBack \/ ReadBackFails
             \/ NoMapping \/ Status \/ CallFails
    BY <2>4 DEF Commands, Polls, Ask, ResolveVersion, ResetMapper, Routed, Unsupported,
                RequestRefused, EstablishTimeout, Create, Update, ReconcileMetadata, Reread,
                Delete, ReadBack, ReadBackFails, NoMapping, Status, CallFails
  <2>5. CASE \/ ControllerSees \/ RollOut \/ ConditionWritten \/ PhaseMoves \/ Drained
             \/ GraceEnds \/ OtherClient
    BY <2>5 DEF ControllerSees, RollOut, ConditionWritten, PhaseMoves, Drained, GraceEnds,
                OtherClient, Cluster
  <2> QED  BY <2>2, <2>3, <2>4, <2>5 DEF Next, Steps
<1> QED  BY <1>1, ObjectsAreTracked, PTL DEF Spec, OnlyTheStuckAreForced

(* An answer of Success, to anything but a delete, is what operationStatus   *)
(* says of the object that is judged.                                        *)
LEMMA SuccessIsJudged ==
    ASSUME IInv, Next, answer' # answer, answer'.status = "Success", answer'.op # "delete",
           p \in Workloads
    PROVE  /\ ObjectOK(Judged)
           /\ OperationStatus(p, Judged, plan.hold) = "Success"
<1>1. \A status : Reply(status) => (status = "Success" /\ call.op # "delete")
  BY DEF Reply
<1>2. CASE Create \/ Update
  <2>1. PICK changes : Apply(changes)
    BY <1>2 DEF Create, Update
  <2>2. ObjectOK(obj')
    <3>1. served /\ UNCHANGED <<p, plan, served>>
      BY <1>2 DEF Create, Update
    <3> QED  BY <2>1, <3>1, ApplyWorld DEF IInv
  <2>3. call.pc # "patch"
    BY <1>2 DEF Create, Update, Routed
  <2>4. Reply(OperationStatus(p, obj', plan.hold))
    BY <1>1, <1>2 DEF Create, Update, AnswerLost
  <2> QED  BY <1>1, <2>2, <2>3, <2>4 DEF Judged
<1>3. CASE ReconcileMetadata
  <2>1. ObjectOK(call.sent) /\ call.pc = "patch"
    BY <1>3 DEF ReconcileMetadata, IInv, CallOK
  <2>2. Reply(OperationStatus(p, call.sent, plan.hold))
    BY <1>1, <1>3 DEF ReconcileMetadata, Answers
  <2> QED  BY <1>1, <2>1, <2>2 DEF Judged
<1>4. CASE Reread
  <2>1. Reply(OperationStatus(p, obj, plan.hold)) /\ There /\ obj' = obj /\ call.pc # "patch"
    BY <1>1, <1>4 DEF Reread, Answers, world
  <2> QED  BY <1>1, <2>1, ThereOK DEF Judged, IInv
<1>5. CASE Status
  <2>1. There /\ obj' = obj /\ call.pc # "patch" /\ Reply(StatusOf(obj))
    BY <1>1, <1>5 DEF Status, Answers, world, Routed
  <2>2. OperationStatus(p, obj, plan.hold) = "Success"
    BY <1>1, <2>1 DEF StatusOf
  <2> QED  BY <2>1, <2>2, ThereOK DEF Judged, IInv
<1>6. CASE \/ RequestRefused \/ EstablishTimeout \/ CallFails \/ NoMapping
           \/ FinalizeFails \/ ReadBackFails \/ ForceRemoveFinalizers
  BY <1>1, <1>6 DEF RequestRefused, EstablishTimeout, CallFails, NoMapping, FinalizeFails,
         ReadBackFails, ForceRemoveFinalizers, Answers
<1>7. CASE Unsupported \/ Delete \/ ReadBack
  <2>1. CASE Unsupported
    <3>1. call.op \in {"create", "update", "delete", "status"}
      BY <2>1 DEF Unsupported, IInv, CallOK, Call
    <3>2. CASE call.op \in {"create", "update"}
      BY <1>1, <2>1, <3>2 DEF Unsupported, Answers
    <3>3. CASE call.op = "delete"
      BY <1>1, <2>1, <3>3 DEF Unsupported, Answers
    <3>4. CASE call.op = "status"
      BY <1>1, <2>1, <3>4 DEF Unsupported, Answers
    <3> QED  BY <3>1, <3>2, <3>3, <3>4
  <2>2. CASE Delete
    BY <1>1, <2>2 DEF Delete, AnswerLost
  <2>3. CASE ReadBack
    BY <1>1, <2>3 DEF ReadBack, Answers, IInv, CallOK
  <2> QED  BY <1>7, <2>1, <2>2, <2>3
<1>8. CASE Commands \/ Polls
  BY <1>8 DEF Commands, Polls, Ask, NoAnswer
<1>9. CASE \/ ResolveVersion \/ ResetMapper
           \/ ControllerSees \/ RollOut \/ ConditionWritten \/ PhaseMoves \/ Drained
           \/ GraceEnds \/ OtherClient
  BY <1>9 DEF ResolveVersion, ResetMapper, ControllerSees, RollOut, ConditionWritten,
              PhaseMoves, Drained, GraceEnds, OtherClient, Cluster
<1> QED  BY <1>2, <1>3, <1>4, <1>5, <1>6, <1>7, <1>8, <1>9 DEF Next, Steps

(* Where no rollout adds pods before it takes old ones away, Success of a    *)
(* workload is said only of a rollout that came as far as its strategy lets  *)
(* it (operationStatus of deployment.go, statefulset.go and daemonset.go).   *)
THEOREM SuccessWithoutSurge ==
    ASSUME NoSurge
    PROVE  Spec => SuccessIsRolledOut
<1> DEFINE A == (answer' # answer /\ answer'.status = "Success" /\ answer'.op # "delete"
                   /\ p \in Workloads) => RolledOut(Judged)
<1>1. IInv /\ [Next]_vars => [A]_vars
  BY SuccessIsJudged, SuccessLands DEF IInv
<1> QED  BY <1>1, ObjectsAreTracked, PTL DEF Spec, SuccessIsRolledOut
=============================================================================
