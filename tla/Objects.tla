------------------------------- MODULE Objects -------------------------------
(***************************************************************************)
(* One object of the cluster under one provisioner: the plugin's routing   *)
(* (k8s.go), the lifecycle decorator (pkg/resources/prov/lifecycle.go),    *)
(* the provisioner, and the agent that asks them.  The API server, the     *)
(* controllers of Kubernetes and other clients act between any two calls   *)
(* of a handler, so every API call is one action.                          *)
(***************************************************************************)
EXTENDS Provisioners, FiniteSets

CONSTANTS
    Managed,        \* the provisioners of this instance
    Surges,         \* pods a rollout may add before it takes old ones away
    Holds,          \* what a user may make a rollout wait for, or "none"
    MaxCommands,    \* bound on the agent's commands
    MaxOthers,      \* bound on what other clients do
    MaxFaults       \* bound on API calls that fail

ASSUME ManagedAssumption ==
    /\ Managed \subseteq Provisioners
    /\ Surges \subseteq Nat
    /\ Holds \subseteq {"none", "paused", "ondelete", "partition"} /\ "none" \in Holds

VARIABLES
    p,          \* the provisioner
    plan,       \* the rollout strategy that the object asks for
    obj,        \* the object in the API server
    served,     \* the API server knows the kind
    known,      \* what the client remembers of that
    agent,      \* the command the agent polls for
    call,       \* the callback that is running
    answer,     \* the last answer, and the object there was when it was asked
    born, spent \* objects created so far; what the bounds count

vars == <<p, plan, obj, served, known, agent, call, answer, born, spent>>

-----------------------------------------------------------------------------
None == [uid |-> 0]
There == obj.uid # 0

Idle == [op |-> "none", pc |-> "idle", uid |-> 0, sent |-> None]
NoAnswer == [op |-> "none", status |-> "none", uid |-> 0]

HoldsOf(pr) == Holds \cap
    CASE pr = Deployment -> {"none", "paused"}
      [] pr = StatefulSet -> {"none", "ondelete", "partition"}
      [] pr = DaemonSet -> {"none", "ondelete"}
      [] OTHER -> {"none"}

FirstPhases ==
    CASE p \in {Pod, PersistentVolume, PersistentVolumeClaim} -> {"Pending"}
      [] p = Service -> {"NoAddress", "none"}
      [] OTHER -> {"none"}

(* A new object; a workload's controller has not seen it yet.                *)
Births ==
    {[uid |-> born + 1, gen |-> 1, seen |-> IF p \in Workloads THEN 0 ELSE 1,
      cond |-> {}, phase |-> ph, old |-> 0, oldReady |-> 0, new |-> 0, newReady |-> 0,
      deleting |-> FALSE, aged |-> FALSE, finalizers |-> p.guards \cup f] :
        ph \in FirstPhases, f \in {{}, {"other"}}}

Init ==
    /\ p \in Managed
    /\ plan \in [surge : Surges, hold : HoldsOf(p)]
    /\ p \notin {Deployment, DaemonSet} => plan.surge = 0
    /\ obj = None
    /\ served \in IF p.versioned \/ p = CustomResource THEN BOOLEAN ELSE {TRUE}
    /\ known = "unknown"
    /\ agent = "none" /\ call = Idle /\ answer = NoAnswer
    /\ born = 0
    /\ spent = [commands |-> 0, others |-> 0, faults |-> 0]

Spend(what) == spent' = [spent EXCEPT ![what] = @ + 1]

world == <<obj, born, served>>

-----------------------------------------------------------------------------
(* The API server *)

(* A server-side apply creates the object or changes it; an object that is   *)
(* being deleted can still be changed.                                       *)
Apply(changes) ==
    \/ /\ ~There
       /\ obj' \in Births /\ born' = born + 1
    \/ /\ There
       /\ obj' = IF changes /\ p \in Workloads THEN [obj EXCEPT !.gen = @ + 1] ELSE obj
       /\ UNCHANGED born

Removed(o, f) ==
    IF o.deleting /\ o.finalizers \subseteq f THEN None
    ELSE [o EXCEPT !.finalizers = @ \ f]

(* A delete marks the object, and removes it when no finalizer holds it.     *)
Marked(o, propagation) ==
    Removed([o EXCEPT !.deleting = TRUE,
                      !.finalizers = @ \cup IF propagation = "Foreground"
                                            THEN {"foreground"} ELSE {}], {})

-----------------------------------------------------------------------------
(* Controllers and other clients *)

Cluster == UNCHANGED <<p, plan, known, agent, call, answer>>

(* The controller of a workload looks at the current spec: the pods that are *)
(* there belong to earlier ones, and so did its conditions.                  *)
ControllerSees ==
    /\ There /\ ~obj.deleting /\ obj.seen < obj.gen
    /\ obj' = [obj EXCEPT !.seen = obj.gen, !.cond = {},
                          !.old = obj.old + obj.new, !.oldReady = Ready(obj),
                          !.new = 0, !.newReady = 0]
    /\ UNCHANGED <<born, served, spent>> /\ Cluster

(* How far the strategy lets the controller go by itself.                    *)
Reachable == CASE plan.hold = "partition" -> Replicas - 1
               [] plan.hold \in {"paused", "ondelete"} -> 0
               [] OTHER -> Replicas

(* With no surge one pod may be missing; with a surge none.                  *)
Floor == IF plan.surge = 0 THEN Replicas - 1 ELSE Replicas

RollOut ==
    /\ There /\ p \in Workloads /\ ~obj.deleting /\ obj.seen = obj.gen
    /\ \/ /\ obj.old + obj.new < Replicas + plan.surge
          /\ \/ obj.new < Reachable
             \/ plan.hold # "paused" /\ obj.old + obj.new < Replicas
          /\ obj' = [obj EXCEPT !.new = @ + 1]
       \/ /\ obj.newReady < obj.new
          /\ obj' = [obj EXCEPT !.newReady = @ + 1]
       \/ /\ obj.old > Replicas - Reachable
          /\ \/ /\ obj.oldReady < obj.old
                /\ obj' = [obj EXCEPT !.old = @ - 1]
             \/ /\ Ready(obj) > Floor /\ obj.oldReady > 0
                /\ obj' = [obj EXCEPT !.old = @ - 1, !.oldReady = @ - 1]
    /\ UNCHANGED <<born, served, spent>> /\ Cluster

RolledOut(o) ==
    /\ o.seen = o.gen
    /\ o.new >= Reachable /\ o.newReady = o.new

(* A condition is written: of a rollout that does not end, a job that ends   *)
(* or waits, a namespace whose content cannot be deleted.                    *)
Conditions ==
    CASE p = Deployment -> IF RolledOut(obj) THEN {} ELSE {"ProgressDeadlineExceeded"}
      [] p = ReplicaSet -> {"ReplicaFailure"}
      [] p = Job -> {"Failed", "Complete", "Suspended"}
      [] p = Namespace -> IF obj.deleting THEN {"DeletionContentFailure"} ELSE {}
      [] OTHER -> {}

ConditionWritten ==
    /\ There /\ obj.cond = {} /\ obj.seen = obj.gen
    /\ \E c \in Conditions : obj' = [obj EXCEPT !.cond = {c}]
    /\ UNCHANGED <<born, served, spent>> /\ Cluster

NextPhases ==
    CASE p = Pod /\ obj.phase = "Pending" -> {"Running", "Failed", "Evicted"}
      [] p = Pod /\ obj.phase = "Running" -> {"Succeeded", "Failed", "Evicted", "Unknown"}
      [] p = Service /\ obj.phase = "NoAddress" -> {"Assigned"}
      [] p = PersistentVolume /\ obj.phase = "Pending" -> {"Available", "Failed"}
      [] p = PersistentVolume /\ obj.phase = "Available" -> {"Bound"}
      [] p = PersistentVolumeClaim /\ obj.phase = "Pending" -> {"Bound"}
      [] p = PersistentVolumeClaim /\ obj.phase = "Bound" -> {"Lost"}
      [] OTHER -> {}

PhaseMoves ==
    /\ There
    /\ \E ph \in NextPhases : obj' = [obj EXCEPT !.phase = ph]
    /\ UNCHANGED <<born, served, spent>> /\ Cluster

(* A finalizer does its work, or never does.                                 *)
Drained ==
    /\ There /\ obj.deleting
    /\ \E f \in obj.finalizers : obj' = Removed(obj, {f})
    /\ UNCHANGED <<born, served, spent>> /\ Cluster

(* terminatingGracePeriod passes since the deletion timestamp.               *)
GraceEnds ==
    /\ There /\ p = Namespace /\ obj.deleting /\ ~obj.aged
    /\ obj' = [obj EXCEPT !.aged = TRUE]
    /\ UNCHANGED <<born, served, spent>> /\ Cluster

(* Other clients apply and delete the object; the cluster is upgraded; a     *)
(* custom resource definition comes and goes, and its objects with it.       *)
OtherClient ==
    /\ spent.others < MaxOthers /\ Spend("others")
    /\ \/ served /\ Apply(TRUE) /\ UNCHANGED served
       \/ There /\ obj' = Marked(obj, "Default") /\ UNCHANGED <<born, served>>
       \/ ~served /\ served' = TRUE /\ UNCHANGED <<obj, born>>
       \/ p = CustomResource /\ served /\ served' = FALSE /\ obj' = None /\ UNCHANGED born
    /\ Cluster

-----------------------------------------------------------------------------
(* The agent: a command, then Status for as long as the answer is that it is *)
(* in progress.  A delete that reads as gone may be done or be polled again. *)

Ask(op) ==
    /\ call.pc = "idle"
    /\ \/ /\ agent = "none" /\ op \in {"create", "update", "delete"}
          /\ spent.commands < MaxCommands /\ Spend("commands")
          /\ agent' = op
       \/ agent # "none" /\ op = "status" /\ UNCHANGED <<agent, spent>>
    /\ call' = [Idle EXCEPT !.op = op, !.pc = "called", !.uid = obj.uid]
    /\ answer' = NoAnswer
    /\ UNCHANGED <<p, plan, known>> /\ UNCHANGED world

Goes(status) ==
    CASE status = "InProgress" -> {agent}
      [] status = "NotFound" /\ agent = "delete" -> {agent, "none"}
      [] OTHER -> {"none"}

Reply(status) ==
    /\ answer' = [op |-> call.op, status |-> status, uid |-> call.uid]
    /\ call' = Idle
    /\ agent' \in Goes(status)

(* A callback that changes nothing in the cluster.                           *)
Answers(status) == Reply(status) /\ UNCHANGED <<p, plan, spent, known>> /\ UNCHANGED world

(* Some API call of a callback fails, before or after it took effect, or the *)
(* callback's context ends.                                                  *)
Fault == spent.faults < MaxFaults /\ Spend("faults")

AnswerLost == Fault /\ Reply("Error")

CallFails ==
    /\ call.pc \in {"called", "patch", "reread", "readback"}
    /\ Fault /\ Reply("Error")
    /\ UNCHANGED <<p, plan, known>> /\ UNCHANGED world

-----------------------------------------------------------------------------
(* Routing *)

(* A version that cannot be resolved supports every kind, and only a         *)
(* resolved one is remembered.                                               *)
TypeUnsupported(k) == p.versioned /\ k = "unserved"

ResolveVersion ==
    /\ p.versioned /\ known = "unknown" /\ call.pc = "called"
    /\ known' = IF served THEN "served" ELSE "unserved"
    /\ UNCHANGED <<p, plan, agent, call, answer, spent>> /\ UNCHANGED world

Unsupported ==
    /\ call.pc = "called" /\ TypeUnsupported(known)
    /\ Answers(CASE call.op \in {"create", "update"} -> "Error"
                 [] call.op = "delete" -> "Success"
                 [] call.op = "status" -> "NotFound")

Routed == call.pc = "called" /\ ~TypeUnsupported(known)

(* A custom resource's kind is looked up; a kind that is not remembered and  *)
(* not served has no mapping, which is not the answer that nothing is there. *)
Mapped == p # CustomResource \/ served \/ known = "served"

Remember == known' = IF p = CustomResource /\ served THEN "served" ELSE known

-----------------------------------------------------------------------------
(* Create and Update *)

(* No namespace, or a field that the cluster's version does not have.        *)
RequestRefused ==
    /\ Routed /\ call.op \in {"create", "update"}
    /\ p.scope = "Namespaced" \/ call.op \in p.checked
    /\ Answers("Error")

(* The kind of a custom resource is waited for; other kinds answer 404.      *)
EstablishTimeout ==
    /\ Routed /\ call.op \in {"create", "update"} /\ ~served
    /\ Answers("Error")

(* Discovery data is dropped after a lookup or an apply that failed, of this  *)
(* callback or of any other that has the same client.                        *)
ResetMapper ==
    /\ p = CustomResource /\ known = "served"
    /\ known' = "unknown"
    /\ UNCHANGED <<p, plan, agent, call, answer, spent>> /\ UNCHANGED world

Create ==
    /\ Routed /\ call.op = "create" /\ served
    /\ \E changes \in BOOLEAN : Apply(changes)
    /\ \/ Reply(OperationStatus(p, obj', plan.hold)) /\ UNCHANGED spent
       \/ AnswerLost
    /\ Remember
    /\ UNCHANGED <<p, plan, served>>

(* ReconcileMetadata patches only when there is something to take away; a    *)
(* custom resource is not reconciled.  Most provisioners answer with what    *)
(* the apply returned, whatever came after it.                               *)
Update ==
    /\ Routed /\ call.op = "update" /\ served
    /\ \E changes \in BOOLEAN : Apply(changes)
    /\ \/ /\ ~p.rereads
          /\ Reply(OperationStatus(p, obj', plan.hold)) /\ UNCHANGED spent
       \/ /\ p # CustomResource
          /\ call' = [call EXCEPT !.pc = "patch", !.sent = obj']
          /\ UNCHANGED <<agent, answer, spent>>
       \/ /\ p.rereads
          /\ call' = [call EXCEPT !.pc = "reread"]
          /\ UNCHANGED <<agent, answer, spent>>
       \/ AnswerLost
    /\ Remember
    /\ UNCHANGED <<p, plan, served>>

ReconcileMetadata ==
    /\ call.pc = "patch"
    /\ \/ ~There /\ Answers("Error")
       \/ /\ There /\ ~p.rereads
          /\ Answers(OperationStatus(p, call.sent, plan.hold))
       \/ /\ There /\ p.rereads
          /\ call' = [call EXCEPT !.pc = "reread", !.sent = None]
          /\ UNCHANGED <<p, plan, known, agent, answer, spent>> /\ UNCHANGED world

Reread ==
    /\ call.pc = "reread"
    /\ Answers(IF There THEN OperationStatus(p, obj, plan.hold) ELSE "Error")

-----------------------------------------------------------------------------
(* Delete *)

Delete ==
    /\ Routed /\ call.op = "delete" /\ Mapped
    /\ obj' = IF There THEN Marked(obj, p.propagation) ELSE obj
    /\ \/ /\ call' = [call EXCEPT !.pc = "readback"]
          /\ UNCHANGED <<agent, answer, spent>>
       \/ AnswerLost
    /\ Remember
    /\ UNCHANGED <<p, plan, served, born>>

(* What the provisioner reads of an object.                                  *)
ReadsGone == ~There \/ ReadsAsGone(p, obj)

(* Mutant: the decorator takes the provisioner's word for it.                *)
MutReadBack == call.pc = "readback" /\ Mapped /\ Answers("Success")

(* The decorator looks whether the object is really gone.                    *)
ReadBack ==
    /\ call.pc = "readback" /\ Mapped
    /\ Answers(IF ReadsGone \/ ~obj.deleting THEN "Success" ELSE "InProgress")

ReadBackFails ==
    /\ call.pc = "readback"
    /\ \/ Fault
       \/ ~Mapped /\ UNCHANGED spent
    /\ Reply("InProgress")
    /\ UNCHANGED <<p, plan, known>> /\ UNCHANGED world

NoMapping ==
    /\ Routed /\ call.op \in {"delete", "status"} /\ ~Mapped
    /\ Answers("Error")

-----------------------------------------------------------------------------
(* Status *)

(* Mutant: the condition is tested for False.                                *)
MutEscalates(o) ==
    p = Namespace /\ o.deleting /\ "DeletionContentFailure" \notin o.cond /\ o.aged

Escalates(o) == p = Namespace /\ o.deleting /\ "DeletionContentFailure" \in o.cond /\ o.aged

(* The decorator's answer of an object: an error code stands, and an object  *)
(* that is being deleted is not found.                                       *)
StatusOf(o) ==
    CASE ErrorCode(p, o) # "none" -> "Failure"
      [] ErrorCode(p, o) = "none" /\ o.deleting -> "NotFound"
      [] OTHER -> OperationStatus(p, o, plan.hold)

Status ==
    /\ Routed /\ call.op = "status" /\ Mapped
    /\ IF There /\ Escalates(obj) /\ "kubernetes" \in obj.finalizers
       THEN /\ call' = [call EXCEPT !.pc = "finalize", !.sent = obj]
            /\ UNCHANGED <<p, plan, known, agent, answer, spent>> /\ UNCHANGED world
       ELSE Answers(CASE ~There -> "NotFound"
                      [] There /\ Escalates(obj) -> "InProgress"
                      [] OTHER -> StatusOf(obj))

(* Mutant: the write carries no resourceVersion.                             *)
MutForceRemoveFinalizers ==
    /\ call.pc = "finalize"
    /\ obj' = IF There THEN Removed(obj, {"kubernetes"}) ELSE obj
    /\ Reply("InProgress")
    /\ UNCHANGED <<p, plan, served, born, known, spent>>

(* The write carries the resourceVersion of the object that was read.        *)
ForceRemoveFinalizers ==
    /\ call.pc = "finalize"
    /\ obj' = IF obj = call.sent THEN Removed(obj, {"kubernetes"}) ELSE obj
    /\ Reply("InProgress")
    /\ UNCHANGED <<p, plan, served, born, known, spent>>

FinalizeFails ==
    /\ call.pc = "finalize"
    /\ Fault /\ Reply("InProgress")
    /\ UNCHANGED <<p, plan, known>> /\ UNCHANGED world

-----------------------------------------------------------------------------
Commands == \E op \in {"create", "update", "delete"} : Ask(op)
Polls == Ask("status")

Steps ==
    \/ Unsupported \/ RequestRefused \/ EstablishTimeout \/ Create \/ Update
    \/ ReconcileMetadata \/ Reread \/ Delete \/ ReadBack \/ ReadBackFails \/ NoMapping
    \/ Status \/ ForceRemoveFinalizers \/ FinalizeFails \/ CallFails

Next ==
    \/ Commands \/ Polls \/ ResolveVersion \/ ResetMapper \/ Steps
    \/ ControllerSees \/ RollOut \/ ConditionWritten \/ PhaseMoves \/ Drained \/ GraceEnds
    \/ OtherClient

Spec == Init /\ [][Next]_vars

(* A callback that has begun ends; the agent polls on while it means to; and *)
(* time passes.  Nothing is asked of controllers, finalizers or commands.    *)
FairSpec == Spec /\ WF_vars(Steps) /\ WF_vars(Polls) /\ WF_vars(GraceEnds)

-----------------------------------------------------------------------------
TypeOK ==
    /\ p \in Managed
    /\ obj.uid \in 0 .. born
    /\ known \in {"unknown", "served", "unserved"}
    /\ agent \in {"none", "create", "update", "delete"}
    /\ call.pc \in {"idle", "called", "patch", "reread", "readback", "finalize"}

(* Gone or going is said only of an object that is: after a delete that is   *)
(* answered with Success the object that was there when it was asked is not  *)
(* there any more, and what is answered as not found is not there or has a   *)
(* deletion timestamp (lifecycle.go Delete, Status).  Two exceptions: a      *)
(* claim that lost its volume reads as gone, and a client that remembers a   *)
(* version without the kind answers for the cluster it remembers.            *)
DeletedIsGone ==
    \/ obj.uid # answer.uid \/ ~There
    \/ p = PersistentVolumeClaim /\ obj.phase = "Lost"
    \/ known = "unserved" /\ served
    \/ /\ answer.status = "NotFound" => obj.deleting
       /\ answer.op = "delete" => answer.status # "Success"

(* Success of a workload is said only of a rollout that has come as far as   *)
(* its strategy lets it: the controller has seen the spec the answer is      *)
(* about and its pods are the ones that are ready (operationStatus).         *)
Judged == IF call.pc = "patch" THEN call.sent ELSE obj'

SuccessIsRolledOut == [][
    (answer' # answer /\ answer'.status = "Success" /\ answer'.op # "delete"
     /\ p \in Workloads) => RolledOut(Judged)]_vars

(* Finalizers are cleared only of the namespace that was seen stuck: never   *)
(* of one that was created under its name while the callback ran             *)
(* (namespace.go Status, forceRemoveFinalizers).                             *)
OnlyTheStuckAreForced == [][
    (call.pc = "finalize" /\ call'.pc = "idle" /\ obj' # obj) =>
        /\ obj.uid = call.sent.uid
        /\ obj.deleting /\ obj.aged /\ "DeletionContentFailure" \in obj.cond]_vars

(* A namespace whose content cannot be deleted does not stay for ever while  *)
(* the agent polls: Status escalates in the end (namespace.go:202-230).      *)
Stuck == There /\ obj.deleting /\ obj.finalizers = {"kubernetes"} /\ obj.cond # {}

StuckNamespaceGoes == (Stuck /\ agent # "none") ~> (~There \/ agent = "none")

=============================================================================
