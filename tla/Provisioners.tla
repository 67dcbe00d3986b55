---------------------------- MODULE Provisioners ----------------------------
(***************************************************************************)
(* The typed provisioners (pkg/resources/<group>/<kind>.go).  They are one *)
(* program: Create and Update server-side apply, Update also patches away  *)
(* labels and annotations, Delete deletes, Read and Status get the object. *)
(* What differs is here: a record per provisioner with what it asks of a   *)
(* request and of the API server, and the rule by which it turns the state *)
(* of an object into an operation status.                                  *)
(*                                                                         *)
(*   scope        whether a request must name a namespace                  *)
(*   propagation  of a delete: it waits for dependents when Foreground     *)
(*   checked      operations that check the payload against the version    *)
(*   versioned    the whole kind needs some version of Kubernetes          *)
(*   rereads      Update gets the object once more before it answers       *)
(*   guards       finalizers that Kubernetes itself puts on the kind       *)
(***************************************************************************)
EXTENDS Integers

CONSTANT Replicas       \* what the spec of a workload asks for

ASSUME ReplicasAssumption == Replicas \in Nat \ {0}

Plain(kind) ==
    [kind |-> kind, scope |-> "Cluster", propagation |-> "Default", checked |-> {},
     versioned |-> FALSE, rereads |-> FALSE, guards |-> {}]

Spaced(kind) == [Plain(kind) EXCEPT !.scope = "Namespaced"]

-----------------------------------------------------------------------------
(* Objects that are as soon as they are applied *)

MutatingAdmissionPolicy == [Plain("MutatingAdmissionPolicy") EXCEPT !.versioned = TRUE]
MutatingWebhookConfiguration == Plain("MutatingWebhookConfiguration")
ValidatingWebhookConfiguration == Plain("ValidatingWebhookConfiguration")
FlowSchema == [Plain("FlowSchema") EXCEPT !.versioned = TRUE]
PriorityLevelConfiguration == [Plain("PriorityLevelConfiguration") EXCEPT !.versioned = TRUE]
IngressClass == Plain("IngressClass")
RuntimeClass == Plain("RuntimeClass")
PriorityClass == Plain("PriorityClass")
CSIDriver == Plain("CSIDriver")
StorageClass == Plain("StorageClass")
ClusterRole == Plain("ClusterRole")
ClusterRoleBinding == Plain("ClusterRoleBinding")

Lease == Spaced("Lease")
ConfigMap == Spaced("ConfigMap")
Endpoints == Spaced("Endpoints")
LimitRange == Spaced("LimitRange")
ResourceQuota == Spaced("ResourceQuota")
Secret == Spaced("Secret")
ServiceAccount == Spaced("ServiceAccount")
PodDisruptionBudget == Spaced("PodDisruptionBudget")
NetworkPolicy == Spaced("NetworkPolicy")
Ingress == Spaced("Ingress")
Role == Spaced("Role")
RoleBinding == Spaced("RoleBinding")
HorizontalPodAutoscaler == [Spaced("HorizontalPodAutoscaler") EXCEPT !.versioned = TRUE]
CronJob == [Spaced("CronJob") EXCEPT !.propagation = "Foreground"]

-----------------------------------------------------------------------------
(* Objects that have a status *)

Namespace == [Plain("Namespace") EXCEPT !.rereads = TRUE, !.guards = {"kubernetes"}]
PersistentVolume == [Plain("PersistentVolume") EXCEPT !.guards = {"protection"}]
PersistentVolumeClaim == [Spaced("PersistentVolumeClaim") EXCEPT !.guards = {"protection"}]
Pod == [Spaced("Pod") EXCEPT !.checked = {"create", "update"}]
Service == Spaced("Service")
Job == [Spaced("Job") EXCEPT !.propagation = "Background", !.checked = {"create"}]
Deployment == [Spaced("Deployment") EXCEPT !.propagation = "Foreground"]
StatefulSet == [Spaced("StatefulSet") EXCEPT !.propagation = "Foreground"]
DaemonSet == [Spaced("DaemonSet") EXCEPT !.propagation = "Foreground"]
ReplicaSet == [Spaced("ReplicaSet") EXCEPT !.propagation = "Foreground"]

(* The kind and the scope of a custom resource are its manifest's.           *)
CustomResource == Plain("CustomResource")

Workloads == {Deployment, StatefulSet, DaemonSet}

Provisioners ==
    {MutatingAdmissionPolicy, MutatingWebhookConfiguration, ValidatingWebhookConfiguration,
     FlowSchema, PriorityLevelConfiguration, IngressClass, RuntimeClass, PriorityClass,
     CSIDriver, StorageClass, ClusterRole, ClusterRoleBinding, Lease, ConfigMap, Endpoints,
     LimitRange, ResourceQuota, Secret, ServiceAccount, PodDisruptionBudget, NetworkPolicy,
     Ingress, Role, RoleBinding, HorizontalPodAutoscaler, CronJob, Namespace,
     PersistentVolume, PersistentVolumeClaim, Pod, Service, Job, ReplicaSet,
     CustomResource} \cup Workloads

-----------------------------------------------------------------------------
(***************************************************************************)
(* Status rules.  Of a live object o: o.gen and o.seen are generation and  *)
(* observedGeneration; o.cond the conditions that are True (or, for the    *)
(* deadline, False); o.phase the phase; and, of a workload, o.old and      *)
(* o.new are the pods of earlier specs and of the one the controller saw   *)
(* last, o.oldReady and o.newReady those that are ready.                   *)
(***************************************************************************)

Ready(o) == o.oldReady + o.newReady

(* Mutant: any spec that the controller saw will do.                         *)
MutObservedGenerationReady(o) == o.seen > 0

ObservedGenerationReady(o) == o.seen >= o.gen

(* Of a rollout that stops before the last pod by the user's own strategy.   *)
StatefulSetTarget(hold) == IF hold = "partition" THEN Replicas - 1 ELSE Replicas

DeploymentStatus(o, hold) ==
    CASE o.cond \cap {"ReplicaFailure", "ProgressDeadlineExceeded"} # {} -> "Failure"
      [] OTHER -> IF /\ ObservedGenerationReady(o)
                     /\ hold = "paused" \/ (o.new >= Replicas /\ Ready(o) >= Replicas)
                  THEN "Success" ELSE "InProgress"

StatefulSetStatus(o, hold) ==
    IF /\ ObservedGenerationReady(o)
       /\ Ready(o) >= Replicas
       /\ hold # "ondelete" => o.new >= StatefulSetTarget(hold)
    THEN "Success" ELSE "InProgress"

(* desiredNumberScheduled is the controller's: nothing before it has looked. *)
DaemonSetStatus(o, hold) ==
    IF /\ ObservedGenerationReady(o)
       /\ Ready(o) >= Replicas
       /\ hold # "ondelete" => o.new >= Replicas
    THEN "Success" ELSE "InProgress"

ReplicaSetStatus(o) == IF "ReplicaFailure" \in o.cond THEN "Failure" ELSE "Success"

JobStatus(o) ==
    CASE "Failed" \in o.cond -> "Failure"
      [] o.cond \in {{"Complete"}, {"Suspended"}} -> "Success"
      [] OTHER -> "InProgress"

PodStatus(o) ==
    CASE o.phase \in {"Failed", "Evicted"} -> "Failure"
      [] o.phase \in {"Pending", "Unknown"} -> "InProgress"
      [] OTHER -> "Success"

(* The reason of a failed pod is answered as an error code.                  *)
PodReason(o) == IF o.phase = "Evicted" THEN "ResourceConflict" ELSE "none"

ServiceStatus(o) == IF o.phase = "NoAddress" THEN "InProgress" ELSE "Success"

PersistentVolumeStatus(o) ==
    CASE o.phase = "Failed" -> "Failure"
      [] o.phase = "Pending" -> "InProgress"
      [] OTHER -> "Success"

ClaimStatus(o) == IF o.phase = "Lost" THEN "Failure" ELSE "Success"

NamespaceStatus(o) == IF o.deleting THEN "InProgress" ELSE "Success"

OperationStatus(p, o, hold) ==
    CASE p = Deployment -> DeploymentStatus(o, hold)
      [] p = StatefulSet -> StatefulSetStatus(o, hold)
      [] p = DaemonSet -> DaemonSetStatus(o, hold)
      [] p = ReplicaSet -> ReplicaSetStatus(o)
      [] p = Job -> JobStatus(o)
      [] p = Pod -> PodStatus(o)
      [] p = Service -> ServiceStatus(o)
      [] p = PersistentVolume -> PersistentVolumeStatus(o)
      [] p = PersistentVolumeClaim -> ClaimStatus(o)
      [] p = Namespace -> NamespaceStatus(o)
      [] OTHER -> "Success"

ErrorCode(p, o) == IF p = Pod THEN PodReason(o) ELSE "none"

(* A claim that lost its volume reads as gone.                               *)
ReadsAsGone(p, o) == p = PersistentVolumeClaim /\ o.phase = "Lost"

=============================================================================
