------------------------------ MODULE Cluster ------------------------------
(***************************************************************************)
(* The Kubernetes objects of the sandboxes, what the controllers do to     *)
(* them, and what the two processes that write them promise to do and not  *)
(* to do: the server's part of the contract is implemented call by call in *)
(* module Sandbox and relied upon in module OrphanCleanup; for the part of *)
(* the lifecycle manager's cleanup it is the other way round.              *)
(*                                                                         *)
(* A sandbox is a Job with a ServiceAccount, a workspace claim, a Service  *)
(* and an Ingress.  The key of a Job is the session key it was started     *)
(* with.  A pod with a container that waits counts as pending.             *)
(***************************************************************************)
EXTENDS Naturals

CONSTANTS
    SandboxId,
    Key,         \* session keys
    NoKey,
    Rendered,    \* kinds of the objects that the templates render
    Preserved    \* sandboxes whose claim carries the preserve label

Parts == {"service", "ingress", "sa", "pvc"}
Kinds == Parts \cup {"job"}

\* What the cleanup deletes of a sandbox; the workspace claim stays.
Compute == {"job", "service", "ingress"}

ASSUME KeyAssumption == NoKey \notin Key
ASSUME RenderedAssumption == "job" \in Rendered /\ Rendered \subseteq Kinds
ASSUME PreservedAssumption == Preserved \subseteq SandboxId

VARIABLES
    parts,     \* parts[s]: the objects of s that exist, the Job aside
    job,       \* job[s]: its Job, or NoJob
    pods,      \* pods[s]: the pods that carry the name of its Job
    born,      \* history: keys of the Jobs that were created
    marred     \* history: sandboxes a call about which has failed, or that
               \* have lost a part to the cleanup, since the start of
               \* their Job

objects == <<parts, job, pods>>
clusterVars == <<parts, job, pods, born, marred>>

NoJob == [key |-> NoKey, suspend |-> FALSE, end |-> "no"]
Job == [key : Key, suspend : BOOLEAN, end : {"no", "failed", "complete"}]
Pod == [key : Key, phase : {"Pending", "Running", "Failed", "Succeeded"}]

ClusterTypeOK ==
    /\ parts \in [SandboxId -> SUBSET Parts]
    /\ job \in [SandboxId -> Job \cup {NoJob}]
    /\ pods \in [SandboxId -> SUBSET Pod]
    /\ born \subseteq Key
    /\ marred \subseteq SandboxId

\* When the server starts there may be sandboxes whose Job has expired.
ClusterInit ==
    /\ parts \in [SandboxId -> {{}, Rendered \ {"job"}}]
    /\ job = [s \in SandboxId |-> NoJob]
    /\ pods = [s \in SandboxId |-> {}]
    /\ born = {}
    /\ marred = {}

Exists(s) == job[s] # NoJob

PhaseStatusUnmapped ==   \* mutant: a phase that the map does not name
    [Pending |-> "STARTING", Running |-> "RUNNING",
     Failed |-> "MISSING", Succeeded |-> "PAUSED"]

\* The sandbox status for the phase of a pod.
PhaseStatus ==
    [Pending |-> "STARTING", Running |-> "RUNNING",
     Failed |-> "ERROR", Succeeded |-> "PAUSED"]

----------------------------------------------------------------------------
(* Calls to Kubernetes                                                     *)

NewJob(k) == [key |-> k, suspend |-> FALSE, end |-> "no"]

CreateJob(s, k) ==
    /\ ~Exists(s) /\ k \notin born
    /\ job' = [job EXCEPT ![s] = NewJob(k)]
    /\ born' = born \cup {k}
    /\ UNCHANGED <<parts, pods, marred>>

CreatePart(s, k) ==
    /\ parts' = [parts EXCEPT ![s] = @ \cup {k}]
    /\ UNCHANGED <<job, pods, born, marred>>

\* Deleting what is not there does nothing.
Remove(s, k) ==
    /\ IF k = "job"
       THEN job' = [job EXCEPT ![s] = NoJob] /\ UNCHANGED parts
       ELSE parts' = [parts EXCEPT ![s] = @ \ {k}] /\ UNCHANGED job
    /\ UNCHANGED <<pods, born, marred>>

Suspend(s, value) ==
    /\ Exists(s)
    /\ job' = [job EXCEPT ![s].suspend = value]
    /\ UNCHANGED <<parts, pods, born, marred>>

\* A call about s has failed.
Mar(s) == marred' = marred \cup {s} /\ UNCHANGED <<objects, born>>

\* Deletions are made in this order.
Rank == [job |-> 1, service |-> 2, ingress |-> 3, sa |-> 4, pvc |-> 5]
IsFirst(k, S) == k \in S /\ \A l \in S : Rank[k] <= Rank[l]

----------------------------------------------------------------------------
(* What the server may do                                                  *)

\* No object of a sandbox that has a Job is taken away, unless a call about
\* the sandbox has failed; and no preserved claim is, ever.
MayRemove(s, k) ==
    \/ k = "job"
    \/ /\ ~Exists(s) \/ s \in marred
       /\ k = "pvc" => s \notin Preserved

\* A start with nothing to show for earlier failures.
Forget(s) ==
    /\ ~Exists(s)
    /\ marred' = marred \ {s}
    /\ UNCHANGED <<objects, born>>

ServerCall(s) ==
    \/ \E k \in Key : CreateJob(s, k)
    \/ \E k \in Rendered \ {"job"} : CreatePart(s, k)
    \/ \E k \in Kinds : MayRemove(s, k) /\ Remove(s, k)
    \/ \E value \in BOOLEAN : Suspend(s, value)
    \/ Mar(s)
    \/ Forget(s)

----------------------------------------------------------------------------
(* What the cleanup of the lifecycle manager may do                        *)

\* It asks nobody before it takes away what a sandbox computes with.
TakeAway(s, k) ==
    IF k \in parts[s]
    THEN /\ parts' = [parts EXCEPT ![s] = @ \ {k}]
         /\ marred' = marred \cup {s}
         /\ UNCHANGED <<job, pods, born>>
    ELSE Remove(s, k)

CleanupCall(s) == \E k \in Compute : TakeAway(s, k)

----------------------------------------------------------------------------
(* What the controllers do                                                 *)

\* A Job that is not suspended and has not ended gets its pod.
PodCreated(s) ==
    /\ Exists(s) /\ ~job[s].suspend /\ job[s].end = "no"
    /\ \A p \in pods[s] : p.key # job[s].key
    /\ pods' = [pods EXCEPT ![s] =
                    @ \cup {[key |-> job[s].key, phase |-> "Pending"]}]
    /\ UNCHANGED <<parts, job, born, marred>>

ChangePod(s, p, phase) ==
    pods' = [pods EXCEPT ![s] = (@ \ {p}) \cup {[p EXCEPT !.phase = phase]}]

PodRuns(s) ==
    /\ \E p \in pods[s] : p.phase = "Pending" /\ ChangePod(s, p, "Running")
    /\ UNCHANGED <<parts, job, born, marred>>

\* The agent server exits, or the pod fails; its Job is not retried.
PodEnds(s) ==
    /\ \E p \in pods[s], end \in {"failed", "complete"} :
        /\ \/ p.phase = "Running"
           \/ p.phase = "Pending" /\ end = "failed"
        /\ ChangePod(s, p, IF end = "failed" THEN "Failed" ELSE "Succeeded")
        /\ job' = IF job[s].key = p.key /\ ~job[s].suspend
                  THEN [job EXCEPT ![s].end = end] ELSE job
    /\ UNCHANGED <<parts, born, marred>>

\* The pod of a Job that is gone or suspended is terminated in the background.
PodGone(s) ==
    /\ \E p \in pods[s] :
        /\ p.key # job[s].key \/ job[s].suspend
        /\ pods' = [pods EXCEPT ![s] = @ \ {p}]
    /\ UNCHANGED <<parts, job, born, marred>>

\* ttlSecondsAfterFinished
JobExpires(s) ==
    /\ Exists(s) /\ job[s].end # "no"
    /\ job' = [job EXCEPT ![s] = NoJob]
    /\ UNCHANGED <<parts, pods, born, marred>>

Controllers(s) ==
    PodCreated(s) \/ PodRuns(s) \/ PodEnds(s) \/ PodGone(s) \/ JobExpires(s)

ServerNext == \E s \in SandboxId : ServerCall(s) \/ Controllers(s)

ClusterNext == ServerNext \/ \E s \in SandboxId : CleanupCall(s)

ClusterSpec == ClusterInit /\ [][ClusterNext]_clusterVars
=============================================================================
