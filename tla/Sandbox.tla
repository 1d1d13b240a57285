------------------------------ MODULE Sandbox ------------------------------
(***************************************************************************)
(* The Kubernetes sandbox service of the OpenHands server: its operations, *)
(* one call to Kubernetes at a time, on the objects of module Cluster.     *)
(*                                                                         *)
(* The service runs in one process on one event loop: its calls to         *)
(* Kubernetes are blocking, so a request keeps the loop (turn) until it    *)
(* awaits or ends, while the controllers and the cleanup of the lifecycle  *)
(* manager, another process, may step in between two calls.  The only      *)
(* await is the sleep of _recreate_sandbox.                                *)
(*                                                                         *)
(* Abstracted: names, labels, hooks and the contents of the manifests; the *)
(* order in which the objects of a sandbox are rendered, which kubenix     *)
(* decides, is any order.                                                  *)
(***************************************************************************)
EXTENDS Cluster

CONSTANTS
    Request,     \* requests the server handles at a time
    NoRequest,
    MaxFaults    \* bound: calls that fail

Ops == {"start", "get", "batch", "resume", "pause", "delete"}
Answers == {"STARTING", "RUNNING", "PAUSED", "ERROR", "none", "yes", "no",
            "raised"}

ASSUME NoRequestAssumption == NoRequest \notin Request
ASSUME SandboxIdAssumption == SandboxId # {}
ASSUME MaxFaultsAssumption == MaxFaults \in Nat

VARIABLES
    req,       \* req[r]: what request r does and how far it has come
    turn,      \* the request that holds the event loop, or NoRequest
    used,      \* session keys generated
    faults

vars == <<clusterVars, req, turn, used, faults>>

Pcs == {"idle", "read", "claim", "clear", "sleep", "render", "apply",
        "pods", "replace", "purge"}

\* todo: the kinds left to delete or to create; seen: the Job as it was read;
\* key: the key a start has generated; given: the key in the answer.
NoRecord == [op |-> "get", sid |-> CHOOSE s \in SandboxId : TRUE,
             pc |-> "idle", todo |-> {}, seen |-> NoJob, key |-> NoKey,
             answer |-> "none", given |-> NoKey]

Record == [op : Ops, sid : SandboxId, pc : Pcs, todo : SUBSET Kinds,
           seen : Job \cup {NoJob}, key : Key \cup {NoKey},
           answer : Answers, given : Key \cup {NoKey}]

TypeOK ==
    /\ ClusterTypeOK
    /\ req \in [Request -> Record]
    /\ turn \in Request \cup {NoRequest}
    /\ used \subseteq Key
    /\ faults \in 0..MaxFaults

Init ==
    /\ ClusterInit
    /\ req = [r \in Request |-> NoRecord]
    /\ turn = NoRequest
    /\ used = {}
    /\ faults = 0

----------------------------------------------------------------------------
(* Requests                                                                *)

\* The call fails with an error other than 404 and 409.
CallFails ==
    /\ faults < MaxFaults
    /\ faults' = faults + 1

CallWorks == UNCHANGED faults

Continue(r, next) ==
    /\ req' = [req EXCEPT ![r] = next]
    /\ UNCHANGED turn

\* The request ends and leaves the loop.  What it worked with is forgotten.
Finish(r, answer, given) ==
    /\ req' = [req EXCEPT ![r] =
                   [NoRecord EXCEPT !.answer = answer, !.given = given]]
    /\ turn' = NoRequest

At(r, pc) == turn = r /\ req[r].pc = pc

\* What an operation does first.
FirstPc(op) ==
    IF op = "start" THEN "render" ELSE IF op = "delete" THEN "purge" ELSE "read"

Unused(s) ==
    /\ parts[s] = {} /\ pods[s] = {} /\ ~Exists(s)
    /\ \A r \in Request : req[r].pc # "idle" => req[r].sid # s

\* A request arrives.  start_sandbox is given a new id.
Begin(r, op, s) ==
    /\ turn = NoRequest
    /\ req[r].pc = "idle"
    /\ op = "start" => Unused(s)
    /\ req' = [req EXCEPT ![r] =
                   [NoRecord EXCEPT !.op = op, !.sid = s, !.pc = FirstPc(op),
                                    !.todo = IF op = "delete" THEN Kinds ELSE {}]]
    /\ turn' = r
    /\ UNCHANGED <<clusterVars, used, faults>>

\* An absent Job is recreated by get_sandbox and resume_sandbox if the
\* workspace claim is still there.
Recreates(op) == op \in {"get", "resume"}

Negative(op) == IF op \in {"get", "batch"} THEN "none" ELSE "no"

ReadJobEndedIsGone(r) ==   \* mutant: a Job that has ended counts as absent
    LET op == req[r].op
        j == job[req[r].sid] IN
    /\ At(r, "read")
    /\ CallWorks
    /\ IF j.end # "no" \/ j = NoJob
       THEN IF Recreates(op)
            THEN Continue(r, [req[r] EXCEPT !.pc = "claim"])
            ELSE Finish(r, Negative(op), NoKey)
       ELSE IF op \in {"get", "batch"}
       THEN Continue(r, [req[r] EXCEPT !.pc = "pods", !.seen = j])
       ELSE Continue(r, [req[r] EXCEPT !.pc = "replace", !.seen = j])
    /\ UNCHANGED <<clusterVars, used>>

\* read_namespaced_job, the first call of get, batch_get, resume and pause.
ReadJob(r) ==
    LET op == req[r].op
        j == job[req[r].sid] IN
    /\ At(r, "read")
    /\ \/ /\ CallFails
          /\ Finish(r, IF op \in {"get", "batch"} THEN "none" ELSE "raised", NoKey)
       \/ /\ CallWorks
          /\ IF j = NoJob
             THEN IF Recreates(op)
                  THEN Continue(r, [req[r] EXCEPT !.pc = "claim"])
                  ELSE Finish(r, Negative(op), NoKey)
             ELSE IF op \in {"get", "batch"}
             THEN Continue(r, [req[r] EXCEPT !.pc = "pods", !.seen = j])
             ELSE IF j.suspend = (op = "pause")
             THEN Finish(r, "yes", NoKey)
             ELSE Continue(r, [req[r] EXCEPT !.pc = "replace", !.seen = j])
    /\ UNCHANGED <<clusterVars, used>>

ReadClaimClearsAll(r) ==   \* mutant: the recreation deletes the claim as well
    /\ At(r, "claim")
    /\ CallWorks
    /\ IF "pvc" \in parts[req[r].sid]
       THEN Continue(r, [req[r] EXCEPT !.pc = "clear", !.todo = Kinds])
       ELSE Finish(r, Negative(req[r].op), NoKey)
    /\ UNCHANGED <<clusterVars, used>>

\* The workspace claim is looked up; any error counts as its absence.
ReadClaim(r) ==
    /\ At(r, "claim")
    /\ \/ /\ CallFails
          /\ Finish(r, Negative(req[r].op), NoKey)
       \/ /\ CallWorks
          /\ IF "pvc" \in parts[req[r].sid]
             THEN Continue(r, [req[r] EXCEPT !.pc = "clear",
                                   !.todo = {"job", "service", "ingress"}])
             ELSE Finish(r, Negative(req[r].op), NoKey)
    /\ UNCHANGED <<clusterVars, used>>

\* _recreate_sandbox deletes what is left of the old sandbox, then sleeps:
\* the loop is free for other requests.
Clear(r) ==
    /\ At(r, "clear")
    /\ IF req[r].todo = {}
       THEN /\ req' = [req EXCEPT ![r].pc = "sleep"]
            /\ turn' = NoRequest
            /\ UNCHANGED <<clusterVars, faults>>
       ELSE \E k \in req[r].todo :
            /\ IsFirst(k, req[r].todo)
            /\ Continue(r, [req[r] EXCEPT !.todo = @ \ {k}])
            /\ \/ CallFails /\ Mar(req[r].sid)
               \/ CallWorks /\ Remove(req[r].sid, k)
    /\ UNCHANGED used

Wake(r) ==
    /\ turn = NoRequest
    /\ req[r].pc = "sleep"
    /\ turn' = r
    /\ req' = [req EXCEPT ![r].pc = "render"]
    /\ UNCHANGED <<clusterVars, used, faults>>

\* A RuntimeError of start_sandbox is caught by _recreate_sandbox.
StartFailed(op) == IF op = "start" THEN "raised" ELSE Negative(op)

\* A session key is generated and the manifests are rendered by nix, which
\* may fail (RuntimeError) or time out.
Render(r) ==
    LET s == req[r].sid IN
    /\ At(r, "render")
    /\ \E k \in Key \ used :
        /\ used' = used \cup {k}
        /\ \/ /\ CallFails
              /\ \/ Finish(r, StartFailed(req[r].op), NoKey)
                 \/ Finish(r, "raised", NoKey)
              /\ UNCHANGED clusterVars
           \/ /\ CallWorks
              /\ Continue(r, [req[r] EXCEPT !.pc = "apply", !.todo = Rendered,
                                            !.key = k])
              /\ IF Exists(s) THEN UNCHANGED clusterVars ELSE Forget(s)

ApplyJobTolerates(r, s) ==   \* mutant: 409 is ignored for the Job, too
    /\ CallWorks
    /\ \/ CreateJob(s, req[r].key)
       \/ Exists(s) /\ UNCHANGED clusterVars
    /\ Continue(r, [req[r] EXCEPT !.todo = @ \ {"job"}])

\* Creating a Job fails if there is one of its name.
ApplyJob(r, s) ==
    \/ /\ CallWorks /\ CreateJob(s, req[r].key)
       /\ Continue(r, [req[r] EXCEPT !.todo = @ \ {"job"}])
    \/ /\ \/ CallWorks /\ Exists(s) /\ UNCHANGED clusterVars
          \/ CallFails /\ Mar(s)
       /\ Finish(r, StartFailed(req[r].op), NoKey)

ApplyPartIfNew(r, s, k) ==   \* mutant: 409 is not ignored for the claim
    IF k = "pvc" /\ k \in parts[s]
    THEN CallWorks /\ Finish(r, "raised", NoKey) /\ UNCHANGED clusterVars
    ELSE /\ CallWorks /\ CreatePart(s, k)
         /\ Continue(r, [req[r] EXCEPT !.todo = @ \ {k}])

\* The other objects may exist already.  If one cannot be created, the start
\* ends for a ServiceAccount and a claim, and goes on for the others.
ApplyPart(r, s, k) ==
    \/ /\ CallWorks /\ CreatePart(s, k)
       /\ Continue(r, [req[r] EXCEPT !.todo = @ \ {k}])
    \/ /\ CallFails /\ Mar(s)
       /\ IF k \in {"sa", "pvc"}
          THEN Finish(r, "raised", NoKey)
          ELSE Continue(r, [req[r] EXCEPT !.todo = @ \ {k}])

\* start_sandbox applies the manifests and answers with the new key, which
\* resume_sandbox does not pass on.
Apply(r) ==
    LET s == req[r].sid IN
    /\ At(r, "apply")
    /\ \/ /\ req[r].todo = {}
          /\ IF req[r].op = "resume"
             THEN Finish(r, "yes", NoKey)
             ELSE Finish(r, "STARTING", req[r].key)
          /\ UNCHANGED <<clusterVars, faults>>
       \/ "job" \in req[r].todo /\ ApplyJob(r, s)
       \/ \E k \in req[r].todo \ {"job"} : ApplyPart(r, s, k)
    /\ UNCHANGED used

\* _job_to_sandbox_info lists the pods of the Job's name and takes the first
\* one; an error of that call counts as no pod.
ListPods(r) ==
    LET j == req[r].seen
        Info(status) ==
            IF j.suspend THEN Finish(r, "PAUSED", NoKey)
            ELSE Finish(r, status, IF status = "RUNNING" THEN j.key ELSE NoKey)
    IN
    /\ At(r, "pods")
    /\ \/ \E p \in pods[req[r].sid] : CallWorks /\ Info(PhaseStatus[p.phase])
       \/ /\ (pods[req[r].sid] = {} /\ CallWorks) \/ CallFails
          /\ Info(IF j.end = "failed" THEN "ERROR" ELSE "STARTING")
    /\ UNCHANGED <<clusterVars, used>>

\* resume and pause write back the Job they have read, with the other value
\* of suspend: refused if it has changed since.
Replace(r) ==
    LET s == req[r].sid IN
    /\ At(r, "replace")
    /\ \/ /\ CallWorks
          /\ job[s] = req[r].seen
          /\ Suspend(s, req[r].op = "pause")
          /\ Finish(r, "yes", NoKey)
       \/ /\ (CallWorks /\ job[s] # req[r].seen) \/ CallFails
          /\ Finish(r, "no", NoKey)
          /\ UNCHANGED clusterVars
    /\ UNCHANGED used

PurgeAll(r) ==   \* mutant: the preserve label is not looked at
    LET s == req[r].sid IN
    /\ At(r, "purge")
    /\ CallWorks
    /\ IF req[r].todo = {}
       THEN Finish(r, "yes", NoKey) /\ UNCHANGED clusterVars
       ELSE \E k \in req[r].todo :
            /\ IsFirst(k, req[r].todo)
            /\ Continue(r, [req[r] EXCEPT !.todo = @ \ {k}])
            /\ Remove(s, k)
    /\ UNCHANGED used

\* delete_sandbox removes every object but a preserved claim; a failed call
\* is logged, and the answer tells whether the Job was deleted.
Purge(r) ==
    LET s == req[r].sid
        After(k, answer) ==
            Continue(r, [req[r] EXCEPT !.todo = @ \ {k}, !.answer = answer]) IN
    /\ At(r, "purge")
    /\ IF req[r].todo = {}
       THEN /\ Finish(r, IF req[r].answer = "yes" THEN "yes" ELSE "no", NoKey)
            /\ UNCHANGED <<clusterVars, faults>>
       ELSE \E k \in req[r].todo :
            /\ IsFirst(k, req[r].todo)
            /\ \/ CallFails /\ Mar(s) /\ After(k, req[r].answer)
               \/ /\ CallWorks
                  /\ After(k, IF k = "job" /\ Exists(s) THEN "yes"
                              ELSE req[r].answer)
                  /\ IF k = "pvc" /\ s \in Preserved
                     THEN UNCHANGED clusterVars
                     ELSE Remove(s, k)
    /\ UNCHANGED used

Server(r) ==
    \/ \E op \in Ops, s \in SandboxId : Begin(r, op, s)
    \/ ReadJob(r) \/ ReadClaim(r) \/ Clear(r) \/ Wake(r) \/ Render(r)
    \/ Apply(r) \/ ListPods(r) \/ Replace(r) \/ Purge(r)

Next ==
    \/ \E r \in Request : Server(r)
    \/ \E s \in SandboxId :
        /\ Controllers(s) \/ CleanupCall(s)
        /\ UNCHANGED <<req, turn, used, faults>>

Spec == Init /\ [][Next]_vars

----------------------------------------------------------------------------
(* Properties                                                              *)

Applying(s) == \E r \in Request : req[r].pc = "apply" /\ req[r].sid = s

\* A Job has its ServiceAccount, claim, Service and Ingress, unless a start
\* is still creating them, a call about one of them failed, or another
\* process took one away: the server's own operations, however they
\* interleave at the sleep of a recreation (kubernetes_sandbox.py:507), never
\* leave a Job that cannot run or be reached.
JobIsServed ==
    \A s \in SandboxId :
        Exists(s) /\ s \notin marred /\ ~Applying(s)
            => Rendered \ {"job"} \subseteq parts[s]

\* A session key that get_sandbox, resume_sandbox or start_sandbox hands out
\* is the key of a Job that was created: of two recreations, the one that
\* finds the Job of the other hands out nothing (kubernetes_sandbox.py:224).
KeyOpensSandbox ==
    \A r \in Request : req[r].given # NoKey => req[r].given \in born

\* The deletions with which a recreation begins never delete a Job: there was
\* none when the request looked, and no other request can have created one,
\* because nothing is awaited in between (kubernetes_sandbox.py:480).
RecreateSparesJob ==
    [][\A r \in Request :
        req[r].pc = "clear" /\ req'[r] # req[r] => job' = job]_vars

\* The workspace of a sandbox goes only when the sandbox is deleted, and not
\* even then if it is preserved: neither the recreation of a lost Job nor a
\* start that fails half way nor the cleanup takes the claim, whatever steps
\* in between (kubernetes_sandbox.py:480, :632).
OnlyDeleteTakesClaim ==
    [][\A s \in SandboxId :
        "pvc" \in parts[s] /\ "pvc" \notin parts'[s]
            => /\ s \notin Preserved
               /\ \E r \in Request : At(r, "purge") /\ req[r].sid = s]_vars

\* The server keeps the contract of module Cluster: between any two awaits it
\* takes nothing away from a sandbox that has a Job unless a call failed, it
\* never takes away a claim with the preserve label, and it starts every Job
\* under a new key.
KeepsContract == ClusterSpec

\* A request keeps the event loop but where it sleeps.  What it has found out
\* or done about its sandbox holds until it lets the loop go.
RequestIsSound(r) ==
    LET q == req[r]
        s == req[r].sid IN
    /\ q.pc \notin {"idle", "sleep"} => turn = r
    /\ q.pc \in {"claim", "clear"} => ~Exists(s)
    /\ q.pc = "clear" => q.todo \subseteq {"job", "service", "ingress"}
    /\ q.pc \in {"pods", "replace"} => q.seen.key \in born
    /\ q.pc = "apply" =>
        /\ q.todo \subseteq Rendered
        /\ q.key \in used
        /\ q.key \in born <=> "job" \notin q.todo
        /\ s \notin marred =>
            /\ Rendered \ (q.todo \cup {"job"}) \subseteq parts[s]
            /\ "job" \in q.todo /\ Exists(s) => Rendered \ {"job"} \subseteq parts[s]
    /\ q.pc = "purge" /\ "job" \notin q.todo /\ s \notin marred => ~Exists(s)
    /\ q.given # NoKey => q.given \in born

\* A Job has been created, and under a key that was generated.
KeysAreBorn ==
    /\ born \subseteq used
    /\ \A s \in SandboxId : Exists(s) => job[s].key \in born

\* The invariant that every step preserves, and which implies the others.
IInv ==
    /\ TypeOK
    /\ KeysAreBorn
    /\ JobIsServed
    /\ \A r \in Request : RequestIsSound(r)
=============================================================================
