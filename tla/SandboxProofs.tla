--------------------------- MODULE SandboxProofs ---------------------------
(***************************************************************************)
(* Proofs about Sandbox for any sets of sandboxes, requests, session keys, *)
(* rendered and preserved objects, and any number of failed calls.         *)
(***************************************************************************)
EXTENDS Sandbox, TLAPS

USE DEF objects, Exists

-----------------------------------------------------------------------------
(* Data.                                                                   *)

LEMMA NoJobIsNoJob == NoJob \notin Job /\ NoJob.key = NoKey
BY KeyAssumption DEF NoJob, Job

LEMMA NewJobIsJob ==
    ASSUME NEW k \in Key
    PROVE  NewJob(k) \in Job /\ NewJob(k).key = k /\ NewJob(k) # NoJob
<1>1. NewJob(k) \in Job /\ NewJob(k).key = k
  BY DEF NewJob, Job
<1> QED
  BY <1>1, NoJobIsNoJob

LEMMA NoRecordIsRecord ==
    /\ NoRecord \in Record
    /\ NoRecord.pc = "idle" /\ NoRecord.given = NoKey
<1>1. (CHOOSE s \in SandboxId : TRUE) \in SandboxId
  BY SandboxIdAssumption
<1> QED
  BY <1>1 DEF NoRecord, Record, Ops, Pcs, Answers

LEMMA InitInv == Init => IInv
<1> SUFFICES ASSUME Init PROVE IInv
  OBVIOUS
<1>1. TypeOK
  BY NoRecordIsRecord, RenderedAssumption, MaxFaultsAssumption
  DEF Init, ClusterInit, TypeOK, ClusterTypeOK, Kinds
<1>2. KeysAreBorn /\ JobIsServed
  BY DEF Init, ClusterInit, KeysAreBorn, JobIsServed
<1>3. \A r \in Request : RequestIsSound(r)
  BY NoRecordIsRecord DEF Init, RequestIsSound
<1> QED
  BY <1>1, <1>2, <1>3 DEF IInv

-----------------------------------------------------------------------------
(* The controllers.                                                        *)

\* They create no Job, change no Job's key and touch nothing but Jobs and
\* pods.
LEMMA ControllersKeep ==
    ASSUME ClusterTypeOK, NEW s \in SandboxId, Controllers(s)
    PROVE  /\ ClusterTypeOK'
           /\ UNCHANGED <<parts, born, marred>>
           /\ \A t \in SandboxId :
                Exists(t)' => Exists(t) /\ job'[t].key = job[t].key
<1>1. CASE PodCreated(s)
  <2>1. job[s] \in Job
    BY <1>1 DEF PodCreated, ClusterTypeOK
  <2>2. [key |-> job[s].key, phase |-> "Pending"] \in Pod
    BY <2>1 DEF Job, Pod
  <2> QED
    BY <1>1, <2>2 DEF PodCreated, ClusterTypeOK
<1>2. CASE PodRuns(s)
  BY <1>2 DEF PodRuns, ChangePod, ClusterTypeOK, Pod
<1>3. CASE PodEnds(s)
  <2>1. PICK p \in pods[s], end \in {"failed", "complete"} :
            /\ ChangePod(s, p, IF end = "failed" THEN "Failed" ELSE "Succeeded")
            /\ job' = IF job[s].key = p.key /\ ~job[s].suspend
                      THEN [job EXCEPT ![s].end = end] ELSE job
    BY <1>3 DEF PodEnds
  <2>2. p \in Pod /\ p.key \in Key
    BY DEF ClusterTypeOK, Pod
  <2>3. pods' \in [SandboxId -> SUBSET Pod] /\ UNCHANGED <<parts, born, marred>>
    BY <1>3, <2>1, <2>2 DEF PodEnds, ChangePod, ClusterTypeOK, Pod
  <2>4. CASE job[s].key = p.key /\ ~job[s].suspend
    <3>1. job[s] # NoJob /\ job[s] \in Job
      BY <2>2, <2>4, NoJobIsNoJob, KeyAssumption DEF ClusterTypeOK
    <3>2. [job[s] EXCEPT !.end = end] \in Job
      BY <3>1 DEF Job
    <3>3. job' = [job EXCEPT ![s] = [job[s] EXCEPT !.end = end]]
      BY <2>1, <2>4
    <3> QED
      BY <2>3, <3>1, <3>2, <3>3 DEF ClusterTypeOK, Job
  <2>5. CASE ~(job[s].key = p.key /\ ~job[s].suspend)
    BY <2>1, <2>3, <2>5 DEF ClusterTypeOK
  <2> QED
    BY <2>4, <2>5
<1>4. CASE PodGone(s)
  BY <1>4 DEF PodGone, ClusterTypeOK
<1>5. CASE JobExpires(s)
  BY <1>5 DEF JobExpires, ClusterTypeOK
<1> QED
  BY <1>1, <1>2, <1>3, <1>4, <1>5 DEF Controllers

LEMMA ControllersStep ==
    ASSUME IInv, NEW s \in SandboxId, Controllers(s),
           UNCHANGED <<req, turn, used, faults>>
    PROVE  IInv'
<1>1. /\ ClusterTypeOK' /\ UNCHANGED <<parts, born, marred>>
      /\ \A t \in SandboxId :
            Exists(t)' => Exists(t) /\ job'[t].key = job[t].key
  BY ControllersKeep DEF IInv, TypeOK
<1>2. TypeOK'
  BY <1>1 DEF IInv, TypeOK
<1>3. KeysAreBorn'
  BY <1>1 DEF IInv, KeysAreBorn
<1>4. JobIsServed'
  BY <1>1 DEF IInv, JobIsServed, Applying
<1>5. ASSUME NEW r \in Request PROVE RequestIsSound(r)'
  <2>1. req[r].sid \in SandboxId /\ RequestIsSound(r)
    BY DEF IInv, TypeOK, Record
  <2> QED
    BY <1>1, <2>1 DEF RequestIsSound
<1> QED
  BY <1>2, <1>3, <1>4, <1>5 DEF IInv

-----------------------------------------------------------------------------
(* The cleanup of the lifecycle manager.                                   *)

\* It creates nothing, and a sandbox that loses a part to it is marred.
LEMMA TakeAwayEffect ==
    ASSUME ClusterTypeOK, NEW s \in SandboxId, NEW k \in Compute, TakeAway(s, k)
    PROVE  /\ ClusterTypeOK' /\ UNCHANGED <<pods, born>>
           /\ marred \subseteq marred'
           /\ \A t \in SandboxId :
                /\ job'[t] = job[t] \/ ~Exists(t)'
                /\ parts'[t] = parts[t] \/ t \in marred'
                /\ "pvc" \in parts[t] => "pvc" \in parts'[t]
<1>1. CASE k \in parts[s]
  <2>1. /\ parts' = [parts EXCEPT ![s] = @ \ {k}]
        /\ marred' = marred \cup {s} /\ UNCHANGED <<job, pods, born>>
    BY <1>1 DEF TakeAway
  <2>2. k # "pvc"
    BY DEF Compute
  <2> QED
    BY <2>1, <2>2 DEF ClusterTypeOK
<1>2. CASE k \notin parts[s]
  <2>1. Remove(s, k)
    BY <1>2 DEF TakeAway
  <2>2. CASE k = "job"
    BY <2>1, <2>2 DEF Remove, ClusterTypeOK
  <2>3. CASE k # "job"
    BY <1>2, <2>1, <2>3 DEF Remove, ClusterTypeOK
  <2> QED
    BY <2>2, <2>3
<1> QED
  BY <1>1, <1>2

\* What the cleanup takes away is nothing a request relies on, or it is
\* remembered that the sandbox is marred.
LEMMA CleanupStep ==
    ASSUME IInv, NEW s \in SandboxId, CleanupCall(s),
           UNCHANGED <<req, turn, used, faults>>
    PROVE  IInv'
<1>1. /\ ClusterTypeOK' /\ born' = born /\ marred \subseteq marred'
      /\ \A t \in SandboxId :
            /\ job'[t] = job[t] \/ ~Exists(t)'
            /\ parts'[t] = parts[t] \/ t \in marred'
  BY TakeAwayEffect DEF CleanupCall, IInv, TypeOK
<1>2. TypeOK'
  BY <1>1 DEF IInv, TypeOK
<1>3. KeysAreBorn'
  BY <1>1 DEF IInv, KeysAreBorn
<1>4. JobIsServed'
  BY <1>1 DEF IInv, JobIsServed, Applying
<1>5. ASSUME NEW r \in Request PROVE RequestIsSound(r)'
  <2>1. req[r].sid \in SandboxId /\ RequestIsSound(r)
    BY DEF IInv, TypeOK, Record
  <2> QED
    BY <1>1, <2>1 DEF RequestIsSound
<1> QED
  BY <1>2, <1>3, <1>4, <1>5 DEF IInv

-----------------------------------------------------------------------------
(* The requests.                                                           *)

\* While one request works, or none does, the others sleep or are idle; what
\* is said of them does not change.
LEMMA OthersAreSound ==
    ASSUME IInv, NEW r \in Request, turn \in {r, NoRequest},
           NEW q \in Request \ {r}, req'[q] = req[q], born \subseteq born'
    PROVE  RequestIsSound(q)' /\ req[q].pc \in {"idle", "sleep"}
<1>1. RequestIsSound(q) /\ turn # q
  BY NoRequestAssumption DEF IInv
<1>2. req[q].pc \in {"idle", "sleep"}
  BY <1>1 DEF RequestIsSound
<1> QED
  BY <1>1, <1>2 DEF RequestIsSound

\* A request that ends has nothing to keep but the key it hands out.
LEMMA FinishIsSound ==
    ASSUME IInv, NEW r \in Request, NEW answer \in Answers,
           NEW given \in Key \cup {NoKey}, Finish(r, answer, given),
           given # NoKey => given \in born'
    PROVE  /\ RequestIsSound(r)' /\ req' \in [Request -> Record]
           /\ turn' \in Request \cup {NoRequest}
           /\ \A q \in Request \ {r} : req'[q] = req[q]
           /\ req'[r].pc = "idle"
<1> DEFINE next == [NoRecord EXCEPT !.answer = answer, !.given = given]
<1>1. /\ next \in Record /\ next.pc = "idle" /\ next.given = given
  BY NoRecordIsRecord DEF Record
<1>2. req' = [req EXCEPT ![r] = next] /\ turn' = NoRequest
  BY DEF Finish
<1> HIDE DEF next
<1>3. req' \in [Request -> Record] /\ req'[r] = next
  BY <1>1, <1>2 DEF IInv, TypeOK
<1>4. RequestIsSound(r)'
  BY <1>1, <1>3 DEF RequestIsSound
<1> QED
  BY <1>1, <1>2, <1>3, <1>4 DEF IInv, TypeOK

\* A request that ends without an effect on Kubernetes, when it is not the one
\* that creates the objects of a Job.
LEMMA QuietEnd ==
    ASSUME IInv, NEW r \in Request, turn \in {r, NoRequest},
           NEW answer \in Answers, NEW given \in Key \cup {NoKey},
           Finish(r, answer, given), given # NoKey => given \in born,
           UNCHANGED clusterVars, used \subseteq used', used' \subseteq Key,
           faults' \in 0..MaxFaults,
           LET s == req[r].sid IN
           req[r].pc = "apply" /\ Exists(s) /\ s \notin marred
               => Rendered \ {"job"} \subseteq parts[s]
    PROVE  IInv'
<1>1. UNCHANGED <<parts, job, pods, born, marred>>
  BY DEF clusterVars
<1>2. /\ RequestIsSound(r)' /\ req' \in [Request -> Record]
      /\ turn' \in Request \cup {NoRequest}
      /\ \A q \in Request \ {r} : req'[q] = req[q]
      /\ req'[r].pc = "idle"
  BY <1>1, FinishIsSound
<1>3. TypeOK'
  BY <1>1, <1>2 DEF IInv, TypeOK, ClusterTypeOK
<1>4. KeysAreBorn'
  BY <1>1 DEF IInv, KeysAreBorn
<1>5. JobIsServed'
  <2> SUFFICES ASSUME NEW s \in SandboxId, Exists(s), s \notin marred,
                      \A q \in Request : ~(req'[q].pc = "apply" /\ req'[q].sid = s)
               PROVE  Rendered \ {"job"} \subseteq parts[s]
    BY <1>1 DEF JobIsServed, Applying
  <2>1. CASE req[r].pc = "apply" /\ req[r].sid = s
    BY <2>1
  <2>2. CASE ~(req[r].pc = "apply" /\ req[r].sid = s)
    <3>1. ~Applying(s)
      BY <1>2, <2>2 DEF Applying
    <3> QED
      BY <3>1 DEF IInv, JobIsServed
  <2> QED
    BY <2>1, <2>2
<1>6. \A q \in Request : RequestIsSound(q)'
  BY <1>1, <1>2, OthersAreSound
<1> QED
  BY <1>3, <1>4, <1>5, <1>6 DEF IInv

\* A request that goes on without an effect on Kubernetes.
LEMMA QuietStep ==
    ASSUME IInv, NEW r \in Request, turn \in {r, NoRequest}, NEW next \in Record,
           req' = [req EXCEPT ![r] = next], turn' \in Request \cup {NoRequest},
           UNCHANGED clusterVars, UNCHANGED <<used, faults>>,
           RequestIsSound(r)', req[r].pc # "apply"
    PROVE  IInv'
<1>1. UNCHANGED <<parts, job, pods, born, marred>>
  BY DEF clusterVars
<1>2. /\ req' \in [Request -> Record]
      /\ \A q \in Request \ {r} : req'[q] = req[q]
  BY DEF IInv, TypeOK
<1>3. TypeOK'
  BY <1>1, <1>2 DEF IInv, TypeOK, ClusterTypeOK
<1>4. KeysAreBorn'
  BY <1>1 DEF IInv, KeysAreBorn
<1>5. JobIsServed'
  <2> SUFFICES ASSUME NEW s \in SandboxId, ~Applying(s)' PROVE ~Applying(s)
    BY <1>1 DEF IInv, JobIsServed
  <2> QED
    BY <1>2 DEF Applying
<1>6. \A q \in Request : RequestIsSound(q)'
  BY <1>1, <1>2, OthersAreSound
<1> QED
  BY <1>3, <1>4, <1>5, <1>6 DEF IInv

LEMMA AtHasTurn ==
    ASSUME IInv, NEW r \in Request, NEW pc, At(r, pc)
    PROVE  /\ turn = r /\ req[r].pc = pc /\ req[r] \in Record
           /\ req[r].sid \in SandboxId /\ RequestIsSound(r)
BY DEF IInv, TypeOK, At, Record

LEMMA FaultsType ==
    ASSUME IInv, CallFails \/ CallWorks
    PROVE  faults' \in 0..MaxFaults
BY MaxFaultsAssumption DEF IInv, TypeOK, CallFails, CallWorks

LEMMA BeginStep ==
    ASSUME IInv, NEW r \in Request, NEW op \in Ops, NEW s \in SandboxId,
           Begin(r, op, s)
    PROVE  IInv'
<1> DEFINE next == [NoRecord EXCEPT !.op = op, !.sid = s, !.pc = FirstPc(op),
                        !.todo = IF op = "delete" THEN Kinds ELSE {}]
<1>1. /\ next \in Record /\ next.sid = s /\ next.given = NoKey
      /\ next.pc \in {"render", "purge", "read"}
      /\ next.pc = "purge" => "job" \in next.todo
  BY NoRecordIsRecord DEF Record, FirstPc, Pcs, Kinds
<1> HIDE DEF next
<1>2. /\ turn = NoRequest /\ turn' = r /\ req[r].pc = "idle"
      /\ req' = [req EXCEPT ![r] = next]
      /\ UNCHANGED clusterVars /\ UNCHANGED <<used, faults>>
  BY DEF Begin, next
<1>3. req'[r] = next
  BY <1>2 DEF IInv, TypeOK
<1>4. RequestIsSound(r)'
  BY <1>1, <1>2, <1>3 DEF RequestIsSound
<1> QED
  BY <1>1, <1>2, <1>4, QuietStep

LEMMA ReadJobStep ==
    ASSUME IInv, NEW r \in Request, ReadJob(r)
    PROVE  IInv'
<1> DEFINE j == job[req[r].sid]
<1>1. /\ turn = r /\ req[r].pc = "read" /\ req[r] \in Record
      /\ req[r].sid \in SandboxId /\ RequestIsSound(r)
      /\ UNCHANGED clusterVars /\ UNCHANGED used /\ used \subseteq Key
  BY AtHasTurn DEF ReadJob, IInv, TypeOK
<1>2. j \in Job \cup {NoJob} /\ UNCHANGED <<parts, job, pods, born, marred>>
  BY <1>1 DEF IInv, TypeOK, ClusterTypeOK, clusterVars
<1>3. ASSUME NEW answer \in Answers, Finish(r, answer, NoKey),
             faults' \in 0..MaxFaults
      PROVE  IInv'
  BY <1>1, <1>3, QuietEnd
<1>4. {"none", "no", "yes", "raised"} \subseteq Answers
      /\ Negative(req[r].op) \in {"none", "no"}
  BY DEF Answers, Negative
<1>5. ASSUME CallFails \/ CallWorks PROVE faults' \in 0..MaxFaults
  BY <1>5, FaultsType
<1>6. ASSUME NEW next \in Record, Continue(r, next), CallWorks,
             next.sid = req[r].sid, next.given = req[r].given,
             \/ next.pc = "claim" /\ j = NoJob
             \/ next.pc \in {"pods", "replace"} /\ next.seen = j /\ j # NoJob
      PROVE  IInv'
  <2>1. req' = [req EXCEPT ![r] = next] /\ req'[r] = next /\ turn' = turn
    BY <1>6 DEF Continue, IInv, TypeOK
  <2>2. j # NoJob => j.key \in born
    BY <1>1 DEF IInv, KeysAreBorn
  <2>3. RequestIsSound(r)'
    BY <1>1, <1>2, <1>6, <2>1, <2>2 DEF RequestIsSound
  <2> QED
    BY <1>1, <1>6, <2>1, <2>3, QuietStep DEF CallWorks
<1>7. /\ [req[r] EXCEPT !.pc = "claim"] \in Record
      /\ [req[r] EXCEPT !.pc = "pods", !.seen = j] \in Record
      /\ [req[r] EXCEPT !.pc = "replace", !.seen = j] \in Record
  BY <1>1, <1>2 DEF Record, Pcs
<1>8. CASE /\ CallFails
           /\ \/ Finish(r, "none", NoKey) \/ Finish(r, "raised", NoKey)
  BY <1>3, <1>4, <1>5, <1>8
<1>9. CASE CallWorks
  <2>1. CASE j = NoJob
    <3>1. [req[r] EXCEPT !.pc = "claim"].sid = req[r].sid
          /\ [req[r] EXCEPT !.pc = "claim"].given = req[r].given
          /\ [req[r] EXCEPT !.pc = "claim"].pc = "claim"
      BY <1>1 DEF Record
    <3> QED
      BY <1>3, <1>4, <1>5, <1>6, <1>7, <1>9, <2>1, <3>1 DEF ReadJob
  <2>2. CASE j # NoJob
    <3> DEFINE p == [req[r] EXCEPT !.pc = "pods", !.seen = j]
               w == [req[r] EXCEPT !.pc = "replace", !.seen = j]
    <3>1. /\ p.sid = req[r].sid /\ p.given = req[r].given
          /\ p.pc = "pods" /\ p.seen = j
          /\ w.sid = req[r].sid /\ w.given = req[r].given
          /\ w.pc = "replace" /\ w.seen = j
      BY <1>1 DEF Record
    <3>2. \/ Finish(r, "none", NoKey) \/ Finish(r, "raised", NoKey)
          \/ Finish(r, "yes", NoKey) \/ Continue(r, p) \/ Continue(r, w)
      BY <2>2 DEF ReadJob
    <3>3. p \in Record /\ w \in Record
      BY <1>7
    <3> HIDE DEF p, w
    <3>4. CASE Continue(r, p)
      BY <1>6, <1>9, <2>2, <3>1, <3>3, <3>4
    <3>5. CASE Continue(r, w)
      BY <1>6, <1>9, <2>2, <3>1, <3>3, <3>5
    <3> QED
      BY <1>3, <1>4, <1>5, <1>9, <3>2, <3>4, <3>5
  <2> QED
    BY <2>1, <2>2
<1> QED
  BY <1>8, <1>9 DEF ReadJob

LEMMA ReadClaimStep ==
    ASSUME IInv, NEW r \in Request, ReadClaim(r)
    PROVE  IInv'
<1> DEFINE next == [req[r] EXCEPT !.pc = "clear",
                                  !.todo = {"job", "service", "ingress"}]
<1>1. /\ turn = r /\ req[r].pc = "claim" /\ req[r] \in Record
      /\ req[r].sid \in SandboxId /\ RequestIsSound(r)
      /\ UNCHANGED clusterVars /\ UNCHANGED used /\ used \subseteq Key
  BY AtHasTurn DEF ReadClaim, IInv, TypeOK
<1>2. CASE Finish(r, Negative(req[r].op), NoKey)
  <2>1. Negative(req[r].op) \in Answers /\ faults' \in 0..MaxFaults
    BY FaultsType DEF ReadClaim, Answers, Negative
  <2> QED
    BY <1>1, <1>2, <2>1, QuietEnd
<1>3. CASE Continue(r, next) /\ CallWorks
  <2>1. /\ next \in Record /\ next.sid = req[r].sid /\ next.pc = "clear"
        /\ next.todo = {"job", "service", "ingress"}
        /\ next.given = req[r].given
    BY <1>1 DEF Record, Pcs, Kinds, Parts
  <2> HIDE DEF next
  <2>2. req' = [req EXCEPT ![r] = next] /\ req'[r] = next /\ turn' = turn
    BY <1>3 DEF Continue, IInv, TypeOK
  <2>3. RequestIsSound(r)'
    BY <1>1, <2>1, <2>2 DEF RequestIsSound, clusterVars
  <2> QED
    BY <1>1, <1>3, <2>1, <2>2, <2>3, QuietStep DEF CallWorks
<1> QED
  BY <1>2, <1>3 DEF ReadClaim

LEMMA ListPodsStep ==
    ASSUME IInv, NEW r \in Request, ListPods(r)
    PROVE  IInv'
<1> DEFINE j == req[r].seen
<1>1. /\ turn = r /\ req[r].pc = "pods" /\ req[r] \in Record
      /\ RequestIsSound(r)
      /\ UNCHANGED clusterVars /\ UNCHANGED used /\ used \subseteq Key
      /\ faults' \in 0..MaxFaults
  BY AtHasTurn, FaultsType DEF ListPods, IInv, TypeOK
<1>2. j.key \in born /\ j.key \in Key
  BY <1>1 DEF RequestIsSound, IInv, TypeOK, ClusterTypeOK
<1>3. ASSUME NEW status \in Answers, NEW given \in {j.key, NoKey},
             Finish(r, status, given)
      PROVE  IInv'
  BY <1>1, <1>2, <1>3, QuietEnd
<1>4. PICK status \in Answers, given \in {j.key, NoKey} : Finish(r, status, given)
  <2>1. {"STARTING", "RUNNING", "PAUSED", "ERROR"} \subseteq Answers
    BY DEF Answers
  <2>2. CASE j.suspend
    BY <2>1, <2>2 DEF ListPods
  <2>3. CASE ~j.suspend
    <3>1. CASE \E p \in pods[req[r].sid] :
                 Finish(r, PhaseStatus[p.phase],
                        IF PhaseStatus[p.phase] = "RUNNING" THEN j.key ELSE NoKey)
      <4>1. PICK p \in pods[req[r].sid] :
                 Finish(r, PhaseStatus[p.phase],
                        IF PhaseStatus[p.phase] = "RUNNING" THEN j.key ELSE NoKey)
        BY <3>1
      <4>2. p.phase \in {"Pending", "Running", "Failed", "Succeeded"}
        BY <1>1 DEF IInv, TypeOK, ClusterTypeOK, Pod, Record
      <4>3. PhaseStatus[p.phase] \in Answers
        BY <2>1, <4>2 DEF PhaseStatus
      <4> QED
        BY <4>1, <4>3
    <3>2. CASE \E status \in {"ERROR", "STARTING"} : Finish(r, status, NoKey)
      BY <2>1, <3>2
    <3>3. \/ \E p \in pods[req[r].sid] :
                 Finish(r, PhaseStatus[p.phase],
                        IF PhaseStatus[p.phase] = "RUNNING" THEN j.key ELSE NoKey)
          \/ \E status \in {"ERROR", "STARTING"} : Finish(r, status, NoKey)
      BY <2>3 DEF ListPods
    <3> QED
      BY <3>1, <3>2, <3>3
  <2> QED
    BY <2>2, <2>3
<1> QED
  BY <1>3, <1>4

LEMMA WakeStep ==
    ASSUME IInv, NEW r \in Request, Wake(r)
    PROVE  IInv'
<1> DEFINE next == [req[r] EXCEPT !.pc = "render"]
<1>1. /\ turn = NoRequest /\ turn' = r /\ req[r].pc = "sleep"
      /\ req[r] \in Record /\ RequestIsSound(r)
      /\ req' = [req EXCEPT ![r] = next]
      /\ UNCHANGED clusterVars /\ UNCHANGED <<used, faults>>
  BY DEF Wake, IInv, TypeOK
<1>2. next \in Record /\ next.pc = "render" /\ next.given = req[r].given
  BY <1>1 DEF Record, Pcs
<1> HIDE DEF next
<1>3. req'[r] = next
  BY <1>1 DEF IInv, TypeOK
<1>4. RequestIsSound(r)'
  BY <1>1, <1>2, <1>3 DEF RequestIsSound, clusterVars
<1> QED
  BY <1>1, <1>2, <1>4, QuietStep

-----------------------------------------------------------------------------
(* The steps that call Kubernetes.                                         *)

LEMMA OthersWait ==
    ASSUME IInv, NEW r \in Request, turn = r, NEW q \in Request \ {r}
    PROVE  req[q].pc \in {"idle", "sleep"}
BY NoRequestAssumption DEF IInv, RequestIsSound

\* A call of request r about its sandbox changes no other sandbox.
LEMMA WorkStep ==
    ASSUME IInv, NEW r \in Request, turn = r, NEW next \in Record,
           req' = [req EXCEPT ![r] = next], turn' \in {r, NoRequest},
           ClusterTypeOK', used \subseteq used', used' \subseteq Key,
           faults' \in 0..MaxFaults,
           born \subseteq born', born' \subseteq used',
           NEW s \in SandboxId, s = req[r].sid,
           next.pc = "apply" => next.sid = s,
           \A t \in SandboxId \ {s} :
               /\ job'[t] = job[t] /\ parts'[t] = parts[t]
               /\ t \in marred' <=> t \in marred,
           Exists(s)' => job'[s].key \in born',
           Exists(s)' /\ s \notin marred' /\ next.pc # "apply"
               => Rendered \ {"job"} \subseteq parts'[s],
           RequestIsSound(r)'
    PROVE  IInv'
<1>1. /\ req' \in [Request -> Record] /\ req'[r] = next
      /\ \A q \in Request \ {r} : req'[q] = req[q]
  BY DEF IInv, TypeOK
<1>2. TypeOK'
  BY <1>1 DEF IInv, TypeOK
<1>3. KeysAreBorn'
  BY DEF IInv, KeysAreBorn
<1>4. JobIsServed'
  <2> SUFFICES ASSUME NEW t \in SandboxId,
                      Exists(t)', t \notin marred', ~Applying(t)'
               PROVE  Rendered \ {"job"} \subseteq parts'[t]
    BY DEF JobIsServed
  <2>1. CASE t = s
    <3>1. next.pc # "apply"
      BY <1>1, <2>1 DEF Applying
    <3> QED
      BY <2>1, <3>1
  <2>2. CASE t # s
    <3>1. \A q \in Request \ {r} : req[q].pc # "apply"
      BY OthersWait
    <3>2. ~Applying(t)
      BY <2>2, <3>1 DEF Applying
    <3> QED
      BY <2>2, <3>2 DEF IInv, JobIsServed
  <2> QED
    BY <2>1, <2>2
<1>5. \A q \in Request : RequestIsSound(q)'
  BY <1>1, OthersAreSound
<1> QED
  BY <1>2, <1>3, <1>4, <1>5 DEF IInv

\* What the calls to Kubernetes change.
LEMMA RemoveEffect ==
    ASSUME ClusterTypeOK, NEW s \in SandboxId, NEW k \in Kinds, Remove(s, k)
    PROVE  /\ ClusterTypeOK' /\ UNCHANGED <<pods, born, marred>>
           /\ \A t \in SandboxId \ {s} : job'[t] = job[t] /\ parts'[t] = parts[t]
           /\ k = "job" => ~Exists(s)' /\ parts' = parts
           /\ k # "job" => job' = job
<1>1. CASE k = "job"
  BY <1>1 DEF Remove, ClusterTypeOK
<1>2. CASE k # "job"
  BY <1>2 DEF Remove, ClusterTypeOK
<1> QED
  BY <1>1, <1>2

LEMMA MarEffect ==
    ASSUME ClusterTypeOK, NEW s \in SandboxId, Mar(s)
    PROVE  /\ ClusterTypeOK' /\ UNCHANGED <<parts, job, pods, born>>
           /\ s \in marred' /\ marred' = marred \cup {s}
BY DEF Mar, ClusterTypeOK

LEMMA ClearStep ==
    ASSUME IInv, NEW r \in Request, Clear(r),
           NEW s \in SandboxId, s = req[r].sid
    PROVE  IInv'
<1>1. /\ turn = r /\ req[r].pc = "clear" /\ req[r] \in Record
      /\ s \in SandboxId /\ RequestIsSound(r)
      /\ UNCHANGED used /\ used \subseteq Key /\ ClusterTypeOK
  BY AtHasTurn DEF Clear, IInv, TypeOK
<1>2. CASE req[r].todo = {}
  <2> DEFINE next == [req[r] EXCEPT !.pc = "sleep"]
  <2>1. next \in Record /\ next.pc = "sleep" /\ next.given = req[r].given
    BY <1>1 DEF Record, Pcs
  <2>2. /\ req' = [req EXCEPT ![r] = next] /\ turn' = NoRequest
        /\ UNCHANGED clusterVars /\ UNCHANGED faults
    BY <1>2 DEF Clear
  <2> HIDE DEF next
  <2>3. req'[r] = next
    BY <2>2 DEF IInv, TypeOK
  <2>4. RequestIsSound(r)'
    BY <1>1, <2>1, <2>2, <2>3 DEF RequestIsSound, clusterVars
  <2> QED
    BY <1>1, <2>1, <2>2, <2>4, QuietStep
<1>3. CASE req[r].todo # {}
  <2>1. PICK k \in req[r].todo :
            /\ Continue(r, [req[r] EXCEPT !.todo = @ \ {k}])
            /\ \/ CallFails /\ Mar(s)
               \/ CallWorks /\ Remove(s, k)
    BY <1>3 DEF Clear
  <2> DEFINE next == [req[r] EXCEPT !.todo = @ \ {k}]
  <2>2. /\ next \in Record /\ next.pc = "clear" /\ next.sid = s
        /\ next.given = req[r].given
        /\ next.todo \subseteq {"job", "service", "ingress"}
    BY <1>1 DEF Record, RequestIsSound
  <2>3. req' = [req EXCEPT ![r] = next] /\ turn' = turn
    BY <2>1 DEF Continue
  <2> HIDE DEF next
  <2>4. req'[r] = next /\ k \in Kinds /\ faults' \in 0..MaxFaults
    BY <1>1, <2>1, <2>3, FaultsType DEF IInv, TypeOK, Record
  <2>5. /\ ClusterTypeOK' /\ born' = born /\ ~Exists(s)'
        /\ \A t \in SandboxId \ {s} :
            /\ job'[t] = job[t] /\ parts'[t] = parts[t]
            /\ t \in marred' <=> t \in marred
    <3>1. ~Exists(s)
      BY <1>1 DEF RequestIsSound
    <3>2. CASE Mar(s)
      BY <1>1, <3>1, <3>2, MarEffect
    <3>3. CASE Remove(s, k)
      BY <1>1, <2>4, <3>1, <3>3, RemoveEffect
    <3> QED
      BY <2>1, <3>2, <3>3
  <2>6. RequestIsSound(r)'
    BY <1>1, <2>2, <2>3, <2>4, <2>5 DEF RequestIsSound
  <2>7. born \subseteq used
    BY DEF IInv, KeysAreBorn
  <2> QED
    BY <1>1, <2>2, <2>3, <2>4, <2>5, <2>6, <2>7, WorkStep
<1> QED
  BY <1>2, <1>3

LEMMA RenderStep ==
    ASSUME IInv, NEW r \in Request, Render(r),
           NEW s \in SandboxId, s = req[r].sid
    PROVE  IInv'
<1>1. /\ turn = r /\ req[r].pc = "render" /\ req[r] \in Record
      /\ s \in SandboxId /\ RequestIsSound(r) /\ ClusterTypeOK
      /\ faults' \in 0..MaxFaults
  BY AtHasTurn, FaultsType DEF Render, IInv, TypeOK
<1>2. PICK k \in Key \ used :
        /\ used' = used \cup {k}
        /\ \/ /\ CallFails
              /\ \/ Finish(r, StartFailed(req[r].op), NoKey)
                 \/ Finish(r, "raised", NoKey)
              /\ UNCHANGED clusterVars
           \/ /\ CallWorks
              /\ Continue(r, [req[r] EXCEPT !.pc = "apply", !.todo = Rendered,
                                            !.key = k])
              /\ IF Exists(s) THEN UNCHANGED clusterVars ELSE Forget(s)
  BY DEF Render
<1>3. used \subseteq used' /\ used' \subseteq Key /\ k \in used'
  BY <1>2 DEF IInv, TypeOK
<1>4. CASE /\ \/ Finish(r, StartFailed(req[r].op), NoKey)
              \/ Finish(r, "raised", NoKey)
           /\ UNCHANGED clusterVars
  <2>1. {"raised", StartFailed(req[r].op)} \subseteq Answers
    BY DEF StartFailed, Negative, Answers
  <2> QED
    BY <1>1, <1>3, <1>4, <2>1, QuietEnd
<1>5. CASE /\ Continue(r, [req[r] EXCEPT !.pc = "apply", !.todo = Rendered,
                                         !.key = k])
           /\ IF Exists(s) THEN UNCHANGED clusterVars ELSE Forget(s)
  <2> DEFINE next == [req[r] EXCEPT !.pc = "apply", !.todo = Rendered, !.key = k]
  <2>1. /\ next \in Record /\ next.pc = "apply" /\ next.sid = s
        /\ next.given = req[r].given /\ next.todo = Rendered /\ next.key = k
    BY <1>1, RenderedAssumption DEF Record, Pcs
  <2>2. req' = [req EXCEPT ![r] = next] /\ turn' = turn
    BY <1>5 DEF Continue
  <2> HIDE DEF next
  <2>3. req'[r] = next
    BY <2>2 DEF IInv, TypeOK
  <2>4. /\ UNCHANGED <<parts, job, pods, born>> /\ marred' \subseteq SandboxId
        /\ \A t \in SandboxId \ {s} : t \in marred' <=> t \in marred
        /\ Exists(s) => marred' = marred
    <3>1. CASE Exists(s)
      BY <1>1, <1>5, <3>1 DEF clusterVars, ClusterTypeOK
    <3>2. CASE ~Exists(s)
      BY <1>1, <1>5, <3>2 DEF Forget, ClusterTypeOK
    <3> QED
      BY <3>1, <3>2
  <2>5. ClusterTypeOK' /\ born \subseteq used /\ k \notin born
        /\ (Exists(s) => job[s].key \in born)
    BY <1>1, <1>2, <2>4 DEF ClusterTypeOK, IInv, KeysAreBorn
  <2>6. ~Applying(s)
    BY <1>1, OthersWait DEF Applying
  <2>7. Exists(s) /\ s \notin marred => Rendered \ {"job"} \subseteq parts[s]
    BY <1>1, <2>6 DEF IInv, JobIsServed
  <2>8. RequestIsSound(r)'
    BY <1>1, <1>3, <2>1, <2>2, <2>3, <2>4, <2>5, <2>7, RenderedAssumption
    DEF RequestIsSound
  <2> QED
    BY <1>1, <1>3, <2>1, <2>2, <2>4, <2>5, <2>8, WorkStep
<1> QED
  BY <1>2, <1>4, <1>5

\* A request that ends after a call that failed.
LEMMA MarredEnd ==
    ASSUME IInv, NEW r \in Request, turn = r, NEW answer \in Answers,
           Finish(r, answer, NoKey), NEW s \in SandboxId, s = req[r].sid,
           Mar(s), UNCHANGED used, faults' \in 0..MaxFaults
    PROVE  IInv'
<1> DEFINE next == [NoRecord EXCEPT !.answer = answer, !.given = NoKey]
<1>1. next \in Record /\ next.pc = "idle"
  BY NoRecordIsRecord DEF Record
<1>2. req' = [req EXCEPT ![r] = next] /\ turn' = NoRequest
  BY DEF Finish
<1> HIDE DEF next
<1>3. /\ ClusterTypeOK' /\ UNCHANGED <<parts, job, pods, born>>
      /\ s \in marred' /\ marred' = marred \cup {s}
  BY MarEffect DEF IInv, TypeOK
<1>4. RequestIsSound(r)'
  BY FinishIsSound
<1>5. /\ born \subseteq used /\ used \subseteq Key
      /\ (Exists(s) => job[s].key \in born)
  BY DEF IInv, KeysAreBorn, TypeOK
<1> QED
  BY <1>1, <1>2, <1>3, <1>4, <1>5, WorkStep

\* A request that creates the objects of a Job and goes on.
LEMMA ApplyOn ==
    ASSUME IInv, NEW r \in Request, turn = r, req[r].pc = "apply",
           NEW s \in SandboxId, s = req[r].sid, NEW k \in req[r].todo,
           Continue(r, [req[r] EXCEPT !.todo = @ \ {k}]),
           \/ k = "job" /\ CreateJob(s, req[r].key)
           \/ k # "job" /\ CreatePart(s, k)
           \/ k # "job" /\ Mar(s),
           UNCHANGED used, faults' \in 0..MaxFaults
    PROVE  IInv'
<1> DEFINE next == [req[r] EXCEPT !.todo = @ \ {k}]
<1>1. /\ req[r] \in Record /\ RequestIsSound(r) /\ ClusterTypeOK
      /\ used \subseteq Key /\ born \subseteq used
      /\ (Exists(s) => job[s].key \in born)
  BY DEF IInv, TypeOK, KeysAreBorn
<1>2. /\ next \in Record /\ next.pc = "apply" /\ next.sid = s
      /\ next.given = req[r].given /\ next.todo = req[r].todo \ {k}
      /\ next.key = req[r].key
  BY <1>1 DEF Record
<1>3. req' = [req EXCEPT ![r] = next] /\ turn' = turn
  BY DEF Continue
<1> HIDE DEF next
<1>4. req'[r] = next /\ k \in Rendered
  BY <1>1, <1>3 DEF IInv, TypeOK, RequestIsSound
<1>5. CASE k = "job" /\ CreateJob(s, req[r].key)
  <2> DEFINE key == req[r].key
  <2>1. key \in Key /\ NewJob(key) \in Job /\ NewJob(key).key = key
    BY <1>1, NewJobIsJob DEF RequestIsSound
  <2>2. /\ job' = [job EXCEPT ![s] = NewJob(key)] /\ born' = born \cup {key}
        /\ UNCHANGED <<parts, pods, marred>>
    BY <1>5 DEF CreateJob
  <2> HIDE DEF key
  <2>3. ClusterTypeOK' /\ job'[s].key \in born'
    BY <1>1, <2>1, <2>2 DEF ClusterTypeOK
  <2>4. RequestIsSound(r)'
    BY <1>1, <1>2, <1>3, <1>4, <1>5, <2>2 DEF RequestIsSound, key
  <2>5. born' \subseteq used'
    BY <1>1, <2>2 DEF RequestIsSound, key
  <2>6. \A t \in SandboxId \ {s} : job'[t] = job[t]
    BY <2>2 DEF IInv, TypeOK, ClusterTypeOK
  <2> QED
    BY <1>1, <1>2, <1>3, <2>2, <2>3, <2>4, <2>5, <2>6, WorkStep
<1>6. CASE k # "job" /\ CreatePart(s, k)
  <2>1. /\ parts' = [parts EXCEPT ![s] = @ \cup {k}] /\ k \in Parts
        /\ UNCHANGED <<job, pods, born, marred>>
    BY <1>4, <1>6, RenderedAssumption DEF CreatePart, Kinds
  <2>2. ClusterTypeOK' /\ parts'[s] = parts[s] \cup {k}
        /\ \A t \in SandboxId \ {s} : parts'[t] = parts[t]
    BY <1>1, <2>1 DEF ClusterTypeOK
  <2>3. RequestIsSound(r)'
    BY <1>1, <1>2, <1>3, <1>4, <1>6, <2>1, <2>2 DEF RequestIsSound
  <2> QED
    BY <1>1, <1>2, <1>3, <2>1, <2>2, <2>3, WorkStep
<1>7. CASE k # "job" /\ Mar(s)
  <2>1. /\ ClusterTypeOK' /\ UNCHANGED <<parts, job, pods, born>>
        /\ s \in marred' /\ marred' = marred \cup {s}
    BY <1>1, <1>7, MarEffect
  <2>2. RequestIsSound(r)'
    BY <1>1, <1>2, <1>3, <1>4, <1>7, <2>1 DEF RequestIsSound
  <2> QED
    BY <1>1, <1>2, <1>3, <2>1, <2>2, WorkStep
<1> QED
  BY <1>5, <1>6, <1>7

LEMMA ApplyStep ==
    ASSUME IInv, NEW r \in Request, Apply(r),
           NEW s \in SandboxId, s = req[r].sid
    PROVE  IInv'
<1>1. /\ turn = r /\ req[r].pc = "apply" /\ req[r] \in Record
      /\ RequestIsSound(r) /\ UNCHANGED used /\ used \subseteq Key
  BY AtHasTurn DEF Apply, IInv, TypeOK
<1>2. {"yes", "STARTING", "raised", StartFailed(req[r].op)} \subseteq Answers
  BY DEF StartFailed, Negative, Answers
<1>3. CASE /\ req[r].todo = {}
           /\ IF req[r].op = "resume" THEN Finish(r, "yes", NoKey)
                                      ELSE Finish(r, "STARTING", req[r].key)
           /\ UNCHANGED <<clusterVars, faults>>
  <2>1. req[r].key \in Key /\ req[r].key \in born /\ faults' \in 0..MaxFaults
    BY <1>1, <1>3 DEF RequestIsSound, IInv, TypeOK
  <2>2. s \notin marred => Rendered \ {"job"} \subseteq parts[s]
    BY <1>1, <1>3 DEF RequestIsSound
  <2> QED
    BY <1>1, <1>2, <1>3, <2>1, <2>2, QuietEnd
<1>4. CASE "job" \in req[r].todo /\ ApplyJob(r, s)
  <2>1. faults' \in 0..MaxFaults
    BY <1>4, FaultsType DEF ApplyJob
  <2>2. CASE /\ CreateJob(s, req[r].key)
             /\ Continue(r, [req[r] EXCEPT !.todo = @ \ {"job"}])
    BY <1>1, <1>4, <2>1, <2>2, ApplyOn
  <2>3. CASE /\ Exists(s) /\ UNCHANGED clusterVars
             /\ Finish(r, StartFailed(req[r].op), NoKey)
    <3>1. s \notin marred => Rendered \ {"job"} \subseteq parts[s]
      BY <1>1, <1>4, <2>3 DEF RequestIsSound
    <3> QED
      BY <1>1, <1>2, <2>1, <2>3, <3>1, QuietEnd
  <2>4. CASE Mar(s) /\ Finish(r, StartFailed(req[r].op), NoKey)
    BY <1>1, <1>2, <2>1, <2>4, MarredEnd
  <2> QED
    BY <1>4, <2>2, <2>3, <2>4 DEF ApplyJob
<1>5. ASSUME NEW k \in req[r].todo \ {"job"}, ApplyPart(r, s, k) PROVE IInv'
  <2>1. faults' \in 0..MaxFaults
    BY <1>5, FaultsType DEF ApplyPart
  <2>2. CASE Mar(s) /\ Finish(r, "raised", NoKey)
    BY <1>1, <1>2, <2>1, <2>2, MarredEnd
  <2>3. CASE /\ CreatePart(s, k) \/ Mar(s)
             /\ Continue(r, [req[r] EXCEPT !.todo = @ \ {k}])
    BY <1>1, <2>1, <2>3, ApplyOn
  <2> QED
    BY <1>5, <2>2, <2>3 DEF ApplyPart
<1> QED
  BY <1>3, <1>4, <1>5 DEF Apply

LEMMA ReplaceStep ==
    ASSUME IInv, NEW r \in Request, Replace(r),
           NEW s \in SandboxId, s = req[r].sid
    PROVE  IInv'
<1>1. /\ turn = r /\ req[r].pc = "replace" /\ RequestIsSound(r)
      /\ UNCHANGED used /\ used \subseteq Key /\ faults' \in 0..MaxFaults
      /\ {"yes", "no"} \subseteq Answers /\ ClusterTypeOK
      /\ born \subseteq used /\ (Exists(s) => job[s].key \in born)
  BY AtHasTurn, FaultsType DEF Replace, Answers, IInv, TypeOK, KeysAreBorn
<1>2. CASE Finish(r, "no", NoKey) /\ UNCHANGED clusterVars
  BY <1>1, <1>2, QuietEnd
<1>3. ASSUME NEW value \in BOOLEAN, Suspend(s, value), Finish(r, "yes", NoKey)
      PROVE  IInv'
  <2> DEFINE next == [NoRecord EXCEPT !.answer = "yes", !.given = NoKey]
  <2>1. next \in Record /\ next.pc = "idle"
    BY <1>1, NoRecordIsRecord DEF Record
  <2>2. req' = [req EXCEPT ![r] = next] /\ turn' = NoRequest
    BY <1>3 DEF Finish
  <2> HIDE DEF next
  <2>3. job[s] \in Job /\ job[s] # NoJob
    BY <1>1, <1>3 DEF Suspend, ClusterTypeOK
  <2>4. job' = [job EXCEPT ![s] = [job[s] EXCEPT !.suspend = value]]
        /\ UNCHANGED <<parts, pods, born, marred>>
    BY <1>3 DEF Suspend
  <2>5. /\ [job[s] EXCEPT !.suspend = value] \in Job
        /\ [job[s] EXCEPT !.suspend = value].key = job[s].key
    BY <2>3 DEF Job
  <2>6. /\ ClusterTypeOK' /\ job'[s].key = job[s].key
        /\ \A t \in SandboxId \ {s} : job'[t] = job[t]
    BY <1>1, <2>4, <2>5 DEF ClusterTypeOK
  <2>7. RequestIsSound(r)'
    BY <1>1, <1>3, FinishIsSound
  <2>8. s \notin marred => Rendered \ {"job"} \subseteq parts[s]
    <3>1. ~Applying(s)
      BY <1>1, OthersWait DEF Applying
    <3> QED
      BY <2>3, <3>1 DEF IInv, JobIsServed
  <2>9. /\ Exists(s)' => job'[s].key \in born'
        /\ UNCHANGED <<parts, marred, born>>
    BY <1>1, <2>3, <2>4, <2>6
  <2>10. \A t \in SandboxId \ {s} :
            /\ job'[t] = job[t] /\ parts'[t] = parts[t]
            /\ t \in marred' <=> t \in marred
    BY <2>6, <2>9
  <2>11. next.pc # "apply" /\ turn' \in {r, NoRequest}
    BY <2>1, <2>2
  <2> QED
    BY <1>1, <2>1, <2>2, <2>6, <2>7, <2>8, <2>9, <2>10, <2>11, WorkStep
<1> QED
  BY <1>2, <1>3 DEF Replace

LEMMA PurgeStep ==
    ASSUME IInv, NEW r \in Request, Purge(r),
           NEW s \in SandboxId, s = req[r].sid
    PROVE  IInv'
<1>1. /\ turn = r /\ req[r].pc = "purge" /\ req[r] \in Record
      /\ RequestIsSound(r) /\ UNCHANGED used /\ used \subseteq Key
      /\ ClusterTypeOK /\ {"yes", "no"} \subseteq Answers
      /\ born \subseteq used /\ (Exists(s) => job[s].key \in born)
  BY AtHasTurn DEF Purge, IInv, TypeOK, Answers, KeysAreBorn
<1>2. CASE req[r].todo = {}
  <2>1. /\ Finish(r, IF req[r].answer = "yes" THEN "yes" ELSE "no", NoKey)
        /\ UNCHANGED clusterVars /\ faults' \in 0..MaxFaults
    BY <1>2 DEF Purge, IInv, TypeOK
  <2> QED
    BY <1>1, <2>1, QuietEnd
<1>3. CASE req[r].todo # {}
  <2>1. PICK k \in req[r].todo, answer \in Answers :
            /\ IsFirst(k, req[r].todo)
            /\ Continue(r, [req[r] EXCEPT !.todo = @ \ {k}, !.answer = answer])
            /\ \/ CallFails /\ Mar(s)
               \/ /\ CallWorks
                  /\ IF k = "pvc" /\ s \in Preserved
                     THEN UNCHANGED clusterVars
                     ELSE Remove(s, k)
    <3>1. req[r].answer \in Answers
      BY <1>1 DEF Record
    <3> QED
      BY <1>1, <1>3, <3>1 DEF Purge
  <2> DEFINE next == [req[r] EXCEPT !.todo = @ \ {k}, !.answer = answer]
  <2>2. /\ next \in Record /\ next.pc = "purge" /\ next.sid = s
        /\ next.given = req[r].given /\ next.todo = req[r].todo \ {k}
    BY <1>1 DEF Record
  <2>3. req' = [req EXCEPT ![r] = next] /\ turn' = turn
    BY <2>1 DEF Continue
  <2> HIDE DEF next
  <2>4. req'[r] = next /\ k \in Kinds /\ faults' \in 0..MaxFaults
    BY <1>1, <2>1, <2>3, FaultsType DEF IInv, TypeOK, Record
  <2>5. k # "job" => "job" \notin req[r].todo
    BY <2>1, <2>4 DEF IsFirst, Rank, Kinds, Parts
  <2>6. Exists(s) /\ s \notin marred => Rendered \ {"job"} \subseteq parts[s]
    <3>1. ~Applying(s)
      BY <1>1, OthersWait DEF Applying
    <3> QED
      BY <3>1 DEF IInv, JobIsServed
  <2>7. CASE Mar(s)
    <3>1. /\ ClusterTypeOK' /\ UNCHANGED <<parts, job, pods, born>>
          /\ s \in marred' /\ marred' = marred \cup {s}
      BY <1>1, <2>7, MarEffect
    <3>2. RequestIsSound(r)'
      BY <1>1, <2>2, <2>3, <2>4, <3>1 DEF RequestIsSound
    <3> QED
      BY <1>1, <2>2, <2>3, <2>4, <3>1, <3>2, WorkStep
  <2>8. CASE Remove(s, k)
    <3>1. /\ ClusterTypeOK' /\ UNCHANGED <<pods, born, marred>>
          /\ \A t \in SandboxId \ {s} : job'[t] = job[t] /\ parts'[t] = parts[t]
          /\ k = "job" => ~Exists(s)' /\ parts' = parts
          /\ k # "job" => job' = job
      BY <1>1, <2>4, <2>8, RemoveEffect
    <3>2. s \notin marred => ~Exists(s)'
      BY <1>1, <2>5, <3>1 DEF RequestIsSound
    <3>3. RequestIsSound(r)'
      BY <1>1, <2>2, <2>3, <2>4, <3>1, <3>2 DEF RequestIsSound
    <3>4. Exists(s)' => job'[s].key \in born'
      BY <1>1, <3>1
    <3> QED
      BY <1>1, <2>2, <2>3, <2>4, <3>1, <3>2, <3>3, <3>4, WorkStep
  <2>9. CASE k = "pvc" /\ UNCHANGED clusterVars
    <3>1. UNCHANGED <<parts, job, pods, born, marred>> /\ ClusterTypeOK'
      BY <1>1, <2>9 DEF clusterVars, ClusterTypeOK
    <3>2. RequestIsSound(r)'
      BY <1>1, <2>2, <2>3, <2>4, <2>5, <2>9, <3>1 DEF RequestIsSound
    <3> QED
      BY <1>1, <2>2, <2>3, <2>4, <2>6, <3>1, <3>2, WorkStep
  <2> QED
    BY <2>1, <2>7, <2>8, <2>9
<1> QED
  BY <1>2, <1>3

LEMMA InvStep == IInv /\ [Next]_vars => IInv'
<1> SUFFICES ASSUME IInv, [Next]_vars PROVE IInv'
  OBVIOUS
<1>1. ASSUME NEW r \in Request, Server(r) PROVE IInv'
  <2>1. PICK s \in SandboxId : s = req[r].sid
    BY DEF IInv, TypeOK, Record
  <2> QED
    BY <1>1, <2>1, BeginStep, ReadJobStep, ReadClaimStep, ClearStep, WakeStep,
       RenderStep, ApplyStep, ListPodsStep, ReplaceStep, PurgeStep
    DEF Server
<1>2. CASE UNCHANGED vars
  BY <1>2 DEF vars, clusterVars, IInv, TypeOK, ClusterTypeOK, KeysAreBorn,
              JobIsServed, Applying, RequestIsSound
<1> QED
  BY <1>1, <1>2, ControllersStep, CleanupStep DEF Next

-----------------------------------------------------------------------------
(* The theorems.                                                           *)

(* The invariant about what a request has found out and done while it      *)
(* keeps the event loop holds of every behaviour of the sandbox service.   *)
THEOREM Invariance == Spec => []IInv
<1>1. Init => IInv
  BY InitInv
<1>2. IInv /\ [Next]_vars => IInv'
  BY InvStep
<1> QED
  BY <1>1, <1>2, PTL DEF Spec

(* Every reachable state of the service and the cluster is well typed.     *)
THEOREM TypeCorrect == Spec => []TypeOK
<1>1. IInv => TypeOK
  BY DEF IInv
<1> QED
  BY <1>1, Invariance, PTL

(* However requests interleave at the sleep of a recreation, a Job has the *)
(* objects it needs unless a call failed or a start is still creating them.*)
THEOREM JobsAreServed == Spec => []JobIsServed
<1>1. IInv => JobIsServed
  BY DEF IInv
<1> QED
  BY <1>1, Invariance, PTL

(* A session key that is handed out is the key of a Job that was created.  *)
THEOREM KeysOpenSandboxes == Spec => []KeyOpensSandbox
<1>1. IInv => KeyOpensSandbox
  BY DEF IInv, RequestIsSound, KeyOpensSandbox
<1> QED
  BY <1>1, Invariance, PTL

(* A recreation never deletes a Job.                                       *)
THEOREM RecreationSparesJobs == Spec => RecreateSparesJob
<1> DEFINE A == \A r \in Request :
                    req[r].pc = "clear" /\ req'[r] # req[r] => job' = job
<1>1. IInv /\ [Next]_vars => [A]_vars
  <2> SUFFICES ASSUME IInv, Next, NEW r \in Request,
                      req[r].pc = "clear", req'[r] # req[r]
               PROVE  job' = job
    OBVIOUS
  <2>1. turn = r /\ r # NoRequest /\ ~Exists(req[r].sid) /\ ClusterTypeOK
    BY NoRequestAssumption DEF IInv, RequestIsSound, TypeOK
  <2>2. ASSUME NEW q \in Request, Server(q) PROVE Clear(r)
    <3>1. CASE q = r
      BY <2>1, <2>2, <3>1
      DEF Server, Begin, ReadJob, ReadClaim, Wake, Render, Apply, ListPods,
          Replace, Purge, At
    <3>2. CASE q # r
      BY <2>1, <2>2, <3>2
      DEF Server, Begin, ReadJob, ReadClaim, Clear, Wake, Render, Apply,
          ListPods, Replace, Purge, At
    <3> QED
      BY <3>1, <3>2
  <2>3. CASE Clear(r)
    BY <2>1, <2>3 DEF Clear, Mar, Remove, ClusterTypeOK, clusterVars
  <2> QED
    BY <2>2, <2>3 DEF Next
<1> QED
  BY <1>1, Invariance, PTL DEF Spec, RecreateSparesJob

\* A request that takes a claim is deleting its sandbox, whose claim is not
\* preserved.
LEMMA TakesClaimInPurge ==
    ASSUME IInv, NEW r \in Request, Server(r), NEW s \in SandboxId,
           "pvc" \in parts[s], "pvc" \notin parts'[s]
    PROVE  s \notin Preserved /\ At(r, "purge") /\ req[r].sid = s
<1>1. RequestIsSound(r) /\ req[r] \in Record /\ ClusterTypeOK
  BY DEF IInv, TypeOK
<1>2. CASE Purge(r)
  <2>1. At(r, "purge") /\ req[r].todo # {}
    BY <1>2 DEF Purge, clusterVars
  <2>2. PICK k \in Kinds :
            /\ ~(k = "pvc" /\ req[r].sid \in Preserved)
            /\ Remove(req[r].sid, k)
    BY <1>1, <1>2, <2>1 DEF Purge, Mar, clusterVars, Record
  <2> QED
    BY <1>1, <2>1, <2>2 DEF Remove, ClusterTypeOK
<1>3. CASE Clear(r)
  <2>1. PICK k \in req[r].todo : Remove(req[r].sid, k)
    BY <1>3 DEF Clear, Mar, clusterVars
  <2>2. k # "pvc"
    BY <1>1, <1>3 DEF Clear, At, RequestIsSound
  <2> QED
    BY <1>1, <2>1, <2>2 DEF Remove, ClusterTypeOK
<1>4. CASE Apply(r)
  <2>1. ASSUME NEW k \in req[r].todo, CreatePart(req[r].sid, k)
        PROVE  "pvc" \in parts'[s]
    BY <1>1, <2>1 DEF CreatePart, ClusterTypeOK
  <2>2. \/ UNCHANGED parts
        \/ \E k \in req[r].todo : CreatePart(req[r].sid, k)
    BY <1>4 DEF Apply, ApplyJob, ApplyPart, CreateJob, Mar, clusterVars
  <2> QED
    BY <2>1, <2>2
<1>5. CASE \/ \E op \in Ops, t \in SandboxId : Begin(r, op, t)
           \/ ReadJob(r) \/ ReadClaim(r) \/ Wake(r) \/ Render(r)
           \/ ListPods(r) \/ Replace(r)
  <2>1. UNCHANGED parts
    BY <1>5 DEF Begin, ReadJob, ReadClaim, Wake, Render, ListPods, Replace,
                Suspend, Forget, clusterVars
  <2> QED
    BY <2>1
<1> QED
  BY <1>2, <1>3, <1>4, <1>5 DEF Server

(* Neither a recreation, nor a start that fails, nor the cleanup takes the *)
(* workspace claim of a sandbox: only its deletion does, and never a       *)
(* preserved one.                                                          *)
THEOREM WorkspacesOutliveJobs == Spec => OnlyDeleteTakesClaim
<1> DEFINE A == \A s \in SandboxId :
                    "pvc" \in parts[s] /\ "pvc" \notin parts'[s]
                        => /\ s \notin Preserved
                           /\ \E r \in Request : At(r, "purge") /\ req[r].sid = s
<1>1. IInv /\ [Next]_vars => [A]_vars
  <2> SUFFICES ASSUME IInv, Next PROVE A
    OBVIOUS
  <2>1. CASE \E r \in Request : Server(r)
    BY <2>1, TakesClaimInPurge
  <2>2. ASSUME NEW s \in SandboxId, Controllers(s) PROVE UNCHANGED parts
    BY <2>2, ControllersKeep DEF IInv, TypeOK
  <2>3. ASSUME NEW s \in SandboxId, CleanupCall(s)
        PROVE  \A t \in SandboxId : "pvc" \in parts[t] => "pvc" \in parts'[t]
    BY <2>3, TakeAwayEffect DEF CleanupCall, IInv, TypeOK
  <2> QED
    BY <2>1, <2>2, <2>3 DEF Next
<1> QED
  BY <1>1, Invariance, PTL DEF Spec, OnlyDeleteTakesClaim

\* What a request does to the cluster is what the contract lets the server do.
LEMMA ServerKeepsContract ==
    ASSUME IInv, NEW r \in Request, Server(r),
           NEW s \in SandboxId, s = req[r].sid
    PROVE  ServerCall(s) \/ UNCHANGED clusterVars
<1> USE DEF ServerCall
<1>1. RequestIsSound(r) /\ req[r] \in Record /\ used \subseteq Key
  BY DEF IInv, TypeOK
<1>2. CASE Clear(r)
  <2>1. CASE req[r].todo = {}
    BY <1>2, <2>1 DEF Clear
  <2>2. CASE req[r].todo # {}
    <3>1. PICK k \in req[r].todo : Mar(s) \/ Remove(s, k)
      BY <1>2, <2>2 DEF Clear
    <3>2. ~Exists(s) /\ k \in Kinds /\ k # "pvc"
      BY <1>1, <1>2 DEF Clear, At, RequestIsSound, Record
    <3> QED
      BY <3>1, <3>2 DEF MayRemove
  <2> QED
    BY <2>1, <2>2
<1>3. CASE Render(r)
  BY <1>3 DEF Render
<1>4. CASE Apply(r)
  <2>1. req[r].todo \subseteq Rendered /\ req[r].key \in Key
    BY <1>1, <1>4 DEF Apply, At, RequestIsSound
  <2>2. CASE ApplyJob(r, s)
    BY <2>1, <2>2 DEF ApplyJob
  <2>3. CASE \E k \in req[r].todo \ {"job"} : ApplyPart(r, s, k)
    BY <2>1, <2>3 DEF ApplyPart
  <2> QED
    BY <1>4, <2>2, <2>3 DEF Apply
<1>5. CASE Replace(r)
  BY <1>5 DEF Replace
<1>6. CASE Purge(r)
  <2>1. CASE req[r].todo = {}
    BY <1>6, <2>1 DEF Purge
  <2>2. CASE req[r].todo # {}
    <3>1. PICK k \in req[r].todo :
            /\ IsFirst(k, req[r].todo)
            /\ \/ Mar(s)
               \/ k = "pvc" /\ s \in Preserved /\ UNCHANGED clusterVars
               \/ ~(k = "pvc" /\ s \in Preserved) /\ Remove(s, k)
      BY <1>6, <2>2 DEF Purge
    <3>2. k \in Kinds
      BY <1>1 DEF Record
    <3>3. k # "job" => "job" \notin req[r].todo
      BY <3>1, <3>2 DEF IsFirst, Rank, Kinds, Parts
    <3>4. k # "job" => s \in marred \/ ~Exists(s)
      BY <1>1, <1>6, <3>3 DEF Purge, At, RequestIsSound
    <3> QED
      BY <3>1, <3>2, <3>4 DEF MayRemove
  <2> QED
    BY <2>1, <2>2
<1>7. CASE \/ \E op \in Ops, t \in SandboxId : Begin(r, op, t)
           \/ ReadJob(r) \/ ReadClaim(r) \/ Wake(r) \/ ListPods(r)
  BY <1>7 DEF Begin, ReadJob, ReadClaim, Wake, ListPods
<1> QED
  BY <1>2, <1>3, <1>4, <1>5, <1>6, <1>7 DEF Server

(* The sandbox service implements the contract of the cluster: it takes    *)
(* nothing away from a sandbox that has a Job unless a call failed, never  *)
(* a preserved claim, and starts every Job under a new key.                *)
THEOREM ServiceKeepsContract == Spec => KeepsContract
<1>1. Init => ClusterInit
  BY DEF Init
<1>2. IInv /\ [Next]_vars => [ClusterNext]_clusterVars
  <2> SUFFICES ASSUME IInv, [Next]_vars PROVE [ClusterNext]_clusterVars
    OBVIOUS
  <2>1. ASSUME NEW r \in Request, Server(r) PROVE [ClusterNext]_clusterVars
    <3>1. PICK s \in SandboxId : s = req[r].sid
      BY DEF IInv, TypeOK, Record
    <3> QED
      BY <2>1, <3>1, ServerKeepsContract DEF ClusterNext, ServerNext
  <2>2. ASSUME NEW s \in SandboxId, Controllers(s)
        PROVE  [ClusterNext]_clusterVars
    BY <2>2 DEF ClusterNext, ServerNext
  <2>3. CASE UNCHANGED vars
    BY <2>3 DEF vars
  <2>4. ASSUME NEW s \in SandboxId, CleanupCall(s)
        PROVE  [ClusterNext]_clusterVars
    BY <2>4 DEF ClusterNext
  <2> QED
    BY <2>1, <2>2, <2>3, <2>4 DEF Next
<1> QED
  BY <1>1, <1>2, Invariance, PTL DEF Spec, KeepsContract, ClusterSpec
=============================================================================
