-------------------------- MODULE WorkspaceProofs --------------------------
(***************************************************************************)
(* Proofs about Workspace for any number of workspaces, ports, failures    *)
(* and kills.                                                              *)
(***************************************************************************)
EXTENDS Workspace, TLAPS

USE DEF cluster, forwarder, history, untouched

-----------------------------------------------------------------------------
(* Type correctness.                                                       *)

LEMMA InitInv == Init => IInv
<1> SUFFICES ASSUME Init PROVE IInv
  OBVIOUS
<1>1. TypeOK
  BY MaxFaultsAssumption DEF Init, TypeOK
<1>2. /\ NothingIsLeaked /\ SentIsExcused /\ PortsApart /\ ForwarderIsUp
      /\ CrossingsAreSeen /\ HealthyIsOwn
  BY DEF Init, NothingIsLeaked, SentIsExcused, PortsApart, Listens,
         ForwarderIsUp, CrossingsAreSeen, HealthyIsOwn
<1> QED
  BY <1>1, <1>2 DEF IInv

LEMMA FaultsType ==
    ASSUME TypeOK, Fails \/ Works
    PROVE  faults' \in 0..MaxFaults
BY MaxFaultsAssumption DEF TypeOK, Fails, Works

LEMMA ConstructorTypeStep ==
    ASSUME TypeOK, NEW w \in Workspace,
           \/ CreateJob(w) \/ AwaitPod(w) \/ StartForward(w) \/ Settle(w)
           \/ AwaitHealth(w)
    PROVE  TypeOK'
<1>1. CASE CreateJob(w)
  BY <1>1, FaultsType DEF CreateJob, To, TypeOK
<1>2. CASE AwaitPod(w)
  <2>1. Onward(mode[w]) \in {"forward", "health", "raised"}
    BY DEF TypeOK, Onward
  <2> QED
    BY <1>2, <2>1, FaultsType DEF AwaitPod, To, TypeOK
<1>3. CASE StartForward(w)
  BY <1>3 DEF StartForward, To, TypeOK
<1>4. CASE Settle(w)
  BY <1>4 DEF Settle, To, TypeOK
<1>5. CASE AwaitHealth(w)
  BY <1>5 DEF AwaitHealth, To, TypeOK
<1> QED
  BY <1>1, <1>2, <1>3, <1>4, <1>5

LEMMA OtherTypeStep ==
    ASSUME TypeOK, NEW w \in Workspace,
           \/ Cleanup(w) \/ Finalize(w) \/ Kill(w) \/ JobAppears(w)
           \/ PodChanges(w) \/ Bind(w) \/ ForwardEnds(w)
    PROVE  TypeOK'
<1>1. CASE Cleanup(w) \/ Finalize(w)
  BY <1>1, FaultsType DEF Cleanup, Finalize, Undo, To, TypeOK
<1>2. CASE Kill(w)
  BY <1>2, FaultsType DEF Kill, To, TypeOK
<1>3. CASE JobAppears(w)
  BY <1>3 DEF JobAppears, TypeOK
<1>4. CASE PodChanges(w)
  BY <1>4 DEF PodChanges, TypeOK
<1>5. CASE Bind(w)
  BY <1>5 DEF Bind, Sharing, TypeOK
<1>6. CASE ForwardEnds(w)
  BY <1>6 DEF ForwardEnds, TypeOK
<1> QED
  BY <1>1, <1>2, <1>3, <1>4, <1>5, <1>6

LEMMA TypeStep ==
    ASSUME IInv, [Next]_vars
    PROVE  TypeOK'
<1>1. CASE UNCHANGED vars
  BY <1>1 DEF IInv, TypeOK, vars
<1> QED
  BY <1>1, ConstructorTypeStep, OtherTypeStep DEF IInv, Next

-----------------------------------------------------------------------------
(* What is left behind.                                                    *)

\* What a workspace that is gone has left, and a Job that may come yet.
Tidy(w) ==
    /\ pc[w] = "gone" /\ w \notin excused =>
        /\ proc[w] = "none"
        /\ w \notin Kept => job[w] = "none"
    /\ job[w] = "sent" => w \in excused

\* A step of v leaves what other workspaces leave behind as it is.
LEMMA OthersAreTidy ==
    ASSUME IInv, NEW v \in Workspace, NEW w \in Workspace \ {v},
           \/ CreateJob(v) \/ AwaitPod(v) \/ StartForward(v) \/ Settle(v)
           \/ AwaitHealth(v) \/ Cleanup(v) \/ Finalize(v) \/ Kill(v)
           \/ JobAppears(v) \/ PodChanges(v) \/ Bind(v) \/ ForwardEnds(v)
    PROVE  Tidy(w)'
<1>1. Tidy(w)
  BY DEF IInv, NothingIsLeaked, SentIsExcused, Tidy
<1>2. /\ pc'[w] = pc[w] /\ proc'[w] = proc[w] /\ job'[w] = job[w]
      /\ (w \in excused' <=> w \in excused)
  BY DEF CreateJob, AwaitPod, StartForward, Settle, AwaitHealth, Cleanup,
         Finalize, Undo, Kill, JobAppears, PodChanges, Bind, ForwardEnds, To,
         IInv, TypeOK
<1> QED
  BY <1>1, <1>2 DEF Tidy

LEMMA TidyStep ==
    ASSUME IInv, NEW w \in Workspace,
           \/ CreateJob(w) \/ AwaitPod(w) \/ StartForward(w) \/ Settle(w)
           \/ AwaitHealth(w) \/ Cleanup(w) \/ Finalize(w) \/ Kill(w)
           \/ JobAppears(w) \/ PodChanges(w) \/ Bind(w) \/ ForwardEnds(w)
    PROVE  Tidy(w)'
<1>1. Tidy(w) /\ TypeOK
  BY DEF IInv, NothingIsLeaked, SentIsExcused, Tidy
<1>2. CASE CreateJob(w)
  BY <1>1, <1>2 DEF CreateJob, To, Tidy, TypeOK
<1>3. CASE AwaitPod(w)
  <2>1. Onward(mode[w]) # "gone"
    BY <1>1 DEF TypeOK, Onward
  <2> QED
    BY <1>1, <1>3, <2>1 DEF AwaitPod, To, Tidy, TypeOK
<1>4. CASE StartForward(w) \/ Settle(w) \/ AwaitHealth(w)
  BY <1>1, <1>4 DEF StartForward, Settle, AwaitHealth, To, Tidy, TypeOK
<1>5. CASE Cleanup(w) \/ Finalize(w)
  BY <1>1, <1>5 DEF Cleanup, Finalize, Undo, To, Tidy, TypeOK
<1>6. CASE Kill(w) \/ JobAppears(w)
  BY <1>1, <1>6 DEF Kill, JobAppears, To, Tidy, TypeOK
<1>7. CASE PodChanges(w)
  BY <1>1, <1>7 DEF PodChanges, Tidy, TypeOK
<1>8. CASE Bind(w) \/ ForwardEnds(w)
  BY <1>1, <1>8 DEF Bind, ForwardEnds, Tidy, TypeOK
<1> QED
  BY <1>2, <1>3, <1>4, <1>5, <1>6, <1>7, <1>8

LEMMA LeakStep ==
    ASSUME IInv, [Next]_vars
    PROVE  NothingIsLeaked' /\ SentIsExcused'
<1>1. CASE UNCHANGED vars
  BY <1>1 DEF IInv, NothingIsLeaked, SentIsExcused, vars
<1>2. CASE Next
  <2>1. \A w \in Workspace : Tidy(w)'
    BY <1>2, OthersAreTidy, TidyStep DEF Next
  <2> QED
    BY <2>1 DEF Tidy, NothingIsLeaked, SentIsExcused
<1> QED
  BY <1>1, <1>2

-----------------------------------------------------------------------------
(* Ports and answers.                                                      *)

\* A process that listens has just found its port free, or listened before.
LEMMA PortsStep ==
    ASSUME IInv, [Next]_vars
    PROVE  PortsApart'
<1> USE DEF IInv, TypeOK, PortsApart, Listens
<1>1. ASSUME NEW w \in Workspace, StartForward(w) PROVE PortsApart'
  BY <1>1 DEF StartForward
<1>2. ASSUME NEW w \in Workspace, Cleanup(w) \/ Finalize(w) PROVE PortsApart'
  BY <1>2 DEF Cleanup, Finalize, Undo
<1>3. ASSUME NEW w \in Workspace, Bind(w) PROVE PortsApart'
  BY <1>3 DEF Bind
<1>4. ASSUME NEW w \in Workspace, ForwardEnds(w) PROVE PortsApart'
  BY <1>4 DEF ForwardEnds
<1>5. CASE UNCHANGED <<proc, port>>
  BY <1>5
<1> QED
  BY <1>1, <1>2, <1>3, <1>4, <1>5
  DEF Next, CreateJob, AwaitPod, Settle, AwaitHealth, Kill, JobAppears,
      PodChanges, vars

\* What the constructor of w relies on.
Served(w) ==
    /\ pc[w] = "settle" => proc[w] # "none"
    /\ pc[w] = "health" /\ mode[w] = "forward" /\ w \notin late \cup cut
        => proc[w] = "listening"
    /\ pc[w] = "ready" /\ answered[w] # w => w \in crossed /\ w \in late \cup cut

LEMMA OthersAreServed ==
    ASSUME IInv, NEW v \in Workspace, NEW w \in Workspace \ {v},
           \/ CreateJob(v) \/ AwaitPod(v) \/ StartForward(v) \/ Settle(v)
           \/ AwaitHealth(v) \/ Cleanup(v) \/ Finalize(v) \/ Kill(v)
           \/ JobAppears(v) \/ PodChanges(v) \/ Bind(v) \/ ForwardEnds(v)
    PROVE  Served(w)'
<1>1. Served(w)
  BY DEF IInv, ForwarderIsUp, HealthyIsOwn, Served
<1>2. /\ pc'[w] = pc[w] /\ proc'[w] = proc[w] /\ mode' = mode
      /\ answered'[w] = answered[w] /\ (w \in cut' <=> w \in cut)
      /\ (w \in late' <=> w \in late) /\ (w \in crossed => w \in crossed')
  BY DEF CreateJob, AwaitPod, StartForward, Settle, AwaitHealth, Cleanup,
         Finalize, Undo, Kill, JobAppears, PodChanges, Bind, ForwardEnds, To,
         IInv, TypeOK
<1> QED
  BY <1>1, <1>2 DEF Served

LEMMA ServedStep ==
    ASSUME IInv, NEW w \in Workspace,
           \/ CreateJob(w) \/ AwaitPod(w) \/ StartForward(w) \/ Settle(w)
           \/ AwaitHealth(w) \/ Cleanup(w) \/ Finalize(w) \/ Kill(w)
           \/ JobAppears(w) \/ PodChanges(w) \/ Bind(w) \/ ForwardEnds(w)
    PROVE  Served(w)'
<1>1. Served(w) /\ TypeOK /\ PortsApart /\ CrossingsAreSeen
  BY DEF IInv, ForwarderIsUp, HealthyIsOwn, Served
<1>2. CASE CreateJob(w) \/ Kill(w) \/ Cleanup(w) \/ Finalize(w)
  BY <1>1, <1>2 DEF CreateJob, Kill, Cleanup, Finalize, Undo, To, Served, TypeOK
<1>3. CASE AwaitPod(w)
  <2>1. mode[w] = "forward" => Onward(mode[w]) = "forward"
    BY DEF Onward
  <2>2. Onward(mode[w]) \in {"forward", "health", "raised"}
    BY <1>1 DEF TypeOK, Onward
  <2> QED
    BY <1>1, <1>3, <2>1, <2>2 DEF AwaitPod, To, Served, TypeOK
<1>4. CASE StartForward(w)
  BY <1>1, <1>4 DEF StartForward, To, Served, TypeOK
<1>5. CASE Settle(w)
  BY <1>1, <1>5 DEF Settle, To, Served, TypeOK
<1>6. CASE AwaitHealth(w)
  BY <1>1, <1>6 DEF AwaitHealth, To, Served, TypeOK, PortsApart, CrossingsAreSeen,
                     Listens
<1>7. CASE JobAppears(w) \/ PodChanges(w)
  BY <1>1, <1>7 DEF JobAppears, PodChanges, Served
<1>8. CASE Bind(w)
  BY <1>1, <1>8 DEF Bind, Served, TypeOK
<1>9. CASE ForwardEnds(w)
  BY <1>1, <1>9 DEF ForwardEnds, Served, TypeOK
<1> QED
  BY <1>2, <1>3, <1>4, <1>5, <1>6, <1>7, <1>8, <1>9

LEMMA ServedStepAll ==
    ASSUME IInv, [Next]_vars
    PROVE  ForwarderIsUp' /\ HealthyIsOwn'
<1>1. CASE UNCHANGED vars
  BY <1>1 DEF IInv, ForwarderIsUp, HealthyIsOwn, vars
<1>2. CASE Next
  <2>1. \A w \in Workspace : Served(w)'
    BY <1>2, OthersAreServed, ServedStep DEF Next
  <2> QED
    BY <2>1 DEF Served, ForwarderIsUp, HealthyIsOwn
<1> QED
  BY <1>1, <1>2

\* Nobody listens at a port that has just been found free; who binds it later
\* is seen.
LEMMA CrossingsStep ==
    ASSUME IInv, [Next]_vars
    PROVE  CrossingsAreSeen'
<1> USE DEF IInv, TypeOK, CrossingsAreSeen, Listens
<1>1. CASE UNCHANGED vars
  BY <1>1 DEF vars
<1>2. ASSUME NEW u \in Workspace, CreateJob(u) \/ AwaitHealth(u) \/ Kill(u)
      PROVE  CrossingsAreSeen'
  BY <1>2 DEF CreateJob, AwaitHealth, Kill, To
<1>3. ASSUME NEW u \in Workspace, AwaitPod(u) PROVE CrossingsAreSeen'
  BY <1>3 DEF AwaitPod, Onward, To
<1>4. ASSUME NEW u \in Workspace, StartForward(u) PROVE CrossingsAreSeen'
  BY <1>4 DEF StartForward, To
<1>5. ASSUME NEW u \in Workspace, Settle(u) PROVE CrossingsAreSeen'
  BY <1>5 DEF Settle, To
<1>6. ASSUME NEW u \in Workspace, Cleanup(u) \/ Finalize(u)
      PROVE  CrossingsAreSeen'
  BY <1>6 DEF Cleanup, Finalize, Undo, To
<1>7. ASSUME NEW u \in Workspace, JobAppears(u) \/ PodChanges(u)
      PROVE  CrossingsAreSeen'
  BY <1>7 DEF JobAppears, PodChanges
<1>8. ASSUME NEW u \in Workspace, Bind(u) PROVE CrossingsAreSeen'
  BY <1>8 DEF Bind, Sharing
<1>9. ASSUME NEW u \in Workspace, ForwardEnds(u) PROVE CrossingsAreSeen'
  BY <1>9 DEF ForwardEnds
<1> QED
  BY <1>1, <1>2, <1>3, <1>4, <1>5, <1>6, <1>7, <1>8, <1>9 DEF Next

-----------------------------------------------------------------------------
(* The theorems.                                                           *)

(* The conjunction of what the constructor, the finalizer and kubectl keep *)
(* to holds of every behaviour of the workspaces of a machine.             *)
THEOREM Invariance == Spec => []IInv
<1>1. Init => IInv
  BY InitInv
<1>2. IInv /\ [Next]_vars => IInv'
  BY TypeStep, LeakStep, PortsStep, CrossingsStep, ServedStepAll DEF IInv
<1> QED
  BY <1>1, <1>2, PTL DEF Spec

(* Every reachable state of the workspaces is well typed.                  *)
THEOREM TypeCorrect == Spec => []TypeOK
<1>1. IInv => TypeOK
  BY DEF IInv
<1> QED
  BY <1>1, Invariance, PTL

(* Wherever a constructor fails, its Job and its kubectl do not outlive    *)
(* the workspace, unless the cluster or a kill kept it from cleaning up.   *)
THEOREM WorkspacesCleanUp == Spec => []NothingIsLeaked
<1>1. IInv => NothingIsLeaked
  BY DEF IInv
<1> QED
  BY <1>1, Invariance, PTL

(* However slow kubectl is: the health check is answered by another        *)
(* workspace's agent server only if that workspace bound the port after it *)
(* was found free, and kubectl gave no sign of it in its two seconds or    *)
(* ended later.                                                            *)
THEOREM StrangersNeedCrossing == Spec => []HealthyIsOwn
<1>1. IInv => HealthyIsOwn
  BY DEF IInv
<1> QED
  BY <1>1, Invariance, PTL
=============================================================================
