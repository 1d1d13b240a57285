--------------------------- MODULE SandboxCleanup ---------------------------
(***************************************************************************)
(* The sandbox service of the server and the orphan cleanup of the         *)
(* lifecycle manager on one cluster.  They share no state but the objects: *)
(* a step of one of them, which is one call to Kubernetes, leaves the      *)
(* state of the other alone.                                               *)
(*                                                                         *)
(* Modules Sandbox and OrphanCleanup each put the other process down to    *)
(* its part of the contract of module Cluster.  The argument is circular:  *)
(* the server keeps its part because the cleanup does, and the other way   *)
(* round.  It is sound because each keeps its part in a step if both       *)
(* invariants hold before the step, which is what is proved here: together *)
(* the two processes behave as each module says, so that what is proved of *)
(* each alone holds of both, for any sandboxes, requests, keys, page size  *)
(* and numbers of failing calls.                                           *)
(***************************************************************************)
EXTENDS SandboxProofs, FiniteSets

CONSTANTS
    PageSize,    \* limit of the cleanup's listing of conversations
    MaxMissed    \* bound: calls of the cleanup that fail

VARIABLES
    conv, aged, cleaner, ids, page, left,
    missed,      \* calls of the cleanup that have failed
    steady, fresh

Cleaner == INSTANCE OrphanCleanupProofs WITH
    faults <- missed, MaxFaults <- MaxMissed

service == <<req, turn, used, faults>>
pairVars == <<vars, conv, aged, cleaner, ids, page, left, missed, steady, fresh>>

PairInit == Init /\ Cleaner!Init

\* Every step is one of the server, of the controllers, of the cleanup, or of
\* the conversations and time.
PairNext ==
    /\ \/ /\ \/ \E r \in Request : Server(r)
             \/ \E s \in SandboxId : Controllers(s) /\ UNCHANGED service
          /\ UNCHANGED <<conv, aged, cleaner, ids, page, left, missed>>
       \/ /\ \/ Cleaner!Cleanup
             \/ \E s \in SandboxId : \/ Cleaner!Attach(s)
                                     \/ Cleaner!ConvChanges(s)
                                     \/ Cleaner!PodAges(s)
          /\ UNCHANGED service
    /\ Cleaner!Watch

PairSpec == PairInit /\ [][PairNext]_pairVars

\* What the assumptions of the two modules come to.
CleanerAssumption ==
    IsFiniteSet(SandboxId) /\ PageSize \in Nat /\ MaxMissed \in Nat

-----------------------------------------------------------------------------
(* The two modules speak of one cluster.                                   *)

USE DEF objects, Exists, NoJob, Cleaner!objects, Cleaner!Exists, Cleaner!NoJob

LEMMA SameServerCall ==
    ASSUME NEW s \in SandboxId
    PROVE  ServerCall(s) <=> Cleaner!ServerCall(s)
<1>1. \A k : CreateJob(s, k) <=> Cleaner!CreateJob(s, k)
  BY DEF CreateJob, Cleaner!CreateJob, NewJob, Cleaner!NewJob
<1>2. \A k : CreatePart(s, k) <=> Cleaner!CreatePart(s, k)
  BY DEF CreatePart, Cleaner!CreatePart
<1>3. Kinds = Cleaner!Kinds
  BY DEF Kinds, Cleaner!Kinds, Parts, Cleaner!Parts
<1>4. \A k : MayRemove(s, k) <=> Cleaner!MayRemove(s, k)
  BY DEF MayRemove, Cleaner!MayRemove
<1>5. \A k : Remove(s, k) <=> Cleaner!Remove(s, k)
  BY DEF Remove, Cleaner!Remove
<1>6. \A value : Suspend(s, value) <=> Cleaner!Suspend(s, value)
  BY Zenon DEF Suspend, Cleaner!Suspend
<1>7. /\ Mar(s) <=> Cleaner!Mar(s)
      /\ Forget(s) <=> Cleaner!Forget(s)
  BY DEF Mar, Cleaner!Mar, Forget, Cleaner!Forget
<1> QED
  BY <1>1, <1>2, <1>3, <1>4, <1>5, <1>6, <1>7 DEF ServerCall, Cleaner!ServerCall

LEMMA SameControllers ==
    ASSUME NEW s \in SandboxId
    PROVE  Controllers(s) <=> Cleaner!Controllers(s)
<1> USE DEF ChangePod, Cleaner!ChangePod
<1>1. PodCreated(s) <=> Cleaner!PodCreated(s)
  BY Zenon DEF PodCreated, Cleaner!PodCreated
<1>2. PodRuns(s) <=> Cleaner!PodRuns(s)
  BY Zenon DEF PodRuns, Cleaner!PodRuns
<1>3. PodEnds(s) <=> Cleaner!PodEnds(s)
  BY Zenon DEF PodEnds, Cleaner!PodEnds
<1>4. PodGone(s) <=> Cleaner!PodGone(s)
  BY Zenon DEF PodGone, Cleaner!PodGone
<1>5. JobExpires(s) <=> Cleaner!JobExpires(s)
  BY Zenon DEF JobExpires, Cleaner!JobExpires
<1> QED
  BY <1>1, <1>2, <1>3, <1>4, <1>5 DEF Controllers, Cleaner!Controllers

LEMMA SameTakeAway ==
    ASSUME NEW s \in SandboxId, NEW k
    PROVE  TakeAway(s, k) <=> Cleaner!TakeAway(s, k)
BY DEF TakeAway, Cleaner!TakeAway, Remove, Cleaner!Remove

LEMMA SameClusterVars ==
    UNCHANGED clusterVars <=> UNCHANGED Cleaner!clusterVars
BY DEF clusterVars, Cleaner!clusterVars

\* The assumptions under which the theorems about the cleanup were proved.
LEMMA CleanerAssumptions ==
    ASSUME CleanerAssumption
    PROVE  /\ NoKey \notin Key
           /\ "job" \in Rendered /\ Rendered \subseteq Cleaner!Kinds
           /\ Preserved \subseteq SandboxId
           /\ PageSize \in Nat /\ MaxMissed \in Nat
           /\ Cleaner!IsFiniteSet(SandboxId)
<1>1. Cleaner!IsFiniteSet(SandboxId)
  BY Zenon DEF CleanerAssumption, IsFiniteSet, Cleaner!IsFiniteSet
<1> QED
  BY <1>1, KeyAssumption, RenderedAssumption, PreservedAssumption
  DEF CleanerAssumption, Kinds, Parts, Cleaner!Kinds, Cleaner!Parts

-----------------------------------------------------------------------------
(* A step of one process is a step of the other's environment.             *)

\* To change nothing is to delete a Job that is not there, or to write back
\* the one that is.
LEMMA IdleServerCall ==
    ASSUME ClusterTypeOK, UNCHANGED clusterVars, NEW s \in SandboxId
    PROVE  ServerCall(s)
<1> USE DEF clusterVars
<1>1. CASE Exists(s)
  <2>1. job[s] \in Job /\ job[s].suspend \in BOOLEAN
    BY <1>1 DEF ClusterTypeOK, Job
  <2>2. [job[s] EXCEPT !.suspend = job[s].suspend] = job[s]
    BY <2>1 DEF Job
  <2>3. [job EXCEPT ![s] = [job[s] EXCEPT !.suspend = job[s].suspend]] = job
    BY <2>2 DEF ClusterTypeOK
  <2>4. Suspend(s, job[s].suspend)
    BY <1>1, <2>3 DEF Suspend
  <2> QED
    BY <2>1, <2>4 DEF ServerCall
<1>2. CASE ~Exists(s)
  <2>1. [job EXCEPT ![s] = NoJob] = job
    BY <1>2 DEF ClusterTypeOK
  <2>2. Remove(s, "job")
    BY <2>1 DEF Remove
  <2> QED
    BY <2>2 DEF ServerCall, MayRemove, Kinds
<1> QED
  BY <1>1, <1>2

\* The server keeps its part of the contract, as the cleanup sees it.
LEMMA ServerIsExpected ==
    ASSUME IInv, NEW r \in Request, Server(r)
    PROVE  Cleaner!ServerNext
<1>1. PICK s \in SandboxId : s = req[r].sid
  BY DEF IInv, TypeOK, Record
<1>2. ServerCall(s)
  BY <1>1, ServerKeepsContract, IdleServerCall DEF IInv, TypeOK
<1> QED
  BY <1>2, SameServerCall DEF Cleaner!ServerNext

\* The cleanup keeps its part of the contract, as the server sees it.
LEMMA CleanerIsExpected ==
    ASSUME Cleaner!IInv, Cleaner!Cleanup
    PROVE  (\E s \in SandboxId : CleanupCall(s)) \/ UNCHANGED clusterVars
<1>1. ASSUME NEW s \in SandboxId, Cleaner!Delete(s)
      PROVE  CleanupCall(s) \/ UNCHANGED clusterVars
  <2>1. PICK k \in left[s] :
            UNCHANGED Cleaner!clusterVars \/ Cleaner!TakeAway(s, k)
    BY <1>1 DEF Cleaner!Delete
  <2>2. k \in Compute
    BY DEF Cleaner!IInv, Cleaner!TypeOK, Cleaner!Compute, Compute
  <2> QED
    BY <2>1, <2>2, SameTakeAway, SameClusterVars DEF CleanupCall
<1>2. CASE \/ Cleaner!ListSandboxes \/ Cleaner!ListConversations
           \/ (\E s \in SandboxId : Cleaner!Weigh(s)) \/ Cleaner!Done
  BY <1>2, SameClusterVars
  DEF Cleaner!ListSandboxes, Cleaner!ListConversations, Cleaner!Weigh,
      Cleaner!Done
<1> QED
  BY <1>1, <1>2 DEF Cleaner!Cleanup

LEMMA PairStep ==
    ASSUME IInv, Cleaner!IInv, [PairNext]_pairVars
    PROVE  [Next]_vars /\ [Cleaner!Next]_Cleaner!vars
<1> USE DEF service
<1>1. CASE UNCHANGED pairVars
  BY <1>1, SameClusterVars DEF pairVars, vars, Cleaner!vars, Cleaner!cleanup
<1>2. CASE /\ Cleaner!Watch
           /\ UNCHANGED <<conv, aged, cleaner, ids, page, left, missed>>
           /\ \/ \E r \in Request : Server(r)
              \/ \E s \in SandboxId : Controllers(s) /\ UNCHANGED service
  <2>1. Next
    BY <1>2 DEF Next
  <2>2. Cleaner!ServerNext
    BY <1>2, ServerIsExpected, SameControllers DEF Cleaner!ServerNext
  <2> QED
    BY <1>2, <2>1, <2>2 DEF Cleaner!Next, Cleaner!cleanup
<1>3. CASE Cleaner!Watch /\ Cleaner!Cleanup /\ UNCHANGED service
  <2>1. [Next]_vars
    BY <1>3, CleanerIsExpected DEF Next, vars
  <2> QED
    BY <1>3, <2>1 DEF Cleaner!Next
<1>4. CASE /\ Cleaner!Watch /\ UNCHANGED service
           /\ \E s \in SandboxId : \/ Cleaner!Attach(s)
                                   \/ Cleaner!ConvChanges(s)
                                   \/ Cleaner!PodAges(s)
  <2>1. UNCHANGED vars
    BY <1>4, SameClusterVars
    DEF vars, Cleaner!Attach, Cleaner!ConvChanges, Cleaner!PodAges
  <2> QED
    BY <1>4, <2>1 DEF Cleaner!Next
<1> QED
  BY <1>1, <1>2, <1>3, <1>4 DEF PairNext

-----------------------------------------------------------------------------
(* The theorems.                                                           *)

(* Both invariants hold of the two processes together.                     *)
THEOREM PairInvariance ==
    ASSUME CleanerAssumption
    PROVE  PairSpec => [](IInv /\ Cleaner!IInv)
<1>1. PairInit => IInv /\ Cleaner!IInv
  BY CleanerAssumptions, InitInv, Cleaner!InitInv DEF PairInit
<1>2. IInv /\ Cleaner!IInv /\ [PairNext]_pairVars => (IInv /\ Cleaner!IInv)'
  <2> SUFFICES ASSUME IInv, Cleaner!IInv, [PairNext]_pairVars
               PROVE  IInv' /\ Cleaner!IInv'
    OBVIOUS
  <2>1. [Next]_vars /\ [Cleaner!Next]_Cleaner!vars
    BY PairStep
  <2>2. IInv'
    BY <2>1, InvStep
  <2>3. Cleaner!TypeOK'
    BY <2>1, CleanerAssumptions, Cleaner!TypeStep
  <2>4. /\ Cleaner!NothingLeftBefore' /\ Cleaner!UseIsSeen'
        /\ Cleaner!InUseIsSpared' /\ Cleaner!YoungIsSpared'
    BY <2>1, CleanerAssumptions, Cleaner!SparedStep
  <2> QED
    BY <2>2, <2>3, <2>4 DEF Cleaner!IInv
<1> QED
  BY <1>1, <1>2, PTL DEF PairSpec

(* Beside the cleanup the service behaves as module Sandbox says.          *)
THEOREM ServiceBesideCleanup ==
    ASSUME CleanerAssumption
    PROVE  PairSpec => Spec
<1>1. PairInit => Init
  BY DEF PairInit
<1>2. IInv /\ Cleaner!IInv /\ [PairNext]_pairVars => [Next]_vars
  BY PairStep
<1> QED
  BY <1>1, <1>2, PairInvariance, PTL DEF PairSpec, Spec

(* Beside the service the cleanup behaves as module OrphanCleanup says.    *)
THEOREM CleanupBesideService ==
    ASSUME CleanerAssumption
    PROVE  PairSpec => Cleaner!Spec
<1>1. PairInit => Cleaner!Init
  BY DEF PairInit
<1>2. IInv /\ Cleaner!IInv /\ [PairNext]_pairVars
          => [Cleaner!Next]_Cleaner!vars
  BY PairStep
<1> QED
  BY <1>1, <1>2, PairInvariance, PTL DEF PairSpec, Cleaner!Spec

(* What is promised of each process alone holds of the two together: Jobs  *)
(* keep what they need, keys open sandboxes, recreations delete no Job,    *)
(* workspaces go with their sandbox only, and the cleanup takes neither a  *)
(* sandbox in use nor a young one for an orphan.                           *)
THEOREM PairIsSafe ==
    ASSUME CleanerAssumption
    PROVE  PairSpec => /\ []JobIsServed
                       /\ []KeyOpensSandbox
                       /\ RecreateSparesJob
                       /\ OnlyDeleteTakesClaim
                       /\ []Cleaner!InUseIsSpared
                       /\ []Cleaner!YoungIsSpared
<1>1. Cleaner!IInv => Cleaner!InUseIsSpared /\ Cleaner!YoungIsSpared
  BY DEF Cleaner!IInv
<1> QED
  BY <1>1, PairInvariance, ServiceBesideCleanup, JobsAreServed,
     KeysOpenSandboxes, RecreationSparesJobs, WorkspacesOutliveJobs, PTL
=============================================================================
