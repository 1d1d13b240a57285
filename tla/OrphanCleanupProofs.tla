------------------------ MODULE OrphanCleanupProofs ------------------------
(***************************************************************************)
(* Proofs about OrphanCleanup for any finite set of sandboxes, any page    *)
(* size and any number of failed calls.                                    *)
(***************************************************************************)
EXTENDS OrphanCleanup, FiniteSetTheorems, TLAPS

USE DEF objects, Exists

-----------------------------------------------------------------------------
(* The cluster.                                                            *)

LEMMA NoJobIsNoJob == NoJob \notin Job /\ NoJob.key = NoKey
BY KeyAssumption DEF NoJob, Job

LEMMA ServerCallType ==
    ASSUME ClusterTypeOK, NEW s \in SandboxId, ServerCall(s)
    PROVE  ClusterTypeOK'
<1>1. ASSUME NEW k \in Key, CreateJob(s, k) PROVE ClusterTypeOK'
  BY <1>1 DEF CreateJob, NewJob, ClusterTypeOK, Job
<1>2. ASSUME NEW k \in Rendered \ {"job"}, CreatePart(s, k) PROVE ClusterTypeOK'
  BY <1>2, RenderedAssumption DEF CreatePart, ClusterTypeOK, Kinds
<1>3. ASSUME NEW k \in Kinds, Remove(s, k) PROVE ClusterTypeOK'
  BY <1>3 DEF Remove, ClusterTypeOK
<1>4. ASSUME NEW value \in BOOLEAN, Suspend(s, value) PROVE ClusterTypeOK'
  <2>1. [job[s] EXCEPT !.suspend = value] \in Job
    BY <1>4 DEF Suspend, ClusterTypeOK, Job
  <2> QED
    BY <1>4, <2>1 DEF Suspend, ClusterTypeOK
<1>5. CASE Mar(s) \/ Forget(s)
  BY <1>5 DEF Mar, Forget, ClusterTypeOK
<1> QED
  BY <1>1, <1>2, <1>3, <1>4, <1>5 DEF ServerCall

LEMMA ControllersType ==
    ASSUME ClusterTypeOK, NEW s \in SandboxId, Controllers(s)
    PROVE  ClusterTypeOK'
<1>1. CASE PodCreated(s)
  <2>1. [key |-> job[s].key, phase |-> "Pending"] \in Pod
    BY <1>1 DEF PodCreated, ClusterTypeOK, Job, Pod
  <2> QED
    BY <1>1, <2>1 DEF PodCreated, ClusterTypeOK
<1>2. CASE PodRuns(s)
  BY <1>2 DEF PodRuns, ChangePod, ClusterTypeOK, Pod
<1>3. CASE PodEnds(s)
  <2>1. PICK p \in pods[s], end \in {"failed", "complete"} :
            /\ ChangePod(s, p, IF end = "failed" THEN "Failed" ELSE "Succeeded")
            /\ job' = IF job[s].key = p.key /\ ~job[s].suspend
                      THEN [job EXCEPT ![s].end = end] ELSE job
    BY <1>3 DEF PodEnds
  <2>2. p \in Pod /\ p.key \in Key
    BY DEF ClusterTypeOK, Pod
  <2>3. pods' \in [SandboxId -> SUBSET Pod]
    BY <2>1, <2>2 DEF ChangePod, ClusterTypeOK, Pod
  <2>4. job[s].key = p.key => [job[s] EXCEPT !.end = end] \in Job
    BY <2>2, NoJobIsNoJob, KeyAssumption DEF ClusterTypeOK, Job
  <2>5. job' \in [SandboxId -> Job \cup {NoJob}]
    BY <2>1, <2>4 DEF ClusterTypeOK
  <2> QED
    BY <1>3, <2>3, <2>5 DEF PodEnds, ClusterTypeOK
<1>4. CASE PodGone(s) \/ JobExpires(s)
  BY <1>4 DEF PodGone, JobExpires, ClusterTypeOK
<1> QED
  BY <1>1, <1>2, <1>3, <1>4 DEF Controllers

-----------------------------------------------------------------------------
(* Type correctness.                                                       *)

LEMMA UnlistedIsEntry == Unlisted \in Entry
BY DEF Unlisted, Entry, Convs

LEMMA InitInv == Init => IInv
<1> SUFFICES ASSUME Init PROVE IInv
  OBVIOUS
<1>1. TypeOK
  BY UnlistedIsEntry, RenderedAssumption, MaxFaultsAssumption
  DEF Init, ClusterInit, TypeOK, ClusterTypeOK, Kinds, Convs
<1> QED
  BY <1>1 DEF Init, IInv, NothingLeftBefore, UseIsSeen, InUseIsSpared,
              YoungIsSpared

LEMMA FaultsType ==
    ASSUME TypeOK, CallFails \/ CallWorks
    PROVE  faults' \in 0..MaxFaults
BY MaxFaultsAssumption DEF TypeOK, CallFails, CallWorks

LEMMA RestType ==
    ASSUME Rest
    PROVE  /\ cleaner' \in {"idle", "listed", "weigh"} /\ ids' \subseteq SandboxId
           /\ page' \in [SandboxId -> Entry]
           /\ left' \in [SandboxId -> SUBSET Compute]
BY UnlistedIsEntry DEF Rest

LEMMA CleanupTypeStep ==
    ASSUME TypeOK, Cleanup, Watch
    PROVE  TypeOK'
<1>1. steady' \subseteq SandboxId /\ fresh' \subseteq SandboxId
  BY DEF Watch, TypeOK
<1>2. CASE ListSandboxes
  BY <1>1, <1>2 DEF ListSandboxes, TypeOK, ClusterTypeOK, clusterVars
<1>3. CASE ListConversations
  BY <1>1, <1>3, FaultsType, RestType
  DEF ListConversations, TypeOK, ClusterTypeOK, clusterVars
<1>4. ASSUME NEW s \in SandboxId, Weigh(s) PROVE TypeOK'
  BY <1>1, <1>4, FaultsType DEF Weigh, TypeOK, ClusterTypeOK, clusterVars
<1>5. ASSUME NEW s \in SandboxId, Delete(s) PROVE TypeOK'
  <2>1. PICK k \in left[s] :
            /\ left' = [left EXCEPT ![s] = @ \ {k}]
            /\ \/ CallFails /\ UNCHANGED clusterVars
               \/ CallWorks /\ TakeAway(s, k)
    BY <1>5 DEF Delete
  <2>2. left' \in [SandboxId -> SUBSET Compute] /\ k \in Kinds
    BY <2>1 DEF TypeOK, Compute, Kinds, Parts
  <2>3. faults' \in 0..MaxFaults
    BY <2>1, FaultsType
  <2>4. ClusterTypeOK'
    BY <2>1, <2>2 DEF TakeAway, Remove, TypeOK, ClusterTypeOK, clusterVars
  <2> QED
    BY <1>1, <1>5, <2>2, <2>3, <2>4 DEF Delete, TypeOK
<1>6. CASE Done
  BY <1>1, <1>6, RestType DEF Done, TypeOK, ClusterTypeOK, clusterVars
<1> QED
  BY <1>2, <1>3, <1>4, <1>5, <1>6 DEF Cleanup

LEMMA TypeStep ==
    ASSUME IInv, [Next]_vars
    PROVE  TypeOK'
<1> USE DEF IInv
<1>1. CASE UNCHANGED vars
  BY <1>1 DEF vars, clusterVars, cleanup, TypeOK, ClusterTypeOK
<1>2. ASSUME Watch PROVE steady' \subseteq SandboxId /\ fresh' \subseteq SandboxId
  BY <1>2 DEF Watch, TypeOK
<1>3. CASE ServerNext /\ UNCHANGED <<conv, aged, cleanup, faults>> /\ Watch
  <2>1. ClusterTypeOK'
    BY <1>3, ServerCallType, ControllersType DEF ServerNext, TypeOK
  <2> QED
    BY <1>2, <1>3, <2>1 DEF TypeOK, cleanup
<1>4. ASSUME NEW s \in SandboxId, Watch, Attach(s) \/ ConvChanges(s) \/ PodAges(s)
      PROVE  TypeOK'
  <2>1. \A p \in pods[s] : p.key \in Key
    BY DEF TypeOK, ClusterTypeOK, Pod
  <2> QED
    BY <1>2, <1>4, <2>1
    DEF Attach, ConvChanges, PodAges, TypeOK, ClusterTypeOK, Convs, cleanup,
        clusterVars
<1> QED
  BY <1>1, <1>3, <1>4, CleanupTypeStep DEF Next

-----------------------------------------------------------------------------
(* What the cleanup spares.                                                *)

\* What a sandbox that is steady or fresh after a step was before it.
LEMMA Watched ==
    ASSUME Watch, NEW s \in SandboxId
    PROVE  /\ s \in steady' =>
                /\ InUse(s)' /\ faults' = faults /\ cleaner' # "idle"
                /\ s \in steady \/ (cleaner = "idle" /\ cleaner' = "listed")
           /\ s \in fresh' =>
                /\ AllYoung(s)' /\ faults' = faults /\ cleaner' # "idle"
                /\ s \in fresh \/ (cleaner = "idle" /\ cleaner' = "listed")
BY DEF Watch

\* A page that may hold them all shows every conversation there is.
LEMMA PageHoldsAll ==
    ASSUME NEW S \in SUBSET SandboxId, FitsPage(S),
           Cardinality(SandboxId) <= PageSize
    PROVE  S = {s \in SandboxId : conv[s] # "none"}
<1> DEFINE attached == {s \in SandboxId : conv[s] # "none"}
<1>1. IsFiniteSet(attached) /\ Cardinality(attached) <= Cardinality(SandboxId)
  BY SandboxesAssumption, FS_Subset
<1>2. /\ IsFiniteSet(S) /\ Cardinality(S) <= Cardinality(attached)
      /\ Cardinality(S) = Cardinality(attached) => S = attached
  BY <1>1, FS_Subset DEF FitsPage
<1>3. /\ Cardinality(S) \in Nat /\ Cardinality(attached) \in Nat
      /\ Cardinality(SandboxId) \in Nat
  BY <1>1, <1>2, SandboxesAssumption, FS_CardinalityType
<1>4. S # attached => Cardinality(S) = PageSize
  BY DEF FitsPage
<1> QED
  BY <1>1, <1>2, <1>3, <1>4, PageSizeAssumption

\* The server shows a sandbox in use neither as missing nor in error.
LEMMA InUseIsListed ==
    ASSUME TypeOK, NEW s \in SandboxId, InUse(s)
    PROVE  ListedStatuses(s) \cap {"MISSING", "ERROR"} = {}
<1>1. CASE pods[s] # {} /\ ~job[s].suspend
  <2>1. \A p \in pods[s] : p.phase \in {"Pending", "Running", "Succeeded"}
    BY DEF InUse, TypeOK, ClusterTypeOK, Pod
  <2>2. \A p \in pods[s] : PhaseStatus[p.phase] \notin {"MISSING", "ERROR"}
    BY <2>1 DEF PhaseStatus
  <2>3. ListedStatuses(s) = {PhaseStatus[p.phase] : p \in pods[s]}
    BY <1>1 DEF ListedStatuses, InUse
  <2> QED
    BY <2>2, <2>3
<1>2. CASE ~(pods[s] # {} /\ ~job[s].suspend)
  BY <1>2 DEF ListedStatuses, InUse
<1> QED
  BY <1>1, <1>2

\* A page that is being made shows the sandboxes in use.
LEMMA ListingShowsUse ==
    ASSUME IInv, ListConversations, faults' = faults, cleaner' = "weigh",
           Cardinality(SandboxId) <= PageSize,
           NEW s \in SandboxId, InUse(s)
    PROVE  ~Orphaned(page'[s])
<1>1. CallWorks /\ faults \in Nat
  BY MaxFaultsAssumption DEF ListConversations, CallFails, IInv, TypeOK
<1>2. PICK S \in SUBSET SandboxId :
        /\ FitsPage(S)
        /\ \A t \in S :
            /\ page'[t].conv = conv[t]
            /\ \/ page'[t].sandbox \in ListedStatuses(t)
               \/ page'[t].sandbox = "MISSING" /\ faults' # faults
  BY DEF ListConversations, Rest
<1>3. s \in S
  BY <1>2, PageHoldsAll DEF InUse
<1>4. page'[s].conv = "live" /\ page'[s].sandbox \in ListedStatuses(s)
  BY <1>2, <1>3 DEF InUse
<1> QED
  BY <1>4, InUseIsListed DEF Orphaned, IInv

LEMMA SparedStep ==
    ASSUME IInv, [Next]_vars
    PROVE  NothingLeftBefore' /\ UseIsSeen' /\ InUseIsSpared' /\ YoungIsSpared'
<1> USE DEF IInv
<1>1. CASE UNCHANGED vars
  BY <1>1 DEF vars, cleanup, NothingLeftBefore, UseIsSeen, InUseIsSpared,
              YoungIsSpared
<1>2. CASE Watch /\ UNCHANGED cleanup
  <2>1. \A s \in SandboxId :
            /\ s \in steady' => s \in steady
            /\ s \in fresh' => s \in fresh
    BY <1>2, Watched DEF cleanup
  <2> QED
    BY <1>2, <2>1
    DEF cleanup, NothingLeftBefore, UseIsSeen, InUseIsSpared, YoungIsSpared,
        Watch, TypeOK
<1>3. CASE Watch /\ ListSandboxes
  BY <1>3 DEF ListSandboxes, NothingLeftBefore, UseIsSeen, InUseIsSpared,
              YoungIsSpared, Watch, TypeOK
<1>4. CASE Watch /\ ListConversations
  <2>1. cleaner = "listed" /\ \A s \in SandboxId : left[s] = {}
    BY <1>4 DEF ListConversations, NothingLeftBefore
  <2>2. \A s \in SandboxId : left'[s] = {}
    BY <1>4, <2>1 DEF ListConversations, Rest
  <2>3. steady' \subseteq SandboxId /\ fresh' \subseteq SandboxId
    BY <1>4 DEF Watch, TypeOK
  <2>4. UseIsSeen'
    <3> SUFFICES ASSUME Cardinality(SandboxId) <= PageSize, cleaner' = "weigh",
                        NEW s \in SandboxId, s \in steady'
                 PROVE  ~Orphaned(page'[s])
      BY <2>3 DEF UseIsSeen, Orphaned
    <3>1. InUse(s)' /\ faults' = faults
      BY <1>4, Watched
    <3>2. InUse(s)
      BY <1>4, <3>1 DEF ListConversations, InUse, clusterVars
    <3> QED
      BY <1>4, <3>1, <3>2, ListingShowsUse
  <2> QED
    BY <2>2, <2>3, <2>4 DEF NothingLeftBefore, InUseIsSpared, YoungIsSpared
<1>5. ASSUME NEW s \in SandboxId, Watch, Weigh(s)
      PROVE  NothingLeftBefore' /\ UseIsSeen' /\ InUseIsSpared' /\ YoungIsSpared'
  <2>1. /\ cleaner = "weigh" /\ cleaner' = cleaner /\ page' = page
        /\ steady' \subseteq steady /\ fresh' \subseteq fresh
        /\ \A t \in SandboxId \ {s} : left'[t] = left[t]
    BY <1>5 DEF Weigh, Watch, TypeOK
  <2>2. ASSUME s \in steady', Cardinality(SandboxId) <= PageSize
        PROVE  left'[s] = {}
    <3>1. left[s] = {} /\ ~Orphaned(page[s])
      BY <2>1, <2>2 DEF InUseIsSpared, UseIsSeen
    <3> QED
      BY <1>5, <3>1 DEF Weigh
  <2>3. ASSUME s \in fresh' PROVE left'[s] = {}
    <3>1. left[s] = {} /\ AllYoung(s)' /\ faults' = faults
      BY <1>5, <2>1, <2>3, Watched DEF YoungIsSpared
    <3>2. AllYoung(s)
      BY <1>5, <3>1 DEF Weigh, AllYoung, clusterVars
    <3>3. ~MayBeWeighed(s)
      BY <3>2 DEF AllYoung, MayBeWeighed
    <3>4. ~CallFails
      BY <3>1, MaxFaultsAssumption DEF CallFails, TypeOK
    <3> QED
      BY <1>5, <3>1, <3>3, <3>4 DEF Weigh
  <2>4. steady \subseteq SandboxId /\ fresh \subseteq SandboxId
    BY DEF TypeOK
  <2>5. NothingLeftBefore' /\ UseIsSeen'
    BY <2>1 DEF NothingLeftBefore, UseIsSeen, Orphaned
  <2> QED
    BY <2>1, <2>2, <2>3, <2>4, <2>5 DEF InUseIsSpared, YoungIsSpared
<1>6. ASSUME NEW s \in SandboxId, Watch, Delete(s)
      PROVE  NothingLeftBefore' /\ UseIsSeen' /\ InUseIsSpared' /\ YoungIsSpared'
  <2>1. /\ cleaner = "weigh" /\ cleaner' = cleaner /\ page' = page
        /\ steady' \subseteq steady /\ fresh' \subseteq fresh
        /\ \A t \in SandboxId : left'[t] \subseteq left[t]
    BY <1>6 DEF Delete, Watch, TypeOK
  <2> QED
    BY <2>1 DEF NothingLeftBefore, UseIsSeen, InUseIsSpared, YoungIsSpared,
                Orphaned, TypeOK
<1>7. CASE Watch /\ Done
  BY <1>7 DEF Done, Rest, NothingLeftBefore, UseIsSeen, InUseIsSpared,
              YoungIsSpared, Watch, TypeOK
<1> QED
  BY <1>1, <1>2, <1>3, <1>4, <1>5, <1>6, <1>7
  DEF Next, Cleanup, Attach, ConvChanges, PodAges, cleanup

-----------------------------------------------------------------------------
(* The theorems.                                                           *)

(* The invariant that ties what the cleanup has listed to what it may      *)
(* delete holds of every behaviour of cleanup_orphaned.                    *)
THEOREM Invariance == Spec => []IInv
<1>1. Init => IInv
  BY InitInv
<1>2. IInv /\ [Next]_vars => IInv'
  BY TypeStep, SparedStep DEF IInv
<1> QED
  BY <1>1, <1>2, PTL DEF Spec

(* Every reachable state of the cleanup and the cluster is well typed.     *)
THEOREM TypeCorrect == Spec => []TypeOK
<1>1. IInv => TypeOK
  BY DEF IInv
<1> QED
  BY <1>1, Invariance, PTL

(* If all conversations fit the page and no call fails, a sandbox in use   *)
(* since it was listed is not taken for an orphan.                         *)
THEOREM SandboxesInUseAreSpared == Spec => []InUseIsSpared
<1>1. IInv => InUseIsSpared
  BY DEF IInv
<1> QED
  BY <1>1, Invariance, PTL

(* A sandbox that has had young pods only since it was listed is not taken *)
(* for an orphan.                                                          *)
THEOREM YoungSandboxesAreSpared == Spec => []YoungIsSpared
<1>1. IInv => YoungIsSpared
  BY DEF IInv
<1> QED
  BY <1>1, Invariance, PTL
=============================================================================
