--------------------------- MODULE OrphanCleanup ---------------------------
(***************************************************************************)
(* The orphan cleanup of the lifecycle manager: it lists the sandboxes     *)
(* that Kubernetes knows, then the conversations that the server knows,    *)
(* and deletes the Jobs, Services and Ingresses of the sandboxes that no   *)
(* live conversation uses.                                                 *)
(*                                                                         *)
(* It is another process than the server: its calls interleave with those  *)
(* of the server, of which only the contract of module Cluster is assumed, *)
(* and with the controllers.  The weighing of the listed sandboxes and the *)
(* deletions await nothing.                                                *)
(*                                                                         *)
(* Abstracted: a pod is young or has reached the minimum age; a            *)
(* conversation is live, or has ended (stopped or in error).               *)
(***************************************************************************)
EXTENDS Cluster, FiniteSets

CONSTANTS
    PageSize,    \* limit of the listing of conversations
    MaxFaults    \* bound: calls of the cleanup that fail

ASSUME PageSizeAssumption == PageSize \in Nat
ASSUME SandboxesAssumption == IsFiniteSet(SandboxId)
ASSUME MaxFaultsAssumption == MaxFaults \in Nat

VARIABLES
    conv,      \* conv[s]: the conversation that has sandbox s
    aged,      \* keys whose pod has reached the minimum age
    cleaner,   \* where the cleanup is
    ids,       \* sandboxes listed and not yet weighed
    page,      \* page[s]: what the listing says of the conversation of s
    left,      \* left[s]: what is still to delete of an orphan s
    faults,
    steady,    \* history: sandboxes in use since the cleanup listed them
    fresh      \* history: sandboxes with young pods only since then

cleanup == <<cleaner, ids, page, left>>
vars == <<clusterVars, conv, aged, cleanup, faults, steady, fresh>>

Convs == {"none", "live", "ended"}

\* An entry of the page: whether the conversation is listed, its execution
\* status, and the sandbox status that the server computed for it.
Entry == [conv : Convs,
          sandbox : {"STARTING", "RUNNING", "PAUSED", "ERROR", "MISSING"}]
Unlisted == [conv |-> "none", sandbox |-> "MISSING"]

TypeOK ==
    /\ ClusterTypeOK
    /\ conv \in [SandboxId -> Convs]
    /\ aged \subseteq Key
    /\ cleaner \in {"idle", "listed", "weigh"}
    /\ ids \subseteq SandboxId
    /\ page \in [SandboxId -> Entry]
    /\ left \in [SandboxId -> SUBSET Compute]
    /\ faults \in 0..MaxFaults
    /\ steady \subseteq SandboxId
    /\ fresh \subseteq SandboxId

Init ==
    /\ ClusterInit
    /\ conv = [s \in SandboxId |-> "none"]
    /\ aged = {}
    /\ cleaner = "idle"
    /\ ids = {}
    /\ page = [s \in SandboxId |-> Unlisted]
    /\ left = [s \in SandboxId |-> {}]
    /\ faults = 0
    /\ steady = {}
    /\ fresh = {}

----------------------------------------------------------------------------
(* Conversations and time                                                  *)

\* The task that starts a conversation stores it after the sandbox's start.
Attach(s) ==
    /\ conv[s] = "none" /\ Exists(s)
    /\ conv' = [conv EXCEPT ![s] = "live"]
    /\ UNCHANGED <<clusterVars, faults, aged, cleanup>>

\* The agent stops or fails, or works again; or the conversation is deleted.
ConvChanges(s) ==
    /\ conv[s] # "none"
    /\ \E c \in Convs \ {conv[s]} : conv' = [conv EXCEPT ![s] = c]
    /\ UNCHANGED <<clusterVars, faults, aged, cleanup>>

PodAges(s) ==
    /\ \E p \in pods[s] : aged' = aged \cup {p.key}
    /\ aged' # aged
    /\ UNCHANGED <<clusterVars, faults, conv, cleanup>>

----------------------------------------------------------------------------
(* The cleanup                                                             *)

CallFails == faults < MaxFaults /\ faults' = faults + 1
CallWorks == UNCHANGED faults

Known(s) == Exists(s) \/ parts[s] \cap {"service", "ingress"} # {}

Rest ==
    /\ cleaner' = "idle"
    /\ ids' = {}
    /\ page' = [s \in SandboxId |-> Unlisted]
    /\ left' = [s \in SandboxId |-> {}]

\* _list_k8s_sandbox_ids
ListSandboxes ==
    /\ cleaner = "idle"
    /\ \E s \in SandboxId : Known(s)
    /\ ids' = {s \in SandboxId : Known(s)}
    /\ cleaner' = "listed"
    /\ UNCHANGED <<clusterVars, faults, conv, aged, page, left>>

\* The status that batch_get_sandboxes gives, which recreates nothing.
ListedStatuses(s) ==
    IF ~Exists(s) THEN {"MISSING"}
    ELSE IF job[s].suspend THEN {"PAUSED"}
    ELSE IF pods[s] # {} THEN {PhaseStatus[p.phase] : p \in pods[s]}
    ELSE {IF job[s].end = "failed" THEN "ERROR" ELSE "STARTING"}

FitsPageLess(S) ==   \* mutant: the page is one entry short
    /\ S \subseteq {s \in SandboxId : conv[s] # "none"}
    /\ Cardinality(S) < PageSize

\* The page shows PageSize conversations, all of them if they are not more.
FitsPage(S) ==
    LET attached == {s \in SandboxId : conv[s] # "none"} IN
    /\ S \subseteq attached
    /\ Cardinality(S) <= PageSize
    /\ S # attached => Cardinality(S) = PageSize

\* _list_conversations: an awaited request to the server.  If it fails, the
\* cleanup ends; if a call of the server to Kubernetes fails, the sandbox
\* concerned is shown as MISSING.
ListConversations ==
    /\ cleaner = "listed"
    /\ \/ CallFails /\ Rest
       \/ /\ CallWorks \/ CallFails
          /\ page' \in [SandboxId -> Entry]
          /\ \E S \in SUBSET SandboxId :
              /\ FitsPage(S)
              /\ \A s \in SandboxId \ S : page'[s] = Unlisted
              /\ \A s \in S :
                  /\ page'[s].conv = conv[s]
                  /\ \/ page'[s].sandbox \in ListedStatuses(s)
                     \/ page'[s].sandbox = "MISSING" /\ faults' # faults
          /\ cleaner' = "weigh"
          /\ UNCHANGED <<ids, left>>
    /\ UNCHANGED <<clusterVars, conv, aged>>

\* The age is that of the first pod listed; a sandbox without a pod, or whose
\* pods cannot be listed, has no age and is weighed.
TooYoung(s) == \E p \in pods[s] : p.key \notin aged
WeighedAnyway(s) == s \in SandboxId   \* mutant: the age is not asked for

MayBeWeighed(s) == pods[s] = {} \/ \E p \in pods[s] : p.key \in aged

OrphanedUnlessRunning(e) ==   \* mutant: a paused sandbox is an orphan as well
    e.conv # "live" \/ e.sandbox # "RUNNING"

Orphaned(e) == e.conv # "live" \/ e.sandbox \in {"MISSING", "ERROR"}

WeighForPurge(s) ==   \* mutant: an orphan loses its claim as well
    /\ cleaner = "weigh" /\ s \in ids
    /\ ids' = ids \ {s}
    /\ CallWorks /\ MayBeWeighed(s) /\ Orphaned(page[s])
    /\ left' = [left EXCEPT ![s] = Kinds]
    /\ UNCHANGED <<clusterVars, conv, aged, cleaner, page>>

\* One round of the loop over the listed sandboxes.
Weigh(s) ==
    /\ cleaner = "weigh" /\ s \in ids
    /\ ids' = ids \ {s}
    /\ \/ CallWorks /\ TooYoung(s) /\ UNCHANGED left
       \/ /\ (CallWorks /\ MayBeWeighed(s)) \/ CallFails
          /\ left' = IF Orphaned(page[s]) THEN [left EXCEPT ![s] = Compute]
                                          ELSE left
    /\ UNCHANGED <<clusterVars, conv, aged, cleaner, page>>

\* delete_sandbox_resources, one sandbox after the other: the Job, then the
\* Service, then the Ingress; a call that fails is logged.
Delete(s) ==
    /\ cleaner = "weigh" /\ ids = {}
    /\ \A t \in SandboxId \ {s} : left[t] \in {{}, Compute}
    /\ \E k \in left[s] :
        /\ IsFirst(k, left[s])
        /\ left' = [left EXCEPT ![s] = @ \ {k}]
        /\ \/ CallFails /\ UNCHANGED clusterVars
           \/ CallWorks /\ TakeAway(s, k)
    /\ UNCHANGED <<conv, aged, cleaner, ids, page>>

Done ==
    /\ cleaner = "weigh" /\ ids = {}
    /\ \A s \in SandboxId : left[s] = {}
    /\ Rest
    /\ UNCHANGED <<clusterVars, faults, conv, aged>>

Cleanup ==
    \/ ListSandboxes \/ ListConversations
    \/ \E s \in SandboxId : Weigh(s) \/ Delete(s)
    \/ Done

----------------------------------------------------------------------------

\* A sandbox in use: its conversation is live and its Job has not ended, nor
\* has it lost pods to an earlier Job.
InUse(s) ==
    /\ conv[s] = "live"
    /\ Exists(s) /\ job[s].end = "no"
    /\ \A p \in pods[s] : p.phase # "Failed"

AllYoung(s) == pods[s] # {} /\ \A p \in pods[s] : p.key \notin aged

\* The history variables, kept by every step.
Watch ==
    LET begins == cleaner = "idle" /\ cleaner' = "listed" IN
    /\ steady' = {s \in (IF begins THEN SandboxId ELSE steady) :
                      InUse(s)' /\ faults' = faults /\ cleaner' # "idle"}
    /\ fresh' = {s \in (IF begins THEN SandboxId ELSE fresh) :
                     AllYoung(s)' /\ faults' = faults /\ cleaner' # "idle"}

Next ==
    /\ \/ ServerNext /\ UNCHANGED <<conv, aged, cleanup, faults>>
       \/ \E s \in SandboxId : Attach(s) \/ ConvChanges(s) \/ PodAges(s)
       \/ Cleanup
    /\ Watch

Spec == Init /\ [][Next]_vars

----------------------------------------------------------------------------
(* Properties                                                              *)

\* A sandbox whose conversation was live and whose Job was there from the
\* moment the cleanup listed it is not found to be an orphan, whatever the
\* server does meanwhile, as long as all conversations fit the page and no
\* call fails (cleanup.py:216, :220).
InUseIsSpared ==
    Cardinality(SandboxId) <= PageSize
        => \A s \in steady : left[s] = {}

\* A sandbox that had pods, all of them younger than the minimum age, from
\* the moment the cleanup listed it is not found to be an orphan, whether or
\* not a conversation has it yet (cleanup.py:231).
YoungIsSpared == \A s \in fresh : left[s] = {}

\* Before the weighing nothing is to be deleted.
NothingLeftBefore ==
    cleaner # "weigh" => \A s \in SandboxId : left[s] = {}

\* A page that holds all conversations shows a sandbox in use as such.
UseIsSeen ==
    Cardinality(SandboxId) <= PageSize /\ cleaner = "weigh"
        => \A s \in steady : ~Orphaned(page[s])

\* The invariant that every step preserves, and which implies the others.
IInv ==
    /\ TypeOK
    /\ NothingLeftBefore
    /\ UseIsSeen
    /\ InUseIsSpared
    /\ YoungIsSpared
=============================================================================
