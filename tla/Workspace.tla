------------------------------ MODULE Workspace ------------------------------
(***************************************************************************)
(* The workspaces of the SDK that run an agent server in a Kubernetes Job  *)
(* of their own: KubernetesWorkspace and NixCSIWorkspace, which share      *)
(* their life cycle.  The constructor creates the Job, waits for its pod,  *)
(* forwards a local port to it and waits for the agent server's answer;    *)
(* cleanup, called by the user, on leaving a with block and when the       *)
(* object is finalized, undoes it.                                         *)
(*                                                                         *)
(* Each workspace belongs to a thread or a program; they share the local   *)
(* ports of a machine.                                                     *)
(*                                                                         *)
(* Abstracted: the manifest; the Nix packages; a local port that the user  *)
(* fixes; the thread that logs what kubectl prints; times, of which only   *)
(* the timeouts that expire count.                                         *)
(***************************************************************************)
EXTENDS Naturals

CONSTANTS
    Workspace,
    Port,
    NoPort,
    NoOne,
    Kept,        \* workspaces with cleanup_on_exit = False
    MaxFaults    \* bound: kubectl calls that fail, programs that are killed

ASSUME NobodyAssumption == NoPort \notin Port /\ NoOne \notin Workspace
ASSUME KeptAssumption == Kept \subseteq Workspace
ASSUME MaxFaultsAssumption == MaxFaults \in Nat

VARIABLES
    pc,          \* pc[w]: how far the constructor of w has come
    mode,        \* mode[w]: how w is to reach its agent server
    job,         \* job[w]: "sent" if creating it has timed out
    pod,
    proc,        \* proc[w]: kubectl port-forward
    port,
    answered,    \* history: whose agent server has answered w
    late,        \* history: kubectl was dialing yet when the two seconds that
                 \* _start_port_forward waits were over
    cut,         \* history: forwarding has ended after the two seconds
    crossed,     \* history: another workspace has bound the port of w since w
                 \* found it free
    excused,     \* history: what w leaves behind is not its doing
    faults

cluster == <<job, pod>>
forwarder == <<proc, port>>
history == <<late, cut, crossed>>
vars == <<pc, mode, cluster, forwarder, answered, history, excused, faults>>

TypeOK ==
    /\ pc \in [Workspace -> {"new", "created", "forward", "settle", "health",
                             "ready", "raised", "closed", "gone"}]
    /\ mode \in [Workspace -> {"forward", "external", "neither"}]
    /\ job \in [Workspace -> {"none", "sent", "exists"}]
    /\ pod \in [Workspace -> {"none", "pending", "running", "ended"}]
    /\ proc \in [Workspace -> {"none", "dialing", "listening", "ended"}]
    /\ port \in [Workspace -> Port \cup {NoPort}]
    /\ answered \in [Workspace -> Workspace \cup {NoOne}]
    /\ late \subseteq Workspace
    /\ cut \subseteq Workspace
    /\ crossed \subseteq Workspace
    /\ excused \subseteq Workspace
    /\ faults \in 0..MaxFaults

Init ==
    /\ pc = [w \in Workspace |-> "new"]
    /\ mode \in [Workspace -> {"forward", "external", "neither"}]
    /\ job = [w \in Workspace |-> "none"]
    /\ pod = [w \in Workspace |-> "none"]
    /\ proc = [w \in Workspace |-> "none"]
    /\ port = [w \in Workspace |-> NoPort]
    /\ answered = [w \in Workspace |-> NoOne]
    /\ late = {} /\ cut = {} /\ crossed = {}
    /\ excused = {}
    /\ faults = 0

----------------------------------------------------------------------------

Fails == faults < MaxFaults /\ faults' = faults + 1
Works == UNCHANGED faults

To(w, next) == pc' = [pc EXCEPT ![w] = next]

\* kubectl apply creates the Job, refuses, or times out: then the Job may be
\* created yet.
CreateJob(w) ==
    /\ pc[w] = "new"
    /\ \/ /\ Works /\ To(w, "created")
          /\ job' = [job EXCEPT ![w] = "exists"] /\ UNCHANGED excused
       \/ Fails /\ To(w, "raised") /\ UNCHANGED <<job, excused>>
       \/ /\ Fails /\ To(w, "raised")
          /\ job' = [job EXCEPT ![w] = "sent"] /\ excused' = excused \cup {w}
    /\ UNCHANGED <<mode, pod, forwarder, answered, history>>

OnwardHostless(m) ==   \* mutant: the constructor goes on without a host
    [forward |-> "forward", external |-> "health", neither |-> "hostless"][m]

\* What the constructor goes on with once the pod runs.
Onward(m) == [forward |-> "forward", external |-> "health", neither |-> "raised"][m]

\* _wait_for_pod_running: while there is no pod kubectl has no item to print
\* and fails; a pod that has failed, or is not running in time, ends it too.
AwaitPod(w) ==
    /\ pc[w] = "created"
    /\ \/ Works /\ pod[w] = "running" /\ To(w, Onward(mode[w]))
       \/ Works /\ pod[w] # "running" /\ To(w, "raised")
       \/ Fails /\ To(w, "raised")
    /\ UNCHANGED <<mode, cluster, forwarder, answered, history, excused>>

Listens(v, p) == proc[v] = "listening" /\ port[v] = p

StartForwardHasty(w) ==   \* mutant: nothing waits for kubectl
    /\ pc[w] = "forward"
    /\ \E p \in Port : port' = [port EXCEPT ![w] = p]
    /\ proc' = [proc EXCEPT ![w] = "dialing"]
    /\ To(w, "health")
    /\ UNCHANGED <<mode, cluster, answered, history, excused, faults>>

\* A free port is chosen by binding it and letting it go again.
StartForward(w) ==
    /\ pc[w] = "forward"
    /\ \E p \in Port :
        /\ \A v \in Workspace : ~Listens(v, p)
        /\ port' = [port EXCEPT ![w] = p]
    /\ proc' = [proc EXCEPT ![w] = "dialing"]
    /\ To(w, "settle")
    /\ UNCHANGED <<mode, cluster, answered, history, excused, faults>>

SettleUnchecked(w) ==   \* mutant: kubectl's exit is not looked at
    /\ pc[w] = "settle"
    /\ To(w, "health")
    /\ UNCHANGED <<mode, cluster, forwarder, answered, history, excused,
                   faults>>

\* After two seconds, whatever kubectl is at: has it exited?
Settle(w) ==
    /\ pc[w] = "settle"
    /\ To(w, IF proc[w] = "ended" THEN "raised" ELSE "health")
    /\ late' = IF proc[w] = "dialing" THEN late \cup {w} ELSE late
    /\ UNCHANGED <<mode, cluster, forwarder, answered, cut, crossed, excused,
                   faults>>

\* _wait_for_health: an agent server answers at the host, or none in time.
AwaitHealth(w) ==
    /\ pc[w] = "health"
    /\ \/ \E v \in Workspace :
            /\ pod[v] = "running"
            /\ IF mode[w] = "forward" THEN Listens(v, port[w]) ELSE v = w
            /\ answered' = [answered EXCEPT ![w] = v]
            /\ To(w, "ready")
       \/ To(w, "raised") /\ UNCHANGED answered
    /\ UNCHANGED <<mode, cluster, forwarder, history, excused, faults>>

\* cleanup stops kubectl and deletes the Job; a failure is only logged.
Undo(w) ==
    /\ proc' = [proc EXCEPT ![w] = "none"]
    /\ \/ /\ Works /\ w \notin Kept
          /\ job' = [job EXCEPT ![w] = IF @ = "sent" THEN "sent" ELSE "none"]
          /\ excused' = IF job[w] = "sent" THEN excused ELSE excused \ {w}
       \/ Fails /\ w \notin Kept /\ excused' = excused \cup {w} /\ UNCHANGED job
       \/ Works /\ w \in Kept /\ UNCHANGED <<job, excused>>

\* cleanup, called by the user or at the end of a with block.
Cleanup(w) ==
    /\ pc[w] \in {"ready", "closed"}
    /\ To(w, "closed")
    /\ Undo(w)
    /\ UNCHANGED <<mode, pod, port, answered, history>>

FinalizeForgets(w) ==   \* mutant: there is no __del__
    /\ pc[w] \in {"raised", "ready", "closed"}
    /\ To(w, "gone")
    /\ UNCHANGED <<mode, cluster, forwarder, answered, history, excused,
                   faults>>

\* The object is finalized: after an exception of its constructor, or when it
\* is no longer used.
Finalize(w) ==
    /\ pc[w] \in {"raised", "ready", "closed"}
    /\ To(w, "gone")
    /\ Undo(w)
    /\ UNCHANGED <<mode, pod, port, answered, history>>

\* The program is killed: kubectl goes on.
Kill(w) ==
    /\ pc[w] \notin {"new", "gone"}
    /\ Fails
    /\ To(w, "gone")
    /\ excused' = excused \cup {w}
    /\ UNCHANGED <<mode, cluster, forwarder, answered, history>>

----------------------------------------------------------------------------
(* Kubernetes and kubectl                                                  *)

untouched == <<pc, mode, answered, excused, faults>>

\* A creation that timed out arrives.
JobAppears(w) ==
    /\ job[w] = "sent"
    /\ job' = [job EXCEPT ![w] = "exists"]
    /\ UNCHANGED <<untouched, pod, forwarder, history>>

\* The pod of a Job, which is not retried and expires a minute after it ends.
PodChanges(w) ==
    /\ \/ /\ job[w] = "exists" /\ pod[w] = "none"
          /\ pod' = [pod EXCEPT ![w] = "pending"] /\ UNCHANGED job
       \/ /\ job[w] = "exists" /\ pod[w] = "pending"
          /\ pod' = [pod EXCEPT ![w] = "running"] /\ UNCHANGED job
       \/ /\ pod[w] \in {"pending", "running"}
          /\ pod' = [pod EXCEPT ![w] = "ended"] /\ UNCHANGED job
       \/ /\ pod[w] = "ended"
          /\ pod' = [pod EXCEPT ![w] = "none"]
          /\ job' = [job EXCEPT ![w] = "none"]
    /\ UNCHANGED <<untouched, forwarder, history>>

\* The other workspaces that have found w's port free and wait on it.
Sharing(w) ==
    {v \in Workspace \ {w} :
        port[v] = port[w] /\ pc[v] \in {"settle", "health"}}

\* kubectl port-forward binds its port unless the port has been taken or the
\* pod has gone.
Bind(w) ==
    /\ proc[w] = "dialing"
    /\ LET free == \A v \in Workspace \ {w} : ~Listens(v, port[w]) IN
       proc' = [proc EXCEPT ![w] =
                    IF free /\ pod[w] = "running" THEN "listening" ELSE "ended"]
    /\ crossed' = crossed \cup (IF proc'[w] = "listening" THEN Sharing(w) ELSE {})
    /\ cut' = IF proc'[w] = "ended" /\ pc[w] # "settle" THEN cut \cup {w} ELSE cut
    /\ UNCHANGED <<untouched, cluster, port, late>>

\* The connection to the pod is lost.
ForwardEnds(w) ==
    /\ proc[w] = "listening"
    /\ proc' = [proc EXCEPT ![w] = "ended"]
    /\ cut' = IF pc[w] # "settle" THEN cut \cup {w} ELSE cut
    /\ UNCHANGED <<untouched, cluster, port, late, crossed>>

Next ==
    \E w \in Workspace :
        \/ CreateJob(w) \/ AwaitPod(w) \/ StartForward(w) \/ Settle(w)
        \/ AwaitHealth(w) \/ Cleanup(w) \/ Finalize(w) \/ Kill(w)
        \/ JobAppears(w) \/ PodChanges(w) \/ Bind(w) \/ ForwardEnds(w)

Spec == Init /\ [][Next]_vars

----------------------------------------------------------------------------
(* Properties                                                              *)

\* Wherever the constructor has failed, nothing is left of a workspace that
\* is gone, neither its Job nor the process that forwards its port, unless
\* the user keeps Jobs, the program was killed, or the creation or the
\* deletion of the Job did not get through (kubernetes.py:112, :394).
NothingIsLeaked ==
    \A w \in Workspace :
        pc[w] = "gone" /\ w \notin excused =>
            /\ proc[w] = "none"
            /\ w \notin Kept => job[w] = "none"

\* A workspace is handed to the user on the answer of another workspace's
\* agent server only if two things have come together: the other workspace
\* bound the local port after it was found free (kubernetes.py:287), and its
\* own kubectl did not fail on it in the two seconds after which it is looked
\* at (kubernetes.py:309), or stopped forwarding later.
HealthyIsOwn ==
    \A w \in Workspace :
        pc[w] = "ready" /\ answered[w] # w =>
            w \in crossed /\ w \in late \cup cut

\* A Job that may be created yet is not a workspace's doing any more.
SentIsExcused == \A w \in Workspace : job[w] = "sent" => w \in excused

\* A local port is bound by one process.
PortsApart ==
    \A v, w \in Workspace : Listens(v, port[w]) /\ Listens(w, port[w]) => v = w

\* kubectl has been started before it is looked at, and forwards the port
\* while the agent server's answer is awaited, unless it was late or has ended
\* since.
ForwarderIsUp ==
    \A w \in Workspace :
        /\ pc[w] = "settle" => proc[w] # "none"
        /\ pc[w] = "health" /\ mode[w] = "forward" /\ w \notin late \cup cut
            => proc[w] = "listening"

\* Whoever else listens at the port of a workspace that waits has bound it
\* after the port was found free.
CrossingsAreSeen ==
    \A v, w \in Workspace :
        v # w /\ Listens(v, port[w]) =>
            \/ w \in crossed
            \/ pc[w] \notin {"settle", "health"}
            \/ pc[w] = "health" /\ mode[w] # "forward"

\* The invariant that every step preserves, and which implies the others.
IInv ==
    /\ TypeOK
    /\ NothingIsLeaked
    /\ SentIsExcused
    /\ PortsApart
    /\ ForwarderIsUp
    /\ CrossingsAreSeen
    /\ HealthyIsOwn
=============================================================================
