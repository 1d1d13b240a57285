-------------------------- MODULE MessageDelivery --------------------------
(***************************************************************************)
(* How a follow-up comment reaches the agent of a conversation:            *)
(* send_message posts it to the sandbox, or publishes it on RabbitMQ if    *)
(* the sandbox cannot be reached; the lifecycle manager then stores it     *)
(* with the server and resumes the sandbox; the server hands the stored    *)
(* messages to the agent once it runs.  Meanwhile the idle cleanup of the  *)
(* lifecycle manager pauses the sandbox.                                   *)
(*                                                                         *)
(* One conversation and its sandbox.  A sandbox has "ended" when its pod   *)
(* has and its Job is not suspended, and is "missing" when the Job is gone *)
(* and the workspace is not (module Sandbox).                              *)
(*                                                                         *)
(* Abstracted: texts; times, of which only the timeouts that expire and    *)
(* the age of the pod and of the last activity count; the order of stored  *)
(* messages, which the code does not keep.                                 *)
(*                                                                         *)
(* Bound: a message has at most one handler whose connection to RabbitMQ   *)
(* was lost (Disconnect); handlers end within 75 s.                        *)
(***************************************************************************)
EXTENDS Naturals

CONSTANTS
    Message,
    MaxFaults     \* bound: requests and publications that fail, crashes of
                  \* the lifecycle manager, lost connections to RabbitMQ

ASSUME MaxFaultsAssumption == MaxFaults \in Nat

VARIABLES
    exists,      \* the conversation has not been deleted
    sandbox,
    busy,        \* the agent works on what it has received
    young,       \* the pod has not reached the minimum age
    quiet,       \* the last activity is as old as the idle timeout
    sender,      \* sender[m]: where send_message is
    wire,        \* messages posted to the sandbox and still on their way
    bound,       \* the lifecycle manager's queue exists and is bound
    queue,       \* messages RabbitMQ holds for the lifecycle manager
    handler,     \* handler[m]: where the handler of m is, m unacknowledged
    detached,    \* detached[m]: where a handler of m is whose connection was
                 \* lost: m is queued again, and it goes on
    pending,     \* pending[m]: copies of m stored with the server
    received,    \* received[m]: copies of m the agent has received
    idler,       \* where the idle cleanup is
    faults,
    lost,        \* history: messages that a failure has cost
    stranded,    \* history: messages stored with nobody to wake the sandbox
    repeated,    \* history: messages handled again after a crash or a lost
                 \* connection
    steady       \* history: the agent is busy since the cleanup's listing

send == <<sender, wire>>
mq == <<bound, queue, handler, detached>>
agent == <<exists, sandbox, busy, young, quiet>>
history == <<lost, stranded, repeated>>
vars == <<agent, send, mq, pending, received, idler, faults, history, steady>>

TypeOK ==
    /\ exists \in BOOLEAN
    /\ sandbox \in {"starting", "running", "paused", "ended", "missing"}
    /\ busy \in BOOLEAN /\ young \in BOOLEAN /\ quiet \in BOOLEAN
    /\ sender \in [Message -> {"new", "looked", "posting", "cut",
                               "publish", "true", "false", "raised"}]
    /\ wire \subseteq Message
    /\ bound \in BOOLEAN
    /\ queue \subseteq Message
    /\ handler \in [Message -> {"none", "taken", "stored"}]
    /\ detached \in [Message -> {"none", "taken", "stored"}]
    /\ pending \in [Message -> Nat]
    /\ received \in [Message -> Nat]
    /\ idler \in {"idle", "listed", "aged", "checked"}
    /\ faults \in 0..MaxFaults
    /\ lost \subseteq Message
    /\ stranded \subseteq Message
    /\ repeated \subseteq Message
    /\ steady \in BOOLEAN

Init ==
    /\ exists = TRUE
    /\ sandbox = "running"
    /\ busy = FALSE /\ young = TRUE /\ quiet = FALSE
    /\ sender = [m \in Message |-> "new"]
    /\ wire = {}
    /\ bound = FALSE
    /\ queue = {}
    /\ handler = [m \in Message |-> "none"]
    /\ detached = [m \in Message |-> "none"]
    /\ pending = [m \in Message |-> 0]
    /\ received = [m \in Message |-> 0]
    /\ idler = "idle"
    /\ faults = 0
    /\ lost = {}
    /\ stranded = {}
    /\ repeated = {}
    /\ steady = FALSE

----------------------------------------------------------------------------

Fails == faults < MaxFaults /\ faults' = faults + 1
Works == UNCHANGED faults

To(m, pc) == sender' = [sender EXCEPT ![m] = pc]

Lose(S) == lost' = lost \cup S /\ UNCHANGED <<stranded, repeated>>

Strand(S) == stranded' = stranded \cup S /\ UNCHANGED <<lost, repeated>>

Awake(s) == s \in {"starting", "running"}

\* Stored messages whose handlers have come past the resume.
Waiting == {m \in Message : /\ pending[m] > 0
                            /\ handler[m] # "stored" /\ detached[m] # "stored"}

\* The agent gets m and works on it.
Receive(m) ==
    /\ received' = [received EXCEPT ![m] = @ + 1]
    /\ busy' = TRUE
    /\ quiet' = FALSE
    /\ UNCHANGED <<exists, sandbox, young>>

----------------------------------------------------------------------------
(* send_message                                                            *)

\* The conversation is fetched.  It carries a session key only if its sandbox
\* is running.
Look(m) ==
    /\ sender[m] = "new"
    /\ \/ Fails /\ To(m, "false")
       \/ /\ Works
          /\ To(m, IF ~exists THEN "false"
                   ELSE IF sandbox = "running" THEN "looked" ELSE "publish")
    /\ UNCHANGED <<agent, wire, mq, pending, received, idler, history>>

\* The post is on its way; or the connection is refused or fails, is not
\* made or does not take the request in time, which counts as a delivery, or
\* breaks.
Post(m) ==
    /\ sender[m] = "looked"
    /\ \/ /\ Works /\ sandbox = "running"
          /\ wire' = wire \cup {m}
          /\ To(m, "posting")
          /\ UNCHANGED history
       \/ /\ (Works /\ sandbox # "running") \/ Fails
          /\ \/ To(m, "publish") /\ UNCHANGED history
             \/ To(m, "true") /\ Lose({m})
             \/ To(m, "false") /\ UNCHANGED history
          /\ UNCHANGED wire
    /\ UNCHANGED <<agent, mq, pending, received, idler>>

Arrive(m) ==
    /\ m \in wire /\ sandbox = "running"
    /\ wire' = wire \ {m}
    /\ Receive(m)
    /\ UNCHANGED <<sender, mq, pending, idler, faults, history>>

ReplyFailedPublishes(m) ==   \* mutant: an error response falls back to the queue
    /\ sender[m] = "posting" /\ m \notin wire
    /\ \/ Works /\ To(m, "true")
       \/ Fails /\ To(m, "publish")
    /\ UNCHANGED <<agent, wire, mq, pending, received, idler, history>>

\* The connection is closed: a post that is still on its way may already be
\* with the agent server, which takes it up later, or goes with it.
Close(m) ==
    \/ UNCHANGED <<wire, history>>
    \/ m \in wire /\ wire' = wire \ {m} /\ Lose({m})

Reply(m) ==
    /\ sender[m] = "posting"
    /\ \/ m \notin wire /\ Works /\ To(m, "true") /\ UNCHANGED <<wire, history>>
       \/ Fails /\ To(m, "false") /\ Close(m)
    /\ UNCHANGED <<agent, mq, pending, received, idler>>

TimeOutPublishes(m) ==   \* mutant: a timeout falls back to the queue
    /\ sender[m] = "posting"
    /\ To(m, "publish")
    /\ UNCHANGED <<agent, wire, mq, pending, received, idler, faults, history>>

\* No reply in time: "message may have been received".
TimeOut(m) ==
    /\ sender[m] = "posting"
    /\ To(m, "true")
    /\ Close(m)
    /\ UNCHANGED <<agent, mq, pending, received, idler, faults>>

\* The sandbox went away with the post: an error, or no answer in time.
Broken(m) ==
    /\ sender[m] = "cut"
    /\ To(m, "false") \/ To(m, "true")
    /\ UNCHANGED <<agent, wire, mq, pending, received, idler, faults, history>>

\* The exchange keeps nothing: without a bound queue the event is gone.  An
\* exception of publish is not an HTTPError and leaves send_message; RabbitMQ
\* may have accepted the event before.
Publish(m) ==
    /\ sender[m] = "publish"
    /\ \/ /\ Fails
          /\ To(m, "raised")
          /\ UNCHANGED queue \/ (bound /\ queue' = queue \cup {m})
          /\ UNCHANGED history
       \/ /\ Works
          /\ To(m, "true")
          /\ IF bound
             THEN queue' = queue \cup {m} /\ UNCHANGED history
             ELSE UNCHANGED queue /\ Lose({m})
    /\ UNCHANGED <<agent, wire, bound, handler, detached, pending, received, idler>>

Sender(m) ==
    \/ Look(m) \/ Post(m) \/ Arrive(m) \/ Reply(m) \/ TimeOut(m) \/ Broken(m)
    \/ Publish(m)

----------------------------------------------------------------------------
(* The lifecycle manager's queue and handler                               *)

Subscribe ==
    /\ ~bound
    /\ bound' = TRUE
    /\ UNCHANGED <<agent, send, queue, handler, detached, pending, received,
                   idler, faults, history>>

\* Messages are handled as tasks of their own, side by side.
Take(m) ==
    /\ m \in queue /\ handler[m] = "none"
    /\ queue' = queue \ {m}
    /\ handler' = [handler EXCEPT ![m] = "taken"]
    /\ UNCHANGED <<agent, send, bound, detached, pending, received, idler,
                   faults, history>>

\* The message is stored with the server.  On an error the handler returns:
\* the message is acknowledged, and has been stored or not.
StoreThen(m, next) ==
    \/ /\ Works /\ exists /\ next = "stored"
       /\ pending' = [pending EXCEPT ![m] = @ + 1]
       /\ UNCHANGED history
    \/ /\ (Works /\ ~exists) \/ Fails
       /\ next = "none"
       /\ Lose({m})
       /\ UNCHANGED pending
    \/ /\ Fails /\ exists /\ next = "none"
       /\ pending' = [pending EXCEPT ![m] = @ + 1]
       /\ Strand(IF Awake(sandbox) THEN {} ELSE {m})

\* What resume_sandbox does: nothing if the Job is there and not suspended,
\* whether or not its pod has ended.
Resumed ==
    IF sandbox \in {"paused", "missing"} THEN "starting" ELSE sandbox

ResumeFor(m) ==
    /\ \/ /\ Works
          /\ sandbox' = Resumed
          /\ young' = (young \/ sandbox # Resumed)
       \/ /\ Fails
          /\ UNCHANGED <<sandbox, young>>
    /\ Strand(IF Awake(sandbox') \/ pending[m] = 0 THEN {} ELSE {m})

Store(m) ==
    /\ \E next \in {"none", "stored"} :
          /\ StoreThen(m, next)
          /\ \/ /\ handler[m] = "taken"
                /\ handler' = [handler EXCEPT ![m] = next]
                /\ UNCHANGED detached
             \/ /\ detached[m] = "taken"
                /\ detached' = [detached EXCEPT ![m] = next]
                /\ UNCHANGED handler
    /\ UNCHANGED <<agent, send, bound, queue, received, idler>>

Resume(m) ==
    /\ ResumeFor(m)
    /\ \/ /\ handler[m] = "stored"
          /\ handler' = [handler EXCEPT ![m] = "none"]
          /\ UNCHANGED detached
       \/ /\ detached[m] = "stored"
          /\ detached' = [detached EXCEPT ![m] = "none"]
          /\ UNCHANGED handler
    /\ UNCHANGED <<exists, busy, quiet, send, bound, queue, pending, received,
                   idler>>

CrashAcknowledges ==   \* mutant: messages are acknowledged when they are taken
    /\ Fails
    /\ handler' = [m \in Message |-> "none"]
    /\ detached' = [m \in Message |-> "none"]
    /\ idler' = "idle"
    /\ UNCHANGED <<agent, send, bound, queue, pending, received, history>>

\* Unacknowledged messages go back to the queue.
Unacknowledged == {m \in Message : handler[m] # "none"}

\* The lifecycle manager stops, its handlers with it.  Those of lost
\* connections take a copy along, or leave one stored without the resume.
Crash ==
    /\ Fails
    /\ queue' = queue \cup Unacknowledged
    /\ repeated' = repeated \cup {m \in Message : handler[m] = "stored"}
    /\ lost' = lost \cup {m \in Message : detached[m] = "taken"}
    /\ stranded' = stranded \cup {m \in Message \ queue' :
                                    detached[m] = "stored" /\ pending[m] > 0
                                    /\ ~Awake(sandbox)}
    /\ handler' = [m \in Message |-> "none"]
    /\ detached' = [m \in Message |-> "none"]
    /\ idler' = "idle"
    /\ UNCHANGED <<agent, send, bound, pending, received>>

\* The connection to RabbitMQ is lost and made again: the queue has what was
\* not acknowledged, but the handlers go on.
Disconnect ==
    /\ Fails
    /\ \A m \in Unacknowledged : detached[m] = "none"
    /\ queue' = queue \cup Unacknowledged
    /\ repeated' = repeated \cup Unacknowledged
    /\ detached' = [m \in Message |->
                       IF m \in Unacknowledged THEN handler[m] ELSE detached[m]]
    /\ handler' = [m \in Message |-> "none"]
    /\ UNCHANGED <<agent, send, bound, pending, received, idler, lost, stranded>>

HandlerStoresOnly(m) == Take(m) \/ Store(m)   \* mutant: the resume is missing

Handler(m) == Take(m) \/ Store(m) \/ Resume(m)

----------------------------------------------------------------------------
(* The server, Kubernetes and the agent                                    *)

elsewhere == <<mq, received, idler, faults>>

DeliverUncounted(m) ==   \* mutant: a message is handed over that was before
    /\ sandbox = "running"
    /\ pending' = [pending EXCEPT ![m] = @ - 1]
    /\ Receive(m)
    /\ UNCHANGED <<send, mq, idler, faults, history>>

DeliverKept(m) ==   \* mutant: a message that was handed over stays stored
    /\ sandbox = "running" /\ pending[m] > 0
    /\ UNCHANGED pending
    /\ Receive(m)
    /\ received[m] < 2
    /\ UNCHANGED <<send, mq, idler, faults, history>>

\* The server hands a stored message to the running agent.
Deliver(m) ==
    /\ sandbox = "running" /\ pending[m] > 0
    /\ pending' = [pending EXCEPT ![m] = @ - 1]
    /\ Receive(m)
    /\ UNCHANGED <<send, mq, idler, faults, history>>

SandboxStarted ==
    /\ sandbox = "starting"
    /\ sandbox' = "running"
    /\ UNCHANGED <<exists, busy, young, quiet, send, pending, elsewhere, history>>

AgentDone ==
    /\ busy /\ sandbox = "running"
    /\ busy' = FALSE
    /\ UNCHANGED <<exists, sandbox, young, quiet, send, pending, elsewhere, history>>

\* The pod goes away: with it what the agent was doing and the posts that are
\* on their way.
Leave(next, gone) ==
    /\ sandbox' = next
    /\ busy' = FALSE
    /\ wire' = {}
    /\ sender' = [m \in Message |->
                      IF m \in wire /\ sender[m] = "posting" THEN "cut"
                                                            ELSE sender[m]]
    /\ lost' = lost \cup wire \cup gone
    /\ UNCHANGED <<young, quiet, repeated>>

\* The sandbox stops with messages stored that it was to get.
Stops(next) ==
    /\ Awake(sandbox)
    /\ Leave(next, {})
    /\ stranded' = stranded \cup Waiting
    /\ UNCHANGED <<exists, pending>>

PodEnds == Stops("ended") /\ UNCHANGED elsewhere
UserPauses == Stops("paused") /\ UNCHANGED elsewhere

JobExpires ==
    /\ sandbox = "ended"
    /\ sandbox' = "missing"
    /\ UNCHANGED <<exists, busy, young, quiet, send, pending, elsewhere, history>>

\* Someone opens the conversation: the server resumes its sandbox.
UserResumes ==
    /\ sandbox' = Resumed /\ sandbox' # sandbox
    /\ young' = TRUE
    /\ UNCHANGED <<exists, busy, quiet, send, pending, elsewhere, history>>

DeleteConversation ==
    /\ exists
    /\ exists' = FALSE
    /\ Leave("missing", {m \in Message : pending[m] > 0})
    /\ pending' = [m \in Message |-> 0]
    /\ UNCHANGED <<stranded, elsewhere>>

TimePasses ==
    /\ young \/ ~quiet
    /\ young' = FALSE /\ quiet' = TRUE
    /\ UNCHANGED <<exists, sandbox, busy, send, pending, elsewhere, history>>

----------------------------------------------------------------------------
(* The idle cleanup                                                        *)

calm == <<mq, received>>

\* The listing shows the last activity and the sandbox; the execution status
\* it shows was stored earlier and may be out of date.
IdleList ==
    /\ idler = "idle"
    /\ exists /\ quiet /\ sandbox \notin {"paused", "missing"}
    /\ idler' = "listed"
    /\ UNCHANGED <<agent, send, pending, calm, faults, history>>

\* The pod's age; one that cannot be read is not asked about.
IdleAge ==
    /\ idler = "listed"
    /\ \/ Works /\ idler' = IF young THEN "idle" ELSE "aged"
       \/ Fails /\ idler' = "aged"
    /\ UNCHANGED <<agent, send, pending, calm, history>>

IdleAskTrusts ==   \* mutant: the agent is not asked for its status
    /\ idler = "aged"
    /\ Works /\ idler' = IF sandbox = "running" THEN "checked" ELSE "idle"
    /\ UNCHANGED <<agent, send, pending, calm, history>>

\* The status that the agent itself reports, if it answers.
IdleAsk ==
    /\ idler = "aged"
    /\ \/ Works /\ idler' = IF sandbox = "running" /\ ~busy THEN "checked" ELSE "idle"
       \/ Fails /\ idler' = "idle"
    /\ UNCHANGED <<agent, send, pending, calm, history>>

\* _stop_conversation: the sandbox is paused if the conversation still exists.
IdlePause ==
    /\ idler = "checked"
    /\ idler' = "idle"
    /\ \/ Works /\ exists /\ Awake(sandbox) /\ Stops("paused")
       \/ /\ (Works /\ ~(exists /\ Awake(sandbox))) \/ Fails
          /\ UNCHANGED <<agent, send, pending, history>>
    /\ UNCHANGED calm

IdleCleanup == IdleList \/ IdleAge \/ IdleAsk \/ IdlePause

----------------------------------------------------------------------------

\* The history variable of the idle cleanup, kept by every step.
Watch == steady' = (busy' /\ (steady \/ (idler = "idle" /\ idler' = "listed")))

Next ==
    /\ \/ \E m \in Message : Sender(m) \/ Handler(m) \/ Deliver(m)
       \/ Subscribe \/ Crash \/ Disconnect
       \/ SandboxStarted \/ AgentDone \/ PodEnds \/ UserPauses \/ JobExpires
       \/ UserResumes \/ DeleteConversation \/ TimePasses
       \/ IdleCleanup
    /\ Watch

\* The senders and handlers are tasks of event loops, every request of theirs
\* has a timeout; an agent server takes up what has reached it; the server
\* delivers what it has stored, and a sandbox that was started comes up unless
\* it is stopped.
Fairness ==
    /\ \A m \in Message :
        /\ WF_vars(Sender(m) /\ Watch)
        /\ WF_vars(Handler(m) /\ Watch)
        /\ WF_vars(Deliver(m) /\ Watch)
    /\ WF_vars(SandboxStarted /\ Watch)

Spec == Init /\ [][Next]_vars /\ Fairness

----------------------------------------------------------------------------
(* Properties                                                              *)

InFlight(m) ==
    pending[m] + (IF m \in wire THEN 1 ELSE 0)
        + (IF m \in queue THEN 1 ELSE 0)
        + (IF handler[m] = "taken" THEN 1 ELSE 0)
        + (IF detached[m] = "taken" THEN 1 ELSE 0)

Copies(m) == received[m] + InFlight(m)

\* A comment that send_message reports as delivered has reached the agent or
\* is still somewhere on its way to it, unless a failure has cost it: a post
\* that timed out (openhands_client.py:190), an event published before the
\* queue was bound (messaging.py:68), a handler that gave up (resume.py:45), a
\* sandbox that went with the post, the deletion of the conversation.
DeliveredIsSomewhere ==
    \A m \in Message :
        sender[m] = "true" /\ m \notin lost => Copies(m) >= 1

\* The agent gets a comment at most once, unless RabbitMQ hands it to the
\* lifecycle manager again: it was stored and not yet acknowledged when the
\* manager crashed, or its handler was at work when the connection was lost
\* (messaging.py:37, :92).  Neither a late answer nor a refused connection
\* makes send_message send it twice.
AtMostOnce ==
    \A m \in Message : m \notin repeated => received[m] <= 1

\* The idle cleanup does not pause a sandbox whose agent has been working
\* ever since the conversations were listed, even though the listing shows an
\* execution status of earlier (cleanup.py:190).
SteadyWorkIsSpared == ~(idler = "checked" /\ steady)

\* A comment that send_message reports as delivered reaches the agent in the
\* end, unless it was lost as above, or stays stored with the server: when the
\* resume did nothing or failed, or the sandbox stopped before it was handed
\* over, and nobody else wakes it.
DeliveredIsReceived ==
    \A m \in Message :
        sender[m] = "true" ~> \/ received[m] > 0 \/ m \in lost
                              \/ m \in stranded /\ pending[m] > 0

Channel == INSTANCE MessageChannel WITH
    answer <- [m \in Message |-> IF sender[m] \in {"true", "false", "raised"}
                                 THEN sender[m] ELSE "none"],
    flight <- [m \in Message |-> InFlight(m)]

\* Together the sender, the queue, the handlers and the server are a channel
\* that sends a comment at most once, accounts for every copy that does not
\* arrive, and duplicates a comment only by a crash or a lost connection
\* before its acknowledgement (openhands_client.py:196, messaging.py:37, :92,
\* resume.py:45).
KeepsAccount == Channel!Spec

\* Where the copies of a comment may be: nowhere before it has been posted or
\* published, in one place unless it was handled twice, and somewhere from
\* the post on unless it was lost.  What the lifecycle manager has was published.
IsTracked(m) ==
    /\ sender[m] \in {"new", "looked", "publish"}
           => /\ Copies(m) = 0 /\ m \notin lost
              /\ handler[m] = "none" /\ detached[m] = "none"
    /\ m \notin repeated => Copies(m) <= 1 /\ detached[m] = "none"
    /\ sender[m] \in {"posting", "cut", "true"} /\ m \notin lost
           => Copies(m) >= 1
    /\ m \in queue => handler[m] = "none"
    /\ m \in queue \/ handler[m] # "none" \/ detached[m] # "none"
           => sender[m] \in {"true", "raised"}

\* A copy on its way is where somebody will move it on: a post has a running
\* sandbox, the queue and the handlers their reader, and a stored message a
\* sandbox that is up or a handler that is to wake it, unless it is lost or
\* stranded.
InGoodHands ==
    /\ wire # {} => sandbox = "running"
    /\ queue # {} \/ Unacknowledged # {} => bound
    /\ \A m \in Message :
        pending[m] > 0 =>
            \/ Awake(sandbox)
            \/ m \in queue \/ handler[m] # "none" \/ detached[m] # "none"
            \/ m \in lost \cup stranded

\* The invariant that every step preserves, and which implies the others.
IInv ==
    /\ TypeOK
    /\ \A m \in Message : IsTracked(m)
    /\ InGoodHands
    /\ SteadyWorkIsSpared
=============================================================================
