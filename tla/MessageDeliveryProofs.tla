----------------------- MODULE MessageDeliveryProofs -----------------------
(***************************************************************************)
(* Proofs about MessageDelivery for any number of comments and failures.    *)
(***************************************************************************)
EXTENDS MessageDelivery, TLAPS

-----------------------------------------------------------------------------
(* Types.                                                                  *)

LEMMA InitInv == Init => IInv
<1> SUFFICES ASSUME Init PROVE IInv
  OBVIOUS
<1>1. TypeOK
  <2>1. 0 \in 0..MaxFaults
    BY MaxFaultsAssumption
  <2>2. /\ pending \in [Message -> Nat] /\ received \in [Message -> Nat]
        /\ handler \in [Message -> {"none", "taken", "stored"}]
        /\ detached \in [Message -> {"none", "taken", "stored"}]
        /\ sender \in [Message -> {"new", "looked", "posting", "cut",
                                   "publish", "true", "false", "raised"}]
    BY DEF Init
  <2> QED
    BY <2>1, <2>2, Zenon DEF Init, TypeOK
<1>2. ASSUME NEW m \in Message PROVE IsTracked(m)
  BY DEF Init, IsTracked, Copies, InFlight
<1>3. InGoodHands
  BY DEF Init, InGoodHands, Unacknowledged
<1> QED
  BY <1>1, <1>2, <1>3 DEF Init, IInv, SteadyWorkIsSpared

\* One more copy, or one less.
LEMMA CountType ==
    ASSUME NEW f \in [Message -> Nat], NEW m \in Message
    PROVE  /\ [f EXCEPT ![m] = @ + 1] \in [Message -> Nat]
           /\ f[m] > 0 => [f EXCEPT ![m] = @ - 1] \in [Message -> Nat]
<1>1. f[m] + 1 \in Nat /\ (f[m] > 0 => f[m] - 1 \in Nat)
  OBVIOUS
<1> QED
  BY <1>1

\* The history variable of the idle cleanup is a truth value.
LEMMA SteadyType ==
    ASSUME Watch, busy' \in BOOLEAN
    PROVE  steady' \in BOOLEAN
BY DEF Watch

LEMMA SenderType ==
    ASSUME TypeOK, Watch, NEW m \in Message, Sender(m)
    PROVE  TypeOK'
<1> USE SteadyType, MaxFaultsAssumption DEF TypeOK, agent, mq, history, Works, Fails,
                                         To, Lose
<1>1. CASE Look(m)
  BY <1>1 DEF Look
<1>2. CASE Post(m)
  BY <1>2 DEF Post
<1>3. CASE Arrive(m)
  <2>1. received' \in [Message -> Nat]
    BY <1>3, CountType DEF Arrive, Receive
  <2> QED
    BY <1>3, <2>1 DEF Arrive, Receive
<1>4. CASE Reply(m)
  BY <1>4 DEF Reply, Close
<1>5. CASE TimeOut(m)
  BY <1>5 DEF TimeOut, Close
<1>6. CASE Broken(m)
  BY <1>6 DEF Broken
<1>7. CASE Publish(m)
  BY <1>7 DEF Publish
<1> QED
  BY <1>1, <1>2, <1>3, <1>4, <1>5, <1>6, <1>7 DEF Sender

\* The steps of the lifecycle manager and of its connection to RabbitMQ.
Manager == Subscribe \/ Crash \/ Disconnect \/ \E m \in Message : Handler(m)

LEMMA HandlerType ==
    ASSUME TypeOK, Watch, Manager
    PROVE  TypeOK'
<1> USE SteadyType, MaxFaultsAssumption
    DEF TypeOK, agent, send, history, Works, Fails, Lose, Strand
<1>1. CASE Subscribe
  BY <1>1 DEF Subscribe
<1>2. CASE Crash \/ Disconnect
  BY <1>2 DEF Crash, Disconnect, Unacknowledged
<1>3. ASSUME NEW m \in Message, Take(m) PROVE TypeOK'
  BY <1>3 DEF Take
<1>4. ASSUME NEW m \in Message, Store(m) PROVE TypeOK'
  <2>1. PICK next \in {"none", "stored"} :
            /\ StoreThen(m, next)
            /\ \/ handler' = [handler EXCEPT ![m] = next] /\ UNCHANGED detached
               \/ detached' = [detached EXCEPT ![m] = next] /\ UNCHANGED handler
    BY <1>4 DEF Store
  <2>2. pending' \in [Message -> Nat]
    BY <2>1, CountType DEF StoreThen
  <2>3. /\ handler' \in [Message -> {"none", "taken", "stored"}]
        /\ detached' \in [Message -> {"none", "taken", "stored"}]
    BY <2>1
  <2>4. faults' \in 0..MaxFaults
    BY <2>1 DEF StoreThen
  <2>5. /\ lost' \subseteq Message /\ stranded' \subseteq Message
        /\ UNCHANGED repeated
    BY <2>1 DEF StoreThen
  <2>6. UNCHANGED <<agent, send, bound, queue, received, idler>>
    BY <1>4 DEF Store
  <2> HIDE DEF Works, Fails, Lose, Strand
  <2> QED
    BY <2>2, <2>3, <2>4, <2>5, <2>6
<1>5. ASSUME NEW m \in Message, Resume(m) PROVE TypeOK'
  <2>1. sandbox' \in {"starting", "running", "paused", "ended", "missing"}
    BY <1>5 DEF Resume, ResumeFor, Resumed
  <2>2. young' \in BOOLEAN
    <3>1. CASE young' = (young \/ sandbox # Resumed)
      BY <3>1, Zenon
    <3>2. CASE UNCHANGED young
      BY <3>2
    <3> QED
      BY <1>5, <3>1, <3>2 DEF Resume, ResumeFor
  <2>3. /\ handler' \in [Message -> {"none", "taken", "stored"}]
        /\ detached' \in [Message -> {"none", "taken", "stored"}]
    BY <1>5 DEF Resume
  <2>4. faults' \in 0..MaxFaults
    BY <1>5 DEF Resume, ResumeFor
  <2>5. stranded' \subseteq Message /\ UNCHANGED <<lost, repeated>>
    BY <1>5 DEF Resume, ResumeFor
  <2>6. UNCHANGED <<exists, busy, quiet, send, bound, queue, pending, received,
                    idler>>
    BY <1>5 DEF Resume
  <2> HIDE DEF Works, Fails, Strand, Resumed
  <2> QED
    BY <2>1, <2>2, <2>3, <2>4, <2>5, <2>6
<1> QED
  BY <1>1, <1>2, <1>3, <1>4, <1>5 DEF Manager, Handler

\* A sandbox that goes away leaves variables of their types.
LEMMA LeaveType ==
    ASSUME TypeOK, NEW next, NEW gone \in SUBSET Message, Leave(next, gone)
    PROVE  /\ busy' = FALSE /\ young' = young /\ quiet' = quiet
           /\ sandbox' = next /\ wire' = {}
           /\ sender' \in [Message -> {"new", "looked", "posting", "cut",
                                       "publish", "true", "false", "raised"}]
           /\ lost' \subseteq Message /\ repeated' = repeated
BY DEF Leave, TypeOK

LEMMA StopsType ==
    ASSUME TypeOK, Watch, NEW next \in {"ended", "paused"}, Stops(next),
           idler' \in {"idle", "listed", "aged", "checked"},
           faults' \in 0..MaxFaults, UNCHANGED <<mq, received>>
    PROVE  TypeOK'
<1>1. Leave(next, {}) /\ {} \in SUBSET Message
  BY DEF Stops
<1>2. stranded' \subseteq Message
  BY DEF Stops, Waiting, TypeOK
<1> QED
  BY <1>1, <1>2, LeaveType, SteadyType DEF Stops, TypeOK, mq

\* The steps of the server, of Kubernetes, of the agent and of its users.
World ==
    \/ SandboxStarted \/ AgentDone \/ PodEnds \/ UserPauses \/ JobExpires
    \/ UserResumes \/ DeleteConversation \/ TimePasses
    \/ \E m \in Message : Deliver(m)

LEMMA WorldType ==
    ASSUME TypeOK, Watch, World
    PROVE  TypeOK'
<1>1. CASE PodEnds \/ UserPauses
  BY <1>1, StopsType DEF PodEnds, UserPauses, elsewhere, TypeOK
<1>2. CASE DeleteConversation
  <2>1. Leave("missing", {m \in Message : pending[m] > 0})
    BY <1>2 DEF DeleteConversation
  <2>2. {m \in Message : pending[m] > 0} \in SUBSET Message
    OBVIOUS
  <2> QED
    BY <1>2, <2>1, <2>2, LeaveType, SteadyType
    DEF DeleteConversation, elsewhere, mq, TypeOK
<1> USE SteadyType DEF TypeOK, send, mq, elsewhere, history
<1>3. CASE SandboxStarted \/ AgentDone \/ JobExpires \/ TimePasses
  BY <1>3 DEF SandboxStarted, AgentDone, JobExpires, TimePasses
<1>4. CASE UserResumes
  BY <1>4 DEF UserResumes, Resumed
<1>5. ASSUME NEW m \in Message, Deliver(m) PROVE TypeOK'
  <2>1. received' \in [Message -> Nat] /\ pending' \in [Message -> Nat]
    BY <1>5, CountType DEF Deliver, Receive
  <2> QED
    BY <1>5, <2>1 DEF Deliver, Receive
<1> QED
  BY <1>1, <1>2, <1>3, <1>4, <1>5 DEF World

LEMMA IdleType ==
    ASSUME TypeOK, Watch, IdleCleanup
    PROVE  TypeOK'
<1> USE SteadyType DEF agent, send, mq, calm, history
<1>1. faults' \in 0..MaxFaults
  BY MaxFaultsAssumption
  DEF IdleCleanup, IdleList, IdleAge, IdleAsk, IdlePause, Works, Fails, TypeOK
<1>2. CASE IdleList \/ IdleAge \/ IdleAsk
  BY <1>1, <1>2 DEF IdleList, IdleAge, IdleAsk, TypeOK
<1>3. CASE IdlePause /\ Stops("paused")
  BY <1>1, <1>3, StopsType DEF IdlePause
<1>4. CASE IdlePause /\ UNCHANGED <<agent, send, pending, history>>
  BY <1>1, <1>4 DEF IdlePause, TypeOK
<1> QED
  BY <1>2, <1>3, <1>4 DEF IdleCleanup, IdlePause

-----------------------------------------------------------------------------
(* Where the copies of a comment are.                                      *)

\* A step that leaves all that concerns a comment leaves it tracked.
LEMMA TrackedStays ==
    ASSUME NEW n \in Message, IsTracked(n), n \in lost' <=> n \in lost,
           repeated \subseteq repeated',
           sender'[n] = sender[n], handler'[n] = handler[n],
           detached'[n] = detached[n],
           pending'[n] = pending[n], received'[n] = received[n],
           n \in wire' <=> n \in wire, n \in queue' <=> n \in queue
    PROVE  IsTracked(n)'
<1>1. Copies(n)' = Copies(n)
  BY DEF Copies, InFlight
<1> QED
  BY <1>1 DEF IsTracked

LEMMA SenderTracked ==
    ASSUME TypeOK, NEW m \in Message, Sender(m), NEW n \in Message, IsTracked(n)
    PROVE  IsTracked(n)'
<1> USE DEF TypeOK, mq, history, To, Lose
<1>1. CASE n # m
  <2>1. /\ sender'[n] = sender[n] /\ handler'[n] = handler[n]
        /\ detached'[n] = detached[n]
        /\ pending'[n] = pending[n] /\ received'[n] = received[n]
        /\ n \in wire' <=> n \in wire
        /\ n \in queue' <=> n \in queue
        /\ (n \in lost' <=> n \in lost) /\ repeated' = repeated
    BY <1>1 DEF Sender, Look, Post, Arrive, Reply, TimeOut, Broken, Publish,
                Receive, Close
  <2> QED
    BY <2>1, TrackedStays
<1> USE DEF IsTracked, Copies, InFlight
<1>2. CASE n = m
  <2>1. CASE Look(m)
    BY <1>2, <2>1 DEF Look
  <2>2. CASE Post(m)
    BY <1>2, <2>2 DEF Post
  <2>3. CASE Arrive(m)
    BY <1>2, <2>3 DEF Arrive, Receive
  <2>4. CASE Reply(m)
    BY <1>2, <2>4 DEF Reply, Close
  <2>5. CASE TimeOut(m)
    BY <1>2, <2>5 DEF TimeOut, Close
  <2>6. CASE Broken(m)
    BY <1>2, <2>6 DEF Broken
  <2>7. CASE Publish(m)
    BY <1>2, <2>7 DEF Publish
  <2> QED
    BY <2>1, <2>2, <2>3, <2>4, <2>5, <2>6, <2>7 DEF Sender
<1> QED
  BY <1>1, <1>2

LEMMA HandlerTracked ==
    ASSUME TypeOK, Manager, NEW n \in Message, IsTracked(n)
    PROVE  IsTracked(n)'
<1> USE DEF TypeOK, send, history, Lose, Strand
<1>1. CASE Subscribe
  BY <1>1, TrackedStays DEF Subscribe
<1>2. CASE Crash
  BY <1>2 DEF Crash, Unacknowledged, IsTracked, Copies, InFlight
<1>3. CASE Disconnect
  BY <1>3 DEF Disconnect, Unacknowledged, IsTracked, Copies, InFlight
<1>4. ASSUME NEW m \in Message, Handler(m), n # m PROVE IsTracked(n)'
  <2>1. /\ sender'[n] = sender[n] /\ handler'[n] = handler[n]
        /\ detached'[n] = detached[n]
        /\ pending'[n] = pending[n] /\ received'[n] = received[n]
        /\ n \in wire' <=> n \in wire
        /\ n \in queue' <=> n \in queue
        /\ (n \in lost' <=> n \in lost) /\ repeated' = repeated
    BY <1>4 DEF Handler, Take, Store, StoreThen, Resume, ResumeFor
  <2> QED
    BY <2>1, TrackedStays
<1> USE DEF IsTracked, Copies, InFlight
<1>5. CASE Take(n)
  BY <1>5 DEF Take
<1>6. CASE Store(n)
  BY <1>6 DEF Store, StoreThen
<1>7. CASE Resume(n)
  BY <1>7 DEF Resume, ResumeFor
<1> QED
  BY <1>1, <1>2, <1>3, <1>4, <1>5, <1>6, <1>7 DEF Manager, Handler

\* What goes with the sandbox is written down as lost.
LEMMA LeaveTracked ==
    ASSUME TypeOK, NEW n \in Message, IsTracked(n), NEW next, NEW gone,
           Leave(next, gone), UNCHANGED <<mq, received>>,
           n \in gone => pending[n] > 0,
           \/ pending'[n] = pending[n]
           \/ pending'[n] = 0 /\ (pending[n] > 0 => n \in gone)
    PROVE  IsTracked(n)'
<1> USE DEF TypeOK, IsTracked, Copies, InFlight
<1>1. CASE sender[n] \in {"new", "looked", "publish"}
  <2>1. /\ pending[n] = 0 /\ n \notin wire /\ n \notin queue
        /\ received[n] = 0 /\ n \notin lost
    BY <1>1
  <2> QED
    BY <1>1, <2>1 DEF Leave, mq
<1>2. CASE sender[n] \notin {"new", "looked", "publish"}
  BY <1>2 DEF Leave, mq
<1> QED
  BY <1>1, <1>2

LEMMA WorldTracked ==
    ASSUME TypeOK, World, NEW n \in Message, IsTracked(n)
    PROVE  IsTracked(n)'
<1>1. CASE PodEnds \/ UserPauses
  BY <1>1, LeaveTracked DEF PodEnds, UserPauses, Stops, elsewhere
<1>2. CASE DeleteConversation
  BY <1>2, LeaveTracked DEF DeleteConversation, elsewhere, TypeOK
<1>3. CASE SandboxStarted \/ AgentDone \/ JobExpires \/ TimePasses \/ UserResumes
  BY <1>3, TrackedStays
  DEF SandboxStarted, AgentDone, JobExpires, TimePasses, UserResumes, send, mq,
      elsewhere, history
<1>4. ASSUME NEW m \in Message, Deliver(m) PROVE IsTracked(n)'
  BY <1>4 DEF Deliver, Receive, TypeOK, IsTracked, Copies, InFlight, send, mq, history
<1> QED
  BY <1>1, <1>2, <1>3, <1>4 DEF World

LEMMA IdleTracked ==
    ASSUME TypeOK, IdleCleanup, NEW n \in Message, IsTracked(n)
    PROVE  IsTracked(n)'
<1>1. CASE IdlePause /\ Stops("paused")
  BY <1>1, LeaveTracked DEF IdlePause, Stops, calm
<1>2. CASE IdlePause /\ UNCHANGED <<agent, send, pending, history>>
  BY <1>2, TrackedStays DEF IdlePause, send, mq, calm, history
<1>3. CASE IdleList \/ IdleAge \/ IdleAsk
  BY <1>3, TrackedStays
  DEF IdleList, IdleAge, IdleAsk, send, mq, calm, history
<1> QED
  BY <1>1, <1>2, <1>3 DEF IdleCleanup, IdlePause

-----------------------------------------------------------------------------
(* Who moves a copy on.                                                    *)

LEMMA SenderHands ==
    ASSUME TypeOK, InGoodHands, NEW m \in Message, Sender(m)
    PROVE  InGoodHands'
<1> USE DEF InGoodHands, TypeOK, mq, agent, history, To, Lose, Awake,
            Unacknowledged
<1>1. CASE Look(m) \/ Reply(m) \/ TimeOut(m) \/ Broken(m)
  BY <1>1 DEF Look, Reply, TimeOut, Broken, Close
<1>2. CASE Post(m)
  BY <1>2 DEF Post
<1>3. CASE Arrive(m)
  BY <1>3 DEF Arrive, Receive
<1>4. CASE Publish(m)
  BY <1>4 DEF Publish
<1> QED
  BY <1>1, <1>2, <1>3, <1>4 DEF Sender

LEMMA HandlerHands ==
    ASSUME TypeOK, InGoodHands, Manager, \A n \in Message : IsTracked(n)
    PROVE  InGoodHands'
<1> USE DEF InGoodHands, TypeOK, send, agent, history, Lose, Strand, Awake,
            Unacknowledged
<1>1. CASE Subscribe
  BY <1>1 DEF Subscribe
<1>2. CASE Crash
  BY <1>2 DEF Crash
<1>3. CASE Disconnect
  BY <1>3 DEF Disconnect
<1>4. ASSUME NEW m \in Message, Take(m) PROVE InGoodHands'
  BY <1>4 DEF Take
<1>5. ASSUME NEW m \in Message, Store(m) PROVE InGoodHands'
  BY <1>5 DEF Store, StoreThen
<1>6. ASSUME NEW m \in Message, Resume(m) PROVE InGoodHands'
  BY <1>6 DEF Resume, ResumeFor, Resumed
<1> QED
  BY <1>1, <1>2, <1>3, <1>4, <1>5, <1>6 DEF Manager, Handler

LEMMA StopsHands ==
    ASSUME TypeOK, InGoodHands, NEW next, Stops(next), UNCHANGED mq
    PROVE  InGoodHands'
BY DEF Stops, Leave, Waiting, InGoodHands, TypeOK, mq, Awake, Unacknowledged

LEMMA WorldHands ==
    ASSUME TypeOK, InGoodHands, World
    PROVE  InGoodHands'
<1>1. CASE PodEnds \/ UserPauses
  BY <1>1, StopsHands DEF PodEnds, UserPauses, elsewhere
<1> USE DEF InGoodHands, TypeOK, send, mq, elsewhere, history, Awake,
            Unacknowledged
<1>2. CASE DeleteConversation
  BY <1>2 DEF DeleteConversation, Leave
<1>3. CASE SandboxStarted \/ AgentDone \/ JobExpires \/ TimePasses
  BY <1>3 DEF SandboxStarted, AgentDone, JobExpires, TimePasses
<1>4. CASE UserResumes
  BY <1>4 DEF UserResumes, Resumed
<1>5. ASSUME NEW m \in Message, Deliver(m) PROVE InGoodHands'
  BY <1>5 DEF Deliver, Receive
<1> QED
  BY <1>1, <1>2, <1>3, <1>4, <1>5 DEF World

LEMMA IdleHands ==
    ASSUME TypeOK, InGoodHands, IdleCleanup
    PROVE  InGoodHands'
<1>1. CASE IdlePause /\ Stops("paused")
  BY <1>1, StopsHands DEF IdlePause, calm, mq
<1>2. CASE IdleCleanup /\ UNCHANGED <<agent, send, pending, history>>
  BY <1>2
  DEF IdleCleanup, IdleList, IdleAge, IdleAsk, IdlePause, agent, send, mq,
      calm, history, InGoodHands, Unacknowledged
<1> QED
  BY <1>1, <1>2 DEF IdleCleanup, IdleList, IdleAge, IdleAsk, IdlePause

-----------------------------------------------------------------------------
(* The invariant and its consequences.                                     *)

\* Only an agent found idle is about to be stopped.
LEMMA SteadyStep ==
    ASSUME SteadyWorkIsSpared, [Next]_vars
    PROVE  SteadyWorkIsSpared'
<1> USE DEF SteadyWorkIsSpared
<1>1. CASE UNCHANGED vars
  BY <1>1 DEF vars
<1>2. ASSUME Watch, idler' = idler \/ idler' # "checked"
      PROVE  SteadyWorkIsSpared'
  BY <1>2 DEF Watch
<1>3. CASE IdleAsk /\ Watch
  BY <1>3 DEF IdleAsk, Watch, agent
<1>4. CASE Watch /\ (IdleList \/ IdleAge \/ IdlePause)
  BY <1>2, <1>4 DEF IdleList, IdleAge, IdlePause
<1>5. CASE Watch /\ World
  BY <1>2, <1>5
  DEF World, SandboxStarted, AgentDone, PodEnds, UserPauses, JobExpires,
      UserResumes, DeleteConversation, TimePasses, Deliver, elsewhere
<1>6. CASE Watch /\ Manager
  BY <1>2, <1>6
  DEF Manager, Subscribe, Crash, Disconnect, Handler, Take, Store, Resume
<1>7. CASE Watch /\ \E m \in Message : Sender(m)
  BY <1>2, <1>7
  DEF Sender, Look, Post, Arrive, Reply, TimeOut, Broken, Publish
<1> QED
  BY <1>1, <1>3, <1>4, <1>5, <1>6, <1>7
  DEF Next, Manager, World, IdleCleanup

LEMMA StepInv == IInv /\ [Next]_vars => IInv'
<1> SUFFICES ASSUME IInv, [Next]_vars PROVE IInv'
  OBVIOUS
<1>1. SteadyWorkIsSpared'
  BY SteadyStep DEF IInv
<1>2. CASE UNCHANGED vars
  <2>1. TypeOK'
    BY <1>2 DEF IInv, TypeOK, vars, agent, send, mq, history
  <2>2. ASSUME NEW n \in Message PROVE IsTracked(n)'
    BY <1>2, TrackedStays DEF IInv, vars, send, mq, history
  <2>3. InGoodHands'
    BY <1>2
    DEF IInv, InGoodHands, Unacknowledged, Awake, vars, agent, send, mq, history
  <2> QED
    BY <1>1, <2>1, <2>2, <2>3 DEF IInv
<1>3. CASE Next
  <2>1. TypeOK'
    BY <1>3, SenderType, HandlerType, WorldType, IdleType
    DEF IInv, Next, Manager, World
  <2>2. ASSUME NEW n \in Message PROVE IsTracked(n)'
    BY <1>3, SenderTracked, HandlerTracked, WorldTracked, IdleTracked
    DEF IInv, Next, Manager, World
  <2>3. InGoodHands'
    BY <1>3, SenderHands, HandlerHands, WorldHands, IdleHands
    DEF IInv, Next, Manager, World
  <2> QED
    BY <1>1, <2>1, <2>2, <2>3 DEF IInv
<1> QED
  BY <1>2, <1>3

\* The invariant holds of every reachable state.
THEOREM Invariance == Spec => []IInv
BY InitInv, StepInv, PTL DEF Spec

\* Every variable keeps its type.
THEOREM TypeCorrect == Spec => []TypeOK
<1>1. IInv => TypeOK
  BY DEF IInv
<1> QED
  BY <1>1, Invariance, PTL

\* A comment that send_message reports as delivered is somewhere on its way
\* unless a failure has cost it (openhands_client.py:190, messaging.py:68,
\* resume.py:45).
THEOREM DeliveredCommentsAreSomewhere == Spec => []DeliveredIsSomewhere
<1>1. IInv => DeliveredIsSomewhere
  BY DEF IInv, IsTracked, DeliveredIsSomewhere
<1> QED
  BY <1>1, Invariance, PTL

\* No comment reaches the agent twice unless the lifecycle manager crashed
\* between storing and acknowledging it, or lost its connection to RabbitMQ
\* before the acknowledgement (messaging.py:37, :92).
THEOREM CommentsArriveAtMostOnce == Spec => []AtMostOnce
<1>1. ASSUME IInv, NEW m \in Message, m \notin repeated
      PROVE  received[m] <= 1
  BY <1>1 DEF IInv, TypeOK, IsTracked, Copies, InFlight
<1>2. IInv => AtMostOnce
  BY <1>1 DEF AtMostOnce
<1> QED
  BY <1>2, Invariance, PTL

\* The idle cleanup stops no agent that has been working since it listed the
\* conversations (cleanup.py:190).
THEOREM SteadyAgentsAreSpared == Spec => []SteadyWorkIsSpared
<1>1. IInv => SteadyWorkIsSpared
  BY DEF IInv
<1> QED
  BY <1>1, Invariance, PTL

\* No comment on its way waits for nobody: a post has a running sandbox, the
\* queue a reader, and a stored comment a sandbox that is up or a handler
\* that has yet to wake it, but for the recorded failures (resume.py:45,
\* kubernetes_sandbox.py:593).  What DeliveredIsReceived asks beyond that is
\* fairness.
THEOREM CommentsAreInGoodHands == Spec => []InGoodHands
<1>1. IInv => InGoodHands
  BY DEF IInv
<1> QED
  BY <1>1, Invariance, PTL

-----------------------------------------------------------------------------
(* The channel.                                                            *)

\* What becomes of one comment in a step of the channel.
Moves(n) ==
    \/ Channel!Send(n) \/ Channel!Vanish(n) \/ Channel!Report(n)
    \/ Channel!Receive(n) \/ Channel!Lose(n) \/ Channel!Repeat(n)
    \/ Channel!Rest(n)

LEMMA InitChannel == Init => Channel!Init
<1> SUFFICES ASSUME Init PROVE Channel!Init
  OBVIOUS
<1>1. ASSUME NEW m \in Message PROVE InFlight(m) = 0
  BY DEF Init, InFlight
<1> QED
  BY <1>1 DEF Init, Channel!Init

\* A step that leaves the answer, the number of copies and the accounts of a
\* comment is no move of the channel.
LEMMA Rests ==
    ASSUME NEW n \in Message, sender'[n] = sender[n],
           InFlight(n)' = InFlight(n), received'[n] = received[n],
           n \in lost' <=> n \in lost, n \in repeated' <=> n \in repeated
    PROVE  Moves(n)
BY DEF Moves, Channel!Rest, Channel!Answer, Channel!Fly, Channel!Lost,
       Channel!Repeated

LEMMA Untouched ==
    ASSUME NEW n \in Message,
           sender'[n] = sender[n], handler'[n] = handler[n],
           detached'[n] = detached[n],
           pending'[n] = pending[n], received'[n] = received[n],
           n \in wire' <=> n \in wire, n \in queue' <=> n \in queue,
           n \in lost' <=> n \in lost, n \in repeated' <=> n \in repeated
    PROVE  Moves(n)
<1>1. InFlight(n)' = InFlight(n)
  BY DEF InFlight
<1> QED
  BY <1>1, Rests

\* send_message reports only what is on its way, has arrived or is lost.
LEMMA SenderMoves ==
    ASSUME TypeOK, NEW m \in Message, Sender(m), NEW n \in Message, IsTracked(n)
    PROVE  Moves(n)
<1> USE DEF TypeOK, mq, history, To, Lose
<1>1. CASE n # m
  BY <1>1, Untouched
  DEF Sender, Look, Post, Arrive, Reply, TimeOut, Broken, Publish, Receive,
      Close
<1> USE DEF IsTracked, Copies, InFlight, Channel!Answer, Channel!Fly,
            Channel!Lost, Channel!Repeated, Channel!Fresh
<1>2. CASE n = m
  <2>1. CASE Look(m)
    BY <1>2, <2>1 DEF Look, Moves, Channel!Report, Channel!Rest
  <2>2. CASE Post(m)
    BY <1>2, <2>2
    DEF Post, Moves, Channel!Send, Channel!Vanish, Channel!Report, Channel!Rest
  <2>3. CASE Arrive(m)
    BY <1>2, <2>3 DEF Arrive, Receive, Moves, Channel!Receive
  <2>4. CASE Reply(m)
    BY <1>2, <2>4 DEF Reply, Close, Moves, Channel!Report, Channel!LosesSome
  <2>5. CASE TimeOut(m)
    BY <1>2, <2>5 DEF TimeOut, Close, Moves, Channel!Report, Channel!LosesSome
  <2>6. CASE Broken(m)
    BY <1>2, <2>6 DEF Broken, Moves, Channel!Report
  <2>7. CASE Publish(m)
    BY <1>2, <2>7
    DEF Publish, Moves, Channel!Send, Channel!Vanish, Channel!Report
  <2> QED
    BY <2>1, <2>2, <2>3, <2>4, <2>5, <2>6, <2>7 DEF Sender
<1> QED
  BY <1>1, <1>2

\* The lifecycle manager moves a comment from the queue to the server, writes
\* it down as lost, or takes it again after a crash or a lost connection.
LEMMA HandlerMoves ==
    ASSUME TypeOK, Manager, NEW n \in Message, IsTracked(n)
    PROVE  Moves(n)
<1> USE DEF TypeOK, send, history, Lose, Strand
<1>1. CASE Subscribe
  BY <1>1, Untouched DEF Subscribe
<1>2. CASE Crash
  <2>1. CASE handler[n] = "stored"
    BY <1>2, <2>1
    DEF Crash, Unacknowledged, IsTracked, InFlight, Moves, Channel!Repeat,
        Channel!Answer, Channel!Fly, Channel!Lost
  <2>2. CASE handler[n] # "stored" /\ detached[n] = "taken"
    BY <1>2, <2>2
    DEF Crash, Unacknowledged, IsTracked, InFlight, Moves, Channel!Lose,
        Channel!LosesSome, Channel!Answer, Channel!Fly, Channel!Repeated
  <2>3. CASE handler[n] # "stored" /\ detached[n] # "taken"
    <3>1. InFlight(n)' = InFlight(n)
      BY <1>2, <2>3 DEF Crash, Unacknowledged, IsTracked, InFlight
    <3> QED
      BY <1>2, <2>3, <3>1, Rests DEF Crash
  <2> QED
    BY <2>1, <2>2, <2>3
<1>3. CASE Disconnect
  <2>1. CASE n \in Unacknowledged
    BY <1>3, <2>1
    DEF Disconnect, Unacknowledged, IsTracked, InFlight, Moves, Channel!Repeat,
        Channel!Answer, Channel!Fly, Channel!Lost
  <2>2. CASE n \notin Unacknowledged
    <3>1. InFlight(n)' = InFlight(n)
      BY <1>3, <2>2 DEF Disconnect, Unacknowledged, InFlight
    <3> QED
      BY <1>3, <2>2, <3>1, Rests DEF Disconnect
  <2> QED
    BY <2>1, <2>2
<1>4. ASSUME NEW m \in Message, Handler(m), n # m PROVE Moves(n)
  BY <1>4, Untouched DEF Handler, Take, Store, StoreThen, Resume, ResumeFor
<1>5. CASE Take(n)
  <2>1. InFlight(n)' = InFlight(n)
    BY <1>5 DEF Take, InFlight
  <2> QED
    BY <1>5, <2>1, Rests DEF Take
<1>6. CASE Store(n)
  <2>1. CASE n \in lost'
    BY <1>6, <2>1
    DEF Store, StoreThen, IsTracked, InFlight, Moves, Channel!Lose,
        Channel!LosesSome, Channel!Rest, Channel!Answer, Channel!Fly,
        Channel!Lost, Channel!Repeated
  <2>2. CASE n \notin lost'
    <3>1. InFlight(n)' = InFlight(n) /\ UNCHANGED <<lost, repeated>>
      BY <1>6, <2>2 DEF Store, StoreThen, IsTracked, InFlight
    <3> QED
      BY <1>6, <3>1, Rests DEF Store
  <2> QED
    BY <2>1, <2>2
<1>7. CASE Resume(n)
  <2>1. InFlight(n)' = InFlight(n)
    BY <1>7 DEF Resume, ResumeFor, InFlight
  <2> QED
    BY <1>7, <2>1, Rests DEF Resume, ResumeFor
<1> QED
  BY <1>1, <1>2, <1>3, <1>4, <1>5, <1>6, <1>7 DEF Manager, Handler

\* A sandbox that goes away loses what was on its way to it, and a deletion
\* what was stored: each with an entry in the accounts.
LEMMA LeaveMoves ==
    ASSUME TypeOK, NEW n \in Message, IsTracked(n), NEW next, NEW gone,
           Leave(next, gone), UNCHANGED <<mq, received>>,
           n \in gone => pending[n] > 0,
           \/ pending'[n] = pending[n] /\ n \notin gone
           \/ pending'[n] = 0 /\ (pending[n] > 0 => n \in gone)
    PROVE  Moves(n)
<1> USE DEF TypeOK
<1>1. \/ sender'[n] = sender[n]
      \/ sender[n] = "posting" /\ sender'[n] = "cut"
  BY DEF Leave
<1>2. CASE n \in wire \cup gone
  <2>1. InFlight(n)' \in 0..InFlight(n) /\ InFlight(n)' < InFlight(n)
    BY <1>2 DEF Leave, mq, InFlight
  <2> QED
    BY <1>1, <1>2, <2>1
    DEF Leave, mq, Moves, Channel!Lose, Channel!LosesSome, Channel!Answer,
        Channel!Fly, Channel!Repeated
<1>3. CASE n \notin wire \cup gone
  <2>1. InFlight(n)' = InFlight(n)
    BY <1>3 DEF Leave, mq, InFlight
  <2> QED
    BY <1>3, <2>1, Rests DEF Leave, mq
<1> QED
  BY <1>2, <1>3

LEMMA WorldMoves ==
    ASSUME TypeOK, World, NEW n \in Message, IsTracked(n)
    PROVE  Moves(n)
<1>1. CASE PodEnds \/ UserPauses
  BY <1>1, LeaveMoves DEF PodEnds, UserPauses, Stops, elsewhere
<1>2. CASE DeleteConversation
  BY <1>2, LeaveMoves DEF DeleteConversation, elsewhere, TypeOK
<1>3. CASE SandboxStarted \/ AgentDone \/ JobExpires \/ TimePasses \/ UserResumes
  BY <1>3, Untouched
  DEF SandboxStarted, AgentDone, JobExpires, TimePasses, UserResumes, send, mq,
      elsewhere, history
<1>4. ASSUME NEW m \in Message, Deliver(m), n # m PROVE Moves(n)
  BY <1>4, Untouched DEF Deliver, Receive, TypeOK, send, mq, history
<1>5. CASE Deliver(n)
  BY <1>5
  DEF Deliver, Receive, TypeOK, InFlight, send, mq, history, Moves,
      Channel!Receive, Channel!Answer, Channel!Lost, Channel!Repeated
<1> QED
  BY <1>1, <1>2, <1>3, <1>4, <1>5 DEF World

LEMMA IdleMoves ==
    ASSUME TypeOK, IdleCleanup, NEW n \in Message, IsTracked(n)
    PROVE  Moves(n)
<1>1. CASE IdlePause /\ Stops("paused")
  BY <1>1, LeaveMoves DEF IdlePause, Stops, calm
<1>2. CASE IdlePause /\ UNCHANGED <<agent, send, pending, history>>
  BY <1>2, Untouched DEF IdlePause, send, mq, calm, history
<1>3. CASE IdleList \/ IdleAge \/ IdleAsk
  BY <1>3, Untouched DEF IdleList, IdleAge, IdleAsk, send, mq, calm, history
<1> QED
  BY <1>1, <1>2, <1>3 DEF IdleCleanup, IdlePause

LEMMA StepMoves == IInv /\ [Next]_vars => [Channel!Next]_(Channel!channel)
<1> SUFFICES ASSUME IInv, [Next]_vars
             PROVE  Channel!Next \/ UNCHANGED Channel!channel
  OBVIOUS
<1>1. CASE UNCHANGED vars
  <2>1. ASSUME NEW m \in Message PROVE InFlight(m)' = InFlight(m)
    BY <1>1 DEF vars, send, mq, InFlight
  <2> QED
    BY <1>1, <2>1 DEF vars, send, history, Channel!channel
<1>2. CASE Next
  <2>1. ASSUME NEW n \in Message PROVE Moves(n)
    BY <1>2, SenderMoves, HandlerMoves, WorldMoves, IdleMoves
    DEF IInv, Next, Manager, World
  <2> QED
    BY <2>1 DEF Moves, Channel!Next
<1> QED
  BY <1>1, <1>2

\* The way from send_message to the agent implements the channel: one
\* sending, an entry in the accounts for every copy that does not arrive, and
\* a second copy only from a crash or a lost connection before the
\* acknowledgement of a comment that send_message is through with
\* (openhands_client.py:196, messaging.py:37, :92, resume.py:45).
THEOREM DeliveryKeepsAccount == Spec => KeepsAccount
BY InitChannel, StepMoves, Invariance, PTL DEF Spec, KeepsAccount, Channel!Spec
=============================================================================
