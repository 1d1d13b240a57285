--------------------------- MODULE MessageChannel ---------------------------
(***************************************************************************)
(* What send_message, RabbitMQ, the lifecycle manager and the server       *)
(* together promise for a comment that goes to a running conversation: it  *)
(* is sent at most once, a copy of it leaves only to the agent or with a   *)
(* recorded loss, and a second copy comes only from a crash of the         *)
(* lifecycle manager or a lost connection to RabbitMQ, when send_message   *)
(* is already through with the comment.  A report of delivery is given     *)
(* once, and not for nothing.                                              *)
(*                                                                         *)
(* One step may move several comments: a pod takes all posts with it.      *)
(***************************************************************************)
EXTENDS Naturals

CONSTANT Message

VARIABLES
    answer,      \* answer[m]: what send_message has reported, or "none"
    flight,      \* flight[m]: copies on their way
    received,    \* received[m]: copies the agent has received
    lost,        \* comments of which a copy was lost
    repeated     \* comments that were copied by a crash or a lost connection

channel == <<answer, flight, received, lost, repeated>>

Init ==
    /\ answer = [m \in Message |-> "none"]
    /\ flight = [m \in Message |-> 0]
    /\ received = [m \in Message |-> 0]
    /\ lost = {}
    /\ repeated = {}

\* What becomes of m in a step.
Answer(m, a) == answer'[m] = a
Fly(m, n) == flight'[m] = n /\ received'[m] = received[m]
Lost(m) == m \in lost' <=> m \in lost
Repeated(m) == m \in repeated' <=> m \in repeated

Fresh(m) ==
    answer[m] = "none" /\ flight[m] = 0 /\ received[m] = 0 /\ m \notin lost

\* Posted; or published, which is reported at once, though perhaps as failed.
Send(m) ==
    /\ Fresh(m)
    /\ \E a \in {"none", "true", "raised"} : Answer(m, a)
    /\ Fly(m, 1) /\ Lost(m) /\ Repeated(m)

\* Reported as delivered without having got anywhere.
Vanish(m) ==
    /\ Fresh(m)
    /\ Answer(m, "true")
    /\ m \in lost'
    /\ Fly(m, 0) /\ Repeated(m)

LosesSome(m) ==
    /\ \E n \in 0..flight[m] : n < flight[m] /\ Fly(m, n)
    /\ m \in lost'

\* A report may give up what is on its way.
Report(m) ==
    /\ answer[m] = "none"
    /\ \/ Answer(m, "false") \/ Answer(m, "raised")
       \/ Answer(m, "true") /\ (flight[m] + received[m] > 0 \/ m \in lost)
    /\ (Fly(m, flight[m]) /\ Lost(m)) \/ LosesSome(m)
    /\ Repeated(m)

Receive(m) ==
    /\ flight[m] > 0
    /\ flight'[m] = flight[m] - 1
    /\ received'[m] = received[m] + 1
    /\ Answer(m, answer[m]) /\ Lost(m) /\ Repeated(m)

Lose(m) == LosesSome(m) /\ Answer(m, answer[m]) /\ Repeated(m)

\* A copy more, or one more for one that is lost.
Repeat(m) ==
    /\ answer[m] # "none"
    /\ \/ Fly(m, flight[m] + 1) /\ Lost(m)
       \/ Fly(m, flight[m]) /\ m \in lost'
    /\ m \in repeated'
    /\ Answer(m, answer[m])

Rest(m) == Answer(m, answer[m]) /\ Fly(m, flight[m]) /\ Lost(m) /\ Repeated(m)

Next ==
    \A m \in Message :
        \/ Send(m) \/ Vanish(m) \/ Report(m) \/ Receive(m) \/ Lose(m)
        \/ Repeat(m) \/ Rest(m)

Spec == Init /\ [][Next]_channel
=============================================================================
