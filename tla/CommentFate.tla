---------------------------- MODULE CommentFate ----------------------------
(***************************************************************************)
(* What the webhooks service promises about each comment it is sent,       *)
(* whatever its handlers, tasks and tables do.  A handler gives a comment  *)
(* to one conversation, and to a second only if that is the conversation   *)
(* it makes for the comment because sending to the first seemed to fail.   *)
(* A queued comment is given to nobody before it has left the queue, never *)
(* comes back to it, and is then given only by tasks that read it while it *)
(* was queued, by each at most once.  So it reaches two conversations only *)
(* if two tasks had read it before either emptied the queue.               *)
(***************************************************************************)
CONSTANT Delivery   \* comments; also the tasks and conversations they start

VARIABLES
    stage,   \* how far the handler of a comment has got
    hands,   \* hands[d]: the tasks that have read d from the queue
    given    \* given[d]: the conversations that got d

vars == <<stage, hands, given>>

Stages == {"new", "open", "queued", "closed"}

TypeOK ==
    /\ stage \in [Delivery -> Stages]
    /\ hands \in [Delivery -> SUBSET Delivery]
    /\ given \in [Delivery -> SUBSET Delivery]

Init ==
    /\ stage = [d \in Delivery |-> "new"]
    /\ hands = [d \in Delivery |-> {}]
    /\ given = [d \in Delivery |-> {}]

Arrive(d) ==
    /\ stage[d] = "new" /\ stage'[d] = "open"
    /\ hands'[d] = hands[d] /\ given'[d] = given[d]

\* The handler ignores, sends, queues or drops the comment, or starts a
\* conversation with it; handlers that raise and restarts lose it.
Handle(d) ==
    /\ stage[d] = "open" /\ stage'[d] \in {"open", "queued", "closed"}
    /\ hands'[d] = hands[d]
    /\ \/ given'[d] = given[d]
       \/ given[d] = {} /\ \E c \in Delivery : given'[d] = {c}
       \/ given'[d] = given[d] \cup {d}
    /\ stage'[d] = "queued" => given'[d] = {}

Read(d) ==
    /\ stage[d] = "queued" /\ stage'[d] = "queued"
    /\ \E t \in Delivery : hands'[d] = hands[d] \cup {t}
    /\ given'[d] = given[d]

\* A flush, an expiry or a failed creation empties the queue.
Leave(d) ==
    /\ stage[d] = "queued" /\ stage'[d] = "closed"
    /\ hands'[d] = hands[d] /\ given'[d] = given[d]

\* One try by a task that had read d, which may fail before or after receipt.
Give(d) ==
    /\ stage[d] = "closed" /\ stage'[d] = "closed"
    /\ \E t \in hands[d] \ given[d] :
          /\ hands'[d] = hands[d] \ {t}
          /\ given'[d] \in {given[d], given[d] \cup {t}}

\* Tasks that raise or are cut off send no more of what they had read.
Abandon(d) ==
    /\ stage'[d] = stage[d]
    /\ hands'[d] \subseteq hands[d]
    /\ given'[d] = given[d]

\* Several comments may move at once: one delete empties a whole queue, one
\* restart ends every coroutine.
Next ==
    /\ TypeOK'
    /\ \A d \in Delivery : \/ Arrive(d) \/ Handle(d) \/ Read(d)
                           \/ Leave(d) \/ Give(d) \/ Abandon(d)

Spec == Init /\ [][Next]_vars

\* No comment is held for ever by a handler, or by the tasks that read it.
Settlement ==
    \A d \in Delivery :
        /\ stage[d] = "open" ~> stage[d] # "open"
        /\ hands[d] # {} ~> hands[d] = {}
=============================================================================
