--------------------------- MODULE WebhookIntake ---------------------------
(***************************************************************************)
(* How the webhooks service turns deliveries from GitLab, GitHub, Slack    *)
(* and Jira into OpenHands conversations: the four handlers, the           *)
(* background task each may start, and the tables they share               *)
(* (conversation_map, jira_tickets, resource_links, pending_messages).     *)
(*                                                                         *)
(* Handlers and tasks are coroutines of one process over PostgreSQL at     *)
(* READ COMMITTED: an action is what happens between two awaits that       *)
(* matter, so a helper that selects and then writes is two actions and     *)
(* other coroutines may step in between.                                   *)
(*                                                                         *)
(* Abstracted: message texts (a comment is the delivery that brought it),  *)
(* the comments posted on the platform, the 120 s clock (a row is old or   *)
(* not), and texts that mention more than one Jira key.                    *)
(***************************************************************************)
EXTENDS Naturals, FiniteSets

CONSTANTS
    Delivery,     \* webhook deliveries; d also names the comment it brings,
                  \* its background task and the conversation that task makes
    Resource,     \* issues, merge requests, threads: (source, type, id)
    Platform,     \* Platform[r]: the source of r
    JiraKey,      \* JiraKey[r]: the Jira issue named in r's texts, or None
    Pending,      \* PENDING_CONVERSATION_ID
    None,
    AgentLinked,  \* bound: resources that agents register for themselves
    MaxRestarts   \* bound: restarts of the service

Platforms == {"gitlab", "github", "slack", "jira"}

Kinds == {"mention", "comment", "label"}

ASSUME PlatformAssumption == Platform \in [Resource -> Platforms]

\* _infer_conversation_from_jira exists in the GitLab handler only.
ASSUME JiraKeyAssumption ==
    /\ JiraKey \in [Resource -> Resource \cup {None}]
    /\ \A r \in Resource :
          /\ Platform[r] # "gitlab" => JiraKey[r] = None
          /\ JiraKey[r] # None => Platform[JiraKey[r]] = "jira"

ASSUME NamesAssumption ==
    /\ None \notin Delivery
    /\ None \notin Resource
    /\ None \notin Kinds
    /\ Pending \notin Delivery
    /\ Pending # None

ASSUME AgentLinkedAssumption == AgentLinked \subseteq Resource

ASSUME MaxRestartsAssumption == MaxRestarts \in Nat

VARIABLES
    row,        \* conversation_map, at most one row per resource
    ticket,     \* jira_tickets: the conversation of an issue, or None
    link,       \* resource_links: the conversation of a resource, or None
    pending,    \* pending_messages: comments queued for a resource
    created,    \* conversations the OpenHands server has made
    accepted,   \* accepted[c]: comments that were given to conversation c
    pc,         \* where delivery d's handler, then its task, is suspended
    res, kind,  \* the resource and the kind of event of d
    target,     \* the resource d's handler is looking up
    found,      \* the conversation (or Pending) d is acting on
    seen,       \* the row read by the store_conversation d is inside
    batch,      \* the queued comments d's task has read and not yet sent
    restarts

tables == <<row, ticket, link, pending>>
server == <<created, accepted>>
locals == <<pc, res, kind, target, found, seen, batch>>
vars   == <<row, ticket, link, pending, created, accepted, pc, res, kind,
            target, found, seen, batch, restarts>>

-----------------------------------------------------------------------------
(* Types.  A row remembers which delivery inserted it (its primary key)    *)
(* and, as history only, which delivery wrote its conversation_id last.    *)

\* A delivery or its task has come to its end.
Ended == {"ignored", "queued", "forwarded", "dropped", "raised",
          "started", "failed", "interrupted"}

Suspended == {"lookup", "expire", "tickets", "links", "queue", "send",
              "claim", "claimWrite", "ticket", "ticketInsert",
              "link", "linkInsert", "create", "store", "storeWrite",
              "flush", "flushDelete", "flushSend",
              "clear", "clearExpire", "clearRow", "clearMessages"}

Row == [conv : Delivery \cup {Pending}, by : Delivery,
        id : Delivery \X {"claim", "store"}, old : BOOLEAN]

NoRow == [conv |-> None, by |-> None, id |-> None, old |-> FALSE]

TypeOK ==
    /\ row \in [Resource -> Row \cup {NoRow}]
    /\ ticket \in [Resource -> Delivery \cup {Pending, None}]
    /\ link \in [Resource -> Delivery \cup {Pending, None}]
    /\ pending \in [Resource -> SUBSET Delivery]
    /\ created \in SUBSET Delivery
    /\ accepted \in [Delivery -> SUBSET Delivery]
    /\ pc \in [Delivery -> {"new"} \cup Suspended \cup Ended]
    /\ res \in [Delivery -> Resource \cup {None}]
    /\ kind \in [Delivery -> Kinds \cup {None}]
    /\ target \in [Delivery -> Resource \cup {None}]
    /\ found \in [Delivery -> Delivery \cup {Pending, None}]
    /\ seen \in [Delivery -> Row \cup {NoRow}]
    /\ batch \in [Delivery -> SUBSET Delivery]
    /\ restarts \in 0..MaxRestarts
    /\ \A d \in Delivery :
          /\ pc[d] # "new" => res[d] \in Resource
          /\ pc[d] \in Suspended => target[d] \in Resource

Init ==
    /\ row = [r \in Resource |-> NoRow]
    /\ ticket = [r \in Resource |-> None]
    /\ link = [r \in Resource |-> None]
    /\ pending = [r \in Resource |-> {}]
    /\ created = {}
    /\ accepted = [c \in Delivery |-> {}]
    /\ pc = [d \in Delivery |-> "new"]
    /\ res = [d \in Delivery |-> None]
    /\ kind = [d \in Delivery |-> None]
    /\ target = [d \in Delivery |-> None]
    /\ found = [d \in Delivery |-> None]
    /\ seen = [d \in Delivery |-> NoRow]
    /\ batch = [d \in Delivery |-> {}]
    /\ restarts = 0

-----------------------------------------------------------------------------
(* Deliveries.  One action per handler; each starts a coroutine.           *)

\* Where d goes on, with which target and finding; a coroutine that has
\* ended keeps neither.
GotoWith(d, where, t, f) ==
    LET over == where \in Ended
    IN  /\ pc' = [pc EXCEPT ![d] = where]
        /\ kind' = [kind EXCEPT ![d] = IF over THEN None ELSE @]
        /\ target' = [target EXCEPT ![d] = IF over THEN None ELSE t]
        /\ found' = [found EXCEPT ![d] = IF over THEN None ELSE f]

Goto(d, where) == GotoWith(d, where, target[d], found[d])

Begin(d, r, k, t, where) ==
    /\ pc[d] = "new"
    /\ pc' = [pc EXCEPT ![d] = where]
    /\ res' = [res EXCEPT ![d] = r]
    /\ kind' = [kind EXCEPT ![d] = k]
    /\ target' = [target EXCEPT ![d] = t]
    /\ UNCHANGED <<tables, server, found, seen, batch, restarts>>

GitlabNote(d, r, k) ==
    /\ Platform[r] = "gitlab"
    /\ k \in {"mention", "comment"}
    /\ Begin(d, r, k, r, "lookup")

\* A labelled issue or merge request is claimed whatever it is mapped to; a
\* Jira key in its texts only leaves a link behind.
GitlabLabel(d, r) ==
    /\ Platform[r] = "gitlab"
    /\ \/ JiraKey[r] = None /\ Begin(d, r, "label", r, "claim")
       \/ JiraKey[r] # None /\ Begin(d, r, "label", JiraKey[r], "lookup")

GithubComment(d, r, k) ==
    /\ Platform[r] = "github"
    /\ k \in {"mention", "comment"}
    /\ Begin(d, r, k, r, "lookup")

GithubLabel(d, r) ==
    /\ Platform[r] = "github"
    /\ Begin(d, r, "label", r, "claim")

SlackMention(d, r) ==
    /\ Platform[r] = "slack"
    /\ Begin(d, r, "mention", r, "lookup")

SlackThreadMessage(d, r) ==
    /\ Platform[r] = "slack"
    /\ Begin(d, r, "comment", r, "lookup")

JiraComment(d, r, k) ==
    /\ Platform[r] = "jira"
    /\ k \in {"mention", "comment"}
    /\ Begin(d, r, k, r, "lookup")

JiraLabel(d, r) ==
    /\ Platform[r] = "jira"
    /\ Begin(d, r, "label", r, "lookup")

Deliver(d, r) ==
    \/ \E k \in Kinds : GitlabNote(d, r, k) \/ GithubComment(d, r, k)
                                            \/ JiraComment(d, r, k)
    \/ GitlabLabel(d, r) \/ GithubLabel(d, r) \/ JiraLabel(d, r)
    \/ SlackMention(d, r) \/ SlackThreadMessage(d, r)

-----------------------------------------------------------------------------
(* Which conversation?  lookup_conversation, then the tables of links, and *)
(* for GitLab the same again for the Jira issue the texts name.            *)

\* What the handler does once `existing` is known to be c.
Verdict(d, c) ==
    CASE kind[d] = "label" ->
            IF Platform[res[d]] = "jira" /\ c # None THEN "ignored" ELSE "claim"
      [] kind[d] # "label" /\ c = None ->
            IF kind[d] = "mention" THEN "claim" ELSE "ignored"
      [] kind[d] # "label" /\ c = Pending -> "queue"
      [] OTHER -> "send"

\* A conversation found through the Jira key is linked before it is used.
Finds(d, c) ==
    GotoWith(d, IF target[d] # res[d] THEN "link" ELSE Verdict(d, c), target[d], c)

FindsNothing(d) ==
    LET key == JiraKey[res[d]]
    IN  \/ /\ key # None /\ target[d] = res[d]
           /\ GotoWith(d, "lookup", key, None)
        \/ /\ key = None \/ target[d] # res[d]
           /\ Goto(d, Verdict(d, None))

\* get_conversation_for_jira_ticket is asked for Jira issues only.
AfterTable(d) == IF Platform[target[d]] = "jira" THEN "tickets" ELSE "links"

IsStale(entry) == entry.conv = Pending /\ entry.old

Lookup(d) ==
    LET entry == row[target[d]]
    IN  /\ pc[d] = "lookup"
        /\ \/ entry = NoRow /\ Goto(d, AfterTable(d))
           \/ IsStale(entry) /\ Goto(d, "expire")
           \/ entry # NoRow /\ ~IsStale(entry) /\ Finds(d, entry.conv)
        /\ UNCHANGED <<tables, server, res, seen, batch, restarts>>

\* The deletes name the resource, not the row that was read.
DeleteEntry(r) ==
    /\ row' = [row EXCEPT ![r] = NoRow]
    /\ pending' = [pending EXCEPT ![r] = {}]
    /\ UNCHANGED <<ticket, link>>

Expire(d) ==
    /\ pc[d] = "expire"
    /\ DeleteEntry(target[d])
    /\ Goto(d, AfterTable(d))
    /\ UNCHANGED <<server, res, seen, batch, restarts>>

\* The label handler for Jira stops here; comments go on to resource_links.
ReadTickets(d) ==
    LET c == ticket[target[d]]
    IN  /\ pc[d] = "tickets"
        /\ \/ c # None /\ Finds(d, c)
           \/ /\ c = None /\ kind[d] = "label" /\ target[d] = res[d]
              /\ FindsNothing(d)
           \/ /\ c = None /\ ~(kind[d] = "label" /\ target[d] = res[d])
              /\ Goto(d, "links")
        /\ UNCHANGED <<tables, server, res, seen, batch, restarts>>

ReadLinks(d) ==
    LET c == link[target[d]]
    IN  /\ pc[d] = "links"
        /\ \/ c # None /\ Finds(d, c)
           \/ c = None /\ FindsNothing(d)
        /\ UNCHANGED <<tables, server, res, seen, batch, restarts>>

-----------------------------------------------------------------------------
(* Check-then-insert into resource_links and jira_tickets.  A row that     *)
(* appears between the check and the insert violates the unique constraint *)
(* and raises.                                                             *)

\* A handler that raises answers 500; a task that raises clears up.
Raise(d) == Goto(d, IF d \in created THEN "clear" ELSE "raised")

AfterLinkForgetsTask(d) ==   \* mutant: the Jira handler returns
    IF Platform[res[d]] = "gitlab" THEN Verdict(d, found[d])
    ELSE IF found[d] = Pending THEN "ignored" ELSE "flush"

\* After linking: the GitLab handler goes on with what it found, the Jira
\* handler starts its task, the Jira task flushes.
AfterLink(d) ==
    IF Platform[res[d]] = "gitlab" THEN Verdict(d, found[d])
    ELSE IF found[d] = Pending THEN "create" ELSE "flush"

Link(d) ==
    /\ pc[d] = "link"
    /\ Goto(d, IF link[res[d]] # None THEN AfterLink(d) ELSE "linkInsert")
    /\ UNCHANGED <<tables, server, res, seen, batch, restarts>>

LinkInsert(d) ==
    /\ pc[d] = "linkInsert"
    /\ \/ /\ link[res[d]] = None
          /\ link' = [link EXCEPT ![res[d]] = found[d]]
          /\ Goto(d, AfterLink(d))
       \/ /\ link[res[d]] # None
          /\ Raise(d)
          /\ UNCHANGED link
    /\ UNCHANGED <<row, ticket, pending, server, res, seen,
                   batch, restarts>>

LinkTicket(d) ==
    /\ pc[d] = "ticket"
    /\ Goto(d, IF ticket[res[d]] # None THEN AfterLink(d) ELSE "ticketInsert")
    /\ UNCHANGED <<tables, server, res, seen, batch, restarts>>

LinkTicketInsert(d) ==
    /\ pc[d] = "ticketInsert"
    /\ \/ /\ ticket[res[d]] = None
          /\ ticket' = [ticket EXCEPT ![res[d]] = found[d]]
          /\ Goto(d, "link")
       \/ /\ ticket[res[d]] # None
          /\ Raise(d)
          /\ UNCHANGED ticket
    /\ UNCHANGED <<row, link, pending, server, res, seen,
                   batch, restarts>>

-----------------------------------------------------------------------------
(* Forwarding, queueing, or claiming the resource for a new conversation.  *)

QueueFallsThrough(d) ==   \* mutant: no return after store_pending_message
    /\ pc[d] = "queue"
    /\ pending' = [pending EXCEPT ![res[d]] = @ \cup {d}]
    /\ Goto(d, "claim")
    /\ UNCHANGED <<row, ticket, link, server, res, seen, batch, restarts>>

Queue(d) ==
    /\ pc[d] = "queue"
    /\ pending' = [pending EXCEPT ![res[d]] = @ \cup {d}]
    /\ Goto(d, "queued")
    /\ UNCHANGED <<row, ticket, link, server, res, seen,
                   batch, restarts>>

\* send_message returns True, returns False on any other HTTP error, or
\* raises when the event cannot be published to RabbitMQ.
Outcome == {"ok", "fail", "raise"}

\* An answer lost after receipt, and a publish whose confirmation is lost,
\* fail although conversation c gets the comment m.
SendMessage(c, m, outcome) ==
    \/ accepted' = [accepted EXCEPT ![c] = @ \cup {m}]
    \/ outcome # "ok" /\ UNCHANGED accepted

AfterSend(d, outcome) ==
    CASE outcome = "ok" -> "forwarded"
      [] outcome = "raise" -> "raised"
      [] outcome = "fail" -> IF Platform[res[d]] = "slack" /\ kind[d] = "comment"
                             THEN "dropped" ELSE "claim"

Send(d, outcome) ==
    /\ pc[d] = "send"
    /\ SendMessage(found[d], d, outcome)
    /\ Goto(d, AfterSend(d, outcome))
    /\ UNCHANGED <<tables, created, res, seen, batch, restarts>>

(* store_conversation: select the row, then insert, update or leave it.    *)

ReadForStore(d, where) ==
    /\ seen' = [seen EXCEPT ![d] = row[res[d]]]
    /\ GotoWith(d, where, res[d], None)
    /\ UNCHANGED <<tables, server, res, batch, restarts>>

\* An unchanged attribute is not written; an insert meets the unique
\* constraint; an update must still find the row it read.
CanStore(d, value) ==
    \/ seen[d] = NoRow /\ row[res[d]] = NoRow
    \/ seen[d] # NoRow /\ seen[d].conv = value
    \/ seen[d] # NoRow /\ row[res[d]] # NoRow /\ row[res[d]].id = seen[d].id

Stored(d, value, stage) ==
    CASE seen[d] = NoRow ->
            [conv |-> value, by |-> d, id |-> <<d, stage>>, old |-> FALSE]
      [] seen[d] # NoRow /\ seen[d].conv = value -> row[res[d]]
      [] OTHER -> [row[res[d]] EXCEPT !.conv = value, !.by = d]

\* `value` is also what the Jira handler and task link the issue to next.
Store(d, value, stage, next) ==
    \/ /\ CanStore(d, value)
       /\ row' = [row EXCEPT ![res[d]] = Stored(d, value, stage)]
       /\ GotoWith(d, IF Platform[res[d]] = "jira" THEN "ticket" ELSE next,
                   target[d], value)
    \/ ~CanStore(d, value) /\ Raise(d) /\ UNCHANGED row

Claim(d) == pc[d] = "claim" /\ ReadForStore(d, "claimWrite")

ClaimWrite(d) ==
    /\ pc[d] = "claimWrite"
    /\ Store(d, Pending, "claim", "create")
    /\ seen' = [seen EXCEPT ![d] = NoRow]
    /\ UNCHANGED <<ticket, link, pending, server, res, batch, restarts>>

-----------------------------------------------------------------------------
(* The background task.                                                    *)

NoConversationId(d) == None   \* mutant: the result's field is misread

\* The conversation d's task made; its identifier.
ConversationOf(d) == d

CreateUnchecked(d, ok) ==   \* mutant: `if not result` is missing
    /\ pc[d] = "create"
    /\ Goto(d, "store")
    /\ IF ok THEN created' = created \cup {d} ELSE UNCHANGED created
    /\ UNCHANGED <<tables, accepted, res, seen, batch, restarts>>

CreateNeverGivesUp(d, ok) ==   \* mutant: polling has no last attempt
    /\ pc[d] = "create"
    /\ ok
    /\ UNCHANGED vars

\* create_conversation gives up on an HTTP error, on ERROR and after 310
\* polls, and cannot tell whether the server made the conversation anyway.
Create(d, ok) ==
    /\ pc[d] = "create"
    /\ \/ /\ ok
          /\ created' = created \cup {ConversationOf(d)}
          /\ accepted' = [accepted EXCEPT ![ConversationOf(d)] = @ \cup {d}]
          /\ Goto(d, "store")
       \/ /\ ~ok
          /\ Goto(d, "clear")
          /\ \/ UNCHANGED server
             \/ /\ created' = created \cup {ConversationOf(d)}
                /\ accepted' = [accepted EXCEPT ![ConversationOf(d)] = @ \cup {d}]
    /\ UNCHANGED <<tables, res, seen, batch, restarts>>

StoreConversation(d) == pc[d] = "store" /\ ReadForStore(d, "storeWrite")

StoreConversationWrite(d) ==
    /\ pc[d] = "storeWrite"
    /\ Store(d, ConversationOf(d), "store", "flush")
    /\ seen' = [seen EXCEPT ![d] = NoRow]
    /\ UNCHANGED <<ticket, link, pending, server, res, batch, restarts>>

\* get_and_clear_pending_messages: nothing is deleted when nothing was read.
Flush(d) ==
    LET queued == pending[res[d]]
    IN  /\ pc[d] = "flush"
        /\ batch' = [batch EXCEPT ![d] = queued]
        /\ Goto(d, IF queued = {} THEN "started" ELSE "flushDelete")
        /\ UNCHANGED <<tables, server, res, seen, restarts>>

FlushKeeps(d) ==   \* mutant: the delete is missing
    /\ pc[d] = "flushDelete"
    /\ Goto(d, "flushSend")
    /\ UNCHANGED <<tables, server, res, seen, batch, restarts>>

FlushDelete(d) ==
    /\ pc[d] = "flushDelete"
    /\ pending' = [pending EXCEPT ![res[d]] = {}]
    /\ Goto(d, "flushSend")
    /\ UNCHANGED <<row, ticket, link, server, res, seen,
                   batch, restarts>>

\* A failed send is logged and the next comment is tried.
FlushSend(d, m, outcome) ==
    /\ pc[d] = "flushSend"
    /\ m \in batch[d]
    /\ SendMessage(ConversationOf(d), m, outcome)
    /\ IF outcome = "raise"
       THEN batch' = [batch EXCEPT ![d] = {}] /\ Goto(d, "clear")
       ELSE /\ batch' = [batch EXCEPT ![d] = @ \ {m}]
            /\ Goto(d, IF batch[d] = {m} THEN "started" ELSE "flushSend")
    /\ UNCHANGED <<tables, created, res, seen, restarts>>

(* _clear_pending, after a failure: look the marker up, delete it if it is *)
(* still a marker, and discard whatever is queued.                         *)

ClearLeavesMarker(d) ==   \* mutant: the marker is not cleared
    /\ pc[d] = "clear"
    /\ Goto(d, "clearMessages")
    /\ UNCHANGED <<tables, server, res, seen, batch, restarts>>

Clear(d) ==
    LET entry == row[res[d]]
    IN  /\ pc[d] = "clear"
        /\ \/ IsStale(entry) /\ Goto(d, "clearExpire")
           \/ entry.conv = Pending /\ ~IsStale(entry) /\ Goto(d, "clearRow")
           \/ entry.conv # Pending /\ Goto(d, "clearMessages")
        /\ UNCHANGED <<tables, server, res, seen, batch, restarts>>

ClearExpire(d) ==
    /\ pc[d] = "clearExpire"
    /\ DeleteEntry(res[d])
    /\ Goto(d, "clearMessages")
    /\ UNCHANGED <<server, res, seen, batch, restarts>>

ClearRow(d) ==
    /\ pc[d] = "clearRow"
    /\ row' = [row EXCEPT ![res[d]] = NoRow]
    /\ Goto(d, "clearMessages")
    /\ UNCHANGED <<ticket, link, pending, server, res, seen,
                   batch, restarts>>

ClearMessages(d) ==
    /\ pc[d] = "clearMessages"
    /\ pending' = [pending EXCEPT ![res[d]] = {}]
    /\ Goto(d, "failed")
    /\ UNCHANGED <<row, ticket, link, server, res, seen,
                   batch, restarts>>

-----------------------------------------------------------------------------
(* The world around the coroutines.                                        *)

\* More than _PENDING_TIMEOUT_SECONDS have passed since the row's insertion.
Age(r) ==
    /\ row[r] # NoRow
    /\ ~row[r].old
    /\ row' = [row EXCEPT ![r].old = TRUE]
    /\ UNCHANGED <<ticket, link, pending, server, locals, restarts>>

\* POST /conversations/link, called by the agent of conversation c.
AgentLink(c, r) ==
    /\ c \in created
    /\ r \in AgentLinked
    /\ link[r] = None
    /\ link' = [link EXCEPT ![r] = c]
    /\ UNCHANGED <<row, ticket, pending, server, locals, restarts>>

\* The service stops and starts again: its coroutines are gone, transactions
\* that had only read are rolled back, the tables stay.
Restart ==
    /\ restarts < MaxRestarts
    /\ restarts' = restarts + 1
    /\ pc' = [d \in Delivery |->
                 IF pc[d] \in Suspended THEN "interrupted" ELSE pc[d]]
    /\ kind' = [d \in Delivery |-> None]
    /\ target' = [d \in Delivery |-> None]
    /\ found' = [d \in Delivery |-> None]
    /\ seen' = [d \in Delivery |-> NoRow]
    /\ batch' = [d \in Delivery |-> {}]
    /\ UNCHANGED <<tables, server, res>>

\* What the event loop runs for delivery d.
Step(d) ==
    \/ Lookup(d) \/ Expire(d) \/ ReadTickets(d) \/ ReadLinks(d)
    \/ Link(d) \/ LinkInsert(d) \/ LinkTicket(d) \/ LinkTicketInsert(d)
    \/ Queue(d)
    \/ \E outcome \in Outcome : Send(d, outcome)
    \/ Claim(d) \/ ClaimWrite(d)
    \/ \E ok \in BOOLEAN : Create(d, ok)
    \/ StoreConversation(d) \/ StoreConversationWrite(d)
    \/ Flush(d) \/ FlushDelete(d)
    \/ \E m \in Delivery, outcome \in Outcome : FlushSend(d, m, outcome)
    \/ Clear(d) \/ ClearExpire(d) \/ ClearRow(d) \/ ClearMessages(d)

Next ==
    \/ \E d \in Delivery, r \in Resource : Deliver(d, r)
    \/ \E d \in Delivery : Step(d)
    \/ \E r \in Resource : Age(r)
    \/ \E c \in Delivery, r \in Resource : AgentLink(c, r)
    \/ Restart

Spec == Init /\ [][Next]_vars

\* The event loop runs every coroutine that can go on, and every await of one
\* ends: HTTP calls time out after 10 or 30 s, polling stops after 310 tries.
FairSpec == Spec /\ \A d \in Delivery : WF_vars(Step(d))

-----------------------------------------------------------------------------
(* Properties.                                                             *)

\* Inside link_jira_ticket and link_resource.
Linking == {"ticket", "ticketInsert", "link", "linkInsert"}

\* d has claimed its resource and still owes it a conversation or a cleanup.
Creating(d) ==
    \/ pc[d] \in {"create", "store", "storeWrite",
                  "clear", "clearExpire", "clearRow"}
    \/ /\ pc[d] \in Linking
       /\ found[d] = Pending
       /\ Platform[res[d]] = "jira"

\* The delivery stopped half-way: the service restarted, or linking a Jira
\* ticket raised in the handler before its task was started.
CutOff(d) == pc[d] \in {"raised", "interrupted"}

(* A resource marked "__pending__" has somebody working on it: the         *)
(* delivery that wrote the marker is still creating or cleaning up, unless *)
(* it was cut off.  Whatever other deliveries for the resource store,      *)
(* expire or clear in between, no finished task leaves its marker behind.  *)
MarkerHasCreator ==
    \A r \in Resource :
        row[r].conv = Pending =>
            /\ res[row[r].by] = r
            /\ Creating(row[r].by) \/ CutOff(row[r].by)

(* A resource is only ever mapped to a conversation the server has made    *)
(* for a delivery about that very resource, and a conversation that a      *)
(* ticket or a link names exists.                                          *)
MappedToOwnConversation ==
    \A r \in Resource :
        /\ row[r].conv \in Delivery =>
              row[r].conv \in created /\ res[row[r].conv] = r
        /\ ticket[r] \in Delivery => ticket[r] \in created
        /\ link[r] \in Delivery => link[r] \in created

(* Once a comment was handed to a conversation, or a flush has committed   *)
(* its delete, the comment is in no queue any more: a creation that reads  *)
(* the queue later, after a restart say, cannot deliver it again.  (One    *)
(* that had read it before can, to its own conversation.)  No conversation *)
(* is sent a comment that it has already got.                              *)
NoRedelivery ==
    \A d \in Delivery :
        /\ accepted[d] \cap batch[d] = {}
        /\ \A r \in Resource :
              /\ accepted[d] \cap pending[r] = {}
              /\ pc[d] = "flushSend" => batch[d] \cap pending[r] = {}

(* What the three invariants above rest on; IInv is inductive.             *)

\* d's task is past create_conversation.
AfterCreation(d) ==
    \/ pc[d] \in {"store", "storeWrite", "flush", "flushDelete", "flushSend",
                  "clear", "clearExpire", "clearRow", "clearMessages",
                  "started", "failed", "interrupted"}
    \/ pc[d] \in Linking /\ found[d] = d /\ Platform[res[d]] = "jira"

\* Only the task of d makes, and only that task stores, conversation d.
MadeByTask ==
    \A d \in Delivery :
        /\ d \in created => AfterCreation(d)
        /\ pc[d] \in {"store", "storeWrite"} => d \in created
        /\ found[d] \in Delivery => found[d] \in created

StoredByTask ==
    \A d \in Delivery :
        /\ pc[d] \in {"store", "storeWrite"} =>
              \A r \in Resource : row[r].conv # d
        /\ pc[d] = "storeWrite" => seen[d].conv # d

\* A comment that is queued or taken has an ended handler and is queued for,
\* or taken from, the resource it was written on.
QueuedOnOwnResource ==
    /\ \A m \in Delivery, r \in Resource :
          m \in pending[r] => pc[m] = "queued" /\ res[m] = r
    /\ \A d, m \in Delivery :
          m \in batch[d] =>
              /\ pc[m] = "queued" /\ res[m] = res[d]
              /\ pc[d] \in {"flushDelete", "flushSend"}

\* The handler of d has not tried to give its comment to anybody.
Deciding(d) ==
    \/ pc[d] \in {"new", "lookup", "expire", "tickets", "links", "queue", "send"}
    \/ pc[d] \in Linking /\ Platform[res[d]] # "jira"

AcceptedInPast ==
    \A c, m \in Delivery :
        m \in accepted[c] => m \in created \/ ~Deciding(m)

(* Whatever other coroutines do between two awaits of a task, its          *)
(* conversation, marker and queued comments stay where the task expects    *)
(* them: the strengthening of the invariants that steps preserve.          *)
IInv ==
    /\ TypeOK
    /\ MadeByTask /\ MappedToOwnConversation
    /\ StoredByTask /\ MarkerHasCreator
    /\ QueuedOnOwnResource /\ AcceptedInPast /\ NoRedelivery

(* A marker whose creator was not cut off goes away: the creator replaces  *)
(* it by its conversation or clears it, or somebody else does.             *)
MarkerResolves ==
    \A r \in Resource :
        row[r].conv = Pending ~>
            \/ row[r].conv # Pending
            \/ \E d \in Delivery : CutOff(d)

-----------------------------------------------------------------------------
(* The fate of a comment, read off the tables and the coroutines.          *)

InQueue(d) == \E r \in Resource : d \in pending[r]

\* d's handler, or the task it started, has yet to give the comment away.
Open(d) ==
    /\ d \notin created
    /\ \/ Deciding(d)
       \/ pc[d] \in {"claim", "claimWrite", "create"} \cup Linking

StageOf(d) ==
    IF pc[d] = "new" THEN "new"
    ELSE IF InQueue(d) THEN "queued"
    ELSE IF Open(d) THEN "open"
    ELSE "closed"

HandsOf(d) == {t \in Delivery : d \in batch[t]}
GivenTo(d) == {c \in Delivery : d \in accepted[c]}

stages  == [d \in Delivery |-> StageOf(d)]
holders == [d \in Delivery |-> HandsOf(d)]
takers  == [d \in Delivery |-> GivenTo(d)]

Fate == INSTANCE CommentFate
            WITH stage <- stages, hands <- holders, given <- takers

(* The handlers, tasks and tables together keep the promise of CommentFate: *)
(* no interleaving, expiry, failed creation or restart puts a comment back *)
(* into a queue, gives it away while it is queued, or gives it to a second *)
(* conversation but by a send that failed after receipt or by two flushes  *)
(* that read the queue before either had emptied it.                       *)
KeepsCommentFate == Fate!Spec

(* No handler keeps a comment for ever and no flush keeps what it took:    *)
(* create_conversation and send_message always return.                     *)
EveryCommentSettles == Fate!Settlement

-----------------------------------------------------------------------------
(* What the sources say and the code does not do.                          *)

(* lookup_conversation "auto-clears stuck pending entries" (db.py:65): the *)
(* entry it deletes is nobody's any more.  The code goes by the age of the *)
(* row alone, and creation may poll for 620 s.                             *)
ExpiresOnlyStuckMarkers ==
    [][\A d \in Delivery :
          Expire(d) => ~ \E q \in Delivery : /\ res[q] = target[d]
                                             /\ Creating(q)]_vars

(* store_pending_message queues "for a resource whose conversation is      *)
(* still being created" (db.py:349): when a handler decides to queue,      *)
(* some other delivery is at work on the resource.  A Jira ticket once     *)
(* linked to the marker is never linked to anything else.                  *)
QueuesOnlyWhileCreating ==
    [][\A d \in Delivery :
          pc[d] # "queue" /\ pc'[d] = "queue" =>
              \E q \in Delivery \ {d} : /\ res[q] = res[d]
                                        /\ pc[q] \in Suspended]_vars
=============================================================================
