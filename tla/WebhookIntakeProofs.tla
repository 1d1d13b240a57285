------------------------ MODULE WebhookIntakeProofs ------------------------
(***************************************************************************)
(* Proofs about WebhookIntake for any sets of deliveries and resources:    *)
(* type correctness, the invariant and its parts, the refinement of        *)
(* CommentFate, and the rank that every coroutine goes down.               *)
(***************************************************************************)
EXTENDS WebhookIntake, FiniteSetTheorems, TLAPS

-----------------------------------------------------------------------------
(* Type correctness.                                                       *)

USE DEF tables, server, locals, vars

LEMMA NoRowIsNoRow == NoRow \notin Row
BY NamesAssumption DEF NoRow, Row

LEMMA VerdictType ==
    ASSUME NEW d, NEW c
    PROVE  Verdict(d, c) \in {"ignored", "claim", "queue", "send"}
BY DEF Verdict

LEMMA InitType == Init => TypeOK
BY MaxRestartsAssumption DEF Init, TypeOK, Suspended, Ended

\* Every step of a coroutine moves it by GotoWith.
Moves(d) ==
    \E where \in Suspended \cup Ended, t \in Resource,
       f \in Delivery \cup {Pending, None} : GotoWith(d, where, t, f)

LEMMA MovesType ==
    ASSUME TypeOK, NEW d \in Delivery, Moves(d)
    PROVE  /\ pc' \in [Delivery -> {"new"} \cup Suspended \cup Ended]
           /\ kind' \in [Delivery -> Kinds \cup {None}]
           /\ target' \in [Delivery -> Resource \cup {None}]
           /\ found' \in [Delivery -> Delivery \cup {Pending, None}]
           /\ \A q \in Delivery : /\ pc'[q] # "new" => pc[q] # "new" \/ q = d
                                  /\ pc'[q] \in Suspended => target'[q] \in Resource
BY DEF Moves, GotoWith, TypeOK, Suspended, Ended

LEMMA GotoMoves ==
    ASSUME TypeOK, NEW d \in Delivery, pc[d] \in Suspended,
           NEW where \in Suspended \cup Ended, Goto(d, where)
    PROVE  Moves(d)
BY DEF Moves, Goto, TypeOK

LEMMA VerdictMoves ==
    ASSUME NEW d, NEW c
    PROVE  Verdict(d, c) \in Suspended \cup Ended
BY VerdictType DEF Suspended, Ended

LEMMA FindsMoves ==
    ASSUME TypeOK, NEW d \in Delivery, pc[d] \in Suspended,
           NEW c \in Delivery \cup {Pending, None}, Finds(d, c)
    PROVE  Moves(d)
<1>1. "link" \in Suspended
  BY DEF Suspended
<1> QED
  BY <1>1, VerdictMoves DEF Finds, Moves, TypeOK

LEMMA FindsNothingMoves ==
    ASSUME TypeOK, NEW d \in Delivery, pc[d] \in Suspended, FindsNothing(d)
    PROVE  Moves(d)
<1>1. CASE /\ JiraKey[res[d]] # None
           /\ GotoWith(d, "lookup", JiraKey[res[d]], None)
  <2>1. res[d] \in Resource /\ "lookup" \in Suspended
    BY DEF TypeOK, Suspended
  <2>2. JiraKey[res[d]] \in Resource
    BY <1>1, <2>1, JiraKeyAssumption
  <2> QED
    BY <1>1, <2>1, <2>2 DEF Moves
<1>2. CASE Goto(d, Verdict(d, None))
  BY <1>2, VerdictMoves, GotoMoves
<1> QED
  BY <1>1, <1>2 DEF FindsNothing

LEMMA AfterLinkMoves ==
    ASSUME NEW d
    PROVE  AfterLink(d) \in Suspended \cup Ended
BY VerdictMoves DEF AfterLink, Suspended, Ended

LEMMA RaiseMoves ==
    ASSUME TypeOK, NEW d \in Delivery, pc[d] \in Suspended, Raise(d)
    PROVE  Moves(d)
BY GotoMoves DEF Raise, Suspended, Ended

LEMMA AfterSendType ==
    ASSUME NEW d, NEW outcome \in Outcome
    PROVE  AfterSend(d, outcome) \in {"forwarded", "raised", "dropped", "claim"}
BY DEF AfterSend, Outcome

LEMMA StepSuspended ==
    ASSUME NEW d, Step(d)
    PROVE  pc[d] \in Suspended
BY DEF Step, Lookup, Expire, ReadTickets, ReadLinks, Link, LinkInsert,
       LinkTicket, LinkTicketInsert, Queue, Send, Claim, ClaimWrite, Create,
       StoreConversation, StoreConversationWrite, Flush, FlushDelete,
       FlushSend, Clear, ClearExpire, ClearRow, ClearMessages, Suspended

LEMMA StepMoves ==
    ASSUME TypeOK, NEW d \in Delivery, Step(d)
    PROVE  Moves(d)
<1>1. CASE Lookup(d)
  <2>1. pc[d] \in Suspended
    BY <1>1 DEF Lookup, Suspended
  <2>2. target[d] \in Resource
    BY <2>1 DEF TypeOK
  <2>3. CASE Goto(d, AfterTable(d))
    BY <2>1, <2>3, GotoMoves DEF AfterTable, Suspended
  <2>4. CASE Goto(d, "expire")
    BY <2>1, <2>4, GotoMoves DEF Suspended
  <2>5. CASE row[target[d]] # NoRow /\ Finds(d, row[target[d]].conv)
    BY <2>1, <2>2, <2>5, FindsMoves DEF TypeOK, Row
  <2> QED
    BY <1>1, <2>3, <2>4, <2>5 DEF Lookup
<1>2. CASE ReadTickets(d)
  <2>1. pc[d] \in Suspended /\ "links" \in Suspended
    BY <1>2 DEF ReadTickets, Suspended
  <2>2. ticket[target[d]] \in Delivery \cup {Pending, None}
    BY <2>1 DEF TypeOK
  <2> QED
    BY <1>2, <2>1, <2>2, FindsMoves, FindsNothingMoves, GotoMoves DEF ReadTickets
<1>3. CASE ReadLinks(d)
  <2>1. pc[d] \in Suspended
    BY <1>3 DEF ReadLinks, Suspended
  <2>2. link[target[d]] \in Delivery \cup {Pending, None}
    BY <2>1 DEF TypeOK
  <2> QED
    BY <1>3, <2>1, <2>2, FindsMoves, FindsNothingMoves DEF ReadLinks
<1>4. CASE Link(d) \/ LinkInsert(d) \/ LinkTicket(d) \/ LinkTicketInsert(d)
  <2>1. pc[d] \in Suspended
    BY <1>4 DEF Link, LinkInsert, LinkTicket, LinkTicketInsert, Suspended
  <2>2. {"linkInsert", "ticketInsert", "link"} \subseteq Suspended
    BY DEF Suspended
  <2> QED
    BY <1>4, <2>1, <2>2, AfterLinkMoves, RaiseMoves, GotoMoves
    DEF Link, LinkInsert, LinkTicket, LinkTicketInsert
<1>5. CASE Claim(d) \/ StoreConversation(d)
  <2>1. pc[d] \in Suspended /\ {"claimWrite", "storeWrite"} \subseteq Suspended
    BY <1>5 DEF Claim, StoreConversation, Suspended
  <2>2. res[d] \in Resource
    BY <2>1 DEF TypeOK, Suspended
  <2> QED
    BY <1>5, <2>1, <2>2 DEF Claim, StoreConversation, ReadForStore, Moves
<1>6. CASE ClaimWrite(d) \/ StoreConversationWrite(d)
  <2>1. /\ pc[d] \in Suspended
        /\ {"ticket", "create", "flush"} \subseteq Suspended
    BY <1>6 DEF ClaimWrite, StoreConversationWrite, Suspended
  <2>2. target[d] \in Resource
    BY <2>1 DEF TypeOK
  <2> QED
    BY <1>6, <2>1, <2>2, RaiseMoves
    DEF ClaimWrite, StoreConversationWrite, ConversationOf, Store, Moves
<1>7. CASE \/ Expire(d) \/ Queue(d) \/ \E outcome \in Outcome : Send(d, outcome)
           \/ \E ok \in BOOLEAN : Create(d, ok)
  <2>1. pc[d] \in Suspended
    BY <1>7 DEF Expire, Queue, Send, Create, Suspended
  <2> QED
    BY <1>7, <2>1, GotoMoves, AfterSendType
    DEF Expire, AfterTable, Queue, Send, Create, Suspended, Ended
<1>8. CASE \/ Flush(d) \/ FlushDelete(d)
           \/ \E m \in Delivery, outcome \in Outcome : FlushSend(d, m, outcome)
  <2>1. pc[d] \in Suspended
    BY <1>8 DEF Flush, FlushDelete, FlushSend, Suspended
  <2> QED
    BY <1>8, <2>1, GotoMoves DEF Flush, FlushDelete, FlushSend, Suspended, Ended
<1>9. CASE Clear(d) \/ ClearExpire(d) \/ ClearRow(d) \/ ClearMessages(d)
  <2>1. pc[d] \in Suspended
    BY <1>9 DEF Clear, ClearExpire, ClearRow, ClearMessages, Suspended
  <2> QED
    BY <1>9, <2>1, GotoMoves
    DEF Clear, ClearExpire, ClearRow, ClearMessages, Suspended, Ended
<1> QED
  BY <1>1, <1>2, <1>3, <1>4, <1>5, <1>6, <1>7, <1>8, <1>9 DEF Step

LEMMA StoreType ==
    ASSUME TypeOK, NEW d \in Delivery, pc[d] \in Suspended,
           NEW value \in Delivery \cup {Pending}, NEW stage \in {"claim", "store"},
           CanStore(d, value)
    PROVE  Stored(d, value, stage) \in Row \cup {NoRow}
<1>1. res[d] \in Resource /\ seen[d] \in Row \cup {NoRow}
  BY DEF TypeOK, Suspended
<1>2. row[res[d]] \in Row \cup {NoRow}
  BY <1>1 DEF TypeOK
<1>3. CASE seen[d] = NoRow
  BY <1>3 DEF Stored, Row
<1>4. CASE seen[d] # NoRow /\ seen[d].conv = value
  BY <1>2, <1>4 DEF Stored
<1>5. CASE seen[d] # NoRow /\ seen[d].conv # value
  <2>1. row[res[d]] \in Row
    BY <1>2, <1>5 DEF CanStore
  <2>2. Stored(d, value, stage)
            = [row[res[d]] EXCEPT !.conv = value, !.by = d]
    BY <1>5 DEF Stored
  <2> QED
    BY <2>1, <2>2 DEF Row
<1> QED
  BY <1>3, <1>4, <1>5

\* What a step does to the tables and the records of the server.
LEMMA StepTables ==
    ASSUME TypeOK, NEW d \in Delivery, Step(d)
    PROVE  /\ row' \in [Resource -> Row \cup {NoRow}]
           /\ ticket' \in [Resource -> Delivery \cup {Pending, None}]
           /\ link' \in [Resource -> Delivery \cup {Pending, None}]
           /\ pending' \in [Resource -> SUBSET Delivery]
           /\ created' \in SUBSET Delivery
           /\ accepted' \in [Delivery -> SUBSET Delivery]
           /\ seen' \in [Delivery -> Row \cup {NoRow}]
           /\ batch' \in [Delivery -> SUBSET Delivery]
           /\ res' = res /\ restarts' = restarts
<1>1. CASE \/ Lookup(d) \/ ReadTickets(d) \/ ReadLinks(d)
           \/ Link(d) \/ LinkTicket(d) \/ Clear(d)
  BY <1>1 DEF TypeOK, Lookup, ReadTickets, ReadLinks, Link, LinkTicket, Clear
<1>2. CASE Expire(d) \/ ClearExpire(d) \/ ClearRow(d) \/ ClearMessages(d)
  BY <1>2 DEF TypeOK, Expire, ClearExpire, ClearRow, ClearMessages, DeleteEntry
<1>3. CASE LinkInsert(d) \/ LinkTicketInsert(d) \/ Queue(d)
  BY <1>3 DEF TypeOK, LinkInsert, LinkTicketInsert, Queue
<1>4. CASE \/ \E outcome \in Outcome : Send(d, outcome)
           \/ \E ok \in BOOLEAN : Create(d, ok)
  BY <1>4 DEF TypeOK, Send, SendMessage, Create, ConversationOf
<1>5. CASE Claim(d) \/ StoreConversation(d)
  <2>1. res[d] \in Resource
    BY <1>5 DEF TypeOK, Claim, StoreConversation, Suspended
  <2> QED
    BY <1>5, <2>1 DEF TypeOK, Claim, StoreConversation, ReadForStore
<1>6. CASE ClaimWrite(d)
  <2>1. pc[d] \in Suspended
    BY <1>6 DEF ClaimWrite, Suspended
  <2>2. CanStore(d, Pending) => Stored(d, Pending, "claim") \in Row \cup {NoRow}
    BY <2>1, StoreType
  <2> QED
    BY <1>6, <2>2 DEF TypeOK, ClaimWrite, Store
<1>7. CASE StoreConversationWrite(d)
  <2>1. pc[d] \in Suspended
    BY <1>7 DEF StoreConversationWrite, Suspended
  <2>2. CanStore(d, d) => Stored(d, d, "store") \in Row \cup {NoRow}
    BY <2>1, StoreType
  <2> QED
    BY <1>7, <2>2 DEF TypeOK, StoreConversationWrite, ConversationOf, Store
<1>8. CASE \/ Flush(d) \/ FlushDelete(d)
           \/ \E m \in Delivery, outcome \in Outcome : FlushSend(d, m, outcome)
  <2>1. res[d] \in Resource
    BY <1>8 DEF TypeOK, Flush, FlushDelete, FlushSend, Suspended
  <2> QED
    BY <1>8, <2>1 DEF TypeOK, Flush, FlushDelete, FlushSend, SendMessage,
                      ConversationOf
<1> QED
  BY <1>1, <1>2, <1>3, <1>4, <1>5, <1>6, <1>7, <1>8 DEF Step

LEMMA DeliverType ==
    ASSUME TypeOK, NEW d \in Delivery, NEW r \in Resource, Deliver(d, r)
    PROVE  TypeOK'
<1>1. PICK k \in Kinds, t \in Resource, where \in {"lookup", "claim"} :
          Begin(d, r, k, t, where)
  BY JiraKeyAssumption
  DEF Deliver, GitlabNote, GitlabLabel, GithubComment, GithubLabel,
      SlackMention, SlackThreadMessage, JiraComment, JiraLabel, Kinds
<1> QED
  BY <1>1 DEF Begin, TypeOK, Suspended, Ended

LEMMA TypeStep == TypeOK /\ [Next]_vars => TypeOK'
<1> SUFFICES ASSUME TypeOK, [Next]_vars PROVE TypeOK'
  OBVIOUS
<1>1. ASSUME NEW d \in Delivery, NEW r \in Resource, Deliver(d, r)
      PROVE  TypeOK'
  BY <1>1, DeliverType
<1>2. ASSUME NEW d \in Delivery, Step(d)
      PROVE  TypeOK'
  <2>1. Moves(d)
    BY <1>2, StepMoves
  <2>2. pc[d] \in Suspended
    BY <1>2, StepSuspended
  <2> QED
    BY <1>2, <2>1, <2>2, MovesType, StepTables DEF TypeOK, Suspended
<1>3. ASSUME NEW r \in Resource, Age(r)
      PROVE  TypeOK'
  <2>1. row[r] \in Row
    BY <1>3 DEF Age, TypeOK
  <2>2. [row[r] EXCEPT !.old = TRUE] \in Row
    BY <2>1 DEF Row
  <2> QED
    BY <1>3, <2>2 DEF Age, TypeOK
<1>4. ASSUME NEW c \in Delivery, NEW r \in Resource, AgentLink(c, r)
      PROVE  TypeOK'
  BY <1>4 DEF AgentLink, TypeOK
<1>5. CASE Restart
  BY <1>5, MaxRestartsAssumption DEF Restart, TypeOK, Suspended, Ended
<1>6. CASE UNCHANGED vars
  BY <1>6 DEF TypeOK
<1> QED
  BY <1>1, <1>2, <1>3, <1>4, <1>5, <1>6 DEF Next

(* The states of WebhookIntake are well typed: a suspended coroutine has a *)
(* resource to look up and a row has a conversation or the marker.         *)
THEOREM TypeCorrect == Spec => []TypeOK
<1>1. Init => TypeOK
  BY InitType
<1>2. TypeOK /\ [Next]_vars => TypeOK'
  BY TypeStep
<1> QED
  BY <1>1, <1>2, PTL DEF Spec

-----------------------------------------------------------------------------
(* Conversations exist before anything names them.                         *)

LEMMA MovesFrame ==
    ASSUME TypeOK, NEW d \in Delivery, Moves(d), NEW q \in Delivery \ {d}
    PROVE  pc'[q] = pc[q] /\ found'[q] = found[q]
BY DEF Moves, GotoWith, TypeOK

LEMMA StepCreates ==
    ASSUME NEW d \in Delivery, Step(d)
    PROVE  created' = created \/ (pc[d] = "create" /\ created' = created \cup {d})
<1>1. CASE \/ Lookup(d) \/ Expire(d) \/ ReadTickets(d) \/ ReadLinks(d)
           \/ Link(d) \/ LinkInsert(d) \/ LinkTicket(d) \/ LinkTicketInsert(d)
           \/ Queue(d) \/ \E outcome \in Outcome : Send(d, outcome)
  BY <1>1 DEF Lookup, Expire, ReadTickets, ReadLinks, Link, LinkInsert,
              LinkTicket, LinkTicketInsert, Queue, Send
<1>2. CASE \/ Claim(d) \/ ClaimWrite(d)
           \/ StoreConversation(d) \/ StoreConversationWrite(d)
           \/ Flush(d) \/ FlushDelete(d)
           \/ \E m \in Delivery, outcome \in Outcome : FlushSend(d, m, outcome)
           \/ Clear(d) \/ ClearExpire(d) \/ ClearRow(d) \/ ClearMessages(d)
  BY <1>2 DEF Claim, ClaimWrite, StoreConversation, StoreConversationWrite,
              ReadForStore, Flush, FlushDelete, FlushSend,
              Clear, ClearExpire, ClearRow, ClearMessages
<1>3. CASE \E ok \in BOOLEAN : Create(d, ok)
  BY <1>3 DEF Create, ConversationOf
<1> QED
  BY <1>1, <1>2, <1>3 DEF Step

\* What the moving coroutine itself owes to MadeByTask.
Made(d) ==
    /\ d \in created => AfterCreation(d)
    /\ pc[d] \in {"store", "storeWrite"} => d \in created
    /\ found[d] \in Delivery => found[d] \in created

\* Every delivery that is still with its handler has made no conversation.
LEMMA HandlerHasNotCreated ==
    ASSUME MadeByTask, NEW d \in Delivery,
           pc[d] \in {"new", "lookup", "expire", "tickets", "links", "queue",
                      "send", "claim", "claimWrite", "create", "raised",
                      "ignored", "queued", "forwarded", "dropped"}
    PROVE  d \notin created
BY DEF MadeByTask, AfterCreation, Linking

LEMMA FoundIsNamed ==
    ASSUME TypeOK, MadeByTask, MappedToOwnConversation,
           NEW d \in Delivery, d \notin created, created' = created,
           res' = res, NEW c \in Delivery \cup {Pending, None},
           c \in Delivery => c \in created,
           \/ Finds(d, c)
           \/ FindsNothing(d)
           \/ \E where \in {"expire", "links", "tickets"} : Goto(d, where)
    PROVE  Made(d)'
<1>1. found'[d] \in {found[d], c, None}
  BY DEF Finds, FindsNothing, Goto, GotoWith, TypeOK
<1>2. pc'[d] \notin {"store", "storeWrite"}
  BY VerdictType DEF Finds, FindsNothing, Goto, GotoWith, TypeOK
<1> QED
  BY <1>1, <1>2, NamesAssumption DEF Made, MadeByTask

LEMMA LinkingMade ==
    ASSUME TypeOK, MadeByTask, NEW d \in Delivery, pc[d] \in Linking,
           created' = created, res' = res,
           \/ Goto(d, AfterLink(d))
           \/ Raise(d)
           \/ \E where \in Linking : Goto(d, where)
    PROVE  Made(d)'
<1>1. found'[d] \in {found[d], None}
  BY DEF Raise, Goto, GotoWith, TypeOK
<1>2. pc'[d] \notin {"store", "storeWrite"}
  BY VerdictType DEF AfterLink, Raise, Goto, GotoWith, TypeOK, Linking
<1>3. ASSUME d \in created
      PROVE  AfterCreation(d)'
  <2>1. found[d] = d /\ Platform[res[d]] = "jira"
    BY <1>3 DEF MadeByTask, AfterCreation, Linking
  <2>2. AfterLink(d) = "flush"
    BY <2>1, NamesAssumption DEF AfterLink
  <2> QED
    BY <1>3, <2>1, <2>2
    DEF Raise, Goto, GotoWith, TypeOK, AfterCreation, Linking, Ended
<1> QED
  BY <1>1, <1>2, <1>3, NamesAssumption DEF Made, MadeByTask

LEMMA StoreMade ==
    ASSUME TypeOK, MadeByTask, NEW d \in Delivery, created' = created, res' = res,
           NEW value \in Delivery \cup {Pending}, NEW stage,
           NEW next \in {"create", "flush"},
           \/ pc[d] = "claimWrite" /\ value = Pending /\ next = "create"
           \/ pc[d] = "storeWrite" /\ value = d /\ next = "flush",
           Store(d, value, stage, next)
    PROVE  Made(d)'
<1>1. pc'[d] \in {"ticket", next, "clear", "raised"}
      /\ found'[d] \in {value, found[d], None}
  BY DEF Store, Raise, Goto, GotoWith, TypeOK
<1>2. d \in created => pc[d] = "storeWrite"
  BY HandlerHasNotCreated
<1>3. pc[d] = "storeWrite" => d \in created
  BY DEF MadeByTask
<1>4. ASSUME d \in created PROVE AfterCreation(d)'
  <2>1. value = d /\ next = "flush"
    BY <1>2, <1>4, NamesAssumption
  <2> QED
    BY <1>4, <2>1 DEF Store, Raise, Goto, GotoWith, TypeOK, AfterCreation,
                      Linking, Ended
<1> QED
  BY <1>1, <1>3, <1>4, NamesAssumption DEF Made, MadeByTask

LEMMA StepMade ==
    ASSUME TypeOK, MadeByTask, MappedToOwnConversation, NEW d \in Delivery, Step(d)
    PROVE  Made(d)'
<1> USE HandlerHasNotCreated
<1>1. res' = res
  BY StepTables
<1>2. CASE Lookup(d)
  <2>1. /\ d \notin created /\ created' = created
        /\ target[d] \in Resource
    BY <1>2 DEF Lookup, TypeOK, Suspended
  <2>2. row[target[d]].conv \in Delivery \cup {Pending, None}
    BY <2>1 DEF TypeOK, Row, NoRow
  <2>3. row[target[d]].conv \in Delivery => row[target[d]].conv \in created
    BY <2>1 DEF MappedToOwnConversation
  <2> QED
    BY <1>1, <1>2, <2>1, <2>2, <2>3, FoundIsNamed DEF Lookup, AfterTable
<1>3. CASE Expire(d)
  <2>1. d \notin created /\ created' = created
    BY <1>3 DEF Expire
  <2>2. \E where \in {"links", "tickets"} : Goto(d, where)
    BY <1>3 DEF Expire, AfterTable
  <2> QED
    BY <1>1, <2>1, <2>2, FoundIsNamed, NamesAssumption
<1>4. CASE ReadTickets(d)
  <2>1. /\ d \notin created /\ created' = created
        /\ target[d] \in Resource
    BY <1>4 DEF ReadTickets, TypeOK, Suspended
  <2>2. /\ ticket[target[d]] \in Delivery \cup {Pending, None}
        /\ ticket[target[d]] \in Delivery => ticket[target[d]] \in created
    BY <2>1 DEF TypeOK, MappedToOwnConversation
  <2> QED
    BY <1>1, <1>4, <2>1, <2>2, FoundIsNamed DEF ReadTickets
<1>5. CASE ReadLinks(d)
  <2>1. /\ d \notin created /\ created' = created
        /\ target[d] \in Resource
    BY <1>5 DEF ReadLinks, TypeOK, Suspended
  <2>2. /\ link[target[d]] \in Delivery \cup {Pending, None}
        /\ link[target[d]] \in Delivery => link[target[d]] \in created
    BY <2>1 DEF TypeOK, MappedToOwnConversation
  <2> QED
    BY <1>1, <1>5, <2>1, <2>2, FoundIsNamed DEF ReadLinks
<1>6. CASE Link(d) \/ LinkInsert(d) \/ LinkTicket(d) \/ LinkTicketInsert(d)
  <2>1. pc[d] \in Linking /\ created' = created
    BY <1>6 DEF Link, LinkInsert, LinkTicket, LinkTicketInsert, Linking
  <2> QED
    BY <1>1, <1>6, <2>1, LinkingMade
    DEF Link, LinkInsert, LinkTicket, LinkTicketInsert, Linking
<1>7. CASE Queue(d) \/ \E outcome \in Outcome : Send(d, outcome)
  <2>1. d \notin created /\ created' = created
    BY <1>7 DEF Queue, Send
  <2>2. /\ pc'[d] \notin {"store", "storeWrite"}
        /\ found'[d] \in {found[d], None}
    BY <1>7, AfterSendType DEF Queue, Send, Goto, GotoWith, TypeOK
  <2> QED
    BY <2>1, <2>2, NamesAssumption DEF Made, MadeByTask
<1>8. CASE Claim(d) \/ StoreConversation(d)
  <2>1. /\ created' = created
        /\ pc[d] = "claim" => d \notin created /\ pc'[d] = "claimWrite"
        /\ pc[d] = "store" => pc'[d] = "storeWrite"
        /\ pc[d] \in {"claim", "store"}
        /\ found'[d] = None
    BY <1>8 DEF Claim, StoreConversation, ReadForStore, GotoWith, TypeOK, Ended
  <2> QED
    BY <2>1, NamesAssumption DEF Made, MadeByTask, AfterCreation
<1>9. CASE ClaimWrite(d)
  <2>1. created' = created
    BY <1>9 DEF ClaimWrite
  <2> QED
    BY <1>1, <1>9, <2>1, StoreMade DEF ClaimWrite
<1>10. CASE StoreConversationWrite(d)
  <2>1. created' = created
    BY <1>10 DEF StoreConversationWrite
  <2> QED
    BY <1>1, <1>10, <2>1, StoreMade DEF StoreConversationWrite, ConversationOf
<1>11. CASE \E ok \in BOOLEAN : Create(d, ok)
  <2>1. /\ (pc'[d] = "store" /\ d \in created') \/ pc'[d] = "clear"
        /\ found'[d] = found[d]
        /\ created \subseteq created'
    BY <1>11 DEF Create, ConversationOf, Goto, GotoWith, TypeOK, Ended
  <2> QED
    BY <2>1 DEF Made, MadeByTask, AfterCreation
<1>12. CASE \/ Flush(d) \/ FlushDelete(d)
            \/ \E m \in Delivery, outcome \in Outcome : FlushSend(d, m, outcome)
            \/ Clear(d) \/ ClearExpire(d) \/ ClearRow(d) \/ ClearMessages(d)
  <2>1. /\ created' = created
        /\ pc'[d] \in {"flushDelete", "flushSend", "started", "clear",
                       "clearExpire", "clearRow", "clearMessages", "failed"}
        /\ found'[d] \in {found[d], None}
    BY <1>12 DEF Flush, FlushDelete, FlushSend, Clear, ClearExpire, ClearRow,
                 ClearMessages, Goto, GotoWith, TypeOK
  <2> QED
    BY <2>1, NamesAssumption DEF Made, MadeByTask, AfterCreation
<1> QED
  BY <1>2, <1>3, <1>4, <1>5, <1>6, <1>7, <1>8, <1>9, <1>10, <1>11, <1>12
  DEF Step

\* A transition of d alone leaves what the others owe untouched.
LEMMA MadeStep ==
    ASSUME TypeOK, MadeByTask, MappedToOwnConversation, NEW d \in Delivery, Step(d)
    PROVE  MadeByTask'
<1>1. Made(d)'
  BY StepMade
<1>2. ASSUME NEW q \in Delivery \ {d}
      PROVE  Made(q)'
  <2>1. pc'[q] = pc[q] /\ found'[q] = found[q] /\ res' = res
    BY StepMoves, MovesFrame, StepTables
  <2>2. created \subseteq created' /\ (q \in created' => q \in created)
    BY StepCreates
  <2> QED
    BY <2>1, <2>2 DEF Made, MadeByTask, AfterCreation
<1> QED
  BY <1>1, <1>2 DEF Made, MadeByTask

\* The only writes to conversation_map: deletes, the marker, the mapping.
LEMMA StepWritesRow ==
    ASSUME TypeOK, StoredByTask, NEW d \in Delivery, Step(d), NEW r \in Resource
    PROVE  \/ row'[r] = row[r]
           \/ row'[r] = NoRow
           \/ /\ r = res[d] /\ row'[r].by = d
              /\ pc[d] = "claimWrite" /\ row'[r].conv = Pending
              /\ \/ pc'[d] = "create"
                 \/ /\ pc'[d] = "ticket" /\ found'[d] = Pending
                    /\ Platform[res[d]] = "jira"
           \/ r = res[d] /\ pc[d] = "storeWrite" /\ row'[r].conv = d
<1>1. CASE \/ Lookup(d) \/ ReadTickets(d) \/ ReadLinks(d)
           \/ Link(d) \/ LinkInsert(d) \/ LinkTicket(d) \/ LinkTicketInsert(d)
           \/ Queue(d) \/ \E outcome \in Outcome : Send(d, outcome)
           \/ Claim(d) \/ StoreConversation(d)
  BY <1>1 DEF Lookup, ReadTickets, ReadLinks, Link, LinkInsert, LinkTicket,
              LinkTicketInsert, Queue, Send, Claim, StoreConversation,
              ReadForStore
<1>2. CASE \/ \E ok \in BOOLEAN : Create(d, ok)
           \/ Flush(d) \/ FlushDelete(d)
           \/ \E m \in Delivery, outcome \in Outcome : FlushSend(d, m, outcome)
           \/ Clear(d) \/ ClearMessages(d)
  BY <1>2 DEF Create, Flush, FlushDelete, FlushSend, Clear, ClearMessages
<1>3. CASE Expire(d) \/ ClearExpire(d) \/ ClearRow(d)
  BY <1>3 DEF Expire, ClearExpire, ClearRow, DeleteEntry, TypeOK
<1>4. CASE ClaimWrite(d)
  <2>1. CASE ~CanStore(d, Pending)
    BY <1>4, <2>1 DEF ClaimWrite, Store
  <2>2. CASE CanStore(d, Pending)
    <3>1. /\ row' = [row EXCEPT ![res[d]] = Stored(d, Pending, "claim")]
          /\ GotoWith(d, IF Platform[res[d]] = "jira" THEN "ticket" ELSE "create",
                      target[d], Pending)
      BY <1>4, <2>2 DEF ClaimWrite, Store
    <3>2. \/ Stored(d, Pending, "claim") = row[res[d]]
          \/ /\ Stored(d, Pending, "claim").by = d
             /\ Stored(d, Pending, "claim").conv = Pending
      <4>1. CASE seen[d] = NoRow
        BY <4>1 DEF Stored
      <4>2. CASE seen[d] # NoRow /\ seen[d].conv = Pending
        BY <4>2 DEF Stored
      <4>3. CASE seen[d] # NoRow /\ seen[d].conv # Pending
        <5>1. row[res[d]] \in Row
          BY <1>4, <2>2, <4>3 DEF CanStore, TypeOK, ClaimWrite, Suspended
        <5>2. Stored(d, Pending, "claim")
                = [row[res[d]] EXCEPT !.conv = Pending, !.by = d]
          BY <4>3 DEF Stored
        <5> QED
          BY <5>1, <5>2 DEF Row
      <4> QED
        BY <4>1, <4>2, <4>3
    <3>3. /\ pc'[d] = IF Platform[res[d]] = "jira" THEN "ticket" ELSE "create"
          /\ found'[d] = Pending
      BY <3>1 DEF GotoWith, TypeOK, Ended
    <3> QED
      BY <1>4, <3>1, <3>2, <3>3 DEF TypeOK, ClaimWrite
  <2> QED
    BY <2>1, <2>2
<1>5. CASE StoreConversationWrite(d)
  <2>1. pc[d] = "storeWrite" /\ seen[d].conv # d
    BY <1>5 DEF StoreConversationWrite, StoredByTask
  <2>2. CASE ~CanStore(d, d)
    BY <1>5, <2>2 DEF StoreConversationWrite, ConversationOf, Store
  <2>3. CASE CanStore(d, d)
    <3>1. row' = [row EXCEPT ![res[d]] = Stored(d, d, "store")]
      BY <1>5, <2>3 DEF StoreConversationWrite, ConversationOf, Store
    <3>2. Stored(d, d, "store").conv = d
      <4>1. CASE seen[d] = NoRow
        BY <4>1 DEF Stored
      <4>2. CASE seen[d] # NoRow
        <5>1. row[res[d]] \in Row
          BY <2>1, <2>3, <4>2 DEF CanStore, TypeOK, Suspended
        <5>2. Stored(d, d, "store")
                = [row[res[d]] EXCEPT !.conv = d, !.by = d]
          BY <2>1, <4>2 DEF Stored
        <5> QED
          BY <5>1, <5>2 DEF Row
      <4> QED
        BY <4>1, <4>2
    <3> QED
      BY <2>1, <3>1, <3>2 DEF TypeOK
  <2> QED
    BY <2>2, <2>3
<1> QED
  BY <1>1, <1>2, <1>3, <1>4, <1>5 DEF Step

\* jira_tickets and resource_links only ever receive what d has found.
LEMMA StepWritesLinks ==
    ASSUME TypeOK, NEW d \in Delivery, Step(d), NEW r \in Resource
    PROVE  ticket'[r] \in {ticket[r], found[d]} /\ link'[r] \in {link[r], found[d]}
<1>1. CASE \/ Lookup(d) \/ Expire(d) \/ ReadTickets(d) \/ ReadLinks(d)
           \/ Link(d) \/ LinkInsert(d) \/ LinkTicket(d) \/ LinkTicketInsert(d)
           \/ Queue(d) \/ \E outcome \in Outcome : Send(d, outcome)
  BY <1>1 DEF Lookup, Expire, ReadTickets, ReadLinks, Link, LinkInsert,
              LinkTicket, LinkTicketInsert, Queue, Send, DeleteEntry, TypeOK
<1>2. CASE \/ Claim(d) \/ ClaimWrite(d) \/ \E ok \in BOOLEAN : Create(d, ok)
           \/ StoreConversation(d) \/ StoreConversationWrite(d)
           \/ Flush(d) \/ FlushDelete(d)
           \/ \E m \in Delivery, outcome \in Outcome : FlushSend(d, m, outcome)
           \/ Clear(d) \/ ClearExpire(d) \/ ClearRow(d) \/ ClearMessages(d)
  BY <1>2 DEF Claim, ClaimWrite, Create, StoreConversation,
              StoreConversationWrite, ReadForStore, Flush, FlushDelete,
              FlushSend, Clear, ClearExpire, ClearRow, ClearMessages, DeleteEntry
<1> QED
  BY <1>1, <1>2 DEF Step

LEMMA MappedStep ==
    ASSUME TypeOK, MadeByTask, MappedToOwnConversation, StoredByTask,
           NEW d \in Delivery, Step(d)
    PROVE  MappedToOwnConversation'
<1>1. created \subseteq created' /\ res' = res
  BY StepCreates, StepTables
<1> SUFFICES ASSUME NEW r \in Resource
             PROVE  /\ row'[r].conv \in Delivery =>
                          row'[r].conv \in created' /\ res'[row'[r].conv] = r
                    /\ ticket'[r] \in Delivery => ticket'[r] \in created'
                    /\ link'[r] \in Delivery => link'[r] \in created'
  BY DEF MappedToOwnConversation
<1>2. row'[r].conv \in Delivery =>
          row'[r].conv \in created' /\ res'[row'[r].conv] = r
  <2>1. CASE row'[r] = row[r]
    BY <1>1, <2>1 DEF MappedToOwnConversation
  <2>2. CASE row'[r] = NoRow
    BY <2>2, NamesAssumption DEF NoRow
  <2>3. CASE row'[r].conv = Pending
    BY <2>3, NamesAssumption
  <2>4. CASE r = res[d] /\ pc[d] = "storeWrite" /\ row'[r].conv = d
    BY <1>1, <2>4 DEF MadeByTask
  <2> QED
    BY <2>1, <2>2, <2>3, <2>4, StepWritesRow
<1>3. /\ ticket'[r] \in Delivery => ticket'[r] \in created'
      /\ link'[r] \in Delivery => link'[r] \in created'
  BY <1>1, StepWritesLinks DEF MadeByTask, MappedToOwnConversation
<1> QED
  BY <1>2, <1>3

\* The ways into the store, and what the others have read stays read.
LEMMA StepToStore ==
    ASSUME TypeOK, NEW d \in Delivery, Step(d)
    PROVE  /\ pc'[d] = "store" => pc[d] = "create" /\ row' = row
           /\ pc'[d] = "storeWrite" =>
                pc[d] = "store" /\ row' = row /\ seen'[d] = row[res[d]]
           /\ \A q \in Delivery \ {d} : seen'[q] = seen[q]
<1>1. CASE Lookup(d) \/ Expire(d) \/ ReadTickets(d) \/ ReadLinks(d)
  <2>1. \/ \E c : Finds(d, c)
        \/ FindsNothing(d)
        \/ \E where \in {"expire", "links", "tickets"} : Goto(d, where)
    BY <1>1 DEF Lookup, Expire, ReadTickets, ReadLinks, AfterTable
  <2>2. pc'[d] \notin {"store", "storeWrite"}
    BY <2>1, VerdictType DEF Finds, FindsNothing, Goto, GotoWith, TypeOK
  <2> QED
    BY <1>1, <2>2 DEF Lookup, Expire, ReadTickets, ReadLinks
<1>2. CASE \/ Link(d) \/ LinkInsert(d) \/ LinkTicket(d) \/ LinkTicketInsert(d)
           \/ Queue(d) \/ \E outcome \in Outcome : Send(d, outcome)
  <2>1. CASE Queue(d) \/ \E outcome \in Outcome : Send(d, outcome)
    BY <2>1, AfterSendType DEF Queue, Send, Goto, GotoWith, TypeOK
  <2> QED
    BY <1>2, <2>1, VerdictType
    DEF Link, LinkInsert, LinkTicket, LinkTicketInsert, AfterLink, Raise, Goto,
        GotoWith, TypeOK
<1>3. CASE Claim(d) \/ StoreConversation(d) \/ \E ok \in BOOLEAN : Create(d, ok)
  BY <1>3 DEF Claim, StoreConversation, ReadForStore, Create, Goto, GotoWith,
              TypeOK, Ended
<1>4. CASE ClaimWrite(d) \/ StoreConversationWrite(d)
  BY <1>4 DEF ClaimWrite, StoreConversationWrite, Store, Raise, Goto, GotoWith,
              TypeOK
<1>5. CASE \/ Flush(d) \/ FlushDelete(d)
           \/ \E m \in Delivery, outcome \in Outcome : FlushSend(d, m, outcome)
           \/ Clear(d) \/ ClearExpire(d) \/ ClearRow(d) \/ ClearMessages(d)
  BY <1>5 DEF Flush, FlushDelete, FlushSend, Clear, ClearExpire, ClearRow,
              ClearMessages, Goto, GotoWith, TypeOK
<1> QED
  BY <1>1, <1>2, <1>3, <1>4, <1>5 DEF Step

LEMMA StoredStep ==
    ASSUME TypeOK, MadeByTask, MappedToOwnConversation, StoredByTask,
           NEW d \in Delivery, Step(d)
    PROVE  StoredByTask'
<1> SUFFICES ASSUME NEW q \in Delivery
             PROVE  /\ pc'[q] \in {"store", "storeWrite"} =>
                          \A r \in Resource : row'[r].conv # q
                    /\ pc'[q] = "storeWrite" => seen'[q].conv # q
  BY DEF StoredByTask
<1>1. CASE q = d
  <2>1. ASSUME pc'[d] = "store", NEW r \in Resource
        PROVE  row'[r].conv # d
    BY <2>1, StepToStore, HandlerHasNotCreated DEF MappedToOwnConversation
  <2>2. ASSUME pc'[d] = "storeWrite"
        PROVE  /\ \A r \in Resource : row'[r].conv # d
               /\ seen'[d].conv # d
    <3>1. pc[d] = "store" /\ row' = row /\ seen'[d] = row[res[d]]
      BY <2>2, StepToStore
    <3>2. res[d] \in Resource
      BY <3>1 DEF TypeOK, Suspended
    <3> QED
      BY <3>1, <3>2 DEF StoredByTask
  <2> QED
    BY <1>1, <2>1, <2>2
<1>2. CASE q # d
  <2>1. pc'[q] = pc[q] /\ seen'[q] = seen[q]
    BY <1>2, StepMoves, MovesFrame, StepToStore
  <2>2. ASSUME pc[q] \in {"store", "storeWrite"}, NEW r \in Resource
        PROVE  row'[r].conv # q
    <3>1. row[r].conv # q /\ NoRow.conv # q /\ Pending # q
      BY <2>2, NamesAssumption DEF StoredByTask, NoRow
    <3> QED
      BY <1>2, <3>1, StepWritesRow
  <2> QED
    BY <2>1, <2>2 DEF StoredByTask
<1> QED
  BY <1>1, <1>2

-----------------------------------------------------------------------------
(* A marker has its creator.                                               *)

\* The creator of a marker goes on, is cut off, or removes the marker.
LEMMA CreatorStep ==
    ASSUME TypeOK, StoredByTask, NEW d \in Delivery, Step(d), Creating(d),
           row[res[d]].conv = Pending
    PROVE  \/ Creating(d)' \/ CutOff(d)'
           \/ row'[res[d]].conv # Pending
<1>1. pc[d] \in Suspended /\ res[d] \in Resource /\ res' = res
  BY StepSuspended, StepTables DEF TypeOK, Suspended
<1>2. CASE \E ok \in BOOLEAN : Create(d, ok)
  BY <1>2 DEF Create, Goto, GotoWith, TypeOK, Creating
<1>3. CASE StoreConversation(d)
  BY <1>3 DEF StoreConversation, ReadForStore, GotoWith, TypeOK, Creating
<1>4. CASE StoreConversationWrite(d)
  <2>1. CASE CanStore(d, d)
    <3>1. row' = [row EXCEPT ![res[d]] = Stored(d, d, "store")]
      BY <1>4, <2>1 DEF StoreConversationWrite, ConversationOf, Store
    <3>2. row[res[d]] # NoRow
      BY NamesAssumption DEF NoRow
    <3>3. seen[d] # NoRow /\ seen[d].conv # d
      BY <1>4, <2>1, <3>2 DEF CanStore, StoredByTask, StoreConversationWrite
    <3>4. row[res[d]] \in Row
      BY <1>1, <3>2 DEF TypeOK
    <3>5. Stored(d, d, "store") = [row[res[d]] EXCEPT !.conv = d, !.by = d]
      BY <3>3 DEF Stored
    <3>6. Stored(d, d, "store").conv = d
      BY <3>4, <3>5 DEF Row
    <3> QED
      BY <1>1, <3>1, <3>6, NamesAssumption DEF TypeOK
  <2>2. CASE ~CanStore(d, d)
    BY <1>4, <2>2 DEF StoreConversationWrite, ConversationOf, Store, Raise,
                      Goto, GotoWith, TypeOK, Creating, CutOff
  <2> QED
    BY <2>1, <2>2
<1>5. CASE Clear(d)
  BY <1>5 DEF Clear, Goto, GotoWith, TypeOK, Creating
<1>6. CASE ClearExpire(d) \/ ClearRow(d)
  BY <1>1, <1>6, NamesAssumption
  DEF ClearExpire, ClearRow, DeleteEntry, TypeOK, NoRow
<1>7. CASE pc[d] \in Linking
  <2>1. found[d] = Pending /\ Platform[res[d]] = "jira"
    BY <1>7 DEF Creating, Linking
  <2>2. AfterLink(d) = "create"
    BY <2>1 DEF AfterLink
  <2>3. \/ Goto(d, "create") \/ Raise(d)
        \/ \E where \in Linking : Goto(d, where)
    BY <1>7, <2>2
    DEF Step, Linking, Lookup, Expire, ReadTickets, ReadLinks, Link,
        LinkInsert, LinkTicket, LinkTicketInsert, Queue, Send, Claim,
        ClaimWrite, Create, StoreConversation, StoreConversationWrite, Flush,
        FlushDelete, FlushSend, Clear, ClearExpire, ClearRow, ClearMessages
  <2> QED
    BY <1>1, <2>1, <2>3
    DEF Raise, Goto, GotoWith, TypeOK, Creating, CutOff, Linking, Ended
<1>8. pc[d] \in Linking \cup {"create", "store", "storeWrite", "clear",
                              "clearExpire", "clearRow"}
  BY DEF Creating
<1> QED
  BY <1>2, <1>3, <1>4, <1>5, <1>6, <1>7, <1>8
  DEF Step, Lookup, Expire, ReadTickets, ReadLinks, Link,
      LinkInsert, LinkTicket, LinkTicketInsert, Queue, Send, Claim,
      ClaimWrite, Flush, FlushDelete, FlushSend, ClearMessages, Linking

LEMMA MarkerStep ==
    ASSUME TypeOK, StoredByTask, MarkerHasCreator, NEW d \in Delivery, Step(d)
    PROVE  MarkerHasCreator'
<1>1. res' = res /\ row' \in [Resource -> Row \cup {NoRow}]
  BY StepTables
<1> SUFFICES ASSUME NEW r \in Resource, row'[r].conv = Pending,
                    NEW q, q = row'[r].by
             PROVE  res[q] = r /\ (Creating(q)' \/ CutOff(q)')
  BY <1>1 DEF MarkerHasCreator, Creating, CutOff
<1>2. row'[r] # NoRow
  BY NamesAssumption DEF NoRow
<1>3. CASE row'[r] = row[r]
  <2>1. /\ q \in Delivery /\ res[q] = r
        /\ Creating(q) \/ CutOff(q)
    BY <1>2, <1>3 DEF TypeOK, Row, MarkerHasCreator
  <2>2. CASE q = d
    <3>1. Creating(d)
      BY <2>1, <2>2, StepSuspended DEF CutOff, Suspended
    <3> QED
      BY <1>3, <2>1, <2>2, <3>1, CreatorStep
  <2>3. CASE q # d
    <3>1. pc'[q] = pc[q] /\ found'[q] = found[q]
      BY <2>1, <2>3, StepMoves, MovesFrame
    <3> QED
      BY <1>1, <1>3, <2>1, <3>1 DEF Creating, CutOff
  <2> QED
    BY <2>2, <2>3
<1>4. CASE /\ r = res[d] /\ row'[r].by = d
           /\ \/ pc'[d] = "create"
              \/ /\ pc'[d] = "ticket" /\ found'[d] = Pending
                 /\ Platform[res[d]] = "jira"
  BY <1>1, <1>4 DEF Creating, Linking
<1> QED
  BY <1>2, <1>3, <1>4, StepWritesRow, NamesAssumption

-----------------------------------------------------------------------------
(* Queued comments.                                                        *)

\* Only Queue adds to a queue, and it adds the comment of d.
LEMMA StepQueues ==
    ASSUME TypeOK, NEW d \in Delivery, Step(d), NEW r \in Resource
    PROVE  \/ pending'[r] \subseteq pending[r]
           \/ /\ r = res[d] /\ pc[d] = "queue" /\ pc'[d] = "queued"
              /\ pending'[r] = pending[r] \cup {d}
<1>1. CASE \/ Lookup(d) \/ ReadTickets(d) \/ ReadLinks(d)
           \/ Link(d) \/ LinkInsert(d) \/ LinkTicket(d) \/ LinkTicketInsert(d)
           \/ \E outcome \in Outcome : Send(d, outcome)
           \/ Claim(d) \/ ClaimWrite(d) \/ \E ok \in BOOLEAN : Create(d, ok)
           \/ StoreConversation(d) \/ StoreConversationWrite(d)
           \/ Flush(d)
           \/ \E m \in Delivery, outcome \in Outcome : FlushSend(d, m, outcome)
           \/ Clear(d) \/ ClearRow(d)
  BY <1>1 DEF Lookup, ReadTickets, ReadLinks, Link, LinkInsert, LinkTicket,
              LinkTicketInsert, Send, Claim, ClaimWrite, Create,
              StoreConversation, StoreConversationWrite, ReadForStore, Flush,
              FlushSend, Clear, ClearRow
<1>2. CASE Expire(d) \/ FlushDelete(d) \/ ClearExpire(d) \/ ClearMessages(d)
  BY <1>2 DEF Expire, FlushDelete, ClearExpire, ClearMessages, DeleteEntry,
              TypeOK
<1>3. CASE Queue(d)
  BY <1>3 DEF Queue, Goto, GotoWith, TypeOK
<1> QED
  BY <1>1, <1>2, <1>3 DEF Step

\* Only a flush takes comments, and it sends after its delete.
LEMMA StepTakes ==
    ASSUME TypeOK, QueuedOnOwnResource, NEW d \in Delivery, Step(d)
    PROVE  /\ \A q \in Delivery \ {d} : batch'[q] = batch[q]
           /\ \/ /\ pc[d] = "flush" /\ batch'[d] = pending[res[d]]
                 /\ pc'[d] = "flushDelete" \/ batch'[d] = {}
                 /\ UNCHANGED <<pending, accepted>>
              \/ /\ pc[d] = "flushDelete" /\ batch' = batch
                 /\ pc'[d] = "flushSend" /\ pending'[res[d]] = {}
              \/ /\ pc[d] = "flushSend" /\ batch'[d] \subseteq batch[d]
                 /\ pc'[d] = "flushSend" \/ batch'[d] = {}
                 /\ pending' = pending
              \/ batch' = batch /\ batch[d] = {}
<1>1. CASE \/ Lookup(d) \/ Expire(d) \/ ReadTickets(d) \/ ReadLinks(d)
           \/ Link(d) \/ LinkInsert(d) \/ LinkTicket(d) \/ LinkTicketInsert(d)
           \/ Queue(d) \/ \E outcome \in Outcome : Send(d, outcome)
           \/ Claim(d) \/ ClaimWrite(d) \/ \E ok \in BOOLEAN : Create(d, ok)
           \/ StoreConversation(d) \/ StoreConversationWrite(d)
           \/ Clear(d) \/ ClearExpire(d) \/ ClearRow(d) \/ ClearMessages(d)
  <2>1. batch' = batch /\ pc[d] \notin {"flushDelete", "flushSend"}
    BY <1>1 DEF Lookup, Expire, ReadTickets, ReadLinks, Link, LinkInsert,
                LinkTicket, LinkTicketInsert, Queue, Send, Claim, ClaimWrite,
                Create, StoreConversation, StoreConversationWrite,
                ReadForStore, Clear, ClearExpire, ClearRow, ClearMessages
  <2>2. batch[d] = {}
    BY <2>1 DEF QueuedOnOwnResource, TypeOK
  <2> QED
    BY <2>1, <2>2
<1>2. CASE Flush(d)
  BY <1>2 DEF Flush, Goto, GotoWith, TypeOK, Ended
<1>3. CASE FlushDelete(d)
  <2>1. res[d] \in Resource
    BY <1>3 DEF FlushDelete, TypeOK, Suspended
  <2> QED
    BY <1>3, <2>1 DEF FlushDelete, Goto, GotoWith, TypeOK, Ended
<1>4. CASE \E m \in Delivery, outcome \in Outcome : FlushSend(d, m, outcome)
  <2>1. PICK m \in Delivery, outcome \in Outcome : FlushSend(d, m, outcome)
    BY <1>4
  <2>2. /\ pc[d] = "flushSend" /\ pending' = pending
        /\ \A q \in Delivery \ {d} : batch'[q] = batch[q]
    BY <2>1 DEF FlushSend, TypeOK
  <2>3. CASE outcome = "raise"
    BY <2>1, <2>2, <2>3 DEF FlushSend, TypeOK
  <2>4. CASE outcome # "raise"
    <3>1. /\ batch'[d] = batch[d] \ {m}
          /\ Goto(d, IF batch[d] = {m} THEN "started" ELSE "flushSend")
      BY <2>1, <2>4 DEF FlushSend, TypeOK
    <3>2. batch[d] # {m} => pc'[d] = "flushSend"
      BY <3>1 DEF Goto, GotoWith, TypeOK
    <3> QED
      BY <2>2, <3>1, <3>2
  <2> QED
    BY <2>3, <2>4
<1> QED
  BY <1>1, <1>2, <1>3, <1>4 DEF Step

\* A conversation is given the comment of d, or one that d has taken.
LEMMA StepAccepts ==
    ASSUME TypeOK, NEW d \in Delivery, Step(d), NEW c \in Delivery,
           NEW m \in accepted'[c]
    PROVE  \/ m \in accepted[c]
           \/ m = d /\ c = found[d] /\ pc[d] = "send"
           \/ m = d /\ c = d /\ pc[d] = "create" /\ d \in created'
           \/ /\ m \in batch[d] \ batch'[d] /\ c = d
              /\ pc[d] = "flushSend" /\ pending' = pending
<1>1. CASE \/ Lookup(d) \/ Expire(d) \/ ReadTickets(d) \/ ReadLinks(d)
           \/ Link(d) \/ LinkInsert(d) \/ LinkTicket(d) \/ LinkTicketInsert(d)
           \/ Queue(d) \/ Claim(d) \/ ClaimWrite(d)
           \/ StoreConversation(d) \/ StoreConversationWrite(d)
           \/ Flush(d) \/ FlushDelete(d)
           \/ Clear(d) \/ ClearExpire(d) \/ ClearRow(d) \/ ClearMessages(d)
  BY <1>1 DEF Lookup, Expire, ReadTickets, ReadLinks, Link, LinkInsert,
              LinkTicket, LinkTicketInsert, Queue, Claim, ClaimWrite,
              StoreConversation, StoreConversationWrite, ReadForStore, Flush,
              FlushDelete, Clear, ClearExpire, ClearRow, ClearMessages
<1>2. CASE \E outcome \in Outcome : Send(d, outcome)
  BY <1>2 DEF Send, SendMessage, TypeOK
<1>3. CASE \E ok \in BOOLEAN : Create(d, ok)
  BY <1>3 DEF Create, ConversationOf, TypeOK
<1>4. CASE \E q \in Delivery, outcome \in Outcome : FlushSend(d, q, outcome)
  BY <1>4 DEF FlushSend, SendMessage, ConversationOf, TypeOK
<1> QED
  BY <1>1, <1>2, <1>3, <1>4 DEF Step

\* The handler of a queued, taken or forwarded comment does not run.
LEMMA EndedFrame ==
    ASSUME TypeOK, NEW d \in Delivery, Step(d), NEW m \in Delivery,
           pc[m] \in {"queued", "forwarded"}
    PROVE  m # d /\ pc'[m] = pc[m]
<1>1. m # d
  BY StepSuspended DEF Suspended
<1> QED
  BY <1>1, StepMoves, MovesFrame

LEMMA QueuedStep ==
    ASSUME TypeOK, QueuedOnOwnResource, NEW d \in Delivery, Step(d)
    PROVE  QueuedOnOwnResource'
<1>1. res' = res /\ batch' \in [Delivery -> SUBSET Delivery]
      /\ res[d] \in Resource
  BY StepTables, StepSuspended DEF TypeOK, Suspended
<1>2. ASSUME NEW m \in Delivery, NEW r \in Resource, m \in pending'[r]
      PROVE  pc'[m] = "queued" /\ res[m] = r
  <2>1. CASE m \in pending[r]
    BY <2>1, EndedFrame DEF QueuedOnOwnResource
  <2>2. CASE m \notin pending[r]
    BY <1>2, <2>2, StepQueues
  <2> QED
    BY <2>1, <2>2
<1>3. ASSUME NEW q \in Delivery, NEW m \in Delivery, m \in batch'[q]
      PROVE  /\ pc'[m] = "queued" /\ res[m] = res[q]
             /\ pc'[q] \in {"flushDelete", "flushSend"}
  <2>1. CASE q # d
    <3>1. m \in batch[q] /\ pc'[q] = pc[q]
      BY <1>3, <2>1, StepTakes, StepMoves, MovesFrame
    <3> QED
      BY <3>1, EndedFrame DEF QueuedOnOwnResource
  <2>2. CASE q = d
    <3>1. m \in batch[d] \/ m \in pending[res[d]]
      BY <1>3, <2>2, StepTakes
    <3>2. pc[m] = "queued" /\ res[m] = res[d]
      BY <1>1, <3>1 DEF QueuedOnOwnResource
    <3>3. pc'[d] \in {"flushDelete", "flushSend"}
      BY <1>3, <2>2, StepTakes
    <3> QED
      BY <2>2, <3>2, <3>3, EndedFrame
  <2> QED
    BY <2>1, <2>2
<1> QED
  BY <1>1, <1>2, <1>3 DEF QueuedOnOwnResource

\* A handler that has decided does not begin to look again.
LEMMA DecidedStays ==
    ASSUME TypeOK, NEW d \in Delivery, Step(d), ~Deciding(d)
    PROVE  ~Deciding(d)'
<1>1. res' = res
  BY StepTables
<1>2. CASE Claim(d) \/ ClaimWrite(d) \/ StoreConversation(d)
             \/ StoreConversationWrite(d)
  BY <1>1, <1>2
  DEF Deciding, Linking, Claim, ClaimWrite, StoreConversation,
      StoreConversationWrite, ReadForStore, Store, Raise, Goto, GotoWith, TypeOK
<1>3. CASE Link(d) \/ LinkInsert(d) \/ LinkTicket(d) \/ LinkTicketInsert(d)
  <2>1. Platform[res[d]] = "jira"
    BY <1>3 DEF Deciding, Linking, Link, LinkInsert, LinkTicket, LinkTicketInsert
  <2> QED
    BY <1>1, <1>3, <2>1
    DEF Deciding, Linking, Link, LinkInsert, LinkTicket, LinkTicketInsert,
        AfterLink, Raise, Goto, GotoWith, TypeOK
<1>4. CASE \E ok \in BOOLEAN : Create(d, ok)
  BY <1>1, <1>4 DEF Deciding, Linking, Create, Goto, GotoWith, TypeOK
<1>5. CASE \/ Flush(d) \/ FlushDelete(d)
           \/ \E m \in Delivery, outcome \in Outcome : FlushSend(d, m, outcome)
  BY <1>1, <1>5
  DEF Deciding, Linking, Flush, FlushDelete, FlushSend, Goto, GotoWith, TypeOK
<1>6. CASE Clear(d) \/ ClearExpire(d) \/ ClearRow(d) \/ ClearMessages(d)
  BY <1>1, <1>6
  DEF Deciding, Linking, Clear, ClearExpire, ClearRow, ClearMessages, Goto,
      GotoWith, TypeOK
<1>7. CASE \/ Lookup(d) \/ Expire(d) \/ ReadTickets(d) \/ ReadLinks(d)
           \/ Queue(d) \/ \E outcome \in Outcome : Send(d, outcome)
  BY <1>7 DEF Deciding, Lookup, Expire, ReadTickets, ReadLinks, Queue, Send
<1> QED
  BY <1>2, <1>3, <1>4, <1>5, <1>6, <1>7 DEF Step

\* Sending a comment directly is deciding about it.
LEMMA SendDecides ==
    ASSUME TypeOK, NEW d \in Delivery, Step(d), pc[d] = "send"
    PROVE  ~Deciding(d)'
<1>1. PICK outcome \in Outcome : Send(d, outcome)
  BY DEF Step, Lookup, Expire, ReadTickets, ReadLinks, Link, LinkInsert,
         LinkTicket, LinkTicketInsert, Queue, Claim, ClaimWrite, Create,
         StoreConversation, StoreConversationWrite, Flush, FlushDelete,
         FlushSend, Clear, ClearExpire, ClearRow, ClearMessages
<1> QED
  BY <1>1, AfterSendType DEF Send, Goto, GotoWith, TypeOK, Deciding, Linking

\* Another coroutine's decision is not touched.
LEMMA DecidingFrame ==
    ASSUME TypeOK, NEW d \in Delivery, Step(d), NEW q \in Delivery \ {d}
    PROVE  Deciding(q)' <=> Deciding(q)
BY StepMoves, MovesFrame, StepTables DEF Deciding

LEMMA AcceptedStep ==
    ASSUME TypeOK, QueuedOnOwnResource, AcceptedInPast, NEW d \in Delivery, Step(d)
    PROVE  AcceptedInPast'
<1> SUFFICES ASSUME NEW c \in Delivery, NEW m \in Delivery, m \in accepted'[c]
             PROVE  m \in created' \/ ~Deciding(m)'
  BY DEF AcceptedInPast
<1>1. created \subseteq created'
  BY StepCreates
<1>2. CASE m \in accepted[c]
  <2>1. m \in created \/ ~Deciding(m)
    BY <1>2 DEF AcceptedInPast
  <2> QED
    BY <1>1, <2>1, DecidedStays, DecidingFrame
<1>3. CASE m \in batch[d]
  <2>1. pc'[m] = "queued"
    BY <1>3, EndedFrame DEF QueuedOnOwnResource
  <2> QED
    BY <2>1 DEF Deciding, Linking
<1>4. CASE m = d /\ pc[d] = "send"
  BY <1>4, SendDecides
<1> QED
  BY <1>2, <1>3, <1>4, StepAccepts

LEMMA RedeliveryStep ==
    ASSUME TypeOK, MadeByTask, QueuedOnOwnResource, AcceptedInPast,
           NoRedelivery, NEW d \in Delivery, Step(d)
    PROVE  NoRedelivery'
<1>1. res' = res /\ batch' \in [Delivery -> SUBSET Delivery]
      /\ accepted' \in [Delivery -> SUBSET Delivery]
  BY StepTables
<1>2. ASSUME NEW r \in Resource, NEW m \in Delivery, m \in pending'[r]
      PROVE  \/ m \in pending[r]
             \/ m = d /\ pc[d] = "queue"
  BY <1>2, StepQueues
<1>3. ASSUME NEW c \in Delivery, NEW r \in Resource, NEW m \in Delivery,
             m \in accepted'[c], m \in pending'[r]
      PROVE  FALSE
  <2>1. CASE m \in accepted[c]
    <3>1. m = d /\ pc[d] = "queue"
      BY <1>2, <1>3, <2>1 DEF NoRedelivery
    <3> QED
      BY <2>1, <3>1, HandlerHasNotCreated DEF AcceptedInPast, Deciding
  <2>2. CASE m = d /\ pc[d] \in {"send", "create"}
    BY <1>2, <1>3, <2>2 DEF QueuedOnOwnResource
  <2>3. CASE m \in batch[d] /\ pc[d] = "flushSend" /\ pending' = pending
    BY <1>3, <2>3 DEF NoRedelivery
  <2> QED
    BY <1>3, <2>1, <2>2, <2>3, StepAccepts
<1>4. ASSUME NEW q \in Delivery, NEW r \in Resource, NEW m \in Delivery,
             pc'[q] = "flushSend", m \in batch'[q], m \in pending'[r]
      PROVE  FALSE
  <2>1. CASE q # d
    <3>1. m \in batch[q] /\ pc[q] = "flushSend"
      BY <1>4, <2>1, StepTakes, StepMoves, MovesFrame
    <3>2. m \in pending[r]
      BY <1>2, <1>4, <3>1 DEF QueuedOnOwnResource
    <3> QED
      BY <3>1, <3>2 DEF NoRedelivery
  <2>2. CASE q = d
    <3>1. CASE /\ pc[d] = "flushDelete" /\ batch' = batch
               /\ pending'[res[d]] = {}
      <4>1. pc[m] = "queued" /\ res[m] = res[d]
        BY <1>4, <2>2, <3>1 DEF QueuedOnOwnResource
      <4>2. m \in pending[r]
        BY <1>2, <1>4, <3>1
      <4>3. r = res[d]
        BY <4>1, <4>2 DEF QueuedOnOwnResource
      <4> QED
        BY <1>4, <3>1, <4>3
    <3>2. CASE /\ pc[d] = "flushSend" /\ batch'[d] \subseteq batch[d]
               /\ pending' = pending
      BY <1>4, <2>2, <3>2 DEF NoRedelivery
    <3> QED
      BY <1>4, <2>2, <3>1, <3>2, StepTakes
  <2> QED
    BY <2>1, <2>2
<1>5. ASSUME NEW q \in Delivery, NEW m \in Delivery,
             m \in accepted'[q], m \in batch'[q]
      PROVE  FALSE
  <2>1. res[d] \in Resource
    BY StepSuspended DEF TypeOK, Suspended
  <2>2. \/ m \in batch[q]
        \/ q = d /\ m \in pending[res[d]] /\ accepted' = accepted
    BY <1>5, StepTakes
  <2>3. pc[m] = "queued"
    BY <2>1, <2>2 DEF QueuedOnOwnResource
  <2>4. CASE m \in accepted[q]
    BY <2>1, <2>2, <2>4 DEF NoRedelivery
  <2>5. CASE m \notin accepted[q]
    BY <1>5, <2>3, <2>5, StepAccepts
  <2> QED
    BY <2>4, <2>5
<1> QED
  BY <1>1, <1>3, <1>4, <1>5 DEF NoRedelivery, TypeOK

-----------------------------------------------------------------------------
(* The inductive invariant.                                                *)

LEMMA InitIInv == Init => IInv
<1> SUFFICES ASSUME Init PROVE IInv
  OBVIOUS
<1>1. TypeOK
  BY InitType
<1>2. MadeByTask /\ MappedToOwnConversation /\ StoredByTask /\ MarkerHasCreator
  BY NamesAssumption
  DEF Init, MadeByTask, MappedToOwnConversation, StoredByTask,
      MarkerHasCreator, NoRow
<1>3. QueuedOnOwnResource /\ AcceptedInPast /\ NoRedelivery
  BY DEF Init, QueuedOnOwnResource, AcceptedInPast, NoRedelivery
<1> QED
  BY <1>1, <1>2, <1>3 DEF IInv

LEMMA StepIInv ==
    ASSUME IInv, NEW d \in Delivery, Step(d)
    PROVE  /\ MadeByTask' /\ MappedToOwnConversation'
           /\ StoredByTask' /\ MarkerHasCreator'
           /\ QueuedOnOwnResource' /\ AcceptedInPast' /\ NoRedelivery'
BY MadeStep, MappedStep, StoredStep, MarkerStep, QueuedStep, AcceptedStep,
   RedeliveryStep DEF IInv

\* A delivery that has only just arrived is known to no table.
LEMMA DeliverIInv ==
    ASSUME IInv, NEW d \in Delivery, NEW r \in Resource, Deliver(d, r)
    PROVE  /\ MadeByTask' /\ MappedToOwnConversation'
           /\ StoredByTask' /\ MarkerHasCreator'
           /\ QueuedOnOwnResource' /\ AcceptedInPast' /\ NoRedelivery'
<1>1. PICK k \in Kinds, t \in Resource, where \in {"lookup", "claim"} :
          Begin(d, r, k, t, where)
  BY JiraKeyAssumption
  DEF Deliver, GitlabNote, GitlabLabel, GithubComment, GithubLabel,
      SlackMention, SlackThreadMessage, JiraComment, JiraLabel, Kinds
<1>2. /\ pc[d] = "new" /\ pc'[d] \in {"lookup", "claim"}
      /\ \A q \in Delivery \ {d} : pc'[q] = pc[q] /\ res'[q] = res[q]
      /\ UNCHANGED <<tables, server, found, seen, batch>>
  BY <1>1 DEF Begin, IInv, TypeOK
<1>3. d \notin created
  BY <1>2, HandlerHasNotCreated DEF IInv
<1>4. MadeByTask'
  BY <1>2, <1>3 DEF IInv, MadeByTask, AfterCreation
<1>5. MappedToOwnConversation'
  BY <1>2, <1>3 DEF IInv, MappedToOwnConversation
<1>6. StoredByTask'
  BY <1>2 DEF IInv, StoredByTask
<1>7. MarkerHasCreator'
  <2> SUFFICES ASSUME NEW o \in Resource, row[o].conv = Pending
               PROVE  LET q == row[o].by
                      IN  res'[q] = o /\ (Creating(q)' \/ CutOff(q)')
    BY <1>2 DEF MarkerHasCreator, Creating, CutOff
  <2>1. row[o] \in Row
    BY NamesAssumption DEF IInv, TypeOK, NoRow
  <2>2. PICK q \in Delivery : q = row[o].by
    BY <2>1 DEF Row
  <2>3. res[q] = o /\ (Creating(q) \/ CutOff(q))
    BY <2>2 DEF IInv, MarkerHasCreator
  <2>4. q # d
    BY <1>2, <2>3 DEF Creating, CutOff, Linking
  <2> QED
    BY <1>2, <2>2, <2>3, <2>4 DEF Creating, CutOff
<1>8. QueuedOnOwnResource'
  <2>1. \A q \in Delivery : d \notin batch[q]
    BY <1>2 DEF IInv, QueuedOnOwnResource
  <2>2. batch[d] = {}
    BY <1>2 DEF IInv, QueuedOnOwnResource, TypeOK
  <2> QED
    BY <1>2, <2>1, <2>2 DEF IInv, QueuedOnOwnResource
<1>9. AcceptedInPast'
  <2>1. ASSUME NEW c \in Delivery, NEW q \in Delivery, q \in accepted[c]
        PROVE  q \in created \/ ~Deciding(q)'
    <3>1. q \in created \/ ~Deciding(q)
      BY <2>1 DEF IInv, AcceptedInPast
    <3>2. CASE q = d
      BY <1>2, <1>3, <3>1, <3>2 DEF Deciding
    <3>3. CASE q # d
      BY <1>2, <3>1, <3>3 DEF Deciding
    <3> QED
      BY <3>2, <3>3
  <2> QED
    BY <1>2, <2>1 DEF AcceptedInPast
<1>10. NoRedelivery'
  BY <1>2 DEF IInv, NoRedelivery
<1> QED
  BY <1>4, <1>5, <1>6, <1>7, <1>8, <1>9, <1>10

LEMMA AgeIInv ==
    ASSUME IInv, NEW r \in Resource, Age(r)
    PROVE  /\ MadeByTask' /\ MappedToOwnConversation'
           /\ StoredByTask' /\ MarkerHasCreator'
           /\ QueuedOnOwnResource' /\ AcceptedInPast' /\ NoRedelivery'
<1>1. \A o \in Resource : row'[o].conv = row[o].conv /\ row'[o].by = row[o].by
  <2>1. row[r] \in Row
    BY DEF Age, IInv, TypeOK
  <2>2. row' = [row EXCEPT ![r] = [row[r] EXCEPT !.old = TRUE]]
    BY DEF Age
  <2> QED
    BY <2>1, <2>2 DEF IInv, TypeOK, Row
<1>2. UNCHANGED <<ticket, link, pending, server, locals>>
  BY DEF Age
<1>3. MadeByTask' /\ MappedToOwnConversation' /\ StoredByTask'
  BY <1>1, <1>2 DEF IInv, MadeByTask, AfterCreation, MappedToOwnConversation,
                    StoredByTask
<1>4. MarkerHasCreator'
  BY <1>1, <1>2 DEF IInv, MarkerHasCreator, Creating, CutOff
<1>5. QueuedOnOwnResource' /\ AcceptedInPast' /\ NoRedelivery'
  BY <1>2 DEF IInv, QueuedOnOwnResource, AcceptedInPast, Deciding, NoRedelivery
<1> QED
  BY <1>3, <1>4, <1>5

LEMMA AgentLinkIInv ==
    ASSUME IInv, NEW c \in Delivery, NEW r \in Resource, AgentLink(c, r)
    PROVE  /\ MadeByTask' /\ MappedToOwnConversation'
           /\ StoredByTask' /\ MarkerHasCreator'
           /\ QueuedOnOwnResource' /\ AcceptedInPast' /\ NoRedelivery'
<1>1. /\ UNCHANGED <<row, ticket, pending, server, locals>>
      /\ c \in created /\ link' = [link EXCEPT ![r] = c]
  BY DEF AgentLink
<1>2. MadeByTask' /\ StoredByTask' /\ MarkerHasCreator'
  BY <1>1 DEF IInv, MadeByTask, AfterCreation, StoredByTask,
              MarkerHasCreator, Creating, CutOff
<1>3. MappedToOwnConversation'
  BY <1>1 DEF IInv, MappedToOwnConversation, TypeOK
<1>4. QueuedOnOwnResource' /\ AcceptedInPast' /\ NoRedelivery'
  BY <1>1 DEF IInv, QueuedOnOwnResource, AcceptedInPast, Deciding, NoRedelivery
<1> QED
  BY <1>2, <1>3, <1>4

\* A restart cuts the creators off and forgets what coroutines had taken.
LEMMA RestartIInv ==
    ASSUME IInv, Restart
    PROVE  /\ MadeByTask' /\ MappedToOwnConversation'
           /\ StoredByTask' /\ MarkerHasCreator'
           /\ QueuedOnOwnResource' /\ AcceptedInPast' /\ NoRedelivery'
<1>1. /\ UNCHANGED <<tables, server, res>>
      /\ \A d \in Delivery :
            /\ pc'[d] = IF pc[d] \in Suspended THEN "interrupted" ELSE pc[d]
            /\ found'[d] = None /\ batch'[d] = {}
  BY DEF Restart
<1>2. MadeByTask'
  <2>1. ASSUME NEW d \in Delivery, d \in created
        PROVE  AfterCreation(d)'
    BY <1>1, <2>1 DEF IInv, MadeByTask, AfterCreation, Linking, Suspended
  <2> QED
    BY <1>1, <2>1, NamesAssumption DEF MadeByTask, Suspended
<1>3. MappedToOwnConversation'
  BY <1>1 DEF IInv, MappedToOwnConversation
<1>4. StoredByTask'
  BY <1>1 DEF StoredByTask, Suspended
<1>5. MarkerHasCreator'
  <2> SUFFICES ASSUME NEW r \in Resource, row[r].conv = Pending
               PROVE  LET q == row[r].by
                      IN  res[q] = r /\ pc'[q] \in {"raised", "interrupted"}
    BY <1>1 DEF MarkerHasCreator, CutOff
  <2>1. row[r] \in Row
    BY NamesAssumption DEF IInv, TypeOK, NoRow
  <2>2. PICK q \in Delivery : q = row[r].by
    BY <2>1 DEF Row
  <2>3. res[q] = r /\ (Creating(q) \/ CutOff(q))
    BY <2>2 DEF IInv, MarkerHasCreator
  <2> QED
    BY <1>1, <2>2, <2>3 DEF Creating, CutOff, Linking, Suspended
<1>6. QueuedOnOwnResource' /\ NoRedelivery'
  BY <1>1 DEF IInv, QueuedOnOwnResource, NoRedelivery, Suspended
<1>7. AcceptedInPast'
  BY <1>1 DEF IInv, AcceptedInPast, Deciding, Linking, Suspended
<1> QED
  BY <1>2, <1>3, <1>4, <1>5, <1>6, <1>7

LEMMA NextIInv == IInv /\ [Next]_vars => IInv'
<1> SUFFICES ASSUME IInv, [Next]_vars PROVE IInv'
  OBVIOUS
<1>1. TypeOK'
  BY TypeStep DEF IInv
<1>2. CASE UNCHANGED vars
  BY <1>1, <1>2
  DEF IInv, MadeByTask, AfterCreation, MappedToOwnConversation, StoredByTask,
      MarkerHasCreator, Creating, CutOff, QueuedOnOwnResource, AcceptedInPast,
      Deciding, NoRedelivery
<1> QED
  BY <1>1, <1>2, StepIInv, DeliverIInv, AgeIInv, AgentLinkIInv, RestartIInv
  DEF Next, IInv

(* IInv, which the three theorems below need, is inductive: the tables, the *)
(* coroutines and the server's records agree in every reachable state.     *)
THEOREM Invariance == Spec => []IInv
<1>1. Init => IInv
  BY InitIInv
<1>2. IInv /\ [Next]_vars => IInv'
  BY NextIInv
<1> QED
  BY <1>1, <1>2, PTL DEF Spec

(* No interleaving of deliveries, expiries, failures and restarts leaves   *)
(* a marker in conversation_map whose creator has finished.                *)
THEOREM MarkersHaveCreators == Spec => []MarkerHasCreator
<1>1. IInv => MarkerHasCreator
  BY DEF IInv
<1> QED
  BY <1>1, Invariance, PTL

(* Every resource, ticket and link that names a conversation names one     *)
(* that exists, and a mapped resource the one made for itself.             *)
THEOREM MappingsAreOwn == Spec => []MappedToOwnConversation
<1>1. IInv => MappedToOwnConversation
  BY DEF IInv
<1> QED
  BY <1>1, Invariance, PTL

(* A comment a conversation was given, or a committed flush has taken, is  *)
(* in no queue for a later creation to read, and no task sends its         *)
(* conversation what it already has.                                       *)
THEOREM NothingIsRedelivered == Spec => []NoRedelivery
<1>1. IInv => NoRedelivery
  BY DEF IInv
<1> QED
  BY <1>1, Invariance, PTL

-----------------------------------------------------------------------------
(* WebhookIntake implements CommentFate.                                   *)

LEMMA InitFate == Init => Fate!Init
BY DEF Init, Fate!Init, stages, holders, takers, StageOf, HandsOf, GivenTo

\* Comments that are queued, taken or open, and who may have them.
LEMMA PlacesAgree ==
    ASSUME IInv, NEW d \in Delivery
    PROVE  /\ InQueue(d) => pc[d] = "queued"
           /\ HandsOf(d) # {} => pc[d] = "queued"
           /\ pc[d] = "queued" => ~Open(d)
           /\ pc[d] \in {"queue", "send", "create"} => Open(d)
           /\ pc[d] \in {"queue", "send"} => GivenTo(d) = {}
<1>1. InQueue(d) => pc[d] = "queued"
  BY DEF IInv, QueuedOnOwnResource, InQueue
<1>2. HandsOf(d) # {} => pc[d] = "queued"
  BY DEF IInv, QueuedOnOwnResource, HandsOf
<1>3. pc[d] = "queued" => ~Open(d)
  BY DEF Open, Deciding, Linking
<1>4. pc[d] \in {"queue", "send", "create"} => Open(d)
  BY HandlerHasNotCreated DEF IInv, Open, Deciding
<1>5. pc[d] \in {"queue", "send"} => GivenTo(d) = {}
  BY HandlerHasNotCreated DEF IInv, AcceptedInPast, Deciding, GivenTo
<1> QED
  BY <1>1, <1>2, <1>3, <1>4, <1>5

LEMMA StepKeepsAccepted ==
    ASSUME TypeOK, NEW q \in Delivery, Step(q), NEW c \in Delivery
    PROVE  accepted[c] \subseteq accepted'[c]
<1>1. CASE \/ Lookup(q) \/ Expire(q) \/ ReadTickets(q) \/ ReadLinks(q)
           \/ Link(q) \/ LinkInsert(q) \/ LinkTicket(q) \/ LinkTicketInsert(q)
           \/ Queue(q) \/ Claim(q) \/ ClaimWrite(q)
           \/ StoreConversation(q) \/ StoreConversationWrite(q)
           \/ Flush(q) \/ FlushDelete(q)
           \/ Clear(q) \/ ClearExpire(q) \/ ClearRow(q) \/ ClearMessages(q)
  BY <1>1 DEF Lookup, Expire, ReadTickets, ReadLinks, Link, LinkInsert,
              LinkTicket, LinkTicketInsert, Queue, Claim, ClaimWrite,
              StoreConversation, StoreConversationWrite, ReadForStore, Flush,
              FlushDelete, Clear, ClearExpire, ClearRow, ClearMessages
<1>2. CASE \/ \E outcome \in Outcome : Send(q, outcome)
           \/ \E ok \in BOOLEAN : Create(q, ok)
  BY <1>2 DEF Send, SendMessage, Create, TypeOK
<1>3. CASE \E m \in Delivery, outcome \in Outcome : FlushSend(q, m, outcome)
  BY <1>3 DEF FlushSend, SendMessage, TypeOK
<1> QED
  BY <1>1, <1>2, <1>3 DEF Step

\* A coroutine that has given its comment away, or lost it, keeps it closed.
LEMMA ClosedStays ==
    ASSUME TypeOK, MadeByTask, NEW d \in Delivery, Step(d), ~Open(d)
    PROVE  ~Open(d)' /\ pc[d] # "new"
<1>0. pc[d] # "new"
  BY StepSuspended DEF Suspended
<1>1. d \in created => d \in created'
  BY StepCreates
<1>2. ASSUME d \notin created
      PROVE  pc'[d] \in {"flushDelete", "flushSend", "started", "clear",
                         "clearExpire", "clearRow", "clearMessages", "failed"}
  <2>1. pc[d] \in {"flush", "flushDelete", "flushSend", "clear",
                   "clearExpire", "clearRow", "clearMessages"}
    BY <1>2, StepSuspended
    DEF Open, Deciding, MadeByTask, Linking, Suspended
  <2>2. CASE Flush(d) \/ FlushDelete(d) \/ Clear(d) \/ ClearExpire(d)
               \/ ClearRow(d) \/ ClearMessages(d)
    BY <2>2 DEF Flush, FlushDelete, Clear, ClearExpire, ClearRow,
                ClearMessages, Goto, GotoWith, TypeOK
  <2>3. CASE \E m \in Delivery, outcome \in Outcome : FlushSend(d, m, outcome)
    BY <2>3 DEF FlushSend, Goto, GotoWith, TypeOK
  <2> QED
    BY <2>1, <2>2, <2>3
    DEF Step, Lookup, Expire, ReadTickets, ReadLinks, Link, LinkInsert,
        LinkTicket, LinkTicketInsert, Queue, Send, Claim, ClaimWrite, Create,
        StoreConversation, StoreConversationWrite
<1> QED
  BY <1>0, <1>1, <1>2 DEF Open, Deciding, Linking

-----------------------------------------------------------------------------
(* What one step of the system does to one comment.                        *)

Moved(d) ==
    \/ Fate!Arrive(d) \/ Fate!Handle(d) \/ Fate!Read(d)
    \/ Fate!Leave(d) \/ Fate!Give(d) \/ Fate!Abandon(d)

\* The maps of CommentFate, comment by comment.
Stage(d) == stages[d]
Hands(d) == holders[d]
Given(d) == takers[d]

LEMMA Mapped ==
    ASSUME NEW d \in Delivery
    PROVE  /\ Stage(d) = StageOf(d) /\ Stage(d)' = StageOf(d)'
           /\ Hands(d) = HandsOf(d) /\ Hands(d)' = HandsOf(d)'
           /\ Given(d) = GivenTo(d) /\ Given(d)' = GivenTo(d)'
BY DEF Stage, Hands, Given, stages, holders, takers

\* The coroutine of the comment itself.
LEMMA OwnStepMoves ==
    ASSUME IInv, NEW d \in Delivery, Step(d)
    PROVE  Moved(d)
<1>1. /\ TypeOK /\ QueuedOnOwnResource /\ MadeByTask
      /\ pc[d] \in Suspended /\ pc'[d] # "new" /\ res[d] \in Resource
  <2>1. pc[d] \in Suspended /\ pc'[d] \in Suspended \cup Ended
    BY StepSuspended, StepMoves DEF IInv, Moves, GotoWith, TypeOK
  <2> QED
    BY <2>1 DEF IInv, TypeOK, Suspended, Ended
<1>2. pc[d] # "new" /\ pc[d] # "queued" /\ ~InQueue(d) /\ HandsOf(d) = {}
  BY <1>1, PlacesAgree DEF Suspended
<1>3. HandsOf(d)' = {}
  <2> SUFFICES ASSUME NEW t \in Delivery, d \in batch'[t] PROVE FALSE
    BY DEF HandsOf
  <2>1. d \in batch[t] \/ d \in pending[res[d]]
    BY <1>1, StepTakes
  <2> QED
    BY <1>1, <1>2, <2>1 DEF HandsOf, InQueue
<1>4. InQueue(d)' => pc[d] = "queue"
  <2>1. ASSUME NEW r \in Resource, d \in pending'[r] PROVE pc[d] = "queue"
    BY <1>1, <1>2, <2>1, StepQueues DEF InQueue
  <2> QED
    BY <2>1 DEF InQueue
<1>5. \A c \in Delivery :
          d \in accepted'[c] => \/ d \in accepted[c]
                                \/ c = found[d] /\ pc[d] = "send"
                                \/ c = d /\ pc[d] = "create"
  <2>1. d \notin batch[d]
    BY <1>2 DEF HandsOf
  <2> QED
    BY <1>1, <2>1, StepAccepts
<1>6. GivenTo(d) \subseteq GivenTo(d)'
  BY <1>1, StepKeepsAccepted DEF GivenTo
<1>7. CASE Open(d)
  <2>1. StageOf(d) = "open"
    BY <1>2, <1>7 DEF StageOf
  <2>2. StageOf(d)' \in {"open", "queued", "closed"}
    BY <1>1 DEF StageOf
  <2>3. StageOf(d)' = "queued" => pc[d] = "queue"
    BY <1>4 DEF StageOf
  <2>4. CASE pc[d] = "send"
    <3>1. GivenTo(d) = {} /\ GivenTo(d)' \subseteq {found[d]}
      BY <1>5, <2>4, PlacesAgree DEF GivenTo
    <3>2. GivenTo(d)' \subseteq Delivery
      BY DEF GivenTo
    <3>3. \/ GivenTo(d)' = GivenTo(d)
          \/ \E c \in Delivery : GivenTo(d)' = {c}
      BY <3>1, <3>2
    <3> QED
      BY <1>2, <1>3, <2>1, <2>2, <2>3, <2>4, <3>1, <3>3, Mapped
      DEF Moved, Fate!Handle, Stage, Hands, Given
  <2>5. CASE pc[d] = "create"
    <3>1. GivenTo(d)' = GivenTo(d) \/ GivenTo(d)' = GivenTo(d) \cup {d}
      BY <1>5, <1>6, <2>5 DEF GivenTo
    <3> QED
      BY <1>2, <1>3, <2>1, <2>2, <2>3, <2>5, <3>1, Mapped
      DEF Moved, Fate!Handle, Stage, Hands, Given
  <2>6. CASE pc[d] \notin {"send", "create"}
    <3>1. GivenTo(d)' = GivenTo(d)
      BY <1>5, <1>6, <2>6 DEF GivenTo
    <3>2. pc[d] = "queue" => GivenTo(d)' = {}
      BY <3>1, PlacesAgree
    <3> QED
      BY <1>2, <1>3, <2>1, <2>2, <2>3, <3>1, <3>2, Mapped
      DEF Moved, Fate!Handle, Stage, Hands, Given
  <2> QED
    BY <2>4, <2>5, <2>6
<1>8. CASE ~Open(d)
  <2>1. pc[d] \notin {"queue", "send", "create"}
    BY <1>8, PlacesAgree
  <2>2. StageOf(d) = "closed" /\ StageOf(d)' = "closed"
    BY <1>1, <1>2, <1>4, <1>8, <2>1, ClosedStays DEF StageOf
  <2>3. GivenTo(d)' = GivenTo(d)
    BY <1>5, <1>6, <2>1 DEF GivenTo
  <2> QED
    BY <1>2, <1>3, <2>2, <2>3, Mapped
    DEF Moved, Fate!Abandon, Stage, Hands, Given
<1> QED
  BY <1>7, <1>8

\* Another coroutine, which may have the comment in hand.
LEMMA OtherStepMoves ==
    ASSUME IInv, NEW d \in Delivery, NEW q \in Delivery \ {d}, Step(q)
    PROVE  Moved(d)
<1>1. /\ TypeOK /\ QueuedOnOwnResource /\ MadeByTask
      /\ pc'[d] = pc[d] /\ res' = res /\ res[q] \in Resource
      /\ d \in created' <=> d \in created
  <2>1. res[q] \in Resource
    BY StepSuspended DEF IInv, TypeOK, Suspended
  <2> QED
    BY <2>1, StepMoves, MovesFrame, StepTables, StepCreates DEF IInv
<1>2. Open(d)' <=> Open(d)
  BY <1>1 DEF Open, Deciding
<1>3. InQueue(d)' => InQueue(d)
  BY <1>1, StepQueues DEF InQueue
<1>4. \/ StageOf(d)' = StageOf(d)
      \/ StageOf(d) = "queued" /\ StageOf(d)' = "closed" /\ ~InQueue(d)'
  <2>1. InQueue(d) => pc[d] = "queued" /\ ~Open(d)
    BY PlacesAgree
  <2> QED
    BY <1>1, <1>2, <1>3, <2>1 DEF StageOf
<1>5. pending' = pending => StageOf(d)' = StageOf(d)
  BY <1>1, <1>2 DEF StageOf, InQueue
<1>6. GivenTo(d) \subseteq GivenTo(d)'
  BY <1>1, StepKeepsAccepted DEF GivenTo
<1>7. \A t \in Delivery \ {q} : t \in HandsOf(d)' <=> t \in HandsOf(d)
  BY <1>1, StepTakes DEF HandsOf
<1>8. CASE GivenTo(d)' # GivenTo(d)
  <2>1. PICK c \in Delivery : d \in accepted'[c] /\ d \notin accepted[c]
    BY <1>6, <1>8 DEF GivenTo
  <2>2. /\ d \in batch[q] /\ d \notin batch'[q]
        /\ pc[q] = "flushSend" /\ pending' = pending
    BY <1>1, <2>1, StepAccepts
  <2>3. GivenTo(d)' = GivenTo(d) \cup {q}
    <3>1. \A e \in Delivery : d \in accepted'[e] => d \in accepted[e] \/ e = q
      BY <1>1, StepAccepts
    <3> QED
      BY <1>6, <1>8, <3>1 DEF GivenTo
  <2>4. StageOf(d) = "closed" /\ StageOf(d)' = "closed"
    <3>1. pc[d] = "queued" /\ ~Open(d)
      BY <2>2, PlacesAgree DEF HandsOf
    <3>2. ~InQueue(d)
      BY <2>2 DEF IInv, NoRedelivery, InQueue
    <3> QED
      BY <1>5, <2>2, <3>1, <3>2 DEF StageOf
  <2>5. q \in HandsOf(d) /\ HandsOf(d)' = HandsOf(d) \ {q}
    BY <1>7, <2>2 DEF HandsOf
  <2>6. q \notin GivenTo(d)
    BY <2>2 DEF IInv, NoRedelivery, GivenTo
  <2> QED
    BY <2>3, <2>4, <2>5, <2>6, Mapped DEF Moved, Fate!Give, Stage, Hands, Given
<1>9. CASE GivenTo(d)' = GivenTo(d) /\ HandsOf(d)' = HandsOf(d)
  BY <1>4, <1>9, Mapped
  DEF Moved, Fate!Leave, Fate!Abandon, Stage, Hands, Given
<1>10. CASE GivenTo(d)' = GivenTo(d) /\ HandsOf(d)' # HandsOf(d)
  <2>1. CASE q \in HandsOf(d)'
    <3>1. q \notin HandsOf(d) /\ HandsOf(d)' = HandsOf(d) \cup {q}
      BY <1>7, <1>10, <2>1 DEF HandsOf
    <3>2. d \in pending[res[q]] /\ pending' = pending
      BY <1>1, <2>1, <3>1, StepTakes DEF HandsOf
    <3>3. StageOf(d) = "queued" /\ StageOf(d)' = "queued"
      <4>1. InQueue(d) /\ pc[d] = "queued"
        BY <1>1, <3>2, PlacesAgree DEF InQueue
      <4> QED
        BY <1>5, <3>2, <4>1 DEF StageOf
    <3> QED
      BY <1>10, <3>1, <3>3, Mapped DEF Moved, Fate!Read, Stage, Hands, Given
  <2>2. CASE q \notin HandsOf(d)'
    <3>1. q \in HandsOf(d) /\ HandsOf(d)' \subseteq HandsOf(d)
      BY <1>7, <1>10, <2>2 DEF HandsOf
    <3>2. d \in batch[q] /\ d \notin batch'[q]
      BY <2>2, <3>1 DEF HandsOf
    <3>3. pending' = pending
      BY <1>1, <3>2, StepTakes DEF QueuedOnOwnResource
    <3> QED
      BY <1>5, <1>10, <3>1, <3>3, Mapped
      DEF Moved, Fate!Abandon, Stage, Hands, Given
  <2> QED
    BY <2>1, <2>2
<1> QED
  BY <1>8, <1>9, <1>10

\* The handlers, tables and tasks are as they were, to the comment.
LEMMA FrameMoves ==
    ASSUME NEW d \in Delivery, pc'[d] = pc[d], pc[d] = "new" \/ res'[d] = res[d],
           UNCHANGED <<pending, server, batch>>
    PROVE  Moved(d)
<1>1. HandsOf(d)' = HandsOf(d) /\ GivenTo(d)' = GivenTo(d)
  BY DEF HandsOf, GivenTo
<1>2. StageOf(d)' = StageOf(d)
  BY DEF StageOf, InQueue, Open, Deciding
<1> QED
  BY <1>1, <1>2, Mapped DEF Moved, Fate!Abandon, Stage, Hands, Given

LEMMA FateMoves ==
    ASSUME IInv, [Next]_vars, NEW d \in Delivery
    PROVE  Moved(d)
<1>1. ASSUME NEW q \in Delivery, Step(q) PROVE Moved(d)
  BY <1>1, OwnStepMoves, OtherStepMoves
<1>2. ASSUME NEW q \in Delivery, NEW r \in Resource, Deliver(q, r)
      PROVE  Moved(d)
  <2>1. PICK k, t, where : /\ where \in {"lookup", "claim"}
                           /\ Begin(q, r, k, t, where)
    BY <1>2 DEF Deliver, GitlabNote, GitlabLabel, GithubComment, GithubLabel,
                SlackMention, SlackThreadMessage, JiraComment, JiraLabel
  <2>2. /\ pc[q] = "new" /\ pc'[q] \in {"lookup", "claim"}
        /\ \A e \in Delivery \ {q} : pc'[e] = pc[e] /\ res'[e] = res[e]
        /\ UNCHANGED <<pending, server, batch>>
    BY <2>1 DEF Begin, IInv, TypeOK
  <2>3. CASE d = q
    <3>1. d \notin created
      BY <2>2, <2>3, HandlerHasNotCreated DEF IInv
    <3>2. StageOf(d) = "new"
      BY <2>2, <2>3 DEF StageOf
    <3>3. ~InQueue(d)'
      BY <2>2, <2>3, PlacesAgree DEF InQueue
    <3>4. StageOf(d)' = "open"
      BY <2>2, <2>3, <3>1, <3>3 DEF StageOf, Open, Deciding
    <3>5. HandsOf(d)' = HandsOf(d) /\ GivenTo(d)' = GivenTo(d)
      BY <2>2 DEF HandsOf, GivenTo
    <3> QED
      BY <3>2, <3>4, <3>5, Mapped DEF Moved, Fate!Arrive, Stage, Hands, Given
  <2>4. CASE d # q
    BY <2>2, <2>4, FrameMoves
  <2> QED
    BY <2>3, <2>4
<1>3. CASE Restart
  <2>1. /\ pc'[d] = IF pc[d] \in Suspended THEN "interrupted" ELSE pc[d]
        /\ HandsOf(d)' = {} /\ GivenTo(d)' = GivenTo(d)
        /\ InQueue(d)' <=> InQueue(d)
        /\ d \in created' <=> d \in created
        /\ res' = res
    BY <1>3 DEF Restart, HandsOf, GivenTo, InQueue
  <2>2. CASE pc[d] \in Suspended
    <3>1. ~InQueue(d) /\ HandsOf(d) = {} /\ pc[d] # "new"
      BY <2>2, PlacesAgree DEF Suspended
    <3>2. StageOf(d) \in {"open", "closed"} /\ StageOf(d)' = "closed"
      BY <2>1, <2>2, <3>1 DEF StageOf, Open, Deciding, Linking
    <3> QED
      BY <2>1, <3>1, <3>2, Mapped
      DEF Moved, Fate!Handle, Fate!Abandon, Stage, Hands, Given
  <2>3. CASE pc[d] \notin Suspended
    <3>1. StageOf(d)' = StageOf(d)
      BY <2>1, <2>3 DEF StageOf, Open, Deciding
    <3> QED
      BY <2>1, <3>1, Mapped DEF Moved, Fate!Abandon, Stage, Hands, Given
  <2> QED
    BY <2>2, <2>3
<1>4. CASE UNCHANGED vars \/ (\E r \in Resource : Age(r))
             \/ \E c \in Delivery, r \in Resource : AgentLink(c, r)
  <2>1. UNCHANGED <<pc, res, pending, server, batch>>
    BY <1>4 DEF Age, AgentLink
  <2> QED
    BY <2>1, FrameMoves
<1> QED
  BY <1>1, <1>2, <1>3, <1>4 DEF Next

(* The handlers, tasks and tables implement CommentFate: whatever is       *)
(* delivered, fails, expires or restarts, a comment goes to one            *)
(* conversation, and to a second only by a send that failed after receipt  *)
(* or by a flush that read the queue before another had emptied it; no     *)
(* comment is given away while it is queued or returns to a queue.         *)
THEOREM CommentFateIsKept == Spec => KeepsCommentFate
<1>1. Init => Fate!Init
  BY InitFate
<1>2. IInv /\ [Next]_vars => [Fate!Next]_(Fate!vars)
  <2> SUFFICES ASSUME IInv, [Next]_vars
               PROVE  Fate!Next
    OBVIOUS
  <2>1. Fate!TypeOK'
    <3>1. TypeOK'
      BY TypeStep DEF IInv
    <3> QED
      BY <3>1 DEF Fate!TypeOK, Fate!Stages, stages, holders, takers, StageOf,
                  HandsOf, GivenTo
  <2> QED
    BY <2>1, FateMoves DEF Fate!Next, Moved
<1> QED
  BY <1>1, <1>2, Invariance, PTL DEF Spec, KeepsCommentFate, Fate!Spec

-----------------------------------------------------------------------------
(* Coroutines come to an end.  Their places have heights, and whatever     *)
(* runs, a coroutine only goes down: the part of the liveness properties   *)
(* that does not rest on fairness.                                         *)

Height(p) ==
    CASE p = "new" -> 40
      [] p = "lookup" -> 32
      [] p = "expire" -> 31
      [] p = "tickets" -> 30
      [] p = "links" -> 29
      [] p = "queue" -> 26
      [] p = "send" -> 25
      [] p = "claim" -> 24
      [] p = "claimWrite" -> 23
      [] p = "create" -> 18
      [] p = "store" -> 17
      [] p = "storeWrite" -> 16
      [] p = "ticket" -> 15
      [] p = "ticketInsert" -> 14
      [] p = "link" -> 13
      [] p = "linkInsert" -> 12
      [] p = "flush" -> 11
      [] p = "flushDelete" -> 10
      [] p = "flushSend" -> 9
      [] p = "clear" -> 8
      [] p = "clearExpire" -> 7
      [] p = "clearRow" -> 6
      [] p = "clearMessages" -> 5
      [] OTHER -> 0

LookingUp == {"lookup", "expire", "tickets", "links"}

\* A lookup for the resource itself comes before the one for its Jira issue;
\* GitLab links before it acts, Jira links the marker before it creates and
\* the conversation after it.
RankAt(p, r, t, f) ==
    IF p \in LookingUp /\ t = r THEN Height(p) + 4
    ELSE IF p \in Linking /\ Platform[r] = "gitlab" THEN Height(p) + 15
    ELSE IF p \in Linking /\ f = Pending THEN Height(p) + 7
    ELSE Height(p)

Rank(d) == RankAt(pc[d], res[d], target[d], found[d])

Advances(d) ==
    \/ Rank(d)' < Rank(d)
    \/ /\ Rank(d)' = Rank(d)
       /\ batch'[d] \subseteq batch[d] /\ batch'[d] # batch[d]

LEMMA RankType == \A p, r, t, f : RankAt(p, r, t, f) \in 0..47
<1>1. \A p : Height(p) \in 0..40 /\ (p \in LookingUp \cup Linking => Height(p) \in 0..32)
  BY DEF Height, LookingUp, Linking
<1> QED
  BY <1>1 DEF RankAt

LEMMA RankNat == \A d : Rank(d) \in Nat
BY RankType DEF Rank

LEMMA RankWhenMoved ==
    ASSUME TypeOK, NEW d \in Delivery, NEW where, NEW t, NEW f,
           GotoWith(d, where, t, f), UNCHANGED res
    PROVE  /\ where \in Ended => Rank(d)' = 0
           /\ where \notin Ended => Rank(d)' = RankAt(where, res[d], t, f)
<1>1. /\ pc'[d] = where
      /\ where \notin Ended => target'[d] = t /\ found'[d] = f
  BY DEF GotoWith, TypeOK
<1>2. ASSUME where \in Ended PROVE Rank(d)' = 0
  BY <1>1, <1>2 DEF Rank, RankAt, Height, LookingUp, Linking, Ended
<1> QED
  BY <1>1, <1>2 DEF Rank

\* Once an existing conversation has been looked for, it is acted upon.
LEMMA VerdictRank ==
    ASSUME NEW d, NEW c, NEW r, NEW t, NEW f
    PROVE  RankAt(Verdict(d, c), r, t, f) <= 26
BY VerdictType DEF RankAt, Height, LookingUp, Linking

LEMMA FindsRank ==
    ASSUME TypeOK, NEW d \in Delivery, NEW c, Finds(d, c), UNCHANGED res
    PROVE  Rank(d)' <= 28
<1>1. RankAt("link", res[d], target[d], c) <= 28
  BY DEF RankAt, Height, LookingUp, Linking
<1>2. CASE target[d] # res[d]
  <2>1. GotoWith(d, "link", target[d], c) /\ "link" \notin Ended
    BY <1>2 DEF Finds, Ended
  <2> QED
    BY <1>1, <2>1, RankWhenMoved
<1>3. CASE target[d] = res[d]
  <2>1. GotoWith(d, Verdict(d, c), target[d], c)
    BY <1>3 DEF Finds
  <2>2. RankAt(Verdict(d, c), res[d], target[d], c) <= 26
    BY VerdictRank
  <2>3. Rank(d)' = 0 \/ Rank(d)' = RankAt(Verdict(d, c), res[d], target[d], c)
    BY <2>1, RankWhenMoved
  <2> QED
    BY <2>2, <2>3, RankType
<1> QED
  BY <1>2, <1>3

\* The second lookup is for another resource.
LEMMA FindsNothingRank ==
    ASSUME TypeOK, NEW d \in Delivery, res[d] \in Resource, FindsNothing(d),
           UNCHANGED res
    PROVE  Rank(d)' <= 26 \/ (target[d] = res[d] /\ Rank(d)' = 32)
<1>1. CASE /\ JiraKey[res[d]] # None /\ target[d] = res[d]
           /\ GotoWith(d, "lookup", JiraKey[res[d]], None)
  <2>1. JiraKey[res[d]] # res[d]
    BY <1>1, JiraKeyAssumption
  <2>2. RankAt("lookup", res[d], JiraKey[res[d]], None) = 32
    BY <2>1 DEF RankAt, Height, LookingUp, Linking
  <2>3. "lookup" \notin Ended
    BY DEF Ended
  <2> QED
    BY <1>1, <2>2, <2>3, RankWhenMoved
<1>2. CASE Goto(d, Verdict(d, None))
  <2>1. Rank(d)' = 0 \/ Rank(d)' <= 26
    BY <1>2, RankWhenMoved, VerdictRank DEF Goto
  <2> QED
    BY <2>1
<1> QED
  BY <1>1, <1>2 DEF FindsNothing

LEMMA LookupAdvances ==
    ASSUME TypeOK, NEW d \in Delivery,
           Lookup(d) \/ Expire(d) \/ ReadTickets(d) \/ ReadLinks(d)
    PROVE  Rank(d)' < Rank(d)
<1> DEFINE first == target[d] = res[d]
<1>1. /\ res[d] \in Resource /\ UNCHANGED res
      /\ pc[d] \in LookingUp
  BY DEF TypeOK, Lookup, Expire, ReadTickets, ReadLinks, Suspended, LookingUp
<1>2. /\ Rank(d) = Height(pc[d]) + (IF first THEN 4 ELSE 0)
      /\ Rank(d) >= 29 /\ (first => Rank(d) >= 33)
  BY <1>1 DEF Rank, RankAt, Height, LookingUp, Linking
<1>3. ASSUME NEW c, Finds(d, c) PROVE Rank(d)' < Rank(d)
  BY <1>1, <1>2, <1>3, FindsRank, RankType DEF Rank
<1>4. ASSUME FindsNothing(d) PROVE Rank(d)' < Rank(d)
  BY <1>1, <1>2, <1>4, FindsNothingRank, RankType DEF Rank
<1>5. ASSUME NEW p \in LookingUp, Goto(d, p), Height(p) < Height(pc[d])
      PROVE  Rank(d)' < Rank(d)
  <2>1. p \notin Ended
    BY DEF LookingUp, Ended
  <2>2. Rank(d)' = RankAt(p, res[d], target[d], found[d])
    BY <1>1, <1>5, <2>1, RankWhenMoved DEF Goto
  <2>3. /\ Height(p) \in Nat /\ Height(pc[d]) \in Nat
        /\ Rank(d)' = Height(p) + (IF first THEN 4 ELSE 0)
    BY <1>1, <2>2 DEF RankAt, Height, LookingUp, Linking
  <2> QED
    BY <1>2, <1>5, <2>3
<1>6. /\ pc[d] = "lookup" => Height("expire") < Height(pc[d])
      /\ pc[d] \in {"lookup", "expire"} => Height(AfterTable(d)) < Height(pc[d])
      /\ pc[d] = "tickets" => Height("links") < Height(pc[d])
      /\ AfterTable(d) \in LookingUp /\ {"expire", "links"} \subseteq LookingUp
  BY DEF AfterTable, Height, LookingUp
<1>7. CASE Lookup(d)
  BY <1>3, <1>5, <1>6, <1>7 DEF Lookup
<1>8. CASE Expire(d)
  BY <1>5, <1>6, <1>8 DEF Expire
<1>9. CASE ReadTickets(d)
  BY <1>3, <1>4, <1>5, <1>6, <1>9 DEF ReadTickets
<1>10. CASE ReadLinks(d)
  BY <1>3, <1>4, <1>10 DEF ReadLinks
<1> QED
  BY <1>7, <1>8, <1>9, <1>10

\* From any other place the next one is lower whatever the tables hold.
LEMMA GotoAdvances ==
    ASSUME TypeOK, NEW d \in Delivery, NEW where, NEW t, NEW f,
           GotoWith(d, where, t, f), UNCHANGED res,
           RankAt(where, res[d], t, f) < Rank(d), Rank(d) > 0
    PROVE  Rank(d)' < Rank(d)
BY RankWhenMoved

LEMMA RaiseAdvances ==
    ASSUME TypeOK, NEW d \in Delivery, Raise(d), UNCHANGED res, Rank(d) > 8
    PROVE  Rank(d)' < Rank(d)
<1>1. RankAt("clear", res[d], target[d], found[d]) = 8
      /\ RankAt("raised", res[d], target[d], found[d]) = 0
  BY DEF RankAt, Height, LookingUp, Linking
<1>2. CASE d \in created
  BY <1>1, <1>2, GotoAdvances, RankNat DEF Raise, Goto
<1>3. CASE d \notin created
  BY <1>1, <1>3, GotoAdvances, RankNat DEF Raise, Goto
<1> QED
  BY <1>2, <1>3

LEMMA LinkAdvances ==
    ASSUME TypeOK, NEW d \in Delivery,
           Link(d) \/ LinkInsert(d) \/ LinkTicket(d) \/ LinkTicketInsert(d)
    PROVE  Rank(d)' < Rank(d)
<1>1. UNCHANGED res /\ pc[d] \in Linking
  BY DEF Link, LinkInsert, LinkTicket, LinkTicketInsert, Linking
<1> DEFINE bonus == IF Platform[res[d]] = "gitlab" THEN 15
                    ELSE IF found[d] = Pending THEN 7 ELSE 0
<1>2. \A p \in Linking : RankAt(p, res[d], target[d], found[d]) = Height(p) + bonus
  BY DEF RankAt, Linking, LookingUp, Height
<1>3. /\ Rank(d) = Height(pc[d]) + bonus /\ Rank(d) >= 12 + bonus
      /\ Rank(d) >= 12
  BY <1>1, <1>2 DEF Rank, Linking, Height
<1>4. RankAt(AfterLink(d), res[d], target[d], found[d]) < 12 + bonus
  <2>1. CASE Platform[res[d]] = "gitlab"
    BY <2>1, VerdictRank, RankType DEF AfterLink
  <2>2. CASE Platform[res[d]] # "gitlab"
    BY <2>2 DEF AfterLink, RankAt, Height, LookingUp, Linking
  <2> QED
    BY <2>1, <2>2
<1>0. bonus \in Nat
  OBVIOUS
<1> HIDE DEF bonus
<1>5. ASSUME Goto(d, AfterLink(d)) PROVE Rank(d)' < Rank(d)
  <2>1. RankAt(AfterLink(d), res[d], target[d], found[d]) < Rank(d)
    BY <1>0, <1>3, <1>4, RankType DEF Rank
  <2> QED
    BY <1>1, <1>3, <1>5, <2>1, GotoAdvances, RankNat DEF Goto
<1>6. ASSUME NEW p \in Linking, Goto(d, p), Height(p) < Height(pc[d])
      PROVE  Rank(d)' < Rank(d)
  <2>1. RankAt(p, res[d], target[d], found[d]) < Rank(d)
    BY <1>0, <1>1, <1>2, <1>3, <1>6 DEF Height, Linking
  <2> QED
    BY <1>1, <1>3, <1>6, <2>1, GotoAdvances, RankNat DEF Goto
<1>7. ASSUME Raise(d) PROVE Rank(d)' < Rank(d)
  BY <1>1, <1>3, <1>7, RaiseAdvances, RankNat
<1>8. /\ pc[d] = "link" => Height("linkInsert") < Height(pc[d])
      /\ pc[d] = "ticket" => Height("ticketInsert") < Height(pc[d])
      /\ pc[d] = "ticketInsert" => Height("link") < Height(pc[d])
      /\ {"link", "linkInsert", "ticketInsert"} \subseteq Linking
  <2>1. /\ Height("ticket") = 15 /\ Height("ticketInsert") = 14
        /\ Height("link") = 13 /\ Height("linkInsert") = 12
    BY DEF Height
  <2> QED
    BY <2>1 DEF Linking
<1> QED
  BY <1>5, <1>6, <1>7, <1>8 DEF Link, LinkInsert, LinkTicket, LinkTicketInsert

LEMMA StoreAdvances ==
    ASSUME TypeOK, NEW d \in Delivery,
           \/ Claim(d) \/ ClaimWrite(d)
           \/ StoreConversation(d) \/ StoreConversationWrite(d)
    PROVE  Rank(d)' < Rank(d)
<1> USE GotoAdvances, RankNat
<1> DEFINE at(p, t, f) == RankAt(p, res[d], t, f)
<1>1. \A t, f : /\ at("claim", t, f) = 24 /\ at("claimWrite", t, f) = 23
                /\ at("create", t, f) = 18 /\ at("store", t, f) = 17
                /\ at("storeWrite", t, f) = 16 /\ at("flush", t, f) = 11
  BY DEF RankAt, Height, LookingUp, Linking
<1>2. Rank(d) = at(pc[d], target[d], found[d])
  BY DEF Rank
<1>3. ASSUME Platform[res[d]] = "jira"
      PROVE  \A t, f : at("ticket", t, f) = IF f = Pending THEN 22 ELSE 15
  BY <1>3 DEF RankAt, Height, LookingUp, Linking
<1> HIDE DEF at
<1>4. ASSUME NEW where, ReadForStore(d, where),
             at(where, res[d], None) < Rank(d), Rank(d) > 0
      PROVE  Rank(d)' < Rank(d)
  BY <1>4 DEF ReadForStore, at
<1>5. CASE Claim(d)
  BY <1>1, <1>2, <1>4, <1>5 DEF Claim
<1>6. CASE StoreConversation(d)
  BY <1>1, <1>2, <1>4, <1>6 DEF StoreConversation
<1>7. ASSUME NEW value, NEW stage, NEW next, Store(d, value, stage, next),
             UNCHANGED res, Rank(d) > 8,
             at(next, target[d], value) < Rank(d),
             Platform[res[d]] = "jira" =>
                 at("ticket", target[d], value) < Rank(d)
      PROVE  Rank(d)' < Rank(d)
  <2>1. CASE Raise(d)
    BY <1>7, <2>1, RaiseAdvances
  <2>2. CASE Platform[res[d]] = "jira" /\ GotoWith(d, "ticket", target[d], value)
    BY <1>7, <2>2 DEF at
  <2>3. CASE Platform[res[d]] # "jira" /\ GotoWith(d, next, target[d], value)
    BY <1>7, <2>3 DEF at
  <2> QED
    BY <1>7, <2>1, <2>2, <2>3 DEF Store
<1>8. CASE ClaimWrite(d)
  <2>1. Store(d, Pending, "claim", "create") /\ UNCHANGED res /\ Rank(d) = 23
    BY <1>1, <1>2, <1>8 DEF ClaimWrite
  <2> QED
    BY <1>1, <1>3, <1>7, <2>1
<1>9. CASE StoreConversationWrite(d)
  <2>1. Store(d, d, "store", "flush") /\ UNCHANGED res /\ Rank(d) = 16
    BY <1>1, <1>2, <1>9 DEF StoreConversationWrite, ConversationOf
  <2>2. d # Pending
    BY NamesAssumption
  <2> QED
    BY <1>1, <1>3, <1>7, <2>1, <2>2
<1> QED
  BY <1>5, <1>6, <1>8, <1>9

\* What is left: sending, creating, flushing and clearing up.
LEMMA OtherAdvances ==
    ASSUME TypeOK, NEW d \in Delivery,
           \/ Queue(d) \/ \E outcome \in Outcome : Send(d, outcome)
           \/ \E ok \in BOOLEAN : Create(d, ok)
           \/ Flush(d) \/ FlushDelete(d)
           \/ Clear(d) \/ ClearExpire(d) \/ ClearRow(d) \/ ClearMessages(d)
    PROVE  Rank(d)' < Rank(d)
<1> DEFINE plain == {"queue", "send", "claim", "create", "store", "flush",
                     "flushDelete", "flushSend", "clear", "clearExpire",
                     "clearRow", "clearMessages"} \cup Ended
<1>1. /\ UNCHANGED res
      /\ pc[d] \in plain \ Ended
      /\ \E p \in plain : Goto(d, p) /\ Height(p) < Height(pc[d])
  <2> USE DEF Ended, Height
  <2>1. CASE Queue(d)
    BY <2>1 DEF Queue
  <2>2. CASE \E outcome \in Outcome : Send(d, outcome)
    BY <2>2, AfterSendType DEF Send
  <2>3. CASE \E ok \in BOOLEAN : Create(d, ok)
    BY <2>3 DEF Create
  <2>4. CASE Flush(d)
    <3>1. Goto(d, "started") \/ Goto(d, "flushDelete")
      BY <2>4 DEF Flush
    <3> QED
      BY <2>4, <3>1 DEF Flush
  <2>5. CASE FlushDelete(d)
    BY <2>5 DEF FlushDelete
  <2>6. CASE Clear(d)
    BY <2>6 DEF Clear
  <2>7. CASE ClearExpire(d)
    BY <2>7 DEF ClearExpire
  <2>8. CASE ClearRow(d)
    BY <2>8 DEF ClearRow
  <2>9. CASE ClearMessages(d)
    BY <2>9 DEF ClearMessages
  <2> HIDE DEF plain, Height
  <2> QED
    BY <2>1, <2>2, <2>3, <2>4, <2>5, <2>6, <2>7, <2>8, <2>9
<1>2. \A p \in plain : \A t, f : RankAt(p, res[d], t, f) = Height(p)
  BY DEF RankAt, LookingUp, Linking, Ended
<1>3. Rank(d) = Height(pc[d]) /\ Rank(d) > 0
  BY <1>1, <1>2 DEF Rank, Height, Ended
<1>4. PICK p \in plain : Goto(d, p) /\ Height(p) < Height(pc[d])
  BY <1>1
<1>5. RankAt(p, res[d], target[d], found[d]) < Rank(d)
  BY <1>2, <1>3, <1>4
<1> QED
  BY <1>1, <1>3, <1>4, <1>5, GotoAdvances DEF Goto

LEMMA FlushSendAdvances ==
    ASSUME TypeOK, NEW d \in Delivery, NEW m \in Delivery, NEW outcome,
           FlushSend(d, m, outcome)
    PROVE  Advances(d)
<1>1. /\ pc[d] = "flushSend" /\ m \in batch[d] /\ UNCHANGED res
      /\ \A t, f : /\ RankAt("flushSend", res[d], t, f) = 9
                   /\ RankAt("clear", res[d], t, f) = 8
                   /\ RankAt("started", res[d], t, f) = 0
  BY DEF FlushSend, RankAt, Height, LookingUp, Linking
<1>2. Rank(d) = 9
  BY <1>1 DEF Rank
<1>3. CASE Goto(d, "clear") \/ Goto(d, "started")
  BY <1>1, <1>2, <1>3, GotoAdvances DEF Goto, Advances
<1>4. CASE Goto(d, "flushSend") /\ batch' = [batch EXCEPT ![d] = @ \ {m}]
  <2>1. Rank(d)' = 9
    BY <1>1, <1>4, RankWhenMoved DEF Goto, Ended
  <2>2. batch'[d] = batch[d] \ {m}
    BY <1>4 DEF TypeOK
  <2> QED
    BY <1>1, <1>2, <2>1, <2>2 DEF Advances
<1> QED
  BY <1>3, <1>4 DEF FlushSend

LEMMA StepAdvances ==
    ASSUME TypeOK, NEW d \in Delivery, Step(d)
    PROVE  Advances(d)
<1>1. CASE \E m \in Delivery, outcome \in Outcome : FlushSend(d, m, outcome)
  BY <1>1, FlushSendAdvances
<1>2. CASE Rank(d)' < Rank(d)
  BY <1>2 DEF Advances
<1> QED
  BY <1>1, <1>2, LookupAdvances, LinkAdvances, StoreAdvances, OtherAdvances
  DEF Step

\* Nobody else moves a coroutine, but to start or to end it.
LEMMA NextAdvances ==
    ASSUME IInv, [Next]_vars, NEW d \in Delivery,
           pc'[d] # pc[d] \/ batch'[d] # batch[d]
    PROVE  Advances(d)
<1>1. TypeOK
  BY DEF IInv
<1>2. CASE Step(d)
  BY <1>1, <1>2, StepAdvances
<1>3. ASSUME NEW e \in Delivery, Step(e), e # d PROVE FALSE
  <2>1. pc'[d] = pc[d]
    BY <1>1, <1>3, StepMoves, MovesFrame
  <2>2. batch'[d] = batch[d]
    BY <1>1, <1>3
    DEF TypeOK, Step, Lookup, Expire, ReadTickets, ReadLinks, Link, LinkInsert,
        LinkTicket, LinkTicketInsert, Queue, Send, Claim, ClaimWrite, Create,
        ReadForStore, StoreConversation, StoreConversationWrite, Flush,
        FlushDelete, FlushSend, Clear, ClearExpire, ClearRow, ClearMessages
  <2> QED
    BY <2>1, <2>2
<1>4. ASSUME NEW e \in Delivery, NEW r \in Resource, Deliver(e, r)
      PROVE  Advances(d)
  <2>1. PICK k, t, where : /\ Begin(e, r, k, t, where)
                           /\ where \in {"lookup", "claim"}
    <3>1. CASE GitlabLabel(e, r)
      BY <1>4, <3>1, Zenon DEF GitlabLabel
    <3>2. CASE GithubLabel(e, r) \/ JiraLabel(e, r) \/ SlackMention(e, r)
                 \/ SlackThreadMessage(e, r)
      BY <1>4, <3>2, Zenon
      DEF GithubLabel, JiraLabel, SlackMention, SlackThreadMessage
    <3>3. CASE \E k \in Kinds : GitlabNote(e, r, k) \/ GithubComment(e, r, k)
                                    \/ JiraComment(e, r, k)
      BY <1>4, <3>3, Zenon DEF GitlabNote, GithubComment, JiraComment
    <3> QED
      BY <1>4, <3>1, <3>2, <3>3 DEF Deliver
  <2>2. e = d /\ pc[d] = "new" /\ pc'[d] = where
    BY <1>1, <2>1 DEF Begin, TypeOK
  <2>3. Rank(d) = 40 /\ Rank(d)' \in 0..36
    BY <2>1, <2>2 DEF Rank, RankAt, Height, LookingUp, Linking
  <2> QED
    BY <2>3 DEF Advances
<1>5. CASE Restart
  <2>1. CASE pc[d] \in Suspended
    <3>1. pc'[d] = "interrupted"
      BY <1>5, <2>1 DEF Restart
    <3>2. Rank(d)' = 0 /\ Rank(d) > 0
      BY <2>1, <3>1 DEF Rank, RankAt, Height, LookingUp, Linking, Suspended
    <3> QED
      BY <3>2 DEF Advances
  <2>2. CASE pc[d] \notin Suspended
    <3>1. pc'[d] = pc[d] /\ batch'[d] = {}
      BY <1>5, <2>2 DEF Restart
    <3>2. batch[d] = {}
      BY <2>2, <1>1 DEF IInv, QueuedOnOwnResource, Suspended, TypeOK
    <3> QED
      BY <3>1, <3>2
  <2> QED
    BY <2>1, <2>2
<1> QED
  BY <1>2, <1>3, <1>4, <1>5 DEF Next, Age, AgentLink

(* Every run of a coroutine between two awaits brings it closer to its end, *)
(* and nothing else that happens takes it back: no lookup, linking, failed *)
(* sending, creation or cleanup leads round in a circle, so that a          *)
(* coroutine runs at most 40 times and once for every comment it flushes.  *)
THEOREM CoroutinesAdvance ==
    Spec => [][\A d \in Delivery :
                   /\ Step(d) => Advances(d)
                   /\ pc'[d] # pc[d] \/ batch'[d] # batch[d]
                          => Advances(d)]_vars
<1>1. IInv /\ [Next]_vars =>
          [\A d \in Delivery :
               /\ Step(d) => Advances(d)
               /\ pc'[d] # pc[d] \/ batch'[d] # batch[d] => Advances(d)]_vars
  BY StepAdvances, NextAdvances DEF IInv
<1> QED
  BY <1>1, Invariance, PTL DEF Spec

\* Queues hold finitely many comments, for any set of deliveries: an advance
\* within a flush cannot be repeated for ever.
Finite ==
    /\ \A r \in Resource : IsFiniteSet(pending[r])
    /\ \A d \in Delivery : IsFiniteSet(batch[d])

LEMMA StepFinite ==
    ASSUME TypeOK, Finite, NEW d \in Delivery, Step(d)
    PROVE  Finite'
<1>1. \A r \in Resource :
          pending'[r] \subseteq pending[r] \/ pending'[r] = pending[r] \cup {d}
  <2>1. res[d] \in Resource /\ target[d] \in Resource
    BY StepSuspended DEF TypeOK, Suspended
  <2> QED
    BY <2>1
    DEF TypeOK, Step, Lookup, Expire, DeleteEntry, ReadTickets, ReadLinks, Link,
        LinkInsert, LinkTicket, LinkTicketInsert, Queue, Send, Claim, ClaimWrite,
        Create, ReadForStore, StoreConversation, StoreConversationWrite, Flush,
        FlushDelete, FlushSend, Clear, ClearExpire, ClearRow, ClearMessages
<1>2. \A e \in Delivery :
          \/ batch'[e] \subseteq batch[e]
          \/ \E r \in Resource : batch'[e] = pending[r]
  <2>1. res[d] \in Resource
    BY StepSuspended DEF TypeOK, Suspended
  <2> QED
    BY <2>1
    DEF TypeOK, Step, Lookup, Expire, ReadTickets, ReadLinks, Link, LinkInsert,
        LinkTicket, LinkTicketInsert, Queue, Send, Claim, ClaimWrite, Create,
        ReadForStore, StoreConversation, StoreConversationWrite, Flush,
        FlushDelete, FlushSend, Clear, ClearExpire, ClearRow, ClearMessages
<1>3. ASSUME NEW r \in Resource PROVE IsFiniteSet(pending'[r])
  <2>1. IsFiniteSet(pending[r])
    BY DEF Finite
  <2>2. IsFiniteSet(pending[r] \cup {d})
    BY <2>1, FS_AddElement
  <2>3. CASE pending'[r] \subseteq pending[r]
    BY <2>1, <2>3, FS_Subset
  <2> QED
    BY <1>1, <2>2, <2>3
<1>4. ASSUME NEW e \in Delivery PROVE IsFiniteSet(batch'[e])
  <2>1. IsFiniteSet(batch[e]) /\ \A r \in Resource : IsFiniteSet(pending[r])
    BY DEF Finite
  <2>2. CASE batch'[e] \subseteq batch[e]
    BY <2>1, <2>2, FS_Subset
  <2> QED
    BY <1>2, <2>1, <2>2
<1> QED
  BY <1>3, <1>4 DEF Finite

LEMMA NextFinite == TypeOK /\ Finite /\ [Next]_vars => Finite'
<1> SUFFICES ASSUME TypeOK, Finite, [Next]_vars PROVE Finite'
  OBVIOUS
<1>1. ASSUME NEW d \in Delivery, Step(d) PROVE Finite'
  BY <1>1, StepFinite
<1>2. CASE UNCHANGED <<pending, batch>>
  BY <1>2 DEF Finite
<1>3. CASE Restart
  BY <1>3, FS_EmptySet DEF Restart, Finite
<1>4. ASSUME NEW d \in Delivery, NEW r \in Resource, Deliver(d, r)
      PROVE  UNCHANGED <<pending, batch>>
  BY <1>4
  DEF Deliver, GitlabNote, GitlabLabel, GithubComment, GithubLabel,
      SlackMention, SlackThreadMessage, JiraComment, JiraLabel, Begin
<1> QED
  BY <1>1, <1>2, <1>3, <1>4 DEF Next, Age, AgentLink

(* What is queued for a resource, or taken by a flush, is finite.          *)
THEOREM QueuesAreFinite == Spec => []Finite
<1>1. Init => Finite
  BY FS_EmptySet DEF Init, Finite
<1> QED
  BY <1>1, NextFinite, TypeCorrect, PTL DEF Spec
=============================================================================
