--------------------------- MODULE StatusMonitor ---------------------------
(***************************************************************************)
(* The status monitor of the webhooks service: it polls the conversations  *)
(* it tracks, records a new status in conversation_map and writes it into  *)
(* the status comment of the resource.  After a restart it tracks what the *)
(* table says.                                                             *)
(*                                                                         *)
(* Around it, the creation tasks store conversations in the table, fire    *)
(* off the write of the comment's identity and forget it; other handlers   *)
(* claim the same row again or clear it (module WebhookIntake).            *)
(*                                                                         *)
(* Abstracted: the platforms' identities of a comment (a comment is the    *)
(* conversation whose creation posted it), texts, the 20 s interval, the   *)
(* order of polling, chunks of a batch.                                    *)
(***************************************************************************)
EXTENDS Naturals

CONSTANTS
    Conv,         \* conversations, one for each creation that succeeds
    Resource,
    ResourceOf,   \* ResourceOf[c]: what c was created for
    ReportsOf,    \* bound: ReportsOf[c], what the server may report of c
    Reclaimed,    \* bound: resources that other creations claim or clear
    Pending,      \* PENDING_CONVERSATION_ID
    None,
    MaxRestarts   \* bound: restarts of the service

\* "idle" stands for the values that the client's mapping does not name.
Executions == {"running", "awaiting_user_input", "finished", "stopped",
               "error", "paused", "idle"}
Sandboxes == {"STARTING", "RUNNING", "PAUSED", "ERROR", "MISSING"}
Statuses == {"RUNNING", "AWAITING_USER_INPUT", "FINISHED", "STOPPED",
             "ERROR", "CLOSED", "IDLE"}

ASSUME ResourceAssumption == ResourceOf \in [Conv -> Resource]

Report == [exec : Executions \cup {None}, sandbox : Sandboxes]

ASSUME ReclaimedAssumption == Reclaimed \subseteq Resource

ASSUME ReportAssumption == ReportsOf \in [Conv -> SUBSET Report]

ASSUME NamesAssumption ==
    /\ Pending \notin Conv
    /\ None \notin Conv \cup {Pending}
    /\ None \notin Executions \cup Statuses \cup Report

ASSUME MaxRestartsAssumption == MaxRestarts \in Nat

VARIABLES
    row,        \* conversation_map: conversation, status comment, last_status
    task,       \* how far the task that creates c has come
    writing,    \* metadata writes that were started and not awaited
    server,     \* server[c]: what the API would report of c
    tracked,    \* _tracked: the monitor's entries, by conversation_id
    pc,         \* where the monitor is suspended
    asked,      \* the conversations a poll has asked about
    todo,       \* the entries, as objects, the poll has still to look at
    answer,     \* answer[c]: the status the poll was given, or None
    current,    \* the conversation whose update is under way
    sent,       \* sent[n]: whose status was last sent for status comment n
    update,     \* history: how the monitor's last update for c went
    restarts

table   == <<row, task, writing>>
monitor == <<tracked, pc, asked, todo, answer, current>>
outside == <<sent, update>>
vars    == <<row, task, writing, server, tracked, pc, asked, todo, answer,
             current, sent, update, restarts>>

\* conversation_id may be the marker, and then so may a key of _tracked.
Key == Conv \cup {Pending}

NoRow == [conv |-> None, note |-> None, last |-> None]
Row == [conv : Key, note : Conv \cup {None}, last : Statuses \cup {None}]

NotTracked == [note |-> None, last |-> None]
Entry == [note : Conv, last : Statuses \cup {None}]

Entries == {k \in Key : tracked[k] # NotTracked}
ToLookAt == {k \in Key : todo[k] # NotTracked}

TypeOK ==
    /\ row \in [Resource -> Row \cup {NoRow}]
    /\ task \in [Conv -> {"creating", "stored", "ended"}]
    /\ writing \in SUBSET Conv
    /\ server \in [Conv -> Report \cup {None}]
    /\ \A c \in Conv : task[c] # "creating" => server[c] # None
    /\ tracked \in [Key -> Entry \cup {NotTracked}]
    /\ pc \in {"load", "sleep", "fetch", "loop", "record", "show", "dead"}
    /\ asked \in SUBSET Key
    /\ todo \in [Key -> Entry \cup {NotTracked}]
    /\ answer \in [Key -> Statuses \cup {None}]
    /\ current \in Key \cup {None}
    /\ sent \in [Conv -> Conv \cup {None}]
    /\ update \in [Conv -> Statuses \cup {"recorded", "failed", None}]
    /\ restarts \in 0..MaxRestarts
    /\ ToLookAt \subseteq Entries
    /\ pc \in {"record", "show"} => /\ current \in ToLookAt \cap Conv
                                    /\ answer[current] # None

Init ==
    /\ row = [r \in Resource |-> NoRow]
    /\ task = [c \in Conv |-> "creating"]
    /\ writing = {}
    /\ server = [c \in Conv |-> None]
    /\ tracked = [k \in Key |-> NotTracked]
    /\ pc = "load"
    /\ asked = {}
    /\ todo = [k \in Key |-> NotTracked]
    /\ answer = [k \in Key |-> None]
    /\ current = None
    /\ sent = [n \in Conv |-> None]
    /\ update = [c \in Conv |-> None]
    /\ restarts = 0

-----------------------------------------------------------------------------
(* The table and the tasks that write it.                                  *)

\* store_conversation changes conversation_id and nothing else of a row.
Stored(r, k) ==
    [row EXCEPT ![r] = IF @ = NoRow
                       THEN [conv |-> k, note |-> None, last |-> None]
                       ELSE [@ EXCEPT !.conv = k]]

\* A handler claims the resource for a new conversation.
Claim(r) ==
    /\ row' = Stored(r, Pending)
    /\ UNCHANGED <<task, writing, server, monitor, outside, restarts>>

\* clear_conversation, or lookup_conversation on an old marker.
ClearConversation(r) ==
    /\ row[r] # NoRow
    /\ row' = [row EXCEPT ![r] = NoRow]
    /\ UNCHANGED <<task, writing, server, monitor, outside, restarts>>

\* The server has made c; the task stores it.
StoreConversation(c, report) ==
    /\ task[c] = "creating"
    /\ server' = [server EXCEPT ![c] = report]
    /\ row' = Stored(ResourceOf[c], c)
    /\ task' = [task EXCEPT ![c] = "stored"]
    /\ UNCHANGED <<writing, monitor, outside, restarts>>

\* The task writes RUNNING into its comment, whatever comes of it, and
\* registers the conversation.
Track(c) ==
    /\ task[c] = "stored"
    /\ task' = [task EXCEPT ![c] = "ended"]
    /\ tracked' = [tracked EXCEPT ![c] = [note |-> c, last |-> None]]
    /\ writing' = writing \cup {c}
    /\ sent' = [sent EXCEPT ![c] = c]
    /\ UNCHANGED <<row, server, pc, asked, todo, answer, current, update,
                   restarts>>

\* No status comment could be posted, or a step after the store has raised:
\* nothing is tracked.
EndUntracked(c) ==
    /\ task[c] = "stored"
    /\ task' = [task EXCEPT ![c] = "ended"]
    /\ UNCHANGED <<row, writing, server, monitor, outside, restarts>>

NoteAnywhere(c) ==   \* mutant: the WHERE clause is missing
    [r \in Resource |->
        IF row[r] # NoRow THEN [row[r] EXCEPT !.note = c] ELSE row[r]]

\* UPDATE ... WHERE conversation_id = c
NoteOf(c) ==
    [r \in Resource |->
        IF row[r].conv = c THEN [row[r] EXCEPT !.note = c] ELSE row[r]]

\* The coroutine nobody awaits: an exception in it is only reported.
WriteMetadata(c, ok) ==
    /\ c \in writing
    /\ writing' = writing \ {c}
    /\ IF ok THEN row' = NoteOf(c) ELSE UNCHANGED row
    /\ UNCHANGED <<task, server, monitor, outside, restarts>>

-----------------------------------------------------------------------------
(* The server.                                                             *)

MapExecutionStatus ==
    [running |-> "RUNNING", awaiting_user_input |-> "AWAITING_USER_INPUT",
     finished |-> "FINISHED", stopped |-> "STOPPED", error |-> "ERROR",
     paused |-> "STOPPED", idle |-> "IDLE"]

\* Without an execution status the sandbox decides.
StatusOf(report) ==
    IF report.exec # None THEN MapExecutionStatus[report.exec]
    ELSE IF report.sandbox = "PAUSED" THEN "CLOSED"
    ELSE IF report.sandbox \in {"MISSING", "ERROR"} THEN "ERROR"
    ELSE "RUNNING"

Terminal == {"CLOSED", "STOPPED", "ERROR", "FINISHED"}

ServerChanges(c, report) ==
    /\ task[c] # "creating"
    /\ server' = [server EXCEPT ![c] = report]
    /\ UNCHANGED <<table, monitor, outside, restarts>>

-----------------------------------------------------------------------------
(* The monitor.                                                            *)

Loadable(k) ==
    {r \in Resource : /\ row[r].conv = k
                      /\ row[r].note # None
                      /\ row[r].last \notin Terminal}

\* The first row of a conversation_id counts; what tasks have registered
\* meanwhile stays.
Load ==
    /\ pc = "load"
    /\ pc' = "sleep"
    /\ \E first \in [Key -> Resource] :
          /\ \A k \in Key : Loadable(k) # {} => first[k] \in Loadable(k)
          /\ tracked' = [k \in Key |->
                            IF k \in Entries \/ Loadable(k) = {} THEN tracked[k]
                            ELSE [note |-> row[first[k]].note,
                                  last |-> row[first[k]].last]]
    /\ UNCHANGED <<table, server, asked, todo, answer, current, outside, restarts>>

Poll ==
    /\ pc = "sleep"
    /\ Entries # {}
    /\ pc' = "fetch"
    /\ asked' = Entries
    /\ UNCHANGED <<table, server, tracked, todo, answer, current, outside,
                   restarts>>

\* The conversations in `known` are answered: the others are unknown to the
\* server, or the request for their chunk failed.  The entries are copied
\* after the answer, so they may be more than were asked about.
Fetch(known) ==
    /\ pc = "fetch"
    /\ known \subseteq asked \cap Conv
    /\ answer' = [k \in Key |-> IF k \in known THEN StatusOf(server[k]) ELSE None]
    /\ todo' = tracked
    /\ asked' = {}
    /\ pc' = "loop"
    /\ UNCHANGED <<table, server, tracked, current, outside, restarts>>

\* Only HTTP errors are handled around the select and the batch request: any
\* other exception ends _run_loop, and nobody starts it again.
Die ==
    /\ pc \in {"load", "fetch"}
    /\ pc' = "dead"
    /\ asked' = {}
    /\ UNCHANGED <<table, server, tracked, todo, answer, current, outside,
                   restarts>>

DoneWithKeeps(k) ==   \* mutant: the loop runs over _tracked itself
    /\ todo' = todo
    /\ answer' = [answer EXCEPT ![k] = None]
    /\ current' = None
    /\ pc' = "loop"

\* The entry is done with, and dropped if its status is a terminal one: what
\* is deleted is whatever _tracked has under the key by now.
DoneWith(k) ==
    /\ todo' = [todo EXCEPT ![k] = NotTracked]
    /\ answer' = [answer EXCEPT ![k] = None]
    /\ current' = None
    /\ pc' = "loop"

NeverDropped(k) == tracked   \* mutant: the `del` is missing

Dropped(k) ==
    [tracked EXCEPT ![k] = IF answer[k] \in Terminal THEN NotTracked ELSE @]

Skip(k) ==
    /\ pc = "loop" /\ k \in ToLookAt
    /\ answer[k] = None
    /\ DoneWith(k)
    /\ UNCHANGED <<table, server, tracked, asked, outside, restarts>>

SameStatus(k) ==
    /\ pc = "loop" /\ k \in ToLookAt
    /\ answer[k] # None /\ answer[k] = todo[k].last
    /\ DoneWith(k)
    /\ tracked' = Dropped(k)
    /\ UNCHANGED <<table, server, asked, outside, restarts>>

NewStatusDropsFirst(k) ==   \* mutant: a terminal entry is dropped unposted
    /\ pc = "loop" /\ k \in ToLookAt
    /\ answer[k] # None /\ answer[k] # todo[k].last
    /\ IF answer[k] \in Terminal
       THEN DoneWith(k) /\ tracked' = Dropped(k)
       ELSE /\ todo' = [todo EXCEPT ![k].last = answer[k]]
            /\ tracked' = [tracked EXCEPT ![k].last = answer[k]]
            /\ current' = k /\ pc' = "record" /\ UNCHANGED answer
    /\ UNCHANGED <<table, server, asked, outside, restarts>>

NewStatusForgets(k) ==   \* mutant: tc.last_status is not assigned
    /\ pc = "loop" /\ k \in ToLookAt
    /\ answer[k] # None /\ answer[k] # todo[k].last
    /\ current' = k
    /\ pc' = "record"
    /\ UNCHANGED <<table, server, tracked, asked, todo, answer, outside, restarts>>

\* The entry in the loop's copy is the one in _tracked, unless a task has
\* registered the conversation since.
NewStatus(k) ==
    /\ pc = "loop" /\ k \in ToLookAt
    /\ answer[k] # None /\ answer[k] # todo[k].last
    /\ todo' = [todo EXCEPT ![k].last = answer[k]]
    /\ tracked' = IF tracked[k] = todo[k]
                  THEN [tracked EXCEPT ![k].last = answer[k]] ELSE tracked
    /\ current' = k
    /\ pc' = "record"
    /\ UNCHANGED <<table, server, asked, answer, outside, restarts>>

EndPoll ==
    /\ pc = "loop" /\ ToLookAt = {}
    /\ pc' = "sleep"
    /\ UNCHANGED <<table, server, tracked, asked, todo, answer, current,
                   outside, restarts>>

\* UPDATE ... WHERE conversation_id = c
LastOf(c, status) ==
    [r \in Resource |->
        IF row[r].conv = c THEN [row[r] EXCEPT !.last = status] ELSE row[r]]

RecordNothing(ok) ==   \* mutant: update_last_status is missing
    /\ pc = "record"
    /\ pc' = "show"
    /\ UNCHANGED <<table, server, tracked, asked, todo, answer, current,
                   outside, restarts>>

\* update_last_status; an exception gives this entry up for this poll, and
\* the entry has its new status already.
Record(ok) ==
    /\ pc = "record"
    /\ update' = [update EXCEPT ![current] = IF ok THEN "recorded" ELSE "failed"]
    /\ IF ok
       THEN /\ row' = LastOf(current, answer[current])
            /\ pc' = "show"
            /\ UNCHANGED <<todo, answer, current>>
       ELSE DoneWith(current) /\ UNCHANGED row
    /\ UNCHANGED <<task, writing, server, tracked, asked, sent, restarts>>

\* The update of the comment.  Its HTTP errors are swallowed (ok); any other
\* exception leaves the entry for the next poll.
Show(ok) ==
    /\ pc = "show"
    /\ DoneWith(current)
    /\ update' = [update EXCEPT ![current] = answer[current]]
    /\ sent' = [sent EXCEPT ![todo[current].note] = current]
    /\ tracked' = IF ok THEN Dropped(current) ELSE tracked
    /\ UNCHANGED <<table, server, asked, restarts>>

\* The service stops and starts again: the tasks, the writes nobody awaited
\* and the entries are gone.
Restart ==
    /\ restarts < MaxRestarts
    /\ restarts' = restarts + 1
    /\ task' = [c \in Conv |-> IF task[c] = "stored" THEN "ended" ELSE task[c]]
    /\ writing' = {}
    /\ tracked' = [k \in Key |-> NotTracked]
    /\ pc' = "load"
    /\ asked' = {}
    /\ todo' = [k \in Key |-> NotTracked]
    /\ answer' = [k \in Key |-> None]
    /\ current' = None
    /\ UNCHANGED <<row, server, outside>>

-----------------------------------------------------------------------------

Look(k) == Skip(k) \/ SameStatus(k) \/ NewStatus(k)

Monitor ==
    \/ Load \/ Poll \/ EndPoll
    \/ \E known \in SUBSET asked : Fetch(known)
    \/ \E k \in Key : Look(k)
    \/ \E ok \in BOOLEAN : Record(ok) \/ Show(ok)

Next ==
    \/ \E r \in Reclaimed : Claim(r) \/ ClearConversation(r)
    \/ \E c \in Conv : \E report \in ReportsOf[c] :
          StoreConversation(c, report) \/ ServerChanges(c, report)
    \/ \E c \in Conv : Track(c) \/ EndUntracked(c)
    \/ \E c \in Conv, ok \in BOOLEAN : WriteMetadata(c, ok)
    \/ Monitor
    \/ Die
    \/ Restart

Spec == Init /\ [][Next]_vars

\* The event loop runs the monitor, whose awaits end; a conversation that is
\* asked about again and again is answered in the end.
FairSpec ==
    /\ Spec
    /\ WF_vars(Monitor)
    /\ \A c \in Conv :
          SF_vars(\E known \in SUBSET asked : c \in known /\ Fetch(known))

-----------------------------------------------------------------------------
(* Properties.                                                             *)

(* The status of a conversation is never written into a status comment of  *)
(* another resource, whatever was claimed, cleared and stored under the    *)
(* entry and whichever writes a restart has cut off.                       *)
SendsToOwnResource ==
    \A n \in Conv :
        sent[n] # None => ResourceOf[sent[n]] = ResourceOf[n]

(* What a restart would resume from is what the monitor has acted on: the  *)
(* row of a tracked conversation has the entry's last status, unless the   *)
(* conversation is new, or its update failed or is under way.              *)
LastStatusAgrees ==
    \A c \in Conv, r \in Resource :
        /\ row[r].conv = c
        /\ c \in Entries /\ tracked[c].last # None
        /\ update[c] # "failed"
        /\ ~(pc = "record" /\ current = c)
        => row[r].last = tracked[c].last

Reported == UNION {ReportsOf[c] : c \in Conv}

\* A restart came between the record of c's status and the comment.
PostCutOff(c) == update[c] = "recorded" /\ ~(pc = "show" /\ current = c)

(* A status that stays is posted: the monitor tries to write it into the   *)
(* comment, unless it dies, the record of a status fails, a restart cuts   *)
(* an update off, or a terminal status, perhaps an old answer, has already *)
(* been posted and ended the tracking.                                     *)
LastStatusIsPosted ==
    \A c \in Conv, report \in Reported, n \in 0..MaxRestarts :
        /\ c \in Entries /\ ~PostCutOff(c)
        /\ [](server[c] = report /\ restarts = n)
        ~> \/ update[c] \in {StatusOf(report), "failed"}
           \/ c \notin Entries /\ update[c] \in Terminal
           \/ pc = "dead"

Ending == {report \in Reported : StatusOf(report) \in Terminal}

(* A conversation that has ended for good is polled no more.               *)
TerminalIsDropped ==
    \A c \in Conv, n \in 0..MaxRestarts :
        /\ c \in Entries
        /\ [](server[c] \in Ending /\ restarts = n)
        ~> c \notin Entries \/ pc = "dead"

-----------------------------------------------------------------------------
(* The inductive invariant.                                                *)

\* A conversation is in no row but its resource's, and not before it exists;
\* the same holds of the status comments.
RowsAreOwn ==
    \A r \in Resource :
        /\ row[r].conv \in Conv => /\ ResourceOf[row[r].conv] = r
                                  /\ task[row[r].conv] # "creating"
        /\ row[r].note # None => ResourceOf[row[r].note] = r

\* What is tracked exists, and its comment is about the same resource.
EntriesAreOwn ==
    \A c \in Conv :
        /\ tracked[c] # NotTracked =>
              /\ ResourceOf[tracked[c].note] = ResourceOf[c]
              /\ task[c] # "creating"
        /\ todo[c] # NotTracked => ResourceOf[todo[c].note] = ResourceOf[c]
        /\ c \in asked => task[c] # "creating"

\* An entry of the copy is the one in _tracked, or a task has replaced it.
CopyIsTracked ==
    \A k \in ToLookAt : tracked[k] = todo[k] \/ tracked[k].last = None

\* An update works on the status it was given, and its record precedes it.
UpdateInOrder ==
    /\ answer[Pending] = None
    /\ pc \in {"record", "show"} => todo[current].last = answer[current]
    /\ pc = "show" => update[current] = "recorded"

(* The invariant that every step preserves, and which implies the others:  *)
(* no handler, task or restart breaks the link between a row, the entry    *)
(* loaded from it and the comment that the entry's update writes.          *)
IInv ==
    /\ TypeOK
    /\ RowsAreOwn
    /\ EntriesAreOwn
    /\ CopyIsTracked
    /\ UpdateInOrder
    /\ SendsToOwnResource
    /\ LastStatusAgrees

-----------------------------------------------------------------------------
(* What the sources say and the code does not do.                          *)

(* "Reloads active conversations from the database on startup"             *)
(* (status_monitor.py:4-5): the load tracks a conversation whose row has   *)
(* its status comment if no status of it was ever recorded.  The row may   *)
(* have kept the last_status of the conversation before it.                *)
ReloadsActive ==
    [][\A c \in Conv :
          LET entry == row[ResourceOf[c]]
          IN  Load /\ entry.conv = c /\ entry.note = c /\ update[c] = None
              => c \in Entries']_vars
=============================================================================
