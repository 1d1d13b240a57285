# openhands-nix: TLA+ models, checks and proofs

This directory specifies the parts of openhands-nix that keep state and run
concurrently: the webhooks service, which turns events of GitLab, GitHub, Slack
and Jira into OpenHands conversations; the lifecycle service, which resumes,
pauses and removes sandboxes; the sandbox service of the server, which keeps a
sandbox's Kubernetes objects; the credential broker; and the workspaces of the
SDK. TLC checks the models on small instances; TLAPS proves the safety results
for every value of the constants.

    tlc -workers 2 -config WebhookIntake.cfg MCWebhookIntake
    tlc -workers 2 -config Sandbox.cfg MCSandbox
    tlapm SandboxProofs.tla

| section | module | run | proofs |
|---|---|---|---|
| 3 | `WebhookIntake`, contract `CommentFate` | `intake`, `intake_live`, `expiry`, `ticket` | `WebhookIntakeProofs` |
| 4 | `StatusMonitor` | `status`, `status_live`, `reload` | `StatusMonitorProofs` |
| 5 | `Sandbox`, contract `Cluster` | `sandbox` | `SandboxProofs` |
| 6 | `OrphanCleanup`, on `Cluster` | `orphans` | `OrphanCleanupProofs`, with `Sandbox`: `SandboxCleanup` |
| 7 | `MessageDelivery`, contract `MessageChannel` | `delivery` | `MessageDeliveryProofs` |
| 8 | `TokenCache` | `tokens` | `TokenCacheProofs` |
| 9 | `Workspace` | `workspace` | `WorkspaceProofs` |

Source paths below are relative to `src/`; `W/` is
`services/webhooks/src/openhands_webhooks/`, `C/` is
`services/common/src/openhands_common/`, `L/` is
`services/lifecycle/src/openhands_lifecycle/`, `B/` is
`services/broker/src/openhands_broker/`, `KS` is
`pkgs/server/kubernetes_sandbox.py` and `K/` is
`pkgs/kubernetes-workspace/src/openhands_nix/`.

## 1. Inventory

| component | state it keeps | operations | what makes it correct |
|---|---|---|---|
| Webhook handlers `W/handlers/*.py` | none of their own; a coroutine per delivery | comment, mention, label events; `_background_create_conversation`; `_clear_pending` | a comment goes to one conversation, to a second only where a send failed after receipt or two flushes crossed; a claimed resource is always given a conversation or released |
| Conversation store `C/db.py`, `C/models.py` | `conversation_map`, `jira_tickets`, `resource_links`, `pending_messages`, `credential_scopes` | lookup (with expiry), store, link, queue, flush, clear | a mapping names a conversation made for that resource; what was accepted, or taken from a queue, is queued no more |
| OpenHands client `W/openhands_client.py` | none; the server's start tasks | create and poll, send, list, stop | a message answered `True` is somewhere; creation ends |
| Status monitor `W/status_monitor.py` | `_tracked`, `last_status` in the table | track, load from the database, poll, stop | a comment ends up showing the conversation's last status |
| Messaging `C/messaging.py`, resume handler `L/resume.py` | one RabbitMQ exchange, a queue per service | publish, subscribe, `handle_conversation_message` | a message published is stored before it is acknowledged, or its loss is one the code accepts; it is stored again only if RabbitMQ hands it out again |
| Lifecycle clean-up `L/cleanup.py`, `L/k8s.py`, `L/app.py` | none; snapshots of conversations and of Kubernetes | pause idle conversations, delete orphaned sandboxes, delete old volumes | nothing in use is paused or deleted |
| Sandbox service `pkgs/server/kubernetes_sandbox.py` | Job, Service, Ingress, ServiceAccount, PVC of a sandbox | start, get (recreates), resume, pause, delete, search | a Job keeps what it needs; a recreation spares a live Job; a key that is handed out opens a sandbox |
| Startup recovery `pkgs/server/startup_recovery.py` | the start-task table | fail what a crash interrupted | no start task is left to be polled in vain |
| Credential broker `services/broker/` | token caches of GitHub App and Jira | verify the sandbox, proxy the request | a request starts with a token that stays valid for the slack, less what its arrival took |
| Workspaces `pkgs/kubernetes-workspace/` | a Job or a CSI sandbox and a port-forward | create, wait, execute, clean up | resources go when the workspace goes; another workspace's server answers only if that workspace took the port in between and kubectl was too slow, or ended |
| Response clients `W/responses/*.py` | token caches | post, update, react | errors are swallowed, nothing is read back |
| Runtimes, registration, Nix packaging and modules | none while running | build and start the programs | not a state machine |

Interactions. A handler or its task reads and writes the store, calls the
OpenHands API, and registers the conversation with the monitor. When a sandbox
is paused or unreachable, `send_message` publishes `conversation.message`, which
the lifecycle service's `resume.py` turns into a pending-messages call and a
resume. The lifecycle service also pauses and deletes sandboxes on its own
timers, from snapshots. The sandbox service is called by the OpenHands server for
both, and recreates a sandbox whose Job is gone when its volume is there.

What is hard. All of a service's coroutines interleave at every `await`, and the
store's helpers select and then write in READ COMMITTED transactions, so two of
them can cross. The claim on a resource is a marker value (`"__pending__"`) that
expires by its age, not by what its creator does. Nothing is retried: a handler,
a task or a flush that fails or is cut off by a restart leaves whatever it had
done. The clean-up loops act on snapshots. `PROJECT.json` lists each hazard at
its line with the properties that cover it, and with a note where a property only
names what the code does, or where none speaks of it.

## 2. Plan

Done, in this order: message handling first (`WebhookIntake`), because it is the
program's purpose and has the most interleaving; what shows its result
(`StatusMonitor`); the objects under it (`Cluster`, `Sandbox`, `OrphanCleanup`) and
the path between them (`MessageDelivery`); then the rest by size (`TokenCache`,
`Workspace`).

Which module composes which. `Cluster` holds a contract with two parties, the
sandbox service and the orphan cleanup. `Sandbox` EXTENDS it with the service, beside
the calls the contract leaves to the cleanup; `OrphanCleanup` EXTENDS it with the
cleanup, beside the calls it leaves to the service. Each is checked without the other's
states, and `SandboxCleanup` puts the two on one cluster and proves that each keeps
the part of the contract the other relies upon (section 6). `WebhookIntake` is shown
to implement `CommentFate`, and `MessageDelivery` to implement `MessageChannel`.
`MessageDelivery` takes the sandbox's states from `Sandbox` (what a
resume does to a Job that has ended, a Job that is gone) without its objects, and
`WebhookIntake` takes `Send` with the outcomes that `MessageDelivery` details.

Left: the start tasks that creation polls, with the recovery at the server's start,
and `OrphanCleanup` beside tasks that die between the sandbox and the conversation
(the tasks' coroutines belong to OpenHands); the order of comments, which needs
the queues of `WebhookIntake` and `MessageDelivery` in one model.

Each module states its invariants as conjunctions of named parts and has no
recursion, so that the proofs can follow the same layout.

## 3. WebhookIntake

### State and actions

| variable | code |
|---|---|
| `row` | `conversation_map`: `conv` is `conversation_id`, `id` the primary key, `old` that `created_at` is more than 120 s ago; `by`, who wrote `conv` last, is history for the properties |
| `ticket`, `link` | `jira_tickets`, `resource_links` |
| `pending` | `pending_messages`, by resource |
| `created`, `accepted` | the OpenHands server: which conversations exist, what each was given |
| `pc`, `res`, `kind`, `target`, `found`, `seen`, `batch` | the handler of a delivery and, after `asyncio.create_task`, its task: where it is suspended and its local variables |

A delivery `d` names the comment it brings, the task its handler may start and
the conversation this task makes. `Deliver` has an action for each handler;
`Lookup`, `Expire`, `ReadTickets` and `ReadLinks` are the search for an existing
conversation, done twice by the GitLab handler when the texts name a Jira issue
(`target` is what is being looked up); `Verdict` is the handler's `if` ladder.
Each helper that selects and then writes is two actions (`Claim`/`ClaimWrite`,
`StoreConversation`/`StoreConversationWrite`, `Link`/`LinkInsert`,
`LinkTicket`/`LinkTicketInsert`, `Flush`/`FlushDelete`, `Lookup`/`Expire`), and
the second one meets whatever has happened in between: an insert meets the
unique constraint, an update that finds no row raises, a delete by resource
takes what is there. `Create` is `create_conversation` with its polling: it
succeeds, or reports failure, in which case the server may or may not have made
the conversation. `Send` and `FlushSend` are `send_message`, with its three
outcomes (delivered, failed, raised), of which the last two may come after the
conversation has got the comment (`SendMessage`). `Clear...` is `_clear_pending`. `Age`, `AgentLink` and `Restart` are
the clock, `POST /conversations/link` and a restart of the service.

The deployment runs one replica with strategy Recreate
(`kubernetes/webhooks.nix`), so all coroutines belong to one process and a
restart ends them together.

### Properties

* `TypeOK`. Beyond types, a suspended coroutine has a resource to look up and a
  row names a conversation or the marker, never an empty answer.
* `MarkerHasCreator`. A marker has its creator at work on it, unless that
  creator was cut off. Two creations for one resource can cross (one may store,
  clear or expire under the other), and still neither leaves a marker behind.
* `MappedToOwnConversation`. What rows, tickets and links name exists, and a row
  names a conversation made for that resource.
* `NoRedelivery`. What a conversation accepted, or a flush has committed to
  taking, is in no queue, and no task still has to send what its conversation got.
* `KeepsCommentFate`. WebhookIntake implements `CommentFate`, which follows a comment
  by its stage (new, open, queued, closed), the tasks that have read it from a queue
  (`hands`) and the conversations that got it (`given`). A handler gives it to one
  conversation, and to a second only if that is the one it makes for it after a send
  that seemed to fail. A queued comment is given to nobody before it has left the
  queue, never comes back to it, and is then given only by tasks that had read it
  while it was queued, by each at most once. So a comment can reach two conversations
  in two ways, and TLC reaches both: `send_message` fails after receipt
  (`W/openhands_client.py:203`), or two creations for one resource both read the
  queue (`C/db.py:364-375`) before either deletes it. The contract names these two
  and excludes all others. Loss is part of it, since the code loses comments (failed
  creation, expiry, restart, the window of `get_and_clear`).
* `MarkerResolves`, `EveryCommentSettles`. Under fairness, a marker goes away
  and a comment does not stay in a handler's or a flush's hands. It may stay in the
  queue: a comment that is queued after the last flush, or under the own id of a merge
  request whose Jira issue is pending, is not covered by them.

### Runs

| run | configuration | what it asks |
|---|---|---|
| `intake` | `WebhookIntake.cfg` | three deliveries about one GitLab merge request, one restart: the safety properties and the refinement |
| `intake_live` | `WebhookIntakeLive.cfg` | two deliveries about any of four resources, one per platform, the merge request naming the Jira issue and linked by an agent; liveness under fairness, and the inductive invariant `IInv` with the Jira tables in play |
| `expiry` | `WebhookExpiry.cfg` | refutes that only stuck markers expire |
| `ticket` | `WebhookTicket.cfg` | refutes that comments are queued only while somebody creates |

Bounds. Three deliveries are what the crossing cases need: one creates, one
expires or replaces its marker, one queues. Every interference is about one
resource, or a merge request and its Jira issue, hence one resource in `intake`
and one per platform in `intake_live`. The double read of a queue takes all three
deliveries: two creations and a comment that is queued. One restart shows every cut: a second one
starts from tables the first can already leave. `AgentLinked` is one resource,
because a link is insert-only and read by resource. Symmetry of deliveries is used
in `intake` only, which has no liveness property. Deadlock checking is off: the
deliveries are a finite set, and when all have ended nothing need happen.

Fairness. `FairSpec` asks that each coroutine that can go on does (the event
loop) and that its awaits end: the HTTP calls have timeouts of 10 and 30 s, and
polling stops after 310 attempts (`W/openhands_client.py:81`). Nothing is assumed
of new deliveries, ages, agents or restarts; `intake_live` has no restart, because
after one the coroutines are gone and the contract lets their comments be lost.

### What is proved

`WebhookIntakeProofs`, for any finite or infinite sets
of deliveries and resources, from the named assumptions of `WebhookIntake` alone
(a resource has one of four platforms; only GitLab texts are searched for Jira
keys, and those keys are Jira issues; `None`, the marker and deliveries are
distinct):

| theorem | says |
|---|---|
| `TypeCorrect` | `Spec => []TypeOK` |
| `Invariance` | `Spec => []IInv` |
| `MarkersHaveCreators`, `MappingsAreOwn`, `NothingIsRedelivered` | the three invariants of the run `intake` |
| `CommentFateIsKept` | `Spec => KeepsCommentFate` |
| `CoroutinesAdvance` | every run of a coroutine lowers its rank, or takes a comment from its batch, and nothing else moves it |
| `QueuesAreFinite` | queues and batches hold finitely many comments |

None of the three invariants is inductive. A marker keeps its creator only
because a task's own store replaces it, which needs that no row names a
conversation before its task has stored it (`StoredByTask`) and that only the task
past `create_conversation` has one (`MadeByTask`). A flushed comment stays out of the
queue only because it has an ended handler (`QueuedOnOwnResource`), and an accepted
one because its handler has tried to send it, or its task has made the conversation,
and neither queues after that (`AcceptedInPast`, `Deciding`).
`IInv` is their conjunction. The proof first shows type correctness (one lemma for
the coroutine's move, one for the tables), then each part of `IInv` by the actions
that can disturb it, with frame lemmas for the rest; the refinement follows from
`IInv`, one step per action of the contract. `NoRedelivery` is what it rests on for a
flushed comment: a task's conversation does not have what the task has yet to send,
hence the second gift of the same task is excluded and that of another is not.

The last two theorems are what can be proved of `MarkerResolves` and
`EveryCommentSettles`. `Rank` gives every place where a coroutine can be suspended a
number, by what it is looking up (the resource itself comes before its Jira issue) and
by what it links (GitLab before it acts, Jira the marker before the creation and the
conversation after it). A run of the coroutine lowers the number, or, in the
flush, leaves it and takes one comment from a finite batch. So no handler or
task, whatever the others do to the tables in between, goes round in a circle: it
runs at most 40 times and once for each comment it flushes. The two properties need in
addition that a suspended coroutine can always run (`ENABLED`) and that the event
loop lets it (the fairness above).

Only model-checked: the two liveness properties as such (TLAPS has no way to
discharge `ENABLED`), and the two refuted statements.

### Findings

* `expiry`. `lookup_conversation` documents that it "auto-clears stuck pending
  entries" (`C/db.py:65`), but goes by the age of the row: after 120 s a second
  delivery expires the marker, and the queue, of a creation that may poll for
  620 s.
* `ticket`. `store_pending_message` queues "for a resource whose conversation is
  still being created" (`C/db.py:349`). The Jira handler links the issue to the
  marker in `jira_tickets` (`W/handlers/jira.py:149`), where nothing ever replaces it,
  and `_clear_pending` deletes only the row of `conversation_map`: after one failed
  creation later comments are queued with no creation under way.

### What the model leaves out

* The order of queued comments (`batch` and `pending` are sets).
* Texts, reactions and status comments; the signature, user and own-comment
  filters, which drop a delivery before it touches state; texts with more than
  one Jira key.
* The metadata columns and `last_status`, which are `StatusMonitor`'s;
  `credential_scopes` (no service calls its helpers).
* An exception other than an HTTP error in the last update of the status comment:
  it would discard the queue once more, as a failed flush does.
* Database failures other than the constraint and the vanished row.
* What the server does after `create_conversation` gave up and the service
  restarted: a conversation nobody hears of changes nothing here.

## 4. StatusMonitor

### State and actions

| variable | code |
|---|---|
| `row` | the columns of `conversation_map` the monitor uses: `conv` is `conversation_id`, `note` the comment's identity (`note_id` and its companions, or the Slack timestamp), `last` is `last_status` |
| `task` | the creation task of a conversation: before its `store_conversation`, after it, ended |
| `writing` | the metadata writes started with `asyncio.create_task` and not yet done |
| `server` | what the OpenHands API would report of a conversation |
| `tracked` | `_tracked`, by conversation id |
| `pc`, `asked`, `todo`, `answer`, `current` | where the monitor's coroutine is suspended, and the locals of `_poll_once`: `conv_ids`, the copied items it has still to look at, `statuses`, and the entry whose update is under way |
| `sent`, `update` | history: whose status was last sent for a status comment; how the monitor's last update of a conversation went |

A status comment is named by the conversation whose creation posted it, so a row
that holds the comment of an earlier conversation is visible. `Track` is the end of
a successful creation: the first `RUNNING`, the entry, and the write nobody
awaits, which `WriteMetadata` performs later, or fails to. `Claim`, `ClearConversation`
and `StoreConversation` are the writes of other handlers and tasks to the same
rows; an upsert changes `conv` and keeps `note` and `last`, as the code does. `Load`
is `_load_from_db`, which runs while tasks may already register conversations;
`Poll` and `Fetch` are the batch request, answered for any subset (unknown
conversations, failed chunks) by the server's state at that moment, after which
the entries are copied. `Skip`, `SameStatus` and `NewStatus` are the branches of the
loop, `Record` is `update_last_status`, `Show` the comment's update, each with
its failure; `Die` is an exception nobody handles in `_run_loop`.

### Properties

* `TypeOK`. Beyond types, whatever a poll still has to look at is tracked (its `del`
  cannot raise), and an update under way has a status.
* `SendsToOwnResource`. A status is never sent for the status comment of another
  resource, although metadata are written by conversation id, late, into rows that
  change hands.
* `LastStatusAgrees`. The row of a tracked conversation has the entry's last
  status, so a restart resumes from what the monitor acted on; the exceptions are the
  code's: a failed record, or one under way.
* `LastStatusIsPosted`. A status that stays is posted. Excluded is what the code
  gives up: a dead monitor, a failed record, an update cut off by a restart, and a
  terminal status, possibly old, that has already ended the tracking.
* `TerminalIsDropped`. A conversation that has ended is polled no more.

### Runs

| run | configuration | what it asks |
|---|---|---|
| `status` | `StatusMonitor.cfg` | two conversations about two resources, one of them claimed and cleared at any time, one restart: the invariants and the inductive `IInv` |
| `status_live` | `StatusMonitorLive.cfg` | two conversations about one resource, one of which has ended: the liveness properties |
| `reload` | `StatusMonitorReload.cfg` | refutes that active conversations are reloaded |

Bounds. Interference goes through a row (its owner, other handlers) or through
a comment, so two conversations suffice: about two resources in `status`, to tell
their comments apart, about one in the others, where the second takes over the
row of the first. `ReportsOf` has one status that tracks on and one terminal status for
a conversation, since the code tells no more apart. `Reclaimed` is one resource, to
compare with one that is left alone, and none in `status_live`, which has no
restart and hence no reader of the table. One restart is enough: after it the
monitor starts from a table and a task set that the first start could also meet.
Deadlock checking is off, since a dead monitor and ended tasks have nothing to do.

Fairness. `WF_vars(Monitor)`: the event loop runs the monitor's coroutine, the sleep
ends after 20 s and its HTTP calls have timeouts of 15 s or less. The strong fairness on
`Fetch` says that a conversation which is asked about again and again is answered
in the end, that is, that the API does not fail or forget it for ever. Nothing
is assumed of tasks, the server's state, metadata writes, or that the monitor lives.

### What is proved

`StatusMonitorProofs`, for any sets of conversations and resources, any reports and any
number of restarts, from the named assumptions of `StatusMonitor`:
`Invariance` (`Spec => []IInv`), `TypeCorrect`, `StatusesGoToOwnResource` and
`RecordedStatusAgrees` (the invariants of the run `status`).

`SendsToOwnResource` needs that rows (`RowsAreOwn`) and entries (`EntriesAreOwn`)
stay with their resource: the metadata write goes by conversation id, and only
the row of its own resource ever names a conversation. `LastStatusAgrees` needs that an
entry of the poll's copy is the tracked one or was replaced by a task, with no
last status yet (`CopyIsTracked`), and that a status is set on the entry before
it is recorded, and recorded before it is sent (`UpdateInOrder`). `TypeOK` itself
needs `EntriesAreOwn`: what is asked about exists. The proof has a lemma for each
part and in it a step for each action that can disturb it.

Only model-checked: `LastStatusIsPosted`, `TerminalIsDropped` (liveness), and the
refuted statement.

### Finding

* `reload`. The module "reloads active conversations from the database on startup"
  (`W/status_monitor.py:4-5`), but skips rows with a terminal `last_status`, and
  `store_conversation` leaves the `last_status` of the previous conversation in
  the row it gives to the next (`C/db.py:128-129`).

### What the model leaves out

* The 20 s interval, the chunks of 20 (one `Fetch` answers any subset), texts and
  emoji, and the split of a GitHub resource id into owner, repository and number.
* The statements of `store_conversation` one by one, and creations that fail: they
  are `WebhookIntake`'s, and here only their effect on a row matters.
* Whether a platform shows what it was sent: its HTTP errors are swallowed, and
  nothing reads a comment back.

## 5. Cluster and Sandbox

### State and actions

| variable | code |
|---|---|
| `parts`, `job`, `pods` | the objects of a sandbox in Kubernetes; `job[s].key` is the session key in the Job's environment, `end` its completion |
| `born`, `marred` | history: keys of Jobs that were created; sandboxes a call about which has failed, or that have lost a part to the cleanup, since their start |
| `req` | a request to the service: operation, place in it, kinds left to delete or create (`todo`), the Job as it was read (`seen`), the answer and the key in it |
| `turn` | the request that has the event loop |
| `used`, `faults` | keys generated; failed calls (bound) |

`Cluster` has the calls (`CreateJob`, `CreatePart`, `Remove`, `Suspend`), the
controllers (`PodCreated`, `PodRuns`, `PodEnds`, `PodGone`, `JobExpires`, external)
and the contract. The server's part is `ServerCall`: no object of a sandbox that has a
Job is taken away unless a call about the sandbox has failed, and a claim with the
preserve label never is. The cleanup's part is `CleanupCall`: it deletes Jobs, Services
and Ingresses whenever it likes, and nothing else. A Service that it takes from a sandbox
mars it, so that the cleanup is an environment as hostile as its code allows; whom it
spares is the subject of section 6. `Sandbox` is the service, one call to Kubernetes per action:
`Begin` is a request's arrival; `ReadJob`, `ReadClaim`, `Clear`, `Wake` lead `get`,
`batch_get`, `resume` and `pause` to the Job, or to the deletions and the sleep of
`_recreate_sandbox`; `Render` and `Apply` are `start_sandbox`, the latter in
whatever order kubenix renders the manifests; `ListPods` is `_job_to_sandbox_info`;
`Replace` writes the Job back and is refused if it has changed; `Purge` is
`delete_sandbox`. Each call may fail, with the answer the code gives then. The
Kubernetes client blocks, so a request gives up the event loop only at
`asyncio.sleep(1)` (`KS:507`), which is what `turn` says; the controllers and the
cleanup, which is another process, step in anywhere. One replica is assumed, which is the default of `kubernetes/server.nix:101`.

### Properties

* `JobIsServed`. A Job has its ServiceAccount, claim, Service and Ingress, unless a
  start is still applying them or a call has failed: a delete, pause or second
  recreation during the sleep of a recreation does not take them from under it.
* `KeyOpensSandbox`. A key handed out is the key of a Job that was created: of two
  recreations that meet, the one that finds the other's Job fails on 409 and answers
  nothing, since only for the Job is 409 an error.
* `RecreateSparesJob`. The deletions of a recreation never hit a Job.
* `OnlyDeleteTakesClaim`. The claim, which is the user's work, goes only in
  `delete_sandbox`, and not even then if it is preserved: whatever recreations, failed
  starts, expired Jobs and cleanups come before, no step of theirs takes it.
* `KeepsContract`. `Sandbox` implements `Cluster`.
* `TypeOK` includes that every phase of a pod maps to a status the answer knows.

### Run and bounds

`sandbox`: one sandbox, two requests of any operation, two keys, one failing call,
everything rendered, the cleanup's calls at any time. Requests about different sandboxes touch no common object;
the hazards are pairs of requests that meet at the sleep, and a third would sleep
with the same knowledge as the second. The claim of the sandbox carries
the preserve label, so that in the run nobody may take it; that an unpreserved claim
goes only in `delete_sandbox` is left to the proof. Two keys allow each request one start, and
the model stops when they are used up (hence CHECK_DEADLOCK FALSE). One failing call
can be any of the calls of either request.

### What is proved

For any sandboxes, requests, keys, rendered kinds and number of failures:
`Invariance`, `TypeCorrect`, `JobsAreServed`, `KeysOpenSandboxes`,
`RecreationSparesJobs`, `WorkspacesOutliveJobs` (`Spec => OnlyDeleteTakesClaim`),
`ServiceKeepsContract`. `JobIsServed` is not inductive: what
a request is about to do depends on what it has found. `RequestIsSound` says that
between two awaits its knowledge holds (there is no Job while it looks at the claim
and clears; what it has applied is there; a purge past the Job has left none),
because it has the turn, and `KeysAreBorn` that Jobs have keys that were generated.
The refinement follows: `MayRemove` needs exactly that there is no Job, or a
failure, when a part is deleted. That the cleanup's calls preserve all of it is the
lemma `CleanupStep`: what a request knows of its Job is that there is none, which
stays true when Jobs are deleted, or that it has applied a part, which a marred
sandbox is not asked for. The claim: `TakesClaimInPurge` goes through the service's
actions (a recreation leaves the claim out of what it clears because `ReadClaim` has
seen it), and the controllers and the cleanup never touch one.

Left out: a claim that is deleted while a pod uses it stays Terminating until the pod
is gone (`pvc-protection`), and creating it meanwhile gets the 409 that the code
tolerates (`KS:216-218`), after which it goes. Here a deletion is immediate.

## 6. OrphanCleanup

### State and actions

`conv[s]` is the conversation attached to a sandbox, `aged` the pods (by key) past
the minimum age; `cleaner`, `ids`, `page` and `left` are the cleanup's place and
locals: the sandbox ids from Kubernetes, what `_list_conversations` returned, and
the objects still to delete. `ListSandboxes` and `ListConversations` are the two
listings (the latter computes each sandbox status as `batch_get_sandboxes` does,
and shows MISSING for a failed call); `Weigh` is the loop's round for one sandbox,
with the age of the first pod; `Delete` is `delete_sandbox_resources`; `Done` ends
the pass. A `Delete` is `TakeAway` of the contract. The other steps are `ServerNext`,
i.e. anything the server and the controllers may do, the attachment, change and end of
conversations, and ageing pods.

### Properties

* `InUseIsSpared`. A sandbox whose conversation has been live and whose Job has been
  there since the listing is not found to be an orphan, if all conversations fit the
  page and no call fails. The hypothesis is the code's limit (`L/cleanup.py:35`):
  beyond 100 conversations a sandbox in use can be missing from the page.
* `YoungIsSpared`. A sandbox with young pods only since the listing is spared,
  whether or not its conversation has been stored yet.

### Run, bounds and proofs

`orphans`: one sandbox, two keys (two generations of its Job), a page of one, one
failing call. The cleanup weighs each sandbox by its own page entry and pods, and
only the page relates sandboxes; the proofs (`Invariance`, `TypeCorrect`,
`SandboxesInUseAreSpared`, `YoungSandboxesAreSpared`) hold for any finite set of
sandboxes and any page size. `InUseIsSpared` needs `UseIsSeen` (a page that holds all
conversations shows a sandbox in use as such, by the counting lemma `PageHoldsAll`)
and `NothingLeftBefore`. The theorems assume of the server only the contract.

### Both on one cluster

`SandboxCleanup` is the composition: `PairSpec` has the steps of the service, of the
controllers, of the cleanup and of the conversations, on the same objects, each leaving
the other's locals alone (the cleanup's failures are counted in `missed`). Nothing in it
is abstract any more: the calls that `Sandbox` expects of the cleanup are those
`OrphanCleanup` makes, and the other way round. The argument is circular (each
process keeps its part of the contract because the other keeps its own), and sound
because it goes by steps: if both invariants hold before a step, the step is one that
the contract allows (`ServerIsExpected`, `CleanerIsExpected`), hence both hold after it.

| theorem | says |
|---|---|
| `PairInvariance` | both inductive invariants hold of the pair |
| `ServiceBesideCleanup`, `CleanupBesideService` | the pair implements `Sandbox`, and `OrphanCleanup` |
| `PairIsSafe` | `JobIsServed`, `KeyOpensSandbox`, `RecreateSparesJob`, `OnlyDeleteTakesClaim`, `InUseIsSpared` and `YoungIsSpared` hold of the pair |

They hold for any requests, keys, page size and numbers of failing calls, and any
finite set of sandboxes (`CleanerAssumption` is what the named assumptions of
`OrphanCleanup` come to). The pair itself is not a run: it is the product of two of
the largest state spaces here, and each factor is checked by its own run against an
environment that is at least as free.

Left out: `_list_k8s_sandbox_ids` makes its three listings in a row, which is one
step here; a sandbox that only some of them show is weighed or not as if it had
changed just before. A sandbox has one conversation here, as the server makes them;
the code would spare a sandbox if any of several named it (`L/cleanup.py:221-225`).

What the properties do not say: beyond a full page a sandbox in use is taken for an
orphan, which the hypothesis of `InUseIsSpared` leaves out; a sandbox without a pod
has no age, so `YoungIsSpared` does not speak of it.

## 7. MessageDelivery

### State and actions

| variable | code |
|---|---|
| `sender`, `wire` | where `send_message` is; posts on their way to the sandbox |
| `bound`, `queue`, `handler`, `detached` | RabbitMQ's queue for the lifecycle service, its handler of a message, and a handler whose connection was lost |
| `pending`, `received` | copies stored with the server, and received by the agent |
| `exists`, `sandbox`, `busy`, `young`, `quiet` | the conversation, its sandbox, its agent, the age of the pod and of the last activity |
| `idler` | where the idle cleanup is |
| `lost`, `stranded`, `repeated`, `steady` | history |

`Look`, `Post`, `Reply`, `TimeOut`, `Broken`, `Publish` are `send_message`. A post to a
running sandbox is on its way, or fails like one to a sandbox that has gone: a refused
connection publishes, a connection or a request that is not taken in time counts as
delivered and is lost, any other error answers False. A post on its way ends with an
answer, an error or a timeout; the last two close the connection (`Close`), and the
message is gone or already with the agent server, which takes it up later: "may have
been received". `Publish` loses the event if no queue is bound, and may raise before or
after RabbitMQ has accepted it. `Take`, `Store`, `Resume` are
`handle_conversation_message`, with its early return. `Crash` puts unacknowledged
messages back and ends the handlers; `Disconnect`, a lost connection to RabbitMQ that
`connect_robust` (`C/messaging.py:37`) makes again, puts them back too while their
handlers go on (`detached`), so that both may store the message.
`IdleList`, `IdleAge`, `IdleAsk`, `IdlePause` are the round of the
idle cleanup for this conversation, each an await apart. The server, Kubernetes,
the user and the agent are external.

### Properties

* `DeliveredIsSomewhere`. What `send_message` answered `True` for has arrived or is
  somewhere, or was lost to one of the causes the code accepts: a post that timed out, an event with no queue bound, a handler that gave up, a sandbox that
  went with the post, a deleted conversation.
* `AtMostOnce`. No late answer, refused connection or pause makes a comment arrive
  twice; only RabbitMQ does, when it hands a message out again: after a crash of the
  lifecycle service between storing and acknowledging, or a lost connection before the
  acknowledgement.
* `SteadyWorkIsSpared`. The idle cleanup acts on an old listing, yet does not pause an
  agent that has been working since.
* `KeepsAccount`. The whole way, sender, wire, queue, handlers and server, implements
  `MessageChannel`: a comment is sent at most once; a copy that is on its way leaves it
  only to the agent or with an entry in `lost`; a further copy is made only by a crash
  or a lost connection, with an entry in `repeated` and after `send_message` has
  ended; a report is given once, and `True` only for a comment that is, was or is
  recorded as lost.
  The mapping hides where a copy is (`InFlight` adds up the five places) and what
  `send_message` has found out so far.
* `DeliveredIsReceived`. Liveness: it arrives, unless lost, or stranded (stored when
  the resume failed or did nothing because the Job had ended without being suspended,
  `KS:593`, or when the sandbox stopped first). Both exceptions are what the code
  does, and the property names them rather than excludes them; what it shows is that
  there is no third.

### Run, bounds, fairness and proofs

`delivery`: one comment and three failed requests, crashes or lost connections. The
hazards are about one comment and several events: a lost connection, the second
handler's failure and a crash are three. Comments share only the sandbox and its agent,
whose users may wake, pause and end it at any time, and the proofs are for any number of
them. A message has one detached handler at most: a handler ends within its timeouts of
75 s. Fairness: senders and handlers are tasks of event loops whose requests have
timeouts; an agent server takes up what has reached it; the server hands over what it
has stored to a sandbox that runs, and a sandbox that is started comes up unless it is
stopped. Nothing is assumed of users, cleanup, subscription, crashes or connections,
and no post need arrive whose sender has timed out: `TimeOut` may lose it.

Proved for any comments and number of faults: `Invariance`, `TypeCorrect`,
`DeliveredCommentsAreSomewhere`, `CommentsArriveAtMostOnce`,
`SteadyAgentsAreSpared`, `DeliveryKeepsAccount` (`Spec => KeepsAccount`) and
`CommentsAreInGoodHands`. The invariant is `IsTracked` and `InGoodHands`. `IsTracked`: a comment has no copy, no handler and no loss before it is posted or
published, one copy (unless repeated) or a recorded loss afterwards; and `send_message`
is through with what the lifecycle service has of it, in its queue or in the handler that
is to acknowledge it but never in both.
The last part is what the refinement needs: a crash moves a handler's comment back to
the queue, which makes a copy only if it had been stored, and would make two if it were
there already. The proof says for each action what becomes of each comment (`Moves`);
several move in one step only when a pod takes all posts with it (`LeaveMoves`), in
a crash, or when the connection is lost.

`InGoodHands` says who moves a comment on: a post has a running sandbox, the queue
and the handlers a bound reader, and a stored comment a sandbox that is up or a
handler that has yet to wake it, unless it is lost or stranded. It is
`DeliveredIsReceived` without the fairness: a comment that has been delivered
waits only where a step with fairness takes it further. A crash is what makes the
invariant speak of the handlers too, because their comments return to the queue.
Only model-checked: `DeliveredIsReceived` itself.

Left out: the order of stored messages; the phases of httpx's timeout, which
counts connection, write and read apart, so that a sender may wait longer but not
for ever; a resource's other conversations. A comment that arrives between the idle
cleanup's last question and its pause is paused with the sandbox; no property is about
it.

## 8. TokenCache

The three caches (`kind`): installation tokens of the GitHub App (`B/github_app.py`,
`W/responses/github.py`), Atlassian tokens of the broker (`B/providers/jira.py`) and
of the comment client (`W/responses/jira.py`). A token is the time of its issue;
`cache.mark` is the time the code records for it, in three different ways. `Begin`,
`Locate`, `Issue`, `Arrive`, `GiveUp`, `Finish` are a request's way through
`get_token`, across its awaits; two tasks that miss together both ask. `Tick` lets
time pass; the only bound on it is that an issued token arrives within `Lag`, because it
is in the first bytes of the answer that one read waits for. The requests that carry a
token are not bounded: httpx's timeouts are per phase, and the proxy follows redirects
(`B/proxy.py:113`).

* `ValidWhileFresh`: a request starts with a valid token, and the token stays valid for
  `Slack - Lag` after that, though its age is counted from its arrival and tasks
  overwrite each other's tokens. That is 45 s in the broker's requests to Atlassian
  (`B/providers/jira.py:27`), which a slow request may exceed.
* `NewerTokenIsNearlyKept`: a late answer replaces a newer token by one that is
  older by at most `Lag`.

`tokens`: two tasks, a life of 6 ticks, a slack of 2, a lag of 1, a clock up to 9:
one life and a renewal. Proved for any number of tasks and any times with
`Slack < Life` (the code's: 10 minutes, and 60 s, of an hour): `Invariance`,
`TypeCorrect`, `TokensAreValidWhileFresh`, `CacheIsNearlyMonotone`, from
`CacheIsTimely` and `TaskIsTimely`. Left out: the tokens
that `git_credentials` hands to a sandbox, which live on there beyond any request.

## 9. Workspace

`pc[w]` is how far the constructor of a workspace has come, `job`, `pod` its Job,
`proc`, `port` its `kubectl port-forward`. `CreateJob`, `AwaitPod`, `StartForward`,
`Settle`, `AwaitHealth` are `model_post_init`, with every way to raise; `Cleanup` and
`Finalize` undo it (`cleanup`, `__exit__`, `__del__`); `Kill` ends the program;
`Bind`, `ForwardEnds`, `PodChanges`, `JobAppears` are kubectl and Kubernetes. One
model stands for `KubernetesWorkspace` and `NixCSIWorkspace`, which share this code.

* `NothingIsLeaked`: a workspace that is gone leaves neither a Job nor a forwarder,
  wherever its constructor failed, unless the user keeps Jobs, the program was killed
  or the deletion (or a creation that timed out) went astray.
* `HealthyIsOwn`: another workspace's agent server ends the constructor only if that
  workspace bound the port after this one had found it free (`crossed`), and kubectl was
  still dialing when the two seconds that the code waits were over (`late`), or ended
  after them (`cut`).

`Settle` is taken after the flat two seconds of `K/kubernetes.py:308`, whatever kubectl is
at, and looks once whether it has exited. So the code does not guarantee that a
workspace is its own: with both conditions together the stranger answers. TLC finds the
property false if the exception is taken out of it, or only `late`, or only `cut`; the
property and its theorem say that it takes both conditions. `workspace`: two workspaces (the second keeps its
Job), two ports, one fault; a race for a port has two parties, and the second
port is what the loser could have had. The model stops when all workspaces are gone.
Proved for any workspaces, ports and failures: `Invariance`, `TypeCorrect`,
`WorkspacesCleanUp`, `StrangersNeedCrossing`, from `PortsApart`, `ForwarderIsUp`,
`CrossingsAreSeen` and `SentIsExcused`.

## 10. Not modelled

* `cleanup_old_pvcs` looks for claims whose names the templates do not give
  (`L/k8s.py:96` against `pkgs/server/sandbox-eval/`): it deletes nothing, so there is
  no step.
* `search_sandboxes` and the lookup by session key read and change nothing.
* The broker's check of the caller and its proxy, the response clients' posts, the
  local workspace, the runtimes, registration and path middleware keep no state.
* Startup recovery is one UPDATE before the server serves, which marks the start
  tasks that lost their coroutines as failed; the tasks belong to OpenHands. Its
  caller sees a failed start task, an outcome of `Create` in `WebhookIntake`.
* Credential scopes have no caller.
* The Nix modules describe builds and deployments. They are evidence for the models
  (replicas, TTLs, labels), not behaviour.

## 11. Divergences met on the way

Seen while translating; no run states them, because each shows in a line or two of
the code, or because the model has no state for it.

* `docs/api.md:340` gives ERROR to a pod that "exceeded startup grace period"; the
  code has no such period (`KS:94-109`).
* `docs/api.md:285` says that a truncated SHA256 of the session key is the label for
  lookup; the template puts the key itself there
  (`pkgs/server/sandbox-eval/job.nix:18`).
* A Job whose pod succeeded is reported PAUSED (`KS:107`), but resume returns True
  without doing anything (`KS:593`), which is why messages can be `stranded`.
* `L/config.py:16-17` speaks of the "minimum pod age before considering it for
  cleanup"; a sandbox without a pod has no age and is considered at once
  (`L/cleanup.py:231`), hence `YoungIsSpared` is about sandboxes with pods.
* `kubernetes/lifecycle.nix:150` sets `IDLE_TIMEOUT_MINUTES`, the service reads
  `CONVERSATION_IDLE_TIMEOUT_MINUTES` (`L/config.py:14`).
* `W/openhands_client.py:146`: `send_message` "returns False only if the conversation
  no longer exists", but does so on any HTTP error of the lookup or the post.
