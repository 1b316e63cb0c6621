# A TLA+ model of the Proton Mail client core

The repository holds the Rust core of the Proton Mail clients: local databases,
the API client, and the machinery that keeps the two in step while the device
goes off line, sleeps or kills the process. This project models the
components on which that machinery rests, and the two that build the local
search index; it checks them with TLC on small instances and proves their main
properties with TLAPS for all instances:

* the **action queue** (`project/mail/rust/shared/action-queue`): every change
  a user makes is applied locally and queued in SQLite, and executors send it
  to the server later; around it the **auto executors**, which decide when an
  executor looks for work, and the broadcast channel on which others wait for
  an action to end;
* the **event loop** (`project/core/rust/core-event-loop`, version 6): changes
  made on the server arrive as events, source by source, and are handed to
  subscribers that apply them to the database;
* the **search index** (`project/mail/rust/mail/mail-search`): an outbox of
  indexing intents that mail transactions fill and a worker empties;
* the **historic load** (`project/mail/rust/mail/mail-historic-ephemeral-load`):
  a resumable walk over the whole mailbox that indexes what is older than the
  account's first synchronisation on this device.

Paths below are relative to `src/project/`.

## 1. Inventory

| Component | State | Operations | What is hard | What makes it correct |
|---|---|---|---|---|
| action queue (`mail/rust/shared/action-queue`) | tables `action_queue`, `action_queue_dependencies`, `action_queue_key_deps_v2`, `action_queue_lock`; per executor a guard and a detached remote task; a broadcast channel | queue, queue a chain, replace or queue, delete, delete a group or a type, cancel; pop, keep alive, finish, requeue, fail, report; terminate; rebase | several executors and processes on one database; locks that expire under a live executor; aborts at any await; cancellation that stops half-way; dependencies through keys | no two valid guards on one action; no lost replacement; no dependency cycle; a cancelled action takes what requires it along; whoever waits is told; everything leaves in the end |
| event source registry (`core-event-loop/src/v6/manager.rs`, `subscriber.rs`) | sources with dependencies, execution order, slot maps of subscribers | add, remove, subscribe, unsubscribe | long sequences of calls of several contexts; ids that outlive what they name; a sorter in hash order | dependencies come first; all sources are scheduled; a refused add is harmless; an id removes only its own subscriber |
| event polling (`core-event-loop/src/v6/poller.rs`, `subscriber.rs`) | stored event id per source; position in the iteration | initialise, poll, refresh | failures and crashes at every await; limits; retries; a server that goes on | nothing skipped, reordered, or repeated without reason; dependent sources see caught-up data; every change arrives |
| event loop service (`core-common/.../event_loop_service.rs`, `actions/event_poll.rs`) | an actor that owns the manager; the id of the last queued poll | run, init, poll; queue or replace the poll action; cancel it | actor and queue feed each other | one iteration at a time; a poll is always queued |
| initial synchronisation (`mail-common/src/user_context/initialization.rs`) | stored state per component | initialise components in parallel | data and the first event id are fetched concurrently | no change falls between the two |
| rebase and rollback (`action-queue/src/rebase.rs`, `mail-common/src/actions/rollback.rs`) | local state of queued actions; items to roll back | rebase after events; re-fetch after failures | local changes over fresh server data | local view = server view + pending actions |
| auto executors and awaiter (`action-queue/src/queue.rs`, `observers.rs`) | per executor a place in its loop; pause switch; notifier; a channel of 32 messages | run, pause, resume, terminate; wait for an action | wake-ups sent before the commit and lost on those that do not wait yet; messages dropped for a slow receiver | what is queued is taken; who waits is answered |
| search outbox and worker (`mail-search/src/worker.rs`, `intent.rs`, `service.rs`) | tables of intents, content hashes and index blobs; the worker's snapshot | queue an intent, process a batch, retry, defer, remove, clear | the worker acts on a snapshot while mail transactions go on; index, hash and intent are written apart; restarts | a hash never hides what is not indexed; no sleep on pending work; every intent is served |
| historic load (`mail-historic-ephemeral-load`, `mail-common/src/historic_mailbox_walker.rs`, `mail-search/src/indexing_state.rs`) | switch, status, totals, checkpoint; in-process slot, token, task handle | start, cancel, cancel and wait, enable, clear; resume, fetch, index, save progress, record the outcome | several callers; cancels and aborts at every await; failures and crashes between sub-chunk and checkpoint | one run at a time; nothing skipped; nothing counted twice but for messages of equal time; completed means complete |
| stash | SQLite connections, one writer | transactions, watchers | | atomic, totally ordered writes (assumed here) |
| drafts, scrollers, key manager, sessions, network monitor, ... | see `PROJECT.json`, "components" | | | |

How they interact. The periodic poll (`mail-common/src/user_context/events/event_loop.rs`)
queues an `EventPoll` action; an executor runs it, which sends `Poll` to the
event loop actor; subscribers write what they receive to the database and rebase
queued actions over it; failed actions are reverted and leave rollback items.
Contexts register sources and subscribers with the actor when they are created
and unsubscribe, from a spawned task, when they are dropped. Events, stored
bodies, saved drafts and sent messages leave intents in the outbox, in the
transaction of the change itself; the table's watcher wakes the search worker.
The historic load writes the same index and message rows, without intents.

`PROJECT.json` lists the hazards of this code, each at its line, with the
properties that would notice it going wrong.

## 2. Modules

| Module | Models |
|---|---|
| `ActionQueue` | the queue: tables, clients, executors, guards, time |
| `ActionLifecycle` | what the queue promises: the abstract life of an action |
| `AutoExecutor` | the executors' loop, the pool, the notifier, the broadcast channel and `ActionAwaiter` |
| `EventSchedule` | the sorter behind the execution order, as operators |
| `EventManager` | the registry of sources and subscribers |
| `EventPoller` | iterations over the sources, and the server |
| `SearchIndex` | outbox, worker, hashes and index, with the mail side that fills them |
| `HistoricIndexing` | orchestrator, walker and observer of the historic load, with the durable indexing state |
| `MC*` | constants of the TLC instances |
| `*Proofs` | theorems, checked by TLAPS |

### ActionQueue

Every write transaction is one action: SQLite has one writer, and the code
opens its transactions with it. `life`, `info`, `required`, `optional`, `keys`
and `lock` are the tables, `seq` the AUTOINCREMENT counter; a deleted row
remembers in `life` how it left, which the code does not store but the
properties talk about. `exec[e]` is what executor `e` has in memory: its guard
(action and permit) and the version it read. The remote part of an action is
abstracted to its outcome, payloads to a version number, time to "the lock is
fresh" and "the action is due".

| Action | Code |
|---|---|
| `QueueAction`, `QueueActions`, `QueueActionsRolledBack` | `queue_action_with_metadata`, `queue_actions` and their rollback; `execute_action_local`; `update_dependency_keys_sync` |
| `ReplaceOrQueueAction` | `replace_or_queue_action_with_metadata`, `StoredAction::create_or_update` |
| `DeleteAction`, `DeleteAllInGroup`, `DeleteAllByType`, `Cancel` | the methods of the same names; `cancel_action_with_dependees` |
| `Pop` | `StoredAction::pop`: `clear_slate_state`, `next`, `acquire` |
| `DecodeFailed` | the error path of `decode_action` in `execute_impl` |
| `KeepAlive`, `GuardExpired` | the 15-second transaction in `execute_action_remote`, and a permit that no longer matches, there or in the final transaction |
| `FinishExecuted`, `FinishRequeued`, `FinishFailed`, `FinishFailedPartly` | the branches of the final transaction; the last one is a cancellation whose error is logged and committed |
| `LeaveLocked` | errors that return without releasing the guard |
| `Report` | the broadcasts of `execute_impl` |
| `Terminate` | `terminate` or the end of a process; a new executor has a new UUID |
| `Expire`, `Suspend`, `BecomeDue` | time: a lock times out, with nobody or somebody alive behind it; a delayed action is due |

Dependencies that are both required and optional are stored in the order of a
hash set; `Upserts` is the set of possible results. The cycle check is the
code's: edges reachable from the action, one pop of the sorter. `QueueActions`
queues two actions, the second requiring the first: of a longer chain the model
has the single transaction and its rollback, and each link is one such pair.

`ActionLifecycle` says only: an action is queued with dependencies on queued
actions; it is executed when it waits for nothing; a cancellation takes
everything that requires the action; rows that leave take their edges along.
`ActionQueue` implements it (`ImplementsLifecycle`) with the two dependency
tables as `requires` and `follows`.

### EventSchedule, EventManager

`Pops(S)` is the set of sequences that the topological sorter may yield when the
sources `S` are registered; ties are broken by a hash map. `Cyclic(S)` is what
`rebuild_execution_order` tests, which is less than a cycle: only the first pop.
Operations of the manager are atomic because one actor runs them. Subscriber
ids are slot map keys, a slot with a version; `ticket` is a ghost that tells
two equal ids apart. `SlotMap` is an external library, modelled by what is used
of it: insertion reuses a vacant slot with a higher version.

### EventPoller

One step per await. The server's feed of a source is a sequence of changes;
an event stands for the changes after the id it was asked for up to its own id,
so it may batch several; `linked` changes are followed by a related one
(`has_more`); `resets` can only be learnt by a refresh, which brings everything
before it. `has[u]` records what events brought to subscriber `u`. Any call may
fail (`Fail`, `Retry`) and the process may end (`Crash`) at every point;
`faults` bounds how often. The subscribers of each source are fixed during the
run; `EventManager` is about their change. `Crash` is the end of the process, after which
the service is created anew and finds what the store holds.

### AutoExecutor

`exec[e].pc` is where `QueueAutoExecutor::run` is; the queue's rows are reduced to
the sets `stored` and `gone`, a dependency relation and "some executor runs it".
`writer` is the open transaction of a client: `queue_action_with_metadata_in_tx`
wakes the executors and broadcasts `Queued` before the commit, which is a step of its
own (`Queue`, then `Commit` or `Rollback`). `notify_waiters` reaches only executors in
`wait`; `Listen` is the gap between the empty pop and the registration. A database error
of the pop sends an executor back to the top of its loop, one of the count makes it wait
for the notifier. Clients that cancel or delete actions, and with them the `Deleted`
message that answers an awaiter (`observers.rs:93`, `queue.rs:221`), are left to `ActionQueue`.

| Action | Code |
|---|---|
| `LoopTop`, `Pop`, `Undecoded` | the pause check, `StoredAction::pop` with its database error, the error path of `decode_action` |
| `Executed`, `Failed`, `Requeued`, `Broadcast` | the ends of `execute_action_remote` and the report in `execute_impl`; a requeued action is reported as a success, as the code does |
| `Count`, `Listen`, `Timeout`, `BackOnline` | the followups `WaitForAction` (with the Empty policy's count, which may fail) and `WaitForNetwork` |
| `PauseOrResume`, `NetworkChange`, `Terminate` | the pool's methods and the network monitor |
| `Subscribe`, `Receive` | `ActionAwaiter::new`, one turn of `wait` |

### SearchIndex

The content of a message is a version number, a content hash the version it was
computed from. Each mail-side action is one write transaction with the intents it
queues (`INSERT OR IGNORE`, so a key that is there absorbs a second request). `worker` is
the position in `process_batch` together with the snapshot it works on; each step is one
transaction, one commit of the engine or one group of reads. The preparation of a message is
three such groups, `Prepare` (draft metadata and remote id), `ReadContent` (body and metadata) and
`CompareHash`, between which the mail side, the historic load and a clear may write; no
writer that comes between two reads of one group changes what the group decides. The model has the
path message by message: `batch_prepare_messages` is a hook whose default declines. The
historic load appears as `HistoricFetch` and `HistoricStore`. `abandoned` and `overtaken` are ghosts: removals given
up after their retries, and messages of a batch that a clear overtook.

| Action | Code |
|---|---|
| `EventCreate`, `EventUpdate`, `EventUpdateFlags`, `EventDelete` | `Message::handle_event` with `sync_decision`, `RawMessageBody::delete`, `handle_search_indexing_for_message` |
| `StoreBody`, `SaveDraft`, `UploadDraft`, `SendDraft` | `RawMessageBody::store_and_consume`; local and remote part of the draft save; the end of a send |
| `StaleDraft` | case 3 of `sync_decision`, an open draft that was sent elsewhere: the body is deleted and a removal queued; an index intent follows only when an `UpdateFlags` event shows it, not from a page of the message list; `HistoricStore` has it too |
| `Poll`, `DropDeadLetters`, `Prepare`, `ReadContent`, `CompareHash`, `DeleteSkipped`, `DeferIntents` | `process_batch`, `process_index_batch` up to the commit |
| `CommitBatch`, `FinishBatch`, `MarkBatchFailed` | `index_message_bodies_batch`, then hashes and intents, or the retry counts |
| `Remove`, `DeleteHash`, `DeleteRemoveIntent`, `MarkRemoveFailed` | `process_single_intent`, `remove_message` |
| `BatchError`, `Cleanup`, `Wake`, `Restart` | the error path and the waits of `run`; a new process |
| `Clear` | `clear_index_tables` |

Simplifications. `Clear` takes the deletion of the tables and the swap of the engine, which
follow each other, as one step. A commit notifies the watcher in the same step; `stash` publishes
just after it, and an error of that publishing, which would lose the notification, is not modelled.
Neither are errors inside the event's transaction that the mail side only logs
(`handle_search_indexing_for_message`, the deletion of a body).

### HistoricIndexing

A message is its position in All Mail, so that an anchor, the checkpoint and the end of a
batch are numbers; the paging of the walker, its dedup at the anchor and the trimming of a batch
are arithmetic on positions (`BatchEnd`). `Listing` gives the time and id of each position: pages are
ordered by time and display order, while `push_doc` picks as checkpoint the indexed message with the least
time and, among equal times, the least id (`OldestSoFar`). The checkpoint may therefore
lie before messages of its time that were already counted, and a resumed run counts those again.
`counted[p]` is how often message `p` was added to `messages_indexed_total`, which is the sum.
`call[c]` is where a client's call is between two lock sections or
awaits, `task[r]` where the run with number `r` is; tokens and handles are run numbers.

| Action | Code |
|---|---|
| `StartLoad` ... `StartStore` | the six parts of `start`: read the row, decide and reserve, store the token, mark as started, spawn, store the handle |
| `Cancel`, `Enable`, `Disable`, `WriteDisabled` | `cancel_indexing(false)`, `set_enabled` |
| `CancelAndWait`, `StopRun`, `Stopped`, `WaitTimeout`, `ClearTables`, `WriteFails` | `cancel_and_wait` and `cancel_indexing(true)`, `clear_local_data` |
| `Resume`, `FetchBatch` | `resolve_effective_continuation`, the walker's loop and its metadata fetch |
| `FetchBodies`, `StorePage`, `SaveProgress` | `ephemeral_index_batch`: a sub-chunk's bodies, its page (`PersistPage`), the batch's totals and checkpoint; with `on_batch` and the walker's reaction (`AfterBatch`, `Failed`); a network error repeats the batch without using a retry |
| `PersistOutcome`, `Abort`, `Release` | `persist_run_outcome`, an aborted task, `Reservation::drop` |
| `Crash` | the end of the process and `repair_stale_ongoing_at_startup` |

`skipped` and `overtaken` are ghosts: messages a run met without a readable body, and that
the last clear hit a run which had read its anchor before (after a timeout, or because the fast path
of `cancel_and_wait` saw no run); such a run writes its old checkpoint over the cleared one. The comment of `clear_local_data` says that
it waits "so the wipe does not race batch persistence" (`orchestrator.rs:530`). The timeout is answered with a
warning and the wipe goes on; the fast path, and a handle that is missing because the
task is not yet stored, go on without one. The properties are stated for the other behaviours.

Definitions next to the one they resemble and that no action uses
(`AcquiredSamePermit`, `MayFetchCapped`, ...) are faulty variants: the mutants
in `PROJECT.json` put each in the place of its original to show that a property
notices.

## 3. What TLC checks

Deadlock is checked in the runs of the queue and of the event loop. The others
may really stop: a worker or an executor with nothing to do waits, a completed pass
makes every start a NoWork, and clients need not call. Their liveness
properties say what must happen instead. Runs that pass:

| Run | Instance | Shows |
|---|---|---|
| `aq_core` | 2 executors, one of which cannot decode `send`; 2 actions, 2 versions, 2 permits, 1 disruption, 1 abandoned guard | `GuardExclusive`, `ExecutedIsCurrent`, `OneLockPerExecutor`, `RunningIsUnblocked`, `LeavesByItsExecutor`, `TypeOK` |
| `aq_deps` | 1 executor, 3 actions, 1 key, explicit and keyed dependencies | `Acyclic`, `NoDanglingRows`, `AwaiterIsTold`, `CancelTakesDependees`, `ImplementsLifecycle` |
| `aq_live` | 2 executors, 2 actions, one retry, delays | `EventuallyLeaves` |
| `ax_run` | 2 executors, 3 actions (a pair with a dependency, one that cannot be decoded), Empty or NetworkLoss policy, channel of 2 messages, 1 failure | `AnswerIsNeverLost`, `EveryActionIsTaken`, `AwaiterIsAnswered`, `TypeOK` |
| `el_registry` | 4 sources, 2 of them mutually dependent; 2 subscriptions | `DependenciesFirst`, `AllScheduled`, `RefusedAddIsHarmless`, `SubscriptionIsOwn`, `TypeOK` |
| `el_poll` | 3 sources with 2, 0 and 1 subscribers and 2, 0 and 1 changes, 1 event per poll, 2 attempts, 1 fault | `NothingSkipped`, `InOrder`, `NoReplay`, `DependenciesCaughtUp`, `GroupsStayWhole`, `EventuallyDelivered`, `TypeOK` |
| `si_worker` | 1 message with 2 versions, 2 retries, 3 faults, 1 clear, 3 notifications | `HashMeansIndexed`, `SleepsOnlyWhenDone`, `IntentsAreServed`, `TypeOK` |
| `hi_walk` | 2 callers, 3 messages, two of them of one time, in batches and chunks of 2, 1 retry, 2 runs, 2 faults, 1 call besides start | `SlotIsOwned`, `CheckpointCovers`, `CompletedMeansWalked`, `NothingCountedTwice`, `RunsEnd`, `TypeOK` |

Why the bounds are enough to be interesting. Two executors and a disruption let a
guard expire, be taken over, and its first owner come back; an abandoned guard lets a
row be cleared and acquired again. Three actions are the fewest for a chain in which the middle one falls or
is replaced, and for a cycle that is not a pair. In `aq_live` the permit bound
is above what one retry and one disruption can use, so it never stops an
executor. In `ax_run` one failure is one of: a failed execution, a requeue, an outage, a pause, a
rollback, a termination; two messages in the channel make a receiver lag after one action
and its dependee. One event per poll with two changes makes the
limit bite in every poll and in every group; two attempts is the fewest with a
retry. One fault of any kind at any place, followed by a full recovery, is what
the properties of the poller are about; the proofs cover the rest. Messages of the search
index meet only in the worker's batch, and a batch is a set of them: one message has every
interleaving of its own intents, and the proofs are for any number. Three messages in
batches of two give a full batch and a last, short one; sub-chunks have the batch's size, as an assertion in the
code demands (`lib.rs:31`), and the proofs are for any sizes. Two messages of one time
are the fewest with which a resumed run counts one again; two runs are the fewest for a resumed
one; two faults let a batch use up its retry.

Runs that end in a violation of what a comment of the code says (each has an
entry in "findings"):

| Run | The code says | TLC shows |
|---|---|---|
| `aq_shared` | another executor's work changes the permit id | after `clear_slate_state` deleted a row, permit numbers start again, and two guards with one number validate |
| `el_panic` | `expect("Should never fail")` | it fails when the rest is a cycle that the first-pop test had let in |
| `si_drop` | the outbox: "No Silent Drops: Work is never lost" | an intent asked for again while the worker is about to delete it as skipped is absorbed and lost, and the stored body is never indexed; the same trace contradicts the comment of `PrepareIndexResult::Skip`, "intent should remain" (`worker.rs:103`) |
| `hi_complete` | a last batch with skipped bodies is Incomplete, so that the next start gets another chance at them | its checkpoint has passed them: the next start finds an empty page and completes (one batch of 4 for 3 messages) |

Four smaller disagreements are in the models and have no run of their own:
`Success` ("executed successfully") is also broadcast for a requeued action;
`Queued` is broadcast before the commit and stands after a rollback; and a
subscriber id kept from before its source was removed equals the first id
handed out after the source is added again, so that unsubscribing with it
removes somebody else; and a resumed historic run may count a message of the checkpoint's time
again, so that the total exceeds the messages walked (the progress shown is clamped, `indexing_state.rs:133`).

`GuardExclusive` and `ExecutedIsCurrent` are therefore stated for behaviours in
which no executor left a guard behind (`leaks = 0`).

### Fairness

*Queue.* Weak fairness of each executor's steps except the keep-alive: the auto executor
loops for ever, waits with a timeout (`DEFAULT_LOCK_TIMEOUT`) even when no
notification comes, and remote parts end because requests time out. Which
outcome a remote part has is not fair: the retry limit is what ends an action
whose requests always fail. Weak fairness of time: locks nobody keeps alive
expire, and delays end. Nothing is assumed of clients, and termination,
suspension and abandoned guards are never fair.

*Event loop.* Weak fairness of the iteration's steps: awaits return. Strong
fairness of starting an initialisation and a poll: the actor takes messages in
order, the periodic task asks for a poll at every tick, and the start-up code
repeats initialisation until it succeeds, so each is granted again and again even
if other messages come between. Faults are bounded: a server or a subscriber
that always fails delivers nothing.

*Auto executors.* Weak fairness of each executor's steps (a task is polled, a
timeout passes), of the commit of an open transaction and of the awaiter's loop. Nobody has to queue,
resume or restore the network; the properties therefore speak of behaviours in
which the pool is not stalled for ever: running, on line, an executor alive, and no
action queued that this build cannot decode.

*Search worker.* Weak fairness of the worker's loop, which has a thread of its
own; not of errors, restarts or the mail side. An error makes the loop wait for
the next change of the table, so `IntentsAreServed` leaves out a worker that is stranded there. The property asks
for the effect, not for the disappearance of the row: an indexable message whose index intent is queued and not yet
decided upon comes into the index (or is found there by its hash), a queued removal takes the document
out. The other ways out are that the message changes, that the intent becomes a dead
letter, and a clear. Intents that the worker finds nothing to do for are not part of it: they are deleted as skipped,
which is what `si_drop` is about.

*Historic load.* Weak fairness of the spawned task and of a `start` that has begun. The task waits for
connectivity without a bound in the code; that outages end is part of this assumption.

## 4. What is proved

All theorems hold for every value of the constants that satisfies the named
assumptions (`ConstantsAssumption`, `DepsAssumption`, `PollerAssumption`, `BoundsAssumption`, `ListingAssumption`): types of the parameters, finitely many sources,
at least one event per poll and one attempt, distinct subscribers, batches and chunks that are not empty, a mailbox listed by time. The bounds
of the model (`MaxId`, `MaxPermit`, ...) are arbitrary numbers there.

* `ActionQueueProofs`: `TypeCorrect`, lemmas on the helpers, and `OutcomesAreBroadcast`
  (`AwaiterIsTold`). `AwaiterIsTold` speaks of states without pending reports and is not inductive:
  `TellInv` says where the outcome is in between, with the executor that made the transaction in
  which the action left. No step but the broadcast touches an executor in the middle of its report,
  unless something was disrupted.
* `ActionQueueGraphProofs`: `TableInv` (types; no cycle; no dangling rows; actions
  with an executor are unblocked; ids above `seq` were never used) is
  inductive. The core is the lemma `FirstPopSuffices`:
  if edges were acyclic before and only edges from `i` are new, a cycle goes
  through `i`; then `i` has a predecessor among what is reachable from it, as
  everything else that is reachable has, and the first pop yields nothing. So
  the code's single pop finds every cycle. Acyclicity is stated over sets (each non-empty set has a
  member with no edge inside it), which avoids induction over paths.
  `RunningIsUnblocked` needs `NoDanglingRows`, because only the absence of edges at
  `Pop` and the guard of `ReplaceAction` keep it.
* `ActionQueueGuardProofs`: `GuardInv` adds to `TableInv` one lock row per
  executor and, while no guard was left behind, `PermitsLead` (no executor
  holds a permit above the one in the lock row) and `GuardsMatch` (equal
  permits mean equal owners and the stored version). Neither is
  implied by the other: without `PermitsLead` a newly acquired permit could
  equal one that an old executor holds. From it follow exclusive guards, the
  current version, one lock per executor, and the action properties on who
  ends an action and on what a cancellation takes along. The refinement is here too:
  `QueueRefinesLifecycle`, under `[](leaks = 0)`: initial states map to initial states, every step
  to a step of `ActionLifecycle` or a stutter.
* `AutoExecutorProofs`: `PoolInv` = `PoolOK`, `QueueOK` (the open transaction is about an action that
  is neither stored nor gone, and only finitely many are stored, so that the set of fallen
  actions can be listed), `ExecOK` (what runs is an action) and `AwaiterOK` gives `TypeCorrect`, with
  the capacity of the channel. `AnswersAreKept` (`AnswerIsNeverLost`) goes through the steps: actions
  leave only with a report of each of them (`FallenMessages`: `SetToSeq` lists a finite set
  completely), a send keeps what is in the inbox of a receiver that does not lag (`SendFacts`), and a
  received message that is dropped is no answer.
* `EventManagerProofs`: `OrderInv` (the order is one that the sorter may
  yield for the sources registered, unless the actor is gone). `DependenciesFirst` follows for
  indirect dependencies too; `AllScheduled` because a set that is left over
  would wait only for itself; `RefusedAddIsHarmless` because the set of
  elements that pops yield does not depend on how ties are broken. `OwnInv` is about the slots of the
  subscribers: tickets are handed out once, a vacant slot holds none, and for every id whose source
  was not removed the slot is still there, its version never below the id's, and taken by
  the id's own subscription when the versions are equal. `OnlyOwnIdUnsubscribes` follows: a slot that is
  used again has a higher version than any id of its earlier subscribers.
* `EventPollerProofs`: `FeedInv` = `TypeOK`, `Control` (which variables mean something
  at which point), `Cursor` (the previous id is the stored one, the event is
  after it until it is stored), `Served` (subscribers before the current one have the event),
  `Initialised` (a source has a first id exactly when it has a stored one), `NothingSkipped`,
  `InOrder` and `Done` (sources earlier in the order are caught up or at the
  limit). `NothingSkipped` alone is not inductive: that the id may be
  stored depends on what `Served` says of subscribers already passed. `SmoothInv` adds what holds as
  long as nothing failed: `Fresh` (no subscriber has a change after the stored id or, if
  it was already served in this delivery, after the event), `Feed` (ids are not ahead of the server, which
  never stops inside a group) and `Grouped` (the `has_more` that the poller remembers is true in
  the middle of a group, so that the limit does not end the poll there). They give `NothingTwice` (`NoReplay`) and
  `PollsKeepGroupsWhole` (`GroupsStayWhole`).
* `SearchIndexProofs`: `BatchInv` = `TypeOK`, `Control` (which parts of the snapshot are
  used at which point; the message being removed is no longer in the rest of the batch) and
  `CountsLeft` (intents of the batch that are not dead letters have retries left, so a failure keeps
  the count within its bound, although the rows may have been deleted and queued again meanwhile; this covers
the messages whose preparation is half done). `PreparedFrom` says what the three reading steps have in common: a
message moves from `todo` to `checked` to `ready`, or out.
  `SleepInv` extends `SleepsOnlyWhenDone` to the cleanup between poll and wait: whatever
  is queued there leaves a notification. `HashInv` adds `Rows` (a message that never had
  a remote id has no hash), `Removals` and `Halfway`, the states between the engine's commit and the
  transaction that follows it: there a hash without a document is excused by the remove intent, which
  goes only after the hash.
* `HistoricIndexingProofs`: `SlotInv` (the slot is held by the latest reservation, by exactly
  one starter or its task, and only the holder has an unreleased run), from which `OneRunAtATime` follows.
  `WalkInv` (unless a clear overtook a run: every task's anchor is behind what was met, and the
  part of its batch already passed was met too) gives `CheckpointNeverSkips` and
  `CompletionIsTrue`. `CountInv` (a counted message is not past the checkpoint, unless it has the
  checkpoint's time; one counted twice has a twin of its time; a run's
  anchor is not before the checkpoint) gives `TotalsCountOnce`: no message without a twin
  is counted twice. It needs `SlotInv`, because two runs with anchors could both add one batch. That the checkpoint is the
  oldest indexed message by time and id, not by position, is used in `OldestHasTheTime`.

Every invariant and every action property of the passing runs is stated by a theorem. Only
model-checked: the liveness properties `EventuallyLeaves`, `EventuallyDelivered`,
`EveryActionIsTaken`, `AwaiterIsAnswered`, `IntentsAreServed` and `RunsEnd`, because liveness under fairness is
out of the prover's reach. `AnswersAreKept`,
`NeverCyclic` and `NeverSleepsOnWork` prove safety facts on which `AwaiterIsAnswered`, `EventuallyLeaves` and
`IntentsAreServed` rest. Induction over data is out of its reach too; the sorter is therefore defined by
the set of sequences that it may yield.

## 5. What is not modelled, and why

* `rebase_in`: it rewrites the serialised state of actions, of which the model
  keeps a version number, and touches no row that the properties are about.
* The failure observer of the queue: it forwards broadcasts to callbacks.
* What handlers and subscribers write, but for the intents and bodies that `SearchIndex`
  needs: local changes, reverts, message and label tables.
* `EventManager::initialize` for a single source; the application only
  initialises all.
* The search engine itself, HTML stripping and the queries: a document is its
  content version. The order of intents within a batch of at least 100.
* The remote removal of a message that a deleted row leaves behind in the index: the worker
  finds no remote id any more (a hazard in `PROJECT.json`); the document stays in the model too.
* Poison events (a change that no subscriber can deserialise) and a source added after
  initialisation, whose polls fail until the application changes: they appear only as failures.
* Everything listed as `not_modelled` in `PROJECT.json`: parsers,
  cryptography, HTML, bindings and user interfaces are pure functions or pure
  I/O; stash is used as what it promises. The repository has some 250000 lines, most of them of
  these kinds; the share that the models cover is small by count.

## 6. Plan

1. Done: the queue, its abstract life cycle and its executors; the registry and the poller; the
   search outbox and the historic load; their proofs.
2. `EventPoll` over queue and loop: `queue_poll_event_loop`, replacing the last
   poll action, `cancel_event_poll`; a poll is always pending or done, and never two at once.
3. `InitialSync`: components initialised in parallel with the first event id;
   whether a change can fall between the download and the id. `Rebase`: local view =
   server view + pending actions after events, failures and rollbacks.
4. Drafts: save, attachment upload, send and undo-send as chains of queued actions.
5. Done: proofs of all safety properties that the runs check. Next: proofs for the modules of 2 to 4
   as they come, and the queue's `AwaiterIsTold` and the channel's `AnswerIsNeverLost` composed.

## 7. Running

In this directory, `tlc -config aq_core.cfg MCActionQueue` (and likewise for
the other runs, see "runs" in `PROJECT.json`) checks an instance, each within about three minutes, and
`tlapm ActionQueueGuardProofs.tla` the proofs of a module.
