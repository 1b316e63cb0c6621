-------------------------- MODULE HistoricIndexing --------------------------
(***************************************************************************)
(* The historic pass of content search (mail-historic-ephemeral-load): a   *)
(* run walks All Mail from the newest message to the oldest, batch by      *)
(* batch, and indexes the bodies it can fetch; the durable row keeps the   *)
(* user's switch, the status, the totals and the checkpoint; an in-process *)
(* slot admits one run at a time and carries the means to stop it.         *)
(*                                                                         *)
(* A message is its position in All Mail: 1 is the newest, Mailbox the     *)
(* oldest, and an anchor is the position it points at, 0 for none.  Its    *)
(* time and id matter where the pass compares messages by them.  The calls *)
(* of the clients interleave at their awaits and at the orchestrator lock; *)
(* the task's steps are its awaits and its transactions.                   *)
(*                                                                         *)
(* A definition whose name extends the name of the one that follows it is  *)
(* a faulty variant of it: the mutants of PROJECT.json put it in its place *)
(* to show that a property can fail.                                       *)
(***************************************************************************)
EXTENDS Naturals, FiniteSets

CONSTANTS
    Caller,            \* concurrent calls of the orchestrator's methods
    Mailbox,           \* messages in All Mail
    Listing,           \* their times and ids, by position
    BatchSize,         \* EPHEMERAL_HISTORIC_LOAD_BATCH_SIZE
    ChunkSize,         \* EPHEMERAL_BODY_SUBCHUNK_SIZE
    MaxRetryAttempts,  \* DEFAULT_MAX_RETRY_ATTEMPTS
    MaxRuns,           \* bound: reservations of the slot
    MaxFaults,         \* bound: errors, crashes and waits that time out
    MaxCalls           \* bound: calls other than start

Position == 1..Mailbox

ASSUME BoundsAssumption ==
    /\ Mailbox \in Nat /\ BatchSize \in Nat \ {0} /\ ChunkSize \in Nat \ {0}
    /\ MaxRetryAttempts \in Nat /\ MaxRuns \in Nat /\ MaxFaults \in Nat /\ MaxCalls \in Nat

\* All Mail is listed by time, the newest message first; ids are unique, and
\* messages of one time may be listed in any order of their ids.
ASSUME ListingAssumption ==
    /\ Listing \in [Position -> [time : Nat, id : Nat]]
    /\ \A p, q \in Position : p < q => /\ Listing[q].time <= Listing[p].time
                                      /\ Listing[q].id # Listing[p].id

VARIABLES
    enabled, status, counted, checkpoint,  \* content_search_indexing_state and the checkpoint row;
                                         \* messages_indexed_total is the sum of counted
    docs,                                \* messages in search_index_blobs
    isRunning, runCancel, taskJoin,      \* OrchestratorInner; a token or handle is its run's number
    cancelled,                           \* runs whose token was cancelled
    aborted,                             \* runs whose task was aborted
    call,                                \* the calls in progress
    task,                                \* the spawned tasks
    runs, faults, calls,                 \* counters of the bounds
    skipped,                             \* messages a run met without a readable body
    overtaken                            \* the last clear hit a run that had its anchor

durableVars == <<enabled, status, counted, checkpoint, docs>>
slotVars == <<isRunning, runCancel, taskJoin>>
signalVars == <<cancelled, aborted>>
vars == <<enabled, status, counted, checkpoint, docs, isRunning, runCancel, taskJoin,
          cancelled, aborted, call, task, runs, faults, calls, skipped, overtaken>>

Run == 1..MaxRuns
Status == {"none", "ongoing", "interrupted", "completed"}
TaskPc == {"none", "resume", "fetch", "bodies", "page", "outcome", "release", "done"}
CallPc == {"idle", "decide", "install", "mark", "spawn", "store", "write", "stop", "wait", "clear"}

CallState == [pc : CallPc, go : BOOLEAN, run : 0..MaxRuns]
TaskState == [pc : TaskPc, anchor : 0..Mailbox, at : 0..Mailbox,
              got : SUBSET Position, ready : SUBSET Position, last : 0..Mailbox,
              retry : 0..MaxRetryAttempts, outcome : Status]

TypeOK ==
    /\ enabled \in BOOLEAN /\ status \in Status
    /\ counted \in [Position -> Nat] /\ checkpoint \in 0..Mailbox /\ docs \subseteq Position
    /\ isRunning \in BOOLEAN /\ runCancel \in 0..MaxRuns /\ taskJoin \in 0..MaxRuns
    /\ cancelled \subseteq Run /\ aborted \subseteq Run
    /\ call \in [Caller -> CallState] /\ task \in [Run -> TaskState]
    /\ runs \in 0..MaxRuns /\ faults \in 0..MaxFaults /\ calls \in 0..MaxCalls
    /\ skipped \subseteq Position /\ overtaken \in BOOLEAN

Idle == [pc |-> "idle", go |-> FALSE, run |-> 0]
TaskAt(pc) == [pc |-> pc, anchor |-> 0, at |-> 0, got |-> {}, ready |-> {},
               last |-> 0, retry |-> 0, outcome |-> "none"]

Init ==
    /\ enabled \in BOOLEAN
    /\ status = "none" /\ counted = [p \in Position |-> 0] /\ checkpoint = 0 /\ docs = {}
    /\ isRunning = FALSE /\ runCancel = 0 /\ taskJoin = 0
    /\ cancelled = {} /\ aborted = {}
    /\ call = [c \in Caller |-> Idle]
    /\ task = [r \in Run |-> TaskAt("none")]
    /\ runs = 0 /\ faults = 0 /\ calls = 0
    /\ skipped = {} /\ overtaken = FALSE

Fault == faults < MaxFaults /\ faults' = faults + 1

ReleaseSlotFlagKept == runCancel' = 0 /\ taskJoin' = 0 /\ UNCHANGED isRunning

\* Reservation::drop.
ReleaseSlot == isRunning' = FALSE /\ runCancel' = 0 /\ taskJoin' = 0

-----------------------------------------------------------------------------
(* start *)

StartUnchanged == UNCHANGED <<enabled, counted, checkpoint, docs, signalVars, calls,
                              skipped, overtaken>>

\* The durable row is read before the lock is taken.
StartLoad(c) ==
    /\ call[c].pc = "idle"
    /\ runs < MaxRuns
    /\ call' = [call EXCEPT ![c] = [Idle EXCEPT !.pc = "decide",
                                                !.go = enabled /\ status # "completed"]]
    /\ UNCHANGED <<status, slotVars, task, runs, faults>> /\ StartUnchanged

MaySpawnAgain(c) == call[c].go

\* StartDecision::from_state: otherwise AlreadyRunning or NoWork.
MaySpawn(c) == ~isRunning /\ call[c].go

\* The decision and the reservation, under the lock.
StartDecide(c) ==
    /\ call[c].pc = "decide"
    /\ IF MaySpawn(c) /\ runs < MaxRuns
       THEN /\ isRunning' = TRUE
            /\ runs' = runs + 1
            /\ call' = [call EXCEPT ![c] = [@ EXCEPT !.pc = "install", !.run = runs + 1]]
       ELSE call' = [call EXCEPT ![c] = Idle] /\ UNCHANGED <<isRunning, runs>>
    /\ UNCHANGED <<status, runCancel, taskJoin, task, faults>> /\ StartUnchanged

\* The token is stored under the lock, which was released in between.
StartInstall(c) ==
    /\ call[c].pc = "install"
    /\ runCancel' = call[c].run
    /\ call' = [call EXCEPT ![c].pc = "mark"]
    /\ UNCHANGED <<status, isRunning, taskJoin, task, runs, faults>> /\ StartUnchanged

\* mark_indexing_started_now; an error drops the reservation.
StartMark(c) ==
    /\ call[c].pc = "mark"
    /\ \/ /\ status' = "ongoing"
          /\ call' = [call EXCEPT ![c].pc = "spawn"]
          /\ UNCHANGED <<slotVars, faults>>
       \/ /\ Fault
          /\ ReleaseSlot
          /\ call' = [call EXCEPT ![c] = Idle]
          /\ UNCHANGED status
    /\ UNCHANGED <<task, runs>> /\ StartUnchanged

\* The task owns the reservation from here.
StartSpawn(c) ==
    /\ call[c].pc = "spawn"
    /\ task' = [task EXCEPT ![call[c].run] = TaskAt("resume")]
    /\ call' = [call EXCEPT ![c].pc = "store"]
    /\ UNCHANGED <<status, slotVars, runs, faults>> /\ StartUnchanged

\* The handle is stored last, possibly after the task's end.
StartStore(c) ==
    /\ call[c].pc = "store"
    /\ taskJoin' = call[c].run
    /\ call' = [call EXCEPT ![c] = Idle]
    /\ UNCHANGED <<status, isRunning, runCancel, task, runs, faults>> /\ StartUnchanged

StartStep(c) ==
    \/ StartDecide(c) \/ StartInstall(c) \/ StartMark(c) \/ StartSpawn(c) \/ StartStore(c)

-----------------------------------------------------------------------------
(* The calls that stop a run, switch the feature and clear its data.       *)

TakeToken ==
    /\ runCancel' = 0
    /\ cancelled' = IF runCancel = 0 THEN cancelled ELSE cancelled \cup {runCancel}

\* cancel: fires the token and aborts the task.
CancelRun ==
    /\ TakeToken
    /\ taskJoin' = 0
    /\ aborted' = IF taskJoin = 0 THEN aborted ELSE aborted \cup {taskJoin}
    /\ UNCHANGED isRunning

BeginCall(c) ==
    /\ call[c].pc = "idle" /\ calls < MaxCalls
    /\ calls' = calls + 1

CallUnchanged == UNCHANGED <<task, runs>>

\* cancel_indexing without clearing, and the teardown of the session.
Cancel(c) ==
    /\ BeginCall(c)
    /\ CancelRun
    /\ UNCHANGED <<durableVars, call, faults, skipped, overtaken>> /\ CallUnchanged

\* set_enabled(true) writes the row; set_enabled(false) cancels first.
Enable(c) ==
    /\ BeginCall(c)
    /\ enabled' = TRUE
    /\ UNCHANGED <<status, counted, checkpoint, docs, slotVars, signalVars, call, faults,
                   skipped, overtaken>> /\ CallUnchanged

Disable(c) ==
    /\ BeginCall(c)
    /\ CancelRun
    /\ call' = [call EXCEPT ![c].pc = "write"]
    /\ UNCHANGED <<durableVars, faults, skipped, overtaken>> /\ CallUnchanged

WriteDisabled(c) ==
    /\ call[c].pc = "write"
    /\ enabled' = FALSE
    /\ call' = [call EXCEPT ![c] = Idle]
    /\ UNCHANGED <<status, counted, checkpoint, docs, slotVars, signalVars, faults, calls,
                   skipped, overtaken>> /\ CallUnchanged

\* cancel_and_wait, for a clear: a fast path looks at the slot first.
CancelAndWait(c) ==
    /\ BeginCall(c)
    /\ call' = [call EXCEPT ![c].pc = IF isRunning THEN "stop" ELSE "clear"]
    /\ UNCHANGED <<durableVars, slotVars, signalVars, faults, skipped, overtaken>> /\ CallUnchanged

\* Under the lock: the token is fired, the handle is taken and awaited.
StopRun(c) ==
    /\ call[c].pc = "stop"
    /\ TakeToken
    /\ taskJoin' = 0
    /\ call' = [call EXCEPT ![c] = [@ EXCEPT !.pc = "wait", !.run = taskJoin]]
    /\ UNCHANGED <<durableVars, isRunning, aborted, faults, calls, skipped, overtaken>> /\ CallUnchanged

\* The handle resolves; without one, wait_until_not_running polls the slot.
Stopped(c) ==
    /\ call[c].pc = "wait"
    /\ IF call[c].run = 0 THEN ~isRunning ELSE task[call[c].run].pc = "done"
    /\ call' = [call EXCEPT ![c] = [Idle EXCEPT !.pc = "clear"]]
    /\ UNCHANGED <<durableVars, slotVars, signalVars, faults, calls, skipped, overtaken>> /\ CallUnchanged

\* DEFAULT_CANCEL_WAIT_BEFORE_CLEAR is over: "proceeding with clear anyway".
WaitTimeout(c) ==
    /\ call[c].pc = "wait"
    /\ Fault
    /\ call' = [call EXCEPT ![c] = [Idle EXCEPT !.pc = "clear"]]
    /\ UNCHANGED <<durableVars, slotVars, signalVars, calls, skipped, overtaken>> /\ CallUnchanged

HasAnchor(r) == task[r].pc \in {"fetch", "bodies", "page"}

\* clear_index_tables: everything but the switch, in one transaction.
ClearTables(c) ==
    /\ call[c].pc = "clear"
    /\ status' = "none" /\ counted' = [p \in Position |-> 0] /\ checkpoint' = 0
    /\ docs' = {} /\ skipped' = {}
    /\ call' = [call EXCEPT ![c] = Idle]
    /\ overtaken' = \E r \in Run : HasAnchor(r) \/ task[r].pc = "outcome"
    /\ UNCHANGED <<enabled, slotVars, signalVars, faults, calls>> /\ CallUnchanged

\* The transaction of set_enabled or of the clear fails: the call returns the error.
WriteFails(c) ==
    /\ call[c].pc \in {"write", "clear"}
    /\ Fault
    /\ call' = [call EXCEPT ![c] = Idle]
    /\ UNCHANGED <<durableVars, slotVars, signalVars, calls, skipped, overtaken>> /\ CallUnchanged

StopStep(c) ==
    \/ Cancel(c) \/ Enable(c) \/ Disable(c) \/ WriteDisabled(c) \/ CancelAndWait(c) \/ StopRun(c)
    \/ Stopped(c) \/ WaitTimeout(c) \/ ClearTables(c) \/ WriteFails(c)

Client(c) == StartLoad(c) \/ StartStep(c) \/ StopStep(c)

-----------------------------------------------------------------------------
(* The task: HistoricMailboxWalker::run with the content-search observer.  *)

Least(a, b) == IF a < b THEN a ELSE b

\* The last position of the batch that follows an anchor, of the sub-chunk
\* that follows a position in it.
BatchEnd(anchor) == Least(anchor + BatchSize, Mailbox)
ChunkEnd(t) == Least(t.at + ChunkSize, BatchEnd(t.anchor))
Chunk(t) == (t.at + 1)..ChunkEnd(t)

Finished(outcome) == [TaskAt("outcome") EXCEPT !.outcome = outcome]
FetchFrom(anchor, retry) == [TaskAt("fetch") EXCEPT !.anchor = anchor, !.retry = retry]

FailedForGood(t) == FetchFrom(t.anchor, t.retry + 1)
FailedOnward(t) == FetchFrom(BatchEnd(t.anchor), 0)

\* A fatal error of the observer: the same batch again after the cool-down,
\* until the retries are used up.
Failed(t) == IF t.retry + 1 > MaxRetryAttempts THEN Finished("interrupted")
             ELSE FetchFrom(t.anchor, t.retry + 1)

TaskUnchanged == UNCHANGED <<enabled, slotVars, signalVars, call, runs, calls, overtaken>>

\* resolve_effective_continuation reads the checkpoint.
Resume(r) ==
    /\ task[r].pc = "resume"
    /\ \/ /\ task' = [task EXCEPT ![r] = FetchFrom(checkpoint, 0)]
          /\ UNCHANGED faults
       \/ Fault /\ task' = [task EXCEPT ![r] = Finished("interrupted")]
    /\ UNCHANGED <<status, counted, checkpoint, docs, skipped>> /\ TaskUnchanged

\* fetch_metadata_batch_with_resilience; an outage is waited for.
FetchBatch(r) ==
    /\ task[r].pc = "fetch"
    /\ \/ /\ task' = [task EXCEPT ![r] =
                        IF r \in cancelled THEN Finished("interrupted")
                        ELSE IF @.anchor >= Mailbox THEN Finished("completed")
                        ELSE [@ EXCEPT !.pc = "bodies", !.at = task[r].anchor]]
          /\ UNCHANGED faults
       \/ Fault /\ task' = [task EXCEPT ![r] = Finished("interrupted")]
    /\ UNCHANGED <<status, counted, checkpoint, docs, skipped>> /\ TaskUnchanged

\* push_doc's comparison: the earlier time, then the lesser id.
Older(p, q) ==
    \/ Listing[p].time < Listing[q].time
    \/ Listing[p].time = Listing[q].time /\ Listing[p].id < Listing[q].id

\* The oldest message of the batch's earlier sub-chunks.
OldestSoFar(t) == IF t.got = {} THEN {} ELSE {t.last}

\* One sub-chunk: the bodies that can be fetched and decrypted are prepared,
\* push_doc keeps the oldest of the batch, the other messages are skipped.
\* A network failure repeats the batch.
FetchBodies(r) ==
    /\ task[r].pc = "bodies" /\ task[r].at < BatchEnd(task[r].anchor)
    /\ \/ /\ r \in cancelled
          /\ task' = [task EXCEPT ![r] = Finished("interrupted")]
          /\ UNCHANGED <<faults, skipped>>
       \/ /\ r \notin cancelled
          /\ \E ready \in SUBSET Chunk(task[r]) :
                /\ skipped' = skipped \cup (Chunk(task[r]) \ (ready \cup docs))
                /\ \/ /\ ready = {}
                      /\ task' = [task EXCEPT ![r].at = ChunkEnd(task[r])]
                   \/ \E last \in ready \cup OldestSoFar(task[r]) :
                         /\ ready # {}
                         /\ \A p \in (ready \cup OldestSoFar(task[r])) \ {last} : Older(last, p)
                         /\ task' = [task EXCEPT ![r] = [@ EXCEPT !.pc = "page", !.ready = ready,
                                                                  !.last = last]]
          /\ UNCHANGED faults
       \/ /\ Fault
          /\ \/ task' = [task EXCEPT ![r] = FetchFrom(@.anchor, @.retry)]
             \/ task' = [task EXCEPT ![r] = Failed(@)]
          /\ UNCHANGED skipped
    /\ UNCHANGED <<status, counted, checkpoint, docs>> /\ TaskUnchanged

\* The sub-chunk is done.
Stored(t) == [t EXCEPT !.pc = "bodies", !.at = ChunkEnd(t), !.got = @ \cup t.ready, !.ready = {}]

\* persist_ephemeral_page: the index blobs and the rows of the messages.
PersistPage(ready) == docs' = docs \cup ready /\ skipped' = skipped \ ready

\* The token is still looked at while the rows are prepared, and a network
\* failure then repeats the batch.
StorePage(r) ==
    /\ task[r].pc = "page"
    /\ \/ /\ PersistPage(task[r].ready)
          /\ task' = [task EXCEPT ![r] = Stored(@)]
          /\ UNCHANGED faults
       \/ /\ r \in cancelled
          /\ task' = [task EXCEPT ![r] = Finished("interrupted")]
          /\ UNCHANGED <<docs, skipped, faults>>
       \/ /\ Fault
          /\ \/ task' = [task EXCEPT ![r] = FetchFrom(@.anchor, @.retry)]
             \/ task' = [task EXCEPT ![r] = Failed(@)]
          /\ UNCHANGED <<docs, skipped>>
    /\ UNCHANGED <<status, counted, checkpoint>> /\ TaskUnchanged

Fetched(t) == BatchEnd(t.anchor) - t.anchor

IsLastBatchFull(t) == Fetched(t) <= BatchSize

IsLastBatch(t) == Fetched(t) < BatchSize

CountedFetched(t) == (t.anchor + 1)..BatchEnd(t.anchor)

\* What a batch adds to messages_indexed_total.
Counted(t) == t.got

\* What the observer and the walker make of a batch that went through.
AfterBatch(t) ==
    IF IsLastBatch(t) /\ Cardinality(t.got) < Fetched(t) THEN Finished("interrupted")
    ELSE IF IsLastBatch(t) THEN Finished("completed")
    ELSE FetchFrom(BatchEnd(t.anchor), 0)

\* The end of a batch: the totals and, when something was indexed, the
\* checkpoint at the oldest message that was.
SaveProgress(r) ==
    /\ task[r].pc = "bodies" /\ task[r].at = BatchEnd(task[r].anchor)
    /\ \/ /\ checkpoint' = IF task[r].got = {} THEN checkpoint ELSE task[r].last
          /\ counted' = [p \in Position |-> counted[p] + IF p \in Counted(task[r]) THEN 1 ELSE 0]
          /\ task' = [task EXCEPT ![r] = AfterBatch(@)]
          /\ UNCHANGED faults
       \/ /\ Fault
          /\ task' = [task EXCEPT ![r] = Failed(@)]
          /\ UNCHANGED <<checkpoint, counted>>
    /\ UNCHANGED <<status, docs, skipped>> /\ TaskUnchanged

\* persist_run_outcome; an error is logged.
PersistOutcome(r) ==
    /\ task[r].pc = "outcome"
    /\ task' = [task EXCEPT ![r] = TaskAt("release")]
    /\ \/ status' = task[r].outcome /\ UNCHANGED faults
       \/ Fault /\ UNCHANGED status
    /\ UNCHANGED <<counted, checkpoint, docs, skipped>> /\ TaskUnchanged

\* The task's future is dropped at its next await.
Abort(r) ==
    /\ r \in aborted /\ task[r].pc \in {"resume", "fetch", "bodies", "page", "outcome"}
    /\ task' = [task EXCEPT ![r] = TaskAt("release")]
    /\ UNCHANGED <<status, counted, checkpoint, docs, faults, skipped>> /\ TaskUnchanged

Release(r) ==
    /\ task[r].pc = "release"
    /\ ReleaseSlot
    /\ task' = [task EXCEPT ![r] = TaskAt("done")]
    /\ cancelled' = cancelled \ {r} /\ aborted' = aborted \ {r}
    /\ UNCHANGED <<durableVars, call, runs, faults, calls, skipped, overtaken>>

TaskStep(r) ==
    \/ Resume(r) \/ FetchBatch(r) \/ FetchBodies(r) \/ StorePage(r) \/ SaveProgress(r)
    \/ PersistOutcome(r) \/ Abort(r) \/ Release(r)

\* The process dies; the next one starts with repair_stale_ongoing_at_startup.
Crash ==
    /\ Fault
    /\ status' = IF status = "ongoing" THEN "interrupted" ELSE status
    /\ ReleaseSlot
    /\ call' = [c \in Caller |-> Idle]
    /\ task' = [r \in Run |-> IF task[r].pc = "none" THEN task[r] ELSE TaskAt("done")]
    /\ cancelled' = {} /\ aborted' = {}
    /\ UNCHANGED <<enabled, counted, checkpoint, docs, runs, calls, skipped, overtaken>>

Next == (\E c \in Caller : Client(c)) \/ (\E r \in Run : TaskStep(r)) \/ Crash

Spec == Init /\ [][Next]_vars

\* A spawned task and a call that has begun are polled by the runtime until
\* they return.  A network outage ends, so waiting for it is no step.
FairSpec ==
    /\ Spec
    /\ \A r \in Run : WF_vars(TaskStep(r))
    /\ \A c \in Caller : WF_vars(StartStep(c))

-----------------------------------------------------------------------------
(* Properties *)

Live(r) == task[r].pc \notin {"none", "done"}
Owner == {r \in Run : Live(r) \/ \E c \in Caller : call[c].run = r
                                     /\ call[c].pc \in {"install", "mark", "spawn"}}

\* "At most one run is in flight at a time": the in-process slot is taken
\* exactly while one start or one task holds the reservation, whatever order
\* starts, cancels, aborts and ends come in.
SlotIsOwned == Cardinality(Owner) = IF isRunning THEN 1 ELSE 0

\* A resumed run never looks at what the checkpoint covers, so each message
\* up to it is in the index or was met without a readable body, unless a clear
\* overtook a run that went on writing.
CheckpointCovers ==
    ~overtaken => \A p \in Position : p <= checkpoint => p \in docs \cup skipped

\* "Completed" makes every later start a NoWork, so a pass that completed has
\* met each message of the mailbox: failed batches, crashes and resumed runs
\* leave no message out.
CompletedMeansWalked ==
    status = "completed" /\ ~overtaken => docs \cup skipped = Position

\* Another message was sent at the same time.
HasTwin(p) == \E q \in Position \ {p} : Listing[q].time = Listing[p].time

\* messages_indexed_total, from which the progress shown to the user is computed,
\* never counts a message twice, however often batches are repeated after a
\* failure, a crash or a cancelled run, unless another message has the very same
\* time: such messages push_doc orders by id and the pages do not, so the
\* checkpoint may fall before some that were counted.
NothingCountedTwice ==
    ~overtaken => \A p \in Position : counted[p] > 1 => HasTwin(p)

\* A run ends and gives the slot back, by itself or when it is stopped.
RunsEnd == isRunning ~> ~isRunning

\* "The skipped messages are real gaps in coverage": a pass with skipped bodies
\* stops as Incomplete "so the next start re-runs the loop and gets another
\* chance to fetch the bodies", and Completed is left to a pass with "every
\* fetched message either indexed or persisted as metadata".
CompletedMeansIndexed ==
    status = "completed" /\ ~overtaken => docs = Position

=============================================================================
