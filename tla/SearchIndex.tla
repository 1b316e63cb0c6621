----------------------------- MODULE SearchIndex -----------------------------
(***************************************************************************)
(* The local content search of mail-search: an outbox of intents that the  *)
(* mail side fills in its own transactions, the worker that empties it,    *)
(* the table of content hashes that lets it skip what is already indexed,  *)
(* and the index itself, which the historic load writes as well.           *)
(*                                                                         *)
(* Content is a version number, 0 when there is none; a content hash is    *)
(* the version it was computed from.  The index is keyed by the remote id  *)
(* of a message, intents and hashes by its local id.  Every step of the    *)
(* worker is one transaction, one engine commit or one group of reads that *)
(* no writer can come between to any effect.  A commit notifies the        *)
(* watcher in the same step.  created_at only orders a batch of at least   *)
(* 100 rows (MIN_BATCH_SIZE), so a batch is everything that is pending and *)
(* deferring an intent changes nothing but the table's watcher.            *)
(*                                                                         *)
(* A definition whose name extends the name of the one that follows it is  *)
(* a faulty variant of it: the mutants of PROJECT.json put it in its place *)
(* to show that a property can fail.                                       *)
(***************************************************************************)
EXTENDS Naturals

CONSTANTS
    Message,        \* local message ids
    MaxVersion,     \* bound: versions of one message's content
    MaxRetryCount,  \* MAX_RETRY_COUNT
    MaxFaults,      \* bound: failures and restarts
    MaxClears,      \* bound: clear_index_tables
    MaxSignals,     \* bound: notifications kept in the watcher's channel
    NoMessage

ASSUME BoundsAssumption ==
    /\ MaxVersion \in Nat \ {0}
    /\ MaxRetryCount \in Nat \ {0}
    /\ MaxFaults \in Nat
    /\ MaxClears \in Nat
    /\ MaxSignals \in Nat \ {0}
    /\ NoMessage \notin Message

VARIABLES
    row,       \* the message's row: "absent", "local" (no remote id), "synced" or "deleted"
    draft,     \* a DraftMetadata record exists: the message is being edited
    body,      \* the readable content in raw_message_body
    server,    \* the content on the server
    pending,   \* search_index_intents
    retries,   \* retry_count of the rows in pending, 0 for the others
    hash,      \* search_index_content_hashes
    doc,       \* the content the index holds
    walk,      \* the content a historic load has fetched and not yet committed
    worker,    \* where the worker is and what it read
    signals,   \* notifications in the watcher's channel
    faults, clears,
    abandoned, \* messages whose removal was given up
    overtaken  \* messages of a batch that a clear overtook

mailVars == <<row, draft, body, server>>
tableVars == <<pending, retries, hash, doc>>
vars == <<row, draft, body, server, pending, retries, hash, doc, walk, worker,
          signals, faults, clears, abandoned, overtaken>>

Version == 0..MaxVersion
Op == {"index", "remove"}
Intent == Message \X Op
Nothing == [m \in Message |-> 0]

-----------------------------------------------------------------------------
(* The worker's local state: what process_batch has split its snapshot of  *)
(* the intents into.                                                       *)

Batch == [pc : {"poll", "dead", "prepare", "content", "compare", "skip", "defer", "commit", "finish",
                "batchFailed", "remove", "unhash", "forget", "failed", "cleanup",
                "wait", "waitAfterError"},
          dead : SUBSET Intent,      \* intents that used up their retries
          todo : SUBSET Message,     \* index intents still to prepare
          checked : SUBSET Message,  \* ... that are no draft and have a remote id
          read : SUBSET Message,     \* ... whose content is to be compared
          skip : SUBSET Message,     \* ... to delete without indexing
          defer : SUBSET Message,    \* ... to put back
          ready : [Message -> Version],   \* ... with their content
          rem : SUBSET Message,      \* remove intents still to process
          cur : Message \cup {NoMessage}]

At(pc) ==
    [pc |-> pc, dead |-> {}, todo |-> {}, checked |-> {}, read |-> {}, skip |-> {},
     defer |-> {}, ready |-> Nothing, rem |-> {}, cur |-> NoMessage]

AdvanceIndexOnly(b) ==
    [b EXCEPT !.pc = IF b.dead # {} THEN "dead"
                     ELSE IF b.checked # {} THEN "content"
                     ELSE IF b.read # {} THEN "compare"
                     ELSE IF b.todo # {} THEN "prepare"
                     ELSE IF b.skip # {} THEN "skip"
                     ELSE IF b.defer # {} THEN "defer"
                     ELSE IF b.ready # Nothing THEN "commit"
                     ELSE "poll"]

\* Dead letters first, then the index intents as one batch, then the
\* removals one by one; after that the loop polls again.
Advance(b) ==
    [b EXCEPT !.pc = IF b.dead # {} THEN "dead"
                     ELSE IF b.checked # {} THEN "content"
                     ELSE IF b.read # {} THEN "compare"
                     ELSE IF b.todo # {} THEN "prepare"
                     ELSE IF b.skip # {} THEN "skip"
                     ELSE IF b.defer # {} THEN "defer"
                     ELSE IF b.ready # Nothing THEN "commit"
                     ELSE IF b.rem # {} THEN "remove"
                     ELSE "poll"]

TypeOK ==
    /\ row \in [Message -> {"absent", "local", "synced", "deleted"}]
    /\ draft \in [Message -> BOOLEAN]
    /\ body \in [Message -> Version]
    /\ server \in [Message -> Version]
    /\ pending \subseteq Intent
    /\ retries \in [Intent -> 0..MaxRetryCount]
    /\ hash \in [Message -> Version]
    /\ doc \in [Message -> Version]
    /\ walk \in [Message -> Version]
    /\ worker \in Batch
    /\ signals \in 0..MaxSignals
    /\ faults \in 0..MaxFaults
    /\ clears \in 0..MaxClears
    /\ abandoned \subseteq Message
    /\ overtaken \subseteq Message

Init ==
    /\ row = [m \in Message |-> "absent"]
    /\ draft = [m \in Message |-> FALSE]
    /\ body = Nothing
    /\ server \in [Message -> {0, 1}]     \* mail that is older than the account's first sync
    /\ pending = {}
    /\ retries = [i \in Intent |-> 0]
    /\ hash = Nothing
    /\ doc = Nothing
    /\ walk = Nothing
    /\ worker = At("poll")
    /\ signals = 0
    /\ faults = 0
    /\ clears = 0
    /\ abandoned = {}
    /\ overtaken = {}

-----------------------------------------------------------------------------
(* The outbox.  The table watcher reports a commit that changed a row, and *)
(* INSERT OR IGNORE of a key that is there changes none.                   *)

SignalWaiters == signals' = IF worker.pc \in {"wait", "waitAfterError"} THEN 1 ELSE 0

Signal == signals' = IF signals < MaxSignals THEN signals + 1 ELSE signals

Queue(intents) ==
    /\ pending' = pending \cup intents
    /\ IF intents \subseteq pending THEN UNCHANGED signals ELSE Signal
    /\ UNCHANGED retries

Delete(intents) ==
    /\ pending' = pending \ intents
    /\ retries' = [i \in Intent |-> IF i \in intents THEN 0 ELSE retries[i]]
    /\ IF intents \cap pending = {} THEN UNCHANGED signals ELSE Signal

MarkFailed(intents) ==
    /\ retries' = [i \in Intent |-> IF i \in intents \cap pending THEN retries[i] + 1
                                                                 ELSE retries[i]]
    /\ IF intents \cap pending = {} THEN UNCHANGED signals ELSE Signal
    /\ UNCHANGED pending

IndexOf(S) == S \X {"index"}

-----------------------------------------------------------------------------
(* The mail side.  Each of these is one write transaction.                 *)

Newest(m) == IF body[m] > server[m] THEN body[m] ELSE server[m]

MailStep == UNCHANGED <<hash, doc, walk, worker, faults, clears, abandoned, overtaken>>

\* Action::Create of an event.
EventCreate(m) ==
    /\ row[m] = "absent" /\ server[m] = 0
    /\ row' = [row EXCEPT ![m] = "synced"]
    /\ server' = [server EXCEPT ![m] = 1]
    /\ Queue({<<m, "index">>})
    /\ UNCHANGED <<draft, body>> /\ MailStep

\* Action::Update: the stored body goes, with an intent to remove, and one
\* to index follows.  An open draft is skipped, which changes nothing, unless
\* it was sent elsewhere: then it is updated and its draft record stays.
EventUpdate(m) ==
    /\ row[m] \in {"absent", "synced"} /\ server[m] # 0
    /\ Newest(m) < MaxVersion
    /\ row' = [row EXCEPT ![m] = "synced"]
    /\ server' = [server EXCEPT ![m] = Newest(m) + 1]
    /\ body' = [body EXCEPT ![m] = 0]
    /\ Queue(IF row[m] = "absent" THEN {<<m, "index">>}
                                  ELSE {<<m, "remove">>, <<m, "index">>})
    /\ UNCHANGED draft /\ MailStep

\* A page of the message list shows an open draft that was sent elsewhere: its
\* body goes, and no intent to index follows; one does when an
\* Action::UpdateFlags shows it.
StaleDraft(m) ==
    /\ row[m] = "synced" /\ draft[m] /\ server[m] # 0
    /\ body' = [body EXCEPT ![m] = 0]
    /\ \/ Queue({<<m, "remove">>})
       \/ Queue({<<m, "remove">>, <<m, "index">>})
    /\ UNCHANGED <<row, draft, server>> /\ MailStep

\* Action::UpdateFlags: the content stays, an intent to index is queued.
EventUpdateFlags(m) ==
    /\ row[m] = "synced" /\ server[m] # 0 /\ ~draft[m]
    /\ Queue({<<m, "index">>})
    /\ UNCHANGED mailVars /\ MailStep

\* Action::Delete: the intent to remove and the deletion of the row, which
\* takes the body and the draft record with it, commit together.
EventDelete(m) ==
    /\ row[m] = "synced" /\ server[m] # 0
    /\ row' = [row EXCEPT ![m] = "deleted"]
    /\ server' = [server EXCEPT ![m] = 0]
    /\ body' = [body EXCEPT ![m] = 0]
    /\ draft' = [draft EXCEPT ![m] = FALSE]
    /\ Queue({<<m, "remove">>})
    /\ MailStep

\* A body that is not there yet is fetched, decrypted and stored.
StoreBody(m) ==
    /\ row[m] = "synced" /\ ~draft[m] /\ body[m] = 0 /\ server[m] # 0
    /\ body' = [body EXCEPT ![m] = server[m]]
    /\ Queue({<<m, "index">>})
    /\ UNCHANGED <<row, draft, server>> /\ MailStep

\* The local part of a draft's save: a new message, or an open one.
SaveDraft(m) ==
    /\ \/ row[m] = "absent" /\ server[m] = 0
       \/ row[m] = "local"
       \/ row[m] = "synced" /\ body[m] # 0
    /\ Newest(m) < MaxVersion
    /\ row' = [row EXCEPT ![m] = IF @ = "absent" THEN "local" ELSE @]
    /\ draft' = [draft EXCEPT ![m] = TRUE]
    /\ body' = [body EXCEPT ![m] = Newest(m) + 1]
    /\ Queue({<<m, "index">>})
    /\ UNCHANGED server /\ MailStep

\* The remote part of a draft's save gives the message its remote id.
UploadDraft(m) ==
    /\ draft[m] /\ body[m] # 0 /\ server[m] # body[m]
    /\ row' = [row EXCEPT ![m] = "synced"]
    /\ server' = [server EXCEPT ![m] = body[m]]
    /\ UNCHANGED <<draft, body, pending, retries, signals>> /\ MailStep

\* A sent draft loses its record and is queued for the index.
SendDraft(m) ==
    /\ draft[m] /\ row[m] = "synced" /\ body[m] # 0 /\ server[m] = body[m]
    /\ draft' = [draft EXCEPT ![m] = FALSE]
    /\ Queue({<<m, "index">>})
    /\ UNCHANGED <<row, body, server>> /\ MailStep

-----------------------------------------------------------------------------
(* The worker: one call of process_batch after the other.                  *)

WorkerStep == UNCHANGED mailVars /\ UNCHANGED <<walk, clears, overtaken>>

IsDeadLetterLate(i) == retries[i] > MaxRetryCount

IsDeadLetter(i) == retries[i] >= MaxRetryCount

\* The snapshot of the intents, split; after an empty one comes the cleanup.
Poll ==
    /\ worker.pc = "poll"
    /\ LET dead == {i \in pending : IsDeadLetter(i)}
           live == pending \ dead
       IN  worker' = IF pending = {} THEN At("cleanup")
                     ELSE Advance([At("poll") EXCEPT
                              !.dead = dead,
                              !.todo = {m \in Message : <<m, "index">> \in live},
                              !.rem = {m \in Message : <<m, "remove">> \in live}])
    /\ UNCHANGED <<tableVars, signals, faults, abandoned>> /\ WorkerStep

\* try_cleanup compacts the engine's storage; an error is logged.
Cleanup ==
    /\ worker.pc = "cleanup"
    /\ worker' = At("wait")
    /\ UNCHANGED <<tableVars, signals, faults, abandoned>> /\ WorkerStep

DropDeadLetters ==
    /\ worker.pc = "dead"
    /\ Delete(worker.dead)
    /\ abandoned' = abandoned \cup {m \in Message : <<m, "remove">> \in worker.dead}
    /\ worker' = Advance([worker EXCEPT !.dead = {}])
    /\ UNCHANGED <<hash, doc, faults>> /\ WorkerStep

\* prepare_message_for_indexing, in the order of its early returns: is the
\* message being edited, does it have a remote id ...
Prepare(m) ==
    /\ worker.pc = "prepare" /\ m \in worker.todo
    /\ LET b == [worker EXCEPT !.todo = @ \ {m}]
       IN  worker' = Advance(
              IF draft[m] THEN [b EXCEPT !.skip = @ \cup {m}]
              ELSE IF row[m] # "synced" THEN [b EXCEPT !.defer = @ \cup {m}]
              ELSE [b EXCEPT !.checked = @ \cup {m}])
    /\ UNCHANGED <<tableVars, signals, faults, abandoned>> /\ WorkerStep

\* ... what is its content ...
ReadContent(m) ==
    /\ worker.pc = "content" /\ m \in worker.checked
    /\ LET b == [worker EXCEPT !.checked = @ \ {m}]
       IN  worker' = Advance(IF body[m] = 0 THEN [b EXCEPT !.skip = @ \cup {m}]
                             ELSE [b EXCEPT !.read = @ \cup {m}, !.ready[m] = body[m]])
    /\ UNCHANGED <<tableVars, signals, faults, abandoned>> /\ WorkerStep

\* ... and was that indexed before: an error of this read counts as no.
CompareHash(m) ==
    /\ worker.pc = "compare" /\ m \in worker.read
    /\ LET b == [worker EXCEPT !.read = @ \ {m}]
       IN  \/ /\ worker' = Advance(IF hash[m] = worker.ready[m]
                                   THEN [b EXCEPT !.skip = @ \cup {m}, !.ready[m] = 0] ELSE b)
              /\ UNCHANGED faults
           \/ /\ faults < MaxFaults
              /\ faults' = faults + 1
              /\ worker' = Advance(b)
    /\ UNCHANGED <<tableVars, signals, abandoned>> /\ WorkerStep

DeleteSkipped ==
    /\ worker.pc = "skip"
    /\ Delete(IndexOf(worker.skip))
    /\ worker' = Advance([worker EXCEPT !.skip = {}])
    /\ UNCHANGED <<hash, doc, faults, abandoned>> /\ WorkerStep

DeferIntents ==
    /\ worker.pc = "defer"
    /\ IF IndexOf(worker.defer) \cap pending = {} THEN UNCHANGED signals ELSE Signal
    /\ worker' = Advance([worker EXCEPT !.defer = {}])
    /\ UNCHANGED <<tableVars, faults, abandoned>> /\ WorkerStep

\* index_message_bodies_batch: all or nothing.
CommitBatch ==
    /\ worker.pc = "commit"
    /\ \/ /\ doc' = [m \in Message |-> IF worker.ready[m] # 0 THEN worker.ready[m] ELSE doc[m]]
          /\ worker' = [worker EXCEPT !.pc = "finish"]
          /\ UNCHANGED faults
       \/ /\ faults < MaxFaults
          /\ faults' = faults + 1
          /\ worker' = [worker EXCEPT !.pc = "batchFailed"]
          /\ UNCHANGED doc
    /\ UNCHANGED <<pending, retries, hash, signals, abandoned>> /\ WorkerStep

ReadyMessages == {m \in Message : worker.ready[m] # 0}

\* The hashes are saved and the intents deleted in one transaction.
FinishBatch ==
    /\ worker.pc = "finish"
    /\ hash' = [m \in Message |-> IF worker.ready[m] # 0 THEN worker.ready[m] ELSE hash[m]]
    /\ Delete(IndexOf(ReadyMessages))
    /\ worker' = Advance([worker EXCEPT !.ready = Nothing])
    /\ UNCHANGED <<doc, faults, abandoned>> /\ WorkerStep

MarkBatchFailed ==
    /\ worker.pc = "batchFailed"
    /\ MarkFailed(IndexOf(ReadyMessages))
    /\ worker' = Advance([worker EXCEPT !.ready = Nothing])
    /\ UNCHANGED <<hash, doc, faults, abandoned>> /\ WorkerStep

\* remove_message: a message without a remote id has nothing to remove.
Remove(m) ==
    /\ worker.pc = "remove" /\ m \in worker.rem
    /\ LET b == [worker EXCEPT !.rem = @ \ {m}, !.cur = m]
       IN  \/ /\ row[m] # "synced"
              /\ worker' = [b EXCEPT !.pc = "forget"]
              /\ UNCHANGED <<doc, faults>>
           \/ /\ row[m] = "synced"
              /\ doc' = [doc EXCEPT ![m] = 0]
              /\ worker' = [b EXCEPT !.pc = "unhash"]
              /\ UNCHANGED faults
           \/ /\ faults < MaxFaults
              /\ faults' = faults + 1
              /\ worker' = [b EXCEPT !.pc = "failed"]
              /\ UNCHANGED doc
    /\ UNCHANGED <<pending, retries, hash, signals, abandoned>> /\ WorkerStep

WithoutHashKept(m) == hash

WithoutHash(m) == [hash EXCEPT ![m] = 0]

\* The content hash goes after the document, in a transaction of its own.
DeleteHash ==
    /\ worker.pc = "unhash"
    /\ \/ /\ hash' = WithoutHash(worker.cur)
          /\ worker' = [worker EXCEPT !.pc = "forget"]
          /\ UNCHANGED faults
       \/ /\ faults < MaxFaults
          /\ faults' = faults + 1
          /\ worker' = [worker EXCEPT !.pc = "failed"]
          /\ UNCHANGED hash
    /\ UNCHANGED <<pending, retries, doc, signals, abandoned>> /\ WorkerStep

DeleteRemoveIntent ==
    /\ worker.pc = "forget"
    /\ Delete({<<worker.cur, "remove">>})
    /\ worker' = Advance([worker EXCEPT !.cur = NoMessage])
    /\ UNCHANGED <<hash, doc, faults, abandoned>> /\ WorkerStep

MarkRemoveFailed ==
    /\ worker.pc = "failed"
    /\ MarkFailed({<<worker.cur, "remove">>})
    /\ worker' = Advance([worker EXCEPT !.cur = NoMessage])
    /\ UNCHANGED <<hash, doc, faults, abandoned>> /\ WorkerStep

\* A read or a transaction of the batch fails: process_batch gives up and the
\* loop waits for the next notification.
BatchError ==
    /\ worker.pc \in {"poll", "dead", "prepare", "content", "skip", "defer", "finish", "batchFailed",
                      "forget", "failed"}
    /\ faults < MaxFaults
    /\ faults' = faults + 1
    /\ worker' = At("waitAfterError")
    /\ UNCHANGED <<tableVars, signals, abandoned>> /\ WorkerStep

Wake ==
    /\ worker.pc \in {"wait", "waitAfterError"} /\ signals > 0
    /\ signals' = signals - 1
    /\ worker' = At("poll")
    /\ UNCHANGED <<tableVars, faults, abandoned>> /\ WorkerStep

Worker ==
    \/ Poll \/ Cleanup \/ DropDeadLetters
    \/ (\E m \in Message : Prepare(m) \/ ReadContent(m) \/ CompareHash(m))
    \/ DeleteSkipped \/ DeferIntents \/ CommitBatch \/ FinishBatch \/ MarkBatchFailed
    \/ (\E m \in Message : Remove(m)) \/ DeleteHash \/ DeleteRemoveIntent
    \/ MarkRemoveFailed \/ Wake

\* The process dies or the worker is shut down between two of its steps.
Restart ==
    /\ faults < MaxFaults
    /\ faults' = faults + 1
    /\ worker' = At("poll")
    /\ walk' = Nothing
    /\ signals' = 0
    /\ UNCHANGED <<mailVars, tableVars, clears, abandoned, overtaken>>

-----------------------------------------------------------------------------
(* Other writers of the index.                                             *)

\* The historic load fetches what the server has ...
HistoricFetch(m) ==
    /\ server[m] # 0 /\ row[m] # "local" /\ walk[m] = 0
    /\ walk' = [walk EXCEPT ![m] = server[m]]
    /\ UNCHANGED <<mailVars, tableVars, worker, signals, faults, clears, abandoned,
                   overtaken>>

\* ... and commits it later, next to the message's row, without an intent to index
\* or a hash; the body of a draft that was sent elsewhere goes as in StaleDraft.
HistoricStore(m) ==
    /\ walk[m] # 0
    /\ doc' = [doc EXCEPT ![m] = walk[m]]
    /\ row' = [row EXCEPT ![m] = IF @ = "absent" THEN "synced" ELSE @]
    /\ walk' = [walk EXCEPT ![m] = 0]
    /\ \/ UNCHANGED <<body, pending, retries, signals>>
       \/ /\ row[m] = "synced" /\ draft[m]
          /\ body' = [body EXCEPT ![m] = 0]
          /\ Queue({<<m, "remove">>})
    /\ UNCHANGED <<draft, server, hash, worker, faults, clears, abandoned, overtaken>>

\* The messages of the worker's batch that it has yet to write to a table.
InFlight == (ReadyMessages \ worker.read) \cup worker.rem \cup (Message \cap {worker.cur})

\* clear_index_tables: index, hashes and intents in one transaction, and the
\* new engine on the empty tables; the worker is not stopped.
Clear ==
    /\ clears < MaxClears
    /\ clears' = clears + 1
    /\ doc' = Nothing
    /\ hash' = Nothing
    /\ Delete(Intent)
    /\ overtaken' = overtaken \cup InFlight
    /\ UNCHANGED <<mailVars, walk, worker, faults, abandoned>>

Mail(m) ==
    \/ EventCreate(m) \/ EventUpdate(m) \/ EventUpdateFlags(m) \/ EventDelete(m)
    \/ StaleDraft(m) \/ StoreBody(m) \/ SaveDraft(m) \/ UploadDraft(m) \/ SendDraft(m)

Next ==
    \/ \E m \in Message : Mail(m) \/ HistoricFetch(m) \/ HistoricStore(m)
    \/ Worker \/ BatchError \/ Restart \/ Clear

Spec == Init /\ [][Next]_vars

\* The worker has a thread of its own and loops until it is shut down.
FairSpec == Spec /\ WF_vars(Worker)

-----------------------------------------------------------------------------
(* Properties *)

\* A stored hash makes the worker skip an intent (content_hash_matches), so
\* a message that has one is in the index, or its removal is still queued.
\* The ways out are a removal that was given up after its retries and a clear
\* that overtook the batch the message was in.
HashMeansIndexed ==
    \A m \in Message :
        hash[m] # 0 /\ row[m] = "synced" =>
            doc[m] # 0 \/ <<m, "remove">> \in pending \/ m \in abandoned \/ m \in overtaken

\* wait_for_watcher_notification never sleeps on work: an intent committed
\* between the poll that found nothing and the wait has left a notification.
SleepsOnlyWhenDone ==
    worker.pc = "wait" /\ signals = 0 => pending = {}

\* The worker gave up on an error and nothing that happened since will wake it.
Stranded == worker.pc = "waitAfterError" /\ signals = 0

\* Queued, and not among the intents the worker is about to give up.
Open(i) == i \in pending /\ i \notin worker.dead

\* Stored, not being edited and readable.
Indexable(m) == row[m] = "synced" /\ ~draft[m] /\ body[m] # 0

\* An intent that the worker can carry out is carried out, in spite of failed
\* commits, restarts and new intents: content that is queued and not decided upon
\* comes into the index, or is there by its hash, and a queued removal takes the
\* document out.  The ways out are that the message changes, that its retries are
\* used up, that an error strands the worker and that a clear deletes the intent.
IntentsAreServed ==
    \A m \in Message, k \in 0..MaxClears :
        /\ /\ clears = k /\ Open(<<m, "index">>) /\ Indexable(m)
           /\ m \notin worker.skip /\ worker.ready[m] \in {0, body[m]}
           ~> \/ doc[m] = body[m] \/ hash[m] = body[m] \/ ~Indexable(m)
              \/ IsDeadLetter(<<m, "index">>) \/ Stranded \/ clears # k
        /\ /\ clears = k /\ Open(<<m, "remove">>) /\ row[m] = "synced" /\ worker.cur # m
           ~> \/ doc[m] = 0 \/ row[m] # "synced"
              \/ IsDeadLetter(<<m, "remove">>) \/ Stranded \/ clears # k

\* The migration that creates the outbox promises "No Silent Drops: Work is
\* never lost": once every intent is processed, each message that is stored,
\* not being edited and readable is in the index with the stored content.
NoSilentDrops ==
    worker.pc = "wait" /\ pending = {} =>
        \A m \in Message :
            Indexable(m) => doc[m] = body[m]

=============================================================================
