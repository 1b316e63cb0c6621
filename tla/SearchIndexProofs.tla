------------------------- MODULE SearchIndexProofs -------------------------
(***************************************************************************)
(* The search index for any set of messages, any retry limit and any       *)
(* number of failures, restarts and clears.                                *)
(***************************************************************************)
EXTENDS SearchIndex, TLAPS

Fetched == {"dead", "prepare", "content", "compare", "skip", "defer", "commit", "remove", "poll"}
Removing == {"unhash", "forget", "failed"}

\* Where the worker is, and what is left of its batch there.
Control ==
  /\ worker.pc \in {"commit", "finish", "batchFailed"} =>
       worker.todo = {} /\ worker.checked = {} /\ worker.read = {}
  /\ worker.pc \in Removing <=> worker.cur # NoMessage
  /\ worker.cur \notin worker.rem
  /\ \A m \in worker.rem : <<m, "remove">> \notin worker.dead

\* What the worker still has to try has a retry left.
CountsLeft ==
  /\ \A m \in worker.todo \cup worker.checked \cup ReadyMessages :
       retries[<<m, "index">>] < MaxRetryCount
  /\ \A m \in worker.rem \cup (Message \cap {worker.cur}) :
       retries[<<m, "remove">>] < MaxRetryCount

BatchInv == TypeOK /\ Control /\ CountsLeft

\* Rows that never had a remote id have no content hash, now or soon.
Rows ==
  \A m \in Message :
    /\ draft[m] => row[m] \in {"local", "synced"}
    /\ hash[m] # 0 \/ m \in worker.checked \/ worker.ready[m] # 0 =>
         row[m] \in {"synced", "deleted"}

\* A removal is queued until the worker has finished it.
Removals ==
  \A m \in worker.rem \cup (Message \cap {worker.cur}) :
    <<m, "remove">> \in pending \/ m \in overtaken

\* Between the index and the tables: what was committed is there, and the
\* intent of a removal goes only after the hash.
Halfway ==
  /\ worker.pc = "finish" => \A m \in ReadyMessages : doc[m] # 0 \/ m \in overtaken
  /\ worker.pc = "forget" => hash[worker.cur] = 0 \/ row[worker.cur] = "deleted"

HashInv == BatchInv /\ Rows /\ Removals /\ Halfway /\ HashMeansIndexed

\* The poll that found nothing may be followed by an intent, and its signal.
SleepInv == worker.pc \in {"cleanup", "wait"} /\ signals = 0 => pending = {}

-----------------------------------------------------------------------------
\* Advance only moves the worker on.
LEMMA AdvanceFacts ==
  ASSUME NEW b \in Batch
  PROVE  /\ Advance(b) \in Batch
         /\ Advance(b).dead = b.dead /\ Advance(b).todo = b.todo
         /\ Advance(b).checked = b.checked /\ Advance(b).read = b.read
         /\ Advance(b).skip = b.skip /\ Advance(b).defer = b.defer
         /\ Advance(b).ready = b.ready /\ Advance(b).rem = b.rem /\ Advance(b).cur = b.cur
         /\ Advance(b).pc \in Fetched
         /\ Advance(b).pc = "commit" => b.todo = {} /\ b.checked = {} /\ b.read = {}
<1>1. PICK pc \in Fetched : /\ Advance(b) = [b EXCEPT !.pc = pc]
                            /\ pc = "commit" => b.todo = {} /\ b.checked = {} /\ b.read = {}
  BY DEF Advance, Fetched
<1>2. QED
  BY <1>1 DEF Batch, Fetched

\* A worker that has no batch.
LEMMA AtFacts ==
  ASSUME NEW pc \in {"poll", "cleanup", "wait", "waitAfterError"}
  PROVE  /\ At(pc) \in Batch
         /\ At(pc).pc = pc /\ At(pc).dead = {} /\ At(pc).todo = {} /\ At(pc).rem = {}
         /\ At(pc).checked = {} /\ At(pc).read = {}
         /\ At(pc).ready = Nothing /\ At(pc).cur = NoMessage
<1>1. Nothing \in [Message -> Version]
  BY BoundsAssumption DEF Nothing, Version
<1>2. QED
  BY <1>1 DEF At, Batch

LEMMA IntentFacts ==
  /\ \A m \in Message : <<m, "index">> \in Intent /\ <<m, "remove">> \in Intent
  /\ \A S \in SUBSET Message : IndexOf(S) \subseteq Intent
  /\ \A S \in SUBSET Message, m \in Message :
       /\ <<m, "index">> \in IndexOf(S) <=> m \in S
       /\ <<m, "remove">> \notin IndexOf(S)
BY DEF Intent, Op, IndexOf

\* The tables' operations keep their types, and counts grow only where a
\* failure is marked.
LEMMA QueueFacts ==
  ASSUME BatchInv, NEW S \in SUBSET Intent, Queue(S)
  PROVE  pending' \subseteq Intent /\ retries' = retries /\ signals' \in 0..MaxSignals
BY BoundsAssumption DEF BatchInv, TypeOK, Queue, Signal

LEMMA DeleteFacts ==
  ASSUME BatchInv, NEW S \in SUBSET Intent, Delete(S)
  PROVE  /\ pending' \subseteq Intent /\ signals' \in 0..MaxSignals
         /\ retries' \in [Intent -> 0..MaxRetryCount]
         /\ \A i \in Intent : retries'[i] <= retries[i]
BY BoundsAssumption DEF BatchInv, TypeOK, Delete, Signal

LEMMA MarkFacts ==
  ASSUME BatchInv, NEW S \in SUBSET Intent, MarkFailed(S),
         \A i \in S : retries[i] < MaxRetryCount
  PROVE  /\ pending' \subseteq Intent /\ signals' \in 0..MaxSignals
         /\ retries' \in [Intent -> 0..MaxRetryCount]
         /\ \A i \in Intent \ S : retries'[i] = retries[i]
BY BoundsAssumption DEF BatchInv, TypeOK, MarkFailed, Signal

LEMMA InitBatch == Init => BatchInv
<1> SUFFICES ASSUME Init PROVE BatchInv
  OBVIOUS
<1>1. worker \in Batch /\ worker.pc = "poll" /\ worker.todo = {} /\ worker.rem = {}
      /\ worker.checked = {} /\ worker.ready = Nothing /\ worker.cur = NoMessage
  BY AtFacts DEF Init
<1>2. TypeOK
  BY <1>1, BoundsAssumption DEF Init, TypeOK, Nothing, Version
<1>3. Control /\ CountsLeft
  BY <1>1, BoundsAssumption DEF Control, CountsLeft, Removing, ReadyMessages, Nothing
<1>4. QED
  BY <1>2, <1>3 DEF BatchInv

\* The parts of TypeOK that the worker does not touch.
LEMMA TypeOfRest ==
  ASSUME BatchInv, WorkerStep,
         worker' \in Batch, pending' \subseteq Intent, retries' \in [Intent -> 0..MaxRetryCount],
         hash' \in [Message -> Version], doc' \in [Message -> Version],
         signals' \in 0..MaxSignals, faults' \in 0..MaxFaults, abandoned' \subseteq Message
  PROVE  TypeOK'
BY DEF BatchInv, TypeOK, WorkerStep, mailVars

\* A step of the mail side changes neither the worker nor a count.
LEMMA MailKeepsBatch ==
  ASSUME BatchInv, NEW m \in Message, Mail(m)
  PROVE  BatchInv'
<1>0. /\ TypeOK /\ Control /\ CountsLeft
      /\ <<m, "index">> \in Intent /\ <<m, "remove">> \in Intent
  BY IntentFacts DEF BatchInv
<1>1. /\ UNCHANGED <<hash, doc, walk, worker, faults, clears, abandoned, overtaken>>
      /\ pending' \subseteq Intent /\ retries' = retries /\ signals' \in 0..MaxSignals
  <2>1. CASE UploadDraft(m)
    BY <1>0, <2>1 DEF UploadDraft, MailStep, TypeOK
  <2>2. CASE \E S \in SUBSET Intent : Queue(S) /\ MailStep
    BY <2>2, QueueFacts DEF MailStep
  <2>3. QED
    BY <1>0, <2>1, <2>2 DEF Mail, EventCreate, EventUpdate, EventUpdateFlags, EventDelete,
       StaleDraft, StoreBody, SaveDraft, SendDraft
<1>2. /\ row' \in [Message -> {"absent", "local", "synced", "deleted"}]
      /\ draft' \in [Message -> BOOLEAN]
  BY <1>0 DEF Mail, EventCreate, EventUpdate, EventUpdateFlags, EventDelete,
     StaleDraft, StoreBody, SaveDraft, UploadDraft, SendDraft, TypeOK, mailVars
<1>3. Newest(m) \in Version /\ (Newest(m) < MaxVersion => Newest(m) + 1 \in Version)
      /\ 0 \in Version /\ 1 \in Version
  BY <1>0, BoundsAssumption DEF TypeOK, Newest, Version
<1>4. body' \in [Message -> Version] /\ server' \in [Message -> Version]
  <2>1. body[m] \in Version /\ server[m] \in Version
    BY <1>0 DEF TypeOK
  <2>2. QED
    BY <1>0, <1>3, <2>1 DEF Mail, EventCreate, EventUpdate, EventUpdateFlags, EventDelete,
       StaleDraft, StoreBody, SaveDraft, UploadDraft, SendDraft, TypeOK, mailVars
<1>5. TypeOK'
  BY <1>0, <1>1, <1>2, <1>4 DEF TypeOK
<1>6. Control' /\ CountsLeft'
  BY <1>0, <1>1 DEF Control, CountsLeft, ReadyMessages
<1>7. QED
  BY <1>5, <1>6 DEF BatchInv

\* The worker goes on with a batch in which everything has a retry left.
LEMMA MovesOn ==
  ASSUME NEW b \in Batch, worker' = Advance(b), b.cur = NoMessage,
         \A m \in b.rem : <<m, "remove">> \notin b.dead /\ retries'[<<m, "remove">>] < MaxRetryCount,
         \A m \in Message : m \in b.todo \cup b.checked \/ b.ready[m] # 0
                             => retries'[<<m, "index">>] < MaxRetryCount
  PROVE  worker' \in Batch /\ Control' /\ CountsLeft'
<1>1. /\ worker' \in Batch /\ worker'.dead = b.dead /\ worker'.todo = b.todo
      /\ worker'.checked = b.checked /\ worker'.read = b.read
      /\ worker'.ready = b.ready /\ worker'.rem = b.rem /\ worker'.cur = NoMessage
      /\ worker'.pc \in Fetched
      /\ worker'.pc = "commit" => b.todo = {} /\ b.checked = {} /\ b.read = {}
  BY AdvanceFacts
<1>2. b.todo \subseteq Message /\ b.checked \subseteq Message /\ b.rem \subseteq Message
  BY DEF Batch
<1>3. Control'
  BY <1>1, <1>2, BoundsAssumption DEF Control, Fetched, Removing
<1>4. CountsLeft'
  BY <1>1, <1>2, BoundsAssumption DEF CountsLeft, ReadyMessages
<1>5. QED
  BY <1>1, <1>3, <1>4

\* The worker has no batch.
LEMMA MovesTo ==
  ASSUME NEW pc \in {"poll", "cleanup", "wait", "waitAfterError"}, worker' = At(pc)
  PROVE  worker' \in Batch /\ Control' /\ CountsLeft'
<1>1. /\ worker' \in Batch /\ worker'.pc = pc /\ worker'.dead = {} /\ worker'.todo = {}
      /\ worker'.checked = {} /\ worker'.read = {}
      /\ worker'.rem = {} /\ worker'.ready = Nothing /\ worker'.cur = NoMessage
  BY AtFacts
<1>2. Control' /\ CountsLeft'
  BY <1>1, BoundsAssumption DEF Control, CountsLeft, Removing, ReadyMessages, Nothing
<1>3. QED
  BY <1>1, <1>2

\* Counts that do not grow leave a retry where there was one.
LEMMA CountsGoDown ==
  ASSUME BatchInv, retries' \in [Intent -> 0..MaxRetryCount],
         \A i \in Intent : retries'[i] <= retries[i]
  PROVE  /\ \A m \in worker.rem \cup (Message \cap {worker.cur}) :
              retries'[<<m, "remove">>] < MaxRetryCount
         /\ \A m \in worker.todo \cup worker.checked : retries'[<<m, "index">>] < MaxRetryCount
         /\ \A m \in Message : worker.ready[m] # 0 => retries'[<<m, "index">>] < MaxRetryCount
<1>1. \A i \in Intent : retries[i] < MaxRetryCount => retries'[i] < MaxRetryCount
  BY BoundsAssumption DEF BatchInv, TypeOK
<1>2. worker.todo \cup worker.checked \subseteq Message /\ worker.rem \subseteq Message
  BY DEF BatchInv, TypeOK, Batch
<1>3. QED
  BY <1>1, <1>2, IntentFacts DEF BatchInv, CountsLeft, ReadyMessages

\* The steps of prepare_message_for_indexing.
Preparing(m) == Prepare(m) \/ ReadContent(m) \/ CompareHash(m)

\* What they do to the batch: a message moves from todo to checked to ready, or out.
PreparedFrom(b) ==
  /\ worker' = Advance(b) /\ b.cur = worker.cur /\ b.dead = worker.dead
  /\ b.rem = worker.rem /\ b.todo \subseteq worker.todo
  /\ \A n \in b.checked : n \in worker.checked \/ (n \in worker.todo /\ row[n] = "synced")
  /\ \A n \in Message : b.ready[n] # 0 => worker.ready[n] # 0 \/ n \in worker.checked

LEMMA PrepareAdvances ==
  ASSUME BatchInv, NEW m \in Message, Preparing(m)
  PROVE  \E b \in Batch : PreparedFrom(b)
<1>0. /\ worker \in Batch /\ worker.ready \in [Message -> Version]
      /\ body[m] \in Version /\ 0 \in Version
  BY BoundsAssumption DEF BatchInv, TypeOK, Batch, Version
<1>1. ASSUME NEW c \in Batch, worker' = Advance(c), c.cur = worker.cur, c.dead = worker.dead,
             c.rem = worker.rem, c.todo \subseteq worker.todo,
             \A n \in c.checked : n \in worker.checked \/ (n \in worker.todo /\ row[n] = "synced"),
             \A n \in Message : c.ready[n] # 0 => worker.ready[n] # 0 \/ n \in worker.checked
      PROVE  \E b \in Batch : PreparedFrom(b)
  BY <1>1 DEF PreparedFrom
<1>2. CASE Prepare(m)
  <2> DEFINE c == [worker EXCEPT !.todo = @ \ {m}]
  <2>1. /\ c \in Batch /\ c.cur = worker.cur /\ c.dead = worker.dead /\ c.rem = worker.rem
        /\ c.todo = worker.todo \ {m} /\ c.ready = worker.ready /\ c.checked = worker.checked
    BY <1>0 DEF Batch
  <2>2. m \in worker.todo
    BY <1>2 DEF Prepare
  <2>3. PICK d : /\ worker' = Advance(d)
                 /\ \/ d = [c EXCEPT !.skip = @ \cup {m}]
                    \/ d = [c EXCEPT !.defer = @ \cup {m}]
                    \/ d = [c EXCEPT !.checked = @ \cup {m}] /\ row[m] = "synced"
    BY <1>2 DEF Prepare
  <2> HIDE DEF c
  <2>4. /\ d \in Batch /\ d.cur = c.cur /\ d.dead = c.dead /\ d.rem = c.rem
        /\ d.todo = c.todo /\ d.ready = c.ready
        /\ d.checked = c.checked \/ (d.checked = c.checked \cup {m} /\ row[m] = "synced")
    BY <2>1, <2>3 DEF Batch
  <2>5. QED
    BY <1>1, <2>1, <2>2, <2>3, <2>4
<1>3. CASE ReadContent(m)
  <2> DEFINE c == [worker EXCEPT !.checked = @ \ {m}]
  <2>1. /\ c \in Batch /\ c.cur = worker.cur /\ c.dead = worker.dead /\ c.rem = worker.rem
        /\ c.todo = worker.todo /\ c.ready = worker.ready /\ c.checked = worker.checked \ {m}
    BY <1>0 DEF Batch
  <2>2. m \in worker.checked
    BY <1>3 DEF ReadContent
  <2>3. PICK d : /\ worker' = Advance(d)
                 /\ \/ d = [c EXCEPT !.skip = @ \cup {m}]
                    \/ d = [c EXCEPT !.read = @ \cup {m}, !.ready[m] = body[m]]
    BY <1>3 DEF ReadContent
  <2> HIDE DEF c
  <2>4. /\ d \in Batch /\ d.cur = c.cur /\ d.dead = c.dead /\ d.rem = c.rem
        /\ d.todo = c.todo /\ d.checked = c.checked
        /\ d.ready = c.ready \/ d.ready = [c.ready EXCEPT ![m] = body[m]]
    <3>1. CASE d = [c EXCEPT !.skip = @ \cup {m}]
      BY <2>1, <3>1 DEF Batch
    <3>2. CASE d = [c EXCEPT !.read = @ \cup {m}, !.ready[m] = body[m]]
      <4> DEFINE r == [c.ready EXCEPT ![m] = body[m]]
      <4>1. d = [c EXCEPT !.read = @ \cup {m}, !.ready = r]
        BY <3>2
      <4>2. r \in [Message -> Version]
        BY <1>0, <2>1
      <4> HIDE DEF r
      <4>3. d \in Batch /\ d.ready = r /\ d.cur = c.cur /\ d.dead = c.dead /\ d.rem = c.rem
            /\ d.todo = c.todo /\ d.checked = c.checked
        BY <2>1, <4>1, <4>2 DEF Batch
      <4>4. QED
        BY <4>3 DEF r
    <3>3. QED
      BY <2>3, <3>1, <3>2
  <2>5. \A n \in Message : d.ready[n] # 0 => worker.ready[n] # 0 \/ n \in worker.checked
    BY <1>0, <2>1, <2>2, <2>4
  <2>6. QED
    BY <1>1, <2>1, <2>3, <2>4, <2>5
<1>4. CASE CompareHash(m)
  <2> DEFINE c == [worker EXCEPT !.read = @ \ {m}]
  <2>1. /\ c \in Batch /\ c.cur = worker.cur /\ c.dead = worker.dead /\ c.rem = worker.rem
        /\ c.todo = worker.todo /\ c.ready = worker.ready /\ c.checked = worker.checked
    BY <1>0 DEF Batch
  <2>2. PICK d : /\ worker' = Advance(d)
                 /\ d = c \/ d = [c EXCEPT !.skip = @ \cup {m}, !.ready[m] = 0]
    BY <1>4 DEF CompareHash
  <2> HIDE DEF c
  <2>3. /\ d \in Batch /\ d.cur = c.cur /\ d.dead = c.dead /\ d.rem = c.rem
        /\ d.todo = c.todo /\ d.checked = c.checked
        /\ d.ready = c.ready \/ d.ready = [c.ready EXCEPT ![m] = 0]
    <3>1. CASE d = [c EXCEPT !.skip = @ \cup {m}, !.ready[m] = 0]
      <4> DEFINE r == [c.ready EXCEPT ![m] = 0]
      <4>1. d = [c EXCEPT !.skip = @ \cup {m}, !.ready = r]
        BY <3>1
      <4>2. r \in [Message -> Version]
        BY <1>0, <2>1
      <4> HIDE DEF r
      <4>3. d \in Batch /\ d.ready = r /\ d.cur = c.cur /\ d.dead = c.dead /\ d.rem = c.rem
            /\ d.todo = c.todo /\ d.checked = c.checked
        BY <2>1, <4>1, <4>2 DEF Batch
      <4>4. QED
        BY <4>3 DEF r
    <3>2. QED
      BY <2>1, <2>2, <3>1
  <2>4. \A n \in Message : d.ready[n] # 0 => worker.ready[n] # 0
    BY <1>0, <2>1, <2>3
  <2>5. QED
    BY <1>1, <2>1, <2>2, <2>3, <2>4
<1>5. QED
  BY <1>2, <1>3, <1>4 DEF Preparing

LEMMA WorkerKeepsBatch == BatchInv /\ (Worker \/ BatchError) => BatchInv'
<1> SUFFICES ASSUME BatchInv, Worker \/ BatchError PROVE BatchInv'
  OBVIOUS
<1>0. /\ TypeOK /\ Control /\ CountsLeft
      /\ worker \in Batch /\ worker.dead \subseteq Intent /\ worker.todo \subseteq Message
      /\ worker.skip \subseteq Message /\ worker.rem \subseteq Message
      /\ worker.ready \in [Message -> Version] /\ ReadyMessages \subseteq Message
      /\ worker.cur \in Message \cup {NoMessage}
      /\ retries \in [Intent -> 0..MaxRetryCount] /\ MaxRetryCount \in Nat
      /\ faults \in 0..MaxFaults /\ MaxFaults \in Nat
      /\ Nothing \in [Message -> Version] /\ (\A m \in Message : Nothing[m] = 0)
      /\ 0 \in Version
  BY BoundsAssumption DEF BatchInv, TypeOK, Batch, ReadyMessages, Nothing, Version
<1>1. CASE Poll
  <2> DEFINE dead == {i \in pending : IsDeadLetter(i)}
             live == pending \ dead
             b == [At("poll") EXCEPT
                     !.dead = dead,
                     !.todo = {m \in Message : <<m, "index">> \in live},
                     !.rem = {m \in Message : <<m, "remove">> \in live}]
  <2>1. CASE worker' = At("cleanup")
    BY <1>0, <1>1, <2>1, MovesTo, TypeOfRest DEF Poll, tableVars, BatchInv, TypeOK
  <2>2. CASE worker' = Advance(b)
    <3>1. /\ b \in Batch /\ b.cur = NoMessage /\ b.dead = dead /\ b.ready = Nothing
          /\ b.checked = {}
          /\ b.todo = {m \in Message : <<m, "index">> \in live}
          /\ b.rem = {m \in Message : <<m, "remove">> \in live}
      <4>1. dead \subseteq Intent
        BY <1>0 DEF TypeOK
      <4> HIDE DEF live, dead
      <4>2. b \in Batch
        BY <1>0, <4>1 DEF At, Batch
      <4>3. b.cur = NoMessage /\ b.dead = dead /\ b.ready = Nothing /\ b.checked = {}
        BY DEF At
      <4>4. b.todo = {m \in Message : <<m, "index">> \in live}
        BY DEF At
      <4>5. b.rem = {m \in Message : <<m, "remove">> \in live}
        BY DEF At
      <4>6. QED
        BY <4>2, <4>3, <4>4, <4>5
    <3>2. \A i \in live : i \in Intent /\ i \notin dead /\ retries[i] < MaxRetryCount
      BY <1>0 DEF TypeOK, IsDeadLetter
    <3>3. retries' = retries
      BY <1>1 DEF Poll, tableVars
    <3>4. worker' \in Batch /\ Control' /\ CountsLeft'
      <4> HIDE DEF b, live, dead
      <4>1. \A m \in b.rem : <<m, "remove">> \notin b.dead /\ retries'[<<m, "remove">>] < MaxRetryCount
        BY <3>1, <3>2, <3>3
      <4>2. \A m \in Message : m \in b.todo \cup b.checked \/ b.ready[m] # 0
              => retries'[<<m, "index">>] < MaxRetryCount
        BY <1>0, <3>1, <3>2, <3>3
      <4>3. QED
        BY <2>2, <3>1, <4>1, <4>2, MovesOn
    <3>5. QED
      BY <1>0, <1>1, <3>4, TypeOfRest DEF Poll, tableVars, BatchInv, TypeOK
  <2>3. QED
    BY <1>1, <2>1, <2>2 DEF Poll
<1>2. CASE Cleanup
  BY <1>0, <1>2, MovesTo, TypeOfRest DEF Cleanup, tableVars, BatchInv, TypeOK
<1>3. CASE DropDeadLetters
  <2> DEFINE b == [worker EXCEPT !.dead = {}]
  <2>1. b \in Batch /\ b.cur = worker.cur /\ b.dead = {} /\ b.rem = worker.rem
        /\ b.todo = worker.todo /\ b.checked = worker.checked /\ b.ready = worker.ready
    BY <1>0 DEF Batch
  <2>2. worker.cur = NoMessage
    BY <1>0, <1>3 DEF Control, Removing, DropDeadLetters
  <2>3. /\ pending' \subseteq Intent /\ signals' \in 0..MaxSignals
        /\ retries' \in [Intent -> 0..MaxRetryCount]
        /\ \A i \in Intent : retries'[i] <= retries[i]
    BY <1>0, <1>3, DeleteFacts DEF DropDeadLetters
  <2>4. worker' \in Batch /\ Control' /\ CountsLeft'
    <3>1. worker' = Advance(b)
      BY <1>3 DEF DropDeadLetters
    <3> HIDE DEF b
    <3>2. \A m \in b.rem : <<m, "remove">> \notin b.dead /\ retries'[<<m, "remove">>] < MaxRetryCount
      BY <2>1, <2>3, CountsGoDown
    <3>3. \A m \in Message : m \in b.todo \cup b.checked \/ b.ready[m] # 0
            => retries'[<<m, "index">>] < MaxRetryCount
      BY <2>1, <2>3, CountsGoDown
    <3>4. QED
      BY <2>1, <2>2, <3>1, <3>2, <3>3, MovesOn
  <2>5. QED
    BY <1>0, <1>3, <2>3, <2>4, TypeOfRest DEF DropDeadLetters, BatchInv, TypeOK
<1>4. ASSUME NEW m \in Message, Preparing(m) PROVE BatchInv'
  <2>1. PICK b \in Batch : PreparedFrom(b)
    BY <1>4, PrepareAdvances
  <2>2. worker.cur = NoMessage
    BY <1>0, <1>4 DEF Control, Removing, Preparing, Prepare, ReadContent, CompareHash
  <2>3. /\ WorkerStep /\ UNCHANGED <<tableVars, signals, abandoned>>
        /\ faults' \in 0..MaxFaults
    BY <1>0, <1>4 DEF Preparing, Prepare, ReadContent, CompareHash
  <2>4. worker' \in Batch /\ Control' /\ CountsLeft'
    <3>1. \A n \in b.rem : <<n, "remove">> \notin b.dead /\ retries'[<<n, "remove">>] < MaxRetryCount
      BY <1>0, <2>1, <2>3 DEF CountsLeft, Control, PreparedFrom, tableVars
    <3>2. \A n \in Message : n \in b.todo \cup b.checked \/ b.ready[n] # 0
            => retries'[<<n, "index">>] < MaxRetryCount
      BY <1>0, <2>1, <2>3 DEF CountsLeft, ReadyMessages, PreparedFrom, tableVars
    <3>3. QED
      BY <2>1, <2>2, <3>1, <3>2, MovesOn DEF PreparedFrom
  <2>5. QED
    BY <1>0, <2>3, <2>4, TypeOfRest DEF tableVars, BatchInv, TypeOK
<1>5. CASE DeleteSkipped
  <2> DEFINE b == [worker EXCEPT !.skip = {}]
  <2>1. b \in Batch /\ b.cur = worker.cur /\ b.dead = worker.dead /\ b.rem = worker.rem
        /\ b.todo = worker.todo /\ b.checked = worker.checked /\ b.ready = worker.ready
    BY <1>0 DEF Batch
  <2>2. worker.cur = NoMessage
    BY <1>0, <1>5 DEF Control, Removing, DeleteSkipped
  <2>3. /\ pending' \subseteq Intent /\ signals' \in 0..MaxSignals
        /\ retries' \in [Intent -> 0..MaxRetryCount]
        /\ \A i \in Intent : retries'[i] <= retries[i]
    BY <1>0, <1>5, DeleteFacts, IntentFacts DEF DeleteSkipped
  <2>4. worker' \in Batch /\ Control' /\ CountsLeft'
    <3>1. worker' = Advance(b)
      BY <1>5 DEF DeleteSkipped
    <3> HIDE DEF b
    <3>2. \A m \in b.rem : <<m, "remove">> \notin b.dead /\ retries'[<<m, "remove">>] < MaxRetryCount
      BY <1>0, <2>1, <2>3, CountsGoDown DEF Control
    <3>3. \A m \in Message : m \in b.todo \cup b.checked \/ b.ready[m] # 0
            => retries'[<<m, "index">>] < MaxRetryCount
      BY <2>1, <2>3, CountsGoDown
    <3>4. QED
      BY <2>1, <2>2, <3>1, <3>2, <3>3, MovesOn
  <2>5. QED
    BY <1>0, <1>5, <2>3, <2>4, TypeOfRest DEF DeleteSkipped, BatchInv, TypeOK
<1>6. CASE DeferIntents
  <2> DEFINE b == [worker EXCEPT !.defer = {}]
  <2>1. b \in Batch /\ b.cur = worker.cur /\ b.dead = worker.dead /\ b.rem = worker.rem
        /\ b.todo = worker.todo /\ b.checked = worker.checked /\ b.ready = worker.ready
    BY <1>0 DEF Batch
  <2>2. worker.cur = NoMessage
    BY <1>0, <1>6 DEF Control, Removing, DeferIntents
  <2>3. signals' \in 0..MaxSignals /\ retries' = retries
    BY <1>0, <1>6, BoundsAssumption DEF DeferIntents, Signal, TypeOK, tableVars
  <2>4. worker' \in Batch /\ Control' /\ CountsLeft'
    <3>1. worker' = Advance(b)
      BY <1>6 DEF DeferIntents
    <3> HIDE DEF b
    <3>2. \A m \in b.rem : <<m, "remove">> \notin b.dead /\ retries'[<<m, "remove">>] < MaxRetryCount
      BY <1>0, <2>1, <2>3, IntentFacts DEF CountsLeft, Control
    <3>3. \A m \in Message : m \in b.todo \cup b.checked \/ b.ready[m] # 0
            => retries'[<<m, "index">>] < MaxRetryCount
      BY <1>0, <2>1, <2>3, IntentFacts DEF CountsLeft, ReadyMessages
    <3>4. QED
      BY <2>1, <2>2, <3>1, <3>2, <3>3, MovesOn
  <2>5. QED
    BY <1>0, <1>6, <2>3, <2>4, TypeOfRest DEF DeferIntents, tableVars, BatchInv, TypeOK
<1>7. CASE CommitBatch
  <2>1. PICK pc \in {"finish", "batchFailed"} : worker' = [worker EXCEPT !.pc = pc]
    BY <1>7 DEF CommitBatch
  <2>2. /\ worker' \in Batch /\ worker'.pc = pc /\ worker'.cur = worker.cur /\ worker'.dead = worker.dead
        /\ worker'.rem = worker.rem /\ worker'.todo = worker.todo /\ worker'.ready = worker.ready
        /\ worker'.checked = worker.checked /\ worker'.read = worker.read
    BY <1>0, <2>1 DEF Batch
  <2>3. Control' /\ CountsLeft'
    BY <1>0, <1>7, <2>2 DEF CommitBatch, Control, CountsLeft, ReadyMessages, Removing
  <2>4. doc' \in [Message -> Version] /\ faults' \in 0..MaxFaults
    BY <1>0, <1>7 DEF CommitBatch, TypeOK
  <2>5. QED
    BY <1>0, <1>7, <2>2, <2>3, <2>4, TypeOfRest DEF CommitBatch, BatchInv, TypeOK

<1>8. CASE FinishBatch \/ MarkBatchFailed
  <2> DEFINE b == [worker EXCEPT !.ready = Nothing]
  <2>1. b \in Batch /\ b.cur = worker.cur /\ b.dead = worker.dead /\ b.rem = worker.rem
        /\ b.todo = worker.todo /\ b.checked = worker.checked /\ b.ready = Nothing
    BY <1>0 DEF Batch
  <2>2. worker.cur = NoMessage /\ worker.todo = {} /\ worker.checked = {}
    BY <1>0, <1>8 DEF Control, Removing, FinishBatch, MarkBatchFailed
  <2>3. /\ pending' \subseteq Intent /\ signals' \in 0..MaxSignals
        /\ retries' \in [Intent -> 0..MaxRetryCount]
        /\ \A m \in worker.rem : retries'[<<m, "remove">>] < MaxRetryCount
    <3>1. IndexOf(ReadyMessages) \in SUBSET Intent
      BY <1>0, IntentFacts
    <3>2. CASE FinishBatch
      BY <3>1, <3>2, DeleteFacts, CountsGoDown DEF FinishBatch
    <3>3. CASE MarkBatchFailed
      <4>1. \A i \in IndexOf(ReadyMessages) : retries[i] < MaxRetryCount
        BY <1>0 DEF IndexOf, CountsLeft
      <4>2. /\ pending' \subseteq Intent /\ signals' \in 0..MaxSignals
            /\ retries' \in [Intent -> 0..MaxRetryCount]
            /\ \A i \in Intent \ IndexOf(ReadyMessages) : retries'[i] = retries[i]
        BY <3>1, <3>3, <4>1, MarkFacts DEF MarkBatchFailed
      <4>3. \A m \in worker.rem : retries'[<<m, "remove">>] = retries[<<m, "remove">>]
        BY <1>0, <4>2, IntentFacts
      <4>4. QED
        BY <1>0, <4>2, <4>3 DEF CountsLeft
    <3>4. QED
      BY <1>8, <3>2, <3>3
  <2>4. worker' \in Batch /\ Control' /\ CountsLeft'
    <3>1. worker' = Advance(b)
      BY <1>8 DEF FinishBatch, MarkBatchFailed
    <3> HIDE DEF b
    <3>2. \A m \in b.rem : <<m, "remove">> \notin b.dead /\ retries'[<<m, "remove">>] < MaxRetryCount
      BY <1>0, <2>1, <2>3 DEF Control
    <3>3. \A m \in Message : m \in b.todo \cup b.checked \/ b.ready[m] # 0
            => retries'[<<m, "index">>] < MaxRetryCount
      BY <1>0, <2>1, <2>2
    <3>4. QED
      BY <2>1, <2>2, <3>1, <3>2, <3>3, MovesOn
  <2>5. hash' \in [Message -> Version]
    BY <1>0, <1>8 DEF FinishBatch, MarkBatchFailed, TypeOK
  <2>6. QED
    BY <1>0, <1>8, <2>3, <2>4, <2>5, TypeOfRest DEF FinishBatch, MarkBatchFailed, BatchInv, TypeOK
<1>9. ASSUME NEW m \in Message, Remove(m) PROVE BatchInv'
  <2>1. PICK pc \in Removing : worker' = [[worker EXCEPT !.rem = @ \ {m}, !.cur = m] EXCEPT !.pc = pc]
    BY <1>9 DEF Remove, Removing
  <2>2. /\ worker' \in Batch /\ worker'.pc = pc /\ worker'.cur = m /\ worker'.dead = worker.dead
        /\ worker'.rem = worker.rem \ {m} /\ worker'.todo = worker.todo
        /\ worker'.checked = worker.checked /\ worker'.ready = worker.ready
    BY <1>0, <2>1 DEF Batch, Removing
  <2>3. retries' = retries /\ m \in worker.rem
    BY <1>9 DEF Remove
  <2>4. Control'
    BY <1>0, <2>2, BoundsAssumption DEF Control, Removing
  <2>5. CountsLeft'
    BY <1>0, <2>2, <2>3 DEF CountsLeft, ReadyMessages
  <2>6. doc' \in [Message -> Version] /\ faults' \in 0..MaxFaults
    BY <1>0, <1>9 DEF Remove, TypeOK
  <2>7. QED
    BY <1>0, <1>9, <2>2, <2>4, <2>5, <2>6, TypeOfRest DEF Remove, BatchInv, TypeOK
<1>10. CASE DeleteHash
  <2>1. PICK pc \in {"forget", "failed"} : worker' = [worker EXCEPT !.pc = pc]
    BY <1>10 DEF DeleteHash
  <2>2. /\ worker' \in Batch /\ worker'.pc = pc /\ worker'.cur = worker.cur /\ worker'.dead = worker.dead
        /\ worker'.rem = worker.rem /\ worker'.todo = worker.todo /\ worker'.ready = worker.ready
        /\ worker'.checked = worker.checked /\ worker'.read = worker.read
    BY <1>0, <2>1 DEF Batch
  <2>3. Control' /\ CountsLeft'
    BY <1>0, <1>10, <2>2 DEF DeleteHash, Control, CountsLeft, ReadyMessages, Removing
  <2>4. hash' \in [Message -> Version] /\ faults' \in 0..MaxFaults
    BY <1>0, <1>10 DEF DeleteHash, WithoutHash, TypeOK
  <2>5. QED
    BY <1>0, <1>10, <2>2, <2>3, <2>4, TypeOfRest DEF DeleteHash, BatchInv, TypeOK
<1>11. CASE DeleteRemoveIntent \/ MarkRemoveFailed
  <2> DEFINE b == [worker EXCEPT !.cur = NoMessage]
             i == <<worker.cur, "remove">>
  <2>1. b \in Batch /\ b.cur = NoMessage /\ b.dead = worker.dead /\ b.rem = worker.rem
        /\ b.todo = worker.todo /\ b.checked = worker.checked /\ b.ready = worker.ready
    BY <1>0 DEF Batch
  <2>2. worker.cur \in Message /\ i \in Intent /\ retries[i] < MaxRetryCount
    <3>1. worker.cur \in Message
      BY <1>0, <1>11 DEF Control, Removing, DeleteRemoveIntent, MarkRemoveFailed
    <3>2. QED
      BY <1>0, <3>1, IntentFacts DEF CountsLeft
  <2>3. /\ pending' \subseteq Intent /\ signals' \in 0..MaxSignals
        /\ retries' \in [Intent -> 0..MaxRetryCount]
        /\ \A m \in worker.rem : retries'[<<m, "remove">>] < MaxRetryCount
        /\ \A m \in worker.todo \cup worker.checked : retries'[<<m, "index">>] < MaxRetryCount
        /\ \A m \in Message : worker.ready[m] # 0 => retries'[<<m, "index">>] < MaxRetryCount
    <3>1. CASE DeleteRemoveIntent
      <4>1. Delete({i}) /\ {i} \in SUBSET Intent
        BY <2>2, <3>1 DEF DeleteRemoveIntent
      <4> HIDE DEF i
      <4>2. QED
        BY <4>1, DeleteFacts, CountsGoDown
    <3>2. CASE MarkRemoveFailed
      <4>1. MarkFailed({i}) /\ {i} \in SUBSET Intent /\ \A j \in {i} : retries[j] < MaxRetryCount
        BY <2>2, <3>2 DEF MarkRemoveFailed
      <4>2. /\ pending' \subseteq Intent /\ signals' \in 0..MaxSignals
            /\ retries' \in [Intent -> 0..MaxRetryCount]
            /\ \A j \in Intent \ {i} : retries'[j] = retries[j]
        <5> HIDE DEF i
        <5>1. QED
          BY <4>1, MarkFacts
      <4>3. /\ \A m \in worker.rem : <<m, "remove">> \in Intent \ {i}
            /\ \A m \in Message : <<m, "index">> \in Intent \ {i}
        BY <1>0, IntentFacts DEF Control
      <4> HIDE DEF i
      <4>4. worker.checked \subseteq Message
        BY <1>0 DEF Batch
      <4>5. QED
        BY <1>0, <4>2, <4>3, <4>4 DEF CountsLeft, ReadyMessages
    <3>3. QED
      BY <1>11, <3>1, <3>2
  <2>4. worker' \in Batch /\ Control' /\ CountsLeft'
    <3>1. worker' = Advance(b)
      BY <1>11 DEF DeleteRemoveIntent, MarkRemoveFailed
    <3> HIDE DEF b
    <3>2. \A m \in b.rem : <<m, "remove">> \notin b.dead /\ retries'[<<m, "remove">>] < MaxRetryCount
      BY <1>0, <2>1, <2>3 DEF Control
    <3>3. \A m \in Message : m \in b.todo \cup b.checked \/ b.ready[m] # 0
            => retries'[<<m, "index">>] < MaxRetryCount
      BY <2>1, <2>3
    <3>4. QED
      BY <2>1, <3>1, <3>2, <3>3, MovesOn
  <2>5. QED
    BY <1>0, <1>11, <2>3, <2>4, TypeOfRest DEF DeleteRemoveIntent, MarkRemoveFailed, BatchInv, TypeOK
<1>12. CASE Wake
  <2>1. signals' \in 0..MaxSignals
    BY <1>0, <1>12, BoundsAssumption DEF Wake, TypeOK
  <2>2. QED
    BY <1>0, <1>12, <2>1, MovesTo, TypeOfRest DEF Wake, tableVars, BatchInv, TypeOK
<1>13. CASE BatchError
  <2>1. faults' \in 0..MaxFaults
    BY <1>0, <1>13 DEF BatchError
  <2>2. QED
    BY <1>0, <1>13, <2>1, MovesTo, TypeOfRest DEF BatchError, tableVars, BatchInv, TypeOK
<1>14. QED
  BY <1>1, <1>2, <1>3, <1>4, <1>5, <1>6, <1>7, <1>8, <1>9, <1>10, <1>11, <1>12, <1>13
     DEF Worker, Preparing

LEMMA OthersKeepBatch ==
  BatchInv /\ (Restart \/ Clear \/ \E m \in Message : HistoricFetch(m) \/ HistoricStore(m))
    => BatchInv'
<1> SUFFICES ASSUME BatchInv,
                    Restart \/ Clear \/ \E m \in Message : HistoricFetch(m) \/ HistoricStore(m)
             PROVE  BatchInv'
  OBVIOUS
<1>0. TypeOK /\ Control /\ CountsLeft /\ Nothing \in [Message -> Version]
  BY BoundsAssumption DEF BatchInv, Nothing, Version
<1>1. CASE Restart
  <2>1. worker' \in Batch /\ Control' /\ CountsLeft'
    BY <1>1, MovesTo DEF Restart
  <2>2. TypeOK'
    BY <1>0, <1>1, <2>1, BoundsAssumption DEF Restart, TypeOK, mailVars, tableVars
  <2>3. QED
    BY <2>1, <2>2 DEF BatchInv
<1>2. CASE Clear
  <2>1. /\ pending' \subseteq Intent /\ signals' \in 0..MaxSignals
        /\ retries' \in [Intent -> 0..MaxRetryCount]
        /\ \A i \in Intent : retries'[i] <= retries[i]
    BY <1>2, DeleteFacts DEF Clear
  <2>2. overtaken' \subseteq Message
    BY <1>0, <1>2 DEF Clear, InFlight, ReadyMessages, TypeOK, Batch
  <2>3. TypeOK'
    BY <1>0, <1>2, <2>1, <2>2, BoundsAssumption DEF Clear, TypeOK, mailVars
  <2>4. Control'
    BY <1>0, <1>2 DEF Clear, Control
  <2>5. CountsLeft'
    <3>1. worker' = worker
      BY <1>2 DEF Clear
    <3>2. QED
      BY <2>1, <3>1, CountsGoDown DEF CountsLeft, ReadyMessages
  <2>6. QED
    BY <2>3, <2>4, <2>5 DEF BatchInv
<1>3. ASSUME NEW m \in Message, HistoricFetch(m) \/ HistoricStore(m) PROVE BatchInv'
  <2>1. /\ UNCHANGED <<worker, retries, hash, faults, clears, abandoned, overtaken, draft, server>>
        /\ row' \in [Message -> {"absent", "local", "synced", "deleted"}]
        /\ body' \in [Message -> Version] /\ doc' \in [Message -> Version]
        /\ walk' \in [Message -> Version]
        /\ pending' \subseteq Intent /\ signals' \in 0..MaxSignals
    <3>1. walk[m] \in Version /\ server[m] \in Version /\ 0 \in Version
      BY <1>0, BoundsAssumption DEF TypeOK, Version
    <3>2. CASE UNCHANGED <<pending, retries, signals>>
      BY <1>0, <1>3, <3>1, <3>2 DEF HistoricFetch, HistoricStore, TypeOK, mailVars, tableVars
    <3>3. CASE HistoricStore(m) /\ Queue({<<m, "remove">>})
      <4>1. {<<m, "remove">>} \in SUBSET Intent
        BY <1>3 DEF Intent, Op
      <4>2. pending' \subseteq Intent /\ retries' = retries /\ signals' \in 0..MaxSignals
        BY <3>3, <4>1, QueueFacts
      <4>3. QED
        BY <1>0, <3>1, <3>3, <4>2 DEF HistoricStore, TypeOK
    <3>4. QED
      BY <1>3, <3>2, <3>3 DEF HistoricFetch, HistoricStore, tableVars
  <2>2. TypeOK'
    BY <1>0, <2>1 DEF TypeOK
  <2>3. Control' /\ CountsLeft'
    BY <1>0, <2>1 DEF Control, CountsLeft, ReadyMessages
  <2>4. QED
    BY <2>2, <2>3 DEF BatchInv
<1>4. QED
  BY <1>1, <1>2, <1>3

LEMMA NextKeepsBatch == BatchInv /\ [Next]_vars => BatchInv'
<1> SUFFICES ASSUME BatchInv, [Next]_vars PROVE BatchInv'
  OBVIOUS
<1>1. CASE UNCHANGED vars
  BY <1>1 DEF vars, BatchInv, TypeOK, Control, CountsLeft, ReadyMessages
<1>2. CASE Next
  BY <1>2, MailKeepsBatch, WorkerKeepsBatch, OthersKeepBatch DEF Next
<1>3. QED
  BY <1>1, <1>2

LEMMA AlwaysBatch == Spec => []BatchInv
BY InitBatch, NextKeepsBatch, PTL DEF Spec

\* The tables and the worker's batch keep their types; in particular no count
\* of mark_failed ever passes the limit at which process_batch drops an intent.
THEOREM TypeCorrect == Spec => []TypeOK
<1>1. BatchInv => TypeOK
  BY DEF BatchInv
<1>2. QED
  BY <1>1, AlwaysBatch, PTL

-----------------------------------------------------------------------------
(* The wait for a notification *)

LEMMA SleepStep == BatchInv /\ SleepInv /\ [Next]_vars => SleepInv'
<1> SUFFICES ASSUME BatchInv, SleepInv, [Next]_vars PROVE SleepInv'
  OBVIOUS
<1>0. /\ worker \in Batch /\ signals \in 0..MaxSignals /\ MaxSignals \in Nat /\ MaxSignals > 0
      /\ pending \subseteq Intent
  BY BoundsAssumption DEF BatchInv, TypeOK
<1>1. \A S : Queue(S) => (pending' = pending /\ signals' = signals) \/ signals' # 0
  BY <1>0 DEF Queue, Signal
<1>2. \A S : Delete(S) => pending' \subseteq pending /\ signals' >= signals
  BY <1>0 DEF Delete, Signal
<1>3. CASE UNCHANGED vars
  BY <1>3 DEF vars, SleepInv
<1>4. ASSUME NEW m \in Message, Mail(m) PROVE SleepInv'
  BY <1>1, <1>4 DEF Mail, EventCreate, EventUpdate, EventUpdateFlags, EventDelete, StaleDraft,
     StoreBody, SaveDraft, UploadDraft, SendDraft, MailStep, SleepInv
<1>5. CASE Clear
  BY <1>0, <1>2, <1>5 DEF Clear, SleepInv
<1>6. ASSUME NEW m \in Message, HistoricFetch(m) \/ HistoricStore(m) PROVE SleepInv'
  BY <1>1, <1>6 DEF HistoricFetch, HistoricStore, tableVars, SleepInv
<1>7. CASE Poll
  <2>1. CASE pending = {}
    BY <1>7, <2>1 DEF Poll, tableVars, SleepInv
  <2>2. CASE pending # {}
    <3>1. PICK b \in Batch : worker' = Advance(b)
      <4> DEFINE b == [At("poll") EXCEPT
                         !.dead = {i \in pending : IsDeadLetter(i)},
                         !.todo = {m \in Message : <<m, "index">> \in
                                     pending \ {i \in pending : IsDeadLetter(i)}},
                         !.rem = {m \in Message : <<m, "remove">> \in
                                     pending \ {i \in pending : IsDeadLetter(i)}}]
      <4>1. b \in Batch
        BY <1>0, AtFacts DEF Batch
      <4>2. worker' = Advance(b)
        BY <1>7, <2>2 DEF Poll
      <4> HIDE DEF b
      <4>3. QED
        BY <4>1, <4>2
    <3>2. QED
      BY <3>1, AdvanceFacts DEF SleepInv, Fetched
  <2>3. QED
    BY <2>1, <2>2
<1>8. CASE Cleanup
  BY <1>8, AtFacts DEF Cleanup, tableVars, SleepInv
<1>9. CASE Wake \/ BatchError \/ Restart
  BY <1>9, AtFacts DEF Wake, BatchError, Restart, SleepInv
<1>10. CASE CommitBatch \/ DeleteHash
  BY <1>0, <1>10 DEF CommitBatch, DeleteHash, SleepInv, Batch
<1>11. ASSUME NEW m \in Message, Remove(m) PROVE SleepInv'
  BY <1>0, <1>11 DEF Remove, SleepInv, Batch
<1>12. ASSUME NEW m \in Message, Preparing(m) PROVE SleepInv'
  BY <1>12, PrepareAdvances, AdvanceFacts DEF SleepInv, Fetched, PreparedFrom
<1>13. CASE \/ DropDeadLetters \/ DeleteSkipped \/ DeferIntents \/ FinishBatch \/ MarkBatchFailed
            \/ DeleteRemoveIntent \/ MarkRemoveFailed
  <2>1. Nothing \in [Message -> Version]
    BY BoundsAssumption DEF Nothing, Version
  <2>2. \E b \in Batch : worker' = Advance(b)
    BY <1>0, <1>13, <2>1 DEF DropDeadLetters, DeleteSkipped, DeferIntents, FinishBatch,
       MarkBatchFailed, DeleteRemoveIntent, MarkRemoveFailed, Batch
  <2>3. QED
    BY <2>2, AdvanceFacts DEF SleepInv, Fetched
<1>14. QED
  BY <1>3, <1>4, <1>5, <1>6, <1>7, <1>8, <1>9, <1>10, <1>11, <1>12, <1>13
     DEF Next, Worker, Preparing

\* wait_for_watcher_notification never sleeps on work that was queued after
\* the poll that found nothing, whatever is committed in between.
THEOREM NeverSleepsOnWork == Spec => []SleepsOnlyWhenDone
<1>1. Init => SleepInv
  BY DEF Init, SleepInv
<1>2. SleepInv => SleepsOnlyWhenDone
  BY DEF SleepInv, SleepsOnlyWhenDone
<1>3. QED
  BY <1>1, <1>2, AlwaysBatch, SleepStep, PTL DEF Spec

-----------------------------------------------------------------------------
(* Content hashes *)

\* Rows that had a hash stay synced until they are deleted, and intents are only
\* added.
LEMMA MailKeepsHash ==
  ASSUME HashInv, NEW m \in Message, Mail(m)
  PROVE  HashInv'
<1>0. TypeOK /\ Control /\ Rows /\ Removals /\ Halfway /\ HashMeansIndexed
  BY DEF HashInv, BatchInv
<1>1. BatchInv'
  BY MailKeepsBatch DEF HashInv
<1>2. /\ UNCHANGED <<hash, doc, walk, worker, faults, clears, abandoned, overtaken>>
      /\ pending \subseteq pending'
  BY DEF Mail, EventCreate, EventUpdate, EventUpdateFlags, EventDelete, StaleDraft, StoreBody, SaveDraft,
     UploadDraft, SendDraft, MailStep, Queue
<1>3. /\ \A n \in Message : n # m => row'[n] = row[n] /\ draft'[n] = draft[n]
      /\ row[m] = "synced" => row'[m] \in {"synced", "deleted"}
      /\ row[m] = "deleted" => row'[m] = "deleted"
      /\ draft'[m] => row'[m] \in {"local", "synced"}
  BY <1>0 DEF Mail, EventCreate, EventUpdate, EventUpdateFlags, EventDelete, StaleDraft, StoreBody, SaveDraft,
     UploadDraft, SendDraft, mailVars, TypeOK, Rows
<1>4. Rows'
  BY <1>0, <1>2, <1>3 DEF Rows
<1>5. Removals'
  BY <1>0, <1>2 DEF Removals
<1>6. Halfway'
  <2>1. worker.pc = "forget" => worker.cur \in Message
    BY <1>0 DEF Control, Removing, TypeOK, Batch
  <2>2. QED
    BY <1>0, <1>2, <1>3, <2>1 DEF Halfway, ReadyMessages
<1>7. HashMeansIndexed'
  BY <1>0, <1>2, <1>3, <1>4 DEF HashMeansIndexed, Rows
<1>8. QED
  BY <1>1, <1>4, <1>5, <1>6, <1>7 DEF HashInv

\* The worker goes on, and neither writes a hash nor touches a document.
LEMMA MovesOnKeepsHash ==
  ASSUME HashInv, BatchInv', WorkerStep, UNCHANGED <<hash, doc>>, abandoned \subseteq abandoned',
         NEW b \in Batch, worker' = Advance(b) \/ (b.pc \notin {"finish", "forget"} /\ worker' = b),
         b.rem \subseteq worker.rem, b.cur \in {worker.cur, NoMessage},
         \A m \in b.checked : m \in worker.checked \/ row[m] = "synced",
         \A m \in Message : b.ready[m] # 0 => worker.ready[m] # 0 \/ m \in worker.checked,
         \A m \in b.rem \cup (Message \cap {b.cur}) : <<m, "remove">> \in pending => <<m, "remove">> \in pending',
         \A m \in Message : /\ <<m, "remove">> \in pending /\ <<m, "remove">> \notin pending'
                            => m \in abandoned' \/ hash[m] = 0 \/ row[m] = "deleted"
  PROVE  HashInv'
<1>0. TypeOK /\ Control /\ Rows /\ Removals /\ Halfway /\ HashMeansIndexed
  BY DEF HashInv, BatchInv
<1>1. /\ worker'.rem = b.rem /\ worker'.cur = b.cur /\ worker'.ready = b.ready
      /\ worker'.checked = b.checked
      /\ worker'.pc \notin {"finish", "forget"}
  BY AdvanceFacts DEF Fetched
<1>2. row' = row /\ draft' = draft /\ overtaken' = overtaken
  BY DEF WorkerStep, mailVars
<1>3. Rows'
  BY <1>0, <1>1, <1>2 DEF Rows
<1>4. Removals'
  <2>1. b.rem \cup (Message \cap {b.cur}) \subseteq worker.rem \cup (Message \cap {worker.cur})
    BY BoundsAssumption
  <2>2. QED
    BY <1>0, <1>1, <1>2, <2>1 DEF Removals
<1>5. Halfway'
  BY <1>1 DEF Halfway
<1>6. HashMeansIndexed'
  BY <1>0, <1>2 DEF HashMeansIndexed
<1>7. QED
  BY <1>3, <1>4, <1>5, <1>6 DEF HashInv

LEMMA WorkerKeepsHash == HashInv /\ (Worker \/ BatchError) => HashInv'
<1> SUFFICES ASSUME HashInv, Worker \/ BatchError PROVE HashInv'
  OBVIOUS
<1>0. /\ BatchInv /\ TypeOK /\ Control /\ Rows /\ Removals /\ Halfway /\ HashMeansIndexed
      /\ worker \in Batch /\ worker.dead \subseteq Intent
      /\ worker.rem \subseteq Message /\ worker.cur \in Message \cup {NoMessage}
      /\ worker.ready \in [Message -> Version]
      /\ Nothing \in [Message -> Version] /\ (\A m \in Message : Nothing[m] = 0)
  BY BoundsAssumption DEF HashInv, BatchInv, TypeOK, Batch, Nothing, Version
<1>b. BatchInv'
  BY <1>0, WorkerKeepsBatch
<1>1. CASE Cleanup \/ Wake \/ BatchError
  <2>1. PICK pc \in {"poll", "wait", "waitAfterError"} : worker' = At(pc)
    BY <1>1 DEF Cleanup, Wake, BatchError
  <2>2. /\ worker' \in Batch /\ worker'.pc = pc /\ worker'.rem = {} /\ worker'.ready = Nothing
        /\ worker'.cur = NoMessage /\ worker'.checked = {}
    BY <2>1, AtFacts
  <2>3. WorkerStep /\ UNCHANGED <<hash, doc, pending, abandoned>>
    BY <1>1 DEF Cleanup, Wake, BatchError, tableVars
  <2>4. QED
    BY <1>0, <1>b, <2>2, <2>3, MovesOnKeepsHash
<1>2. CASE Poll
  <2> DEFINE dead == {i \in pending : IsDeadLetter(i)}
             live == pending \ dead
             b == [At("poll") EXCEPT
                     !.dead = dead,
                     !.todo = {m \in Message : <<m, "index">> \in live},
                     !.rem = {m \in Message : <<m, "remove">> \in live}]
  <2>1. WorkerStep /\ UNCHANGED <<hash, doc, pending, abandoned, row, draft, overtaken>>
    BY <1>2 DEF Poll, tableVars, WorkerStep, mailVars
  <2>2. /\ worker'.ready = Nothing /\ worker'.cur = NoMessage /\ worker'.checked = {}
        /\ worker'.pc \notin {"finish", "forget"}
        /\ \A m \in worker'.rem : m \in Message /\ <<m, "remove">> \in pending
    <3>1. CASE worker' = At("cleanup")
      BY <3>1, AtFacts
    <3>2. CASE worker' = Advance(b)
      <4>1. /\ b \in Batch /\ b.cur = NoMessage /\ b.ready = Nothing /\ b.checked = {}
            /\ b.rem = {m \in Message : <<m, "remove">> \in live}
        <5>1. dead \subseteq Intent
          BY <1>0 DEF TypeOK
        <5>2. QED
          BY <1>0, <5>1 DEF At, Batch
      <4>2. live \subseteq pending
        OBVIOUS
      <4> HIDE DEF b, live, dead
      <4>3. QED
        BY <3>2, <4>1, <4>2, AdvanceFacts DEF Fetched
    <3>3. QED
      BY <1>2, <3>1, <3>2 DEF Poll
  <2>3. Rows' /\ HashMeansIndexed'
    BY <1>0, <2>1, <2>2 DEF Rows, HashMeansIndexed
  <2>4. Removals' /\ Halfway'
    BY <2>1, <2>2, BoundsAssumption DEF Removals, Halfway
  <2>5. QED
    BY <1>b, <2>3, <2>4 DEF HashInv
<1>3. CASE DropDeadLetters
  <2> DEFINE b == [worker EXCEPT !.dead = {}]
  <2>1. b \in Batch /\ b.rem = worker.rem /\ b.cur = worker.cur /\ b.ready = worker.ready
        /\ b.checked = worker.checked
    BY <1>0 DEF Batch
  <2>2. /\ worker' = Advance(b) /\ WorkerStep /\ UNCHANGED <<hash, doc>>
        /\ pending' = pending \ worker.dead
        /\ abandoned' = abandoned \cup {m \in Message : <<m, "remove">> \in worker.dead}
    BY <1>3 DEF DropDeadLetters, Delete
  <2>3. \A m \in worker.rem \cup (Message \cap {worker.cur}) : <<m, "remove">> \notin worker.dead
    BY <1>0, <1>3, BoundsAssumption DEF Control, Removing, DropDeadLetters
  <2> HIDE DEF b
  <2>4. QED
    BY <1>b, <2>1, <2>2, <2>3, MovesOnKeepsHash
<1>4. ASSUME NEW m \in Message, Preparing(m) PROVE HashInv'
  <2>1. PICK b \in Batch : PreparedFrom(b)
    BY <1>0, <1>4, PrepareAdvances
  <2>2. WorkerStep /\ UNCHANGED <<hash, doc, pending, abandoned>>
    BY <1>4 DEF Preparing, Prepare, ReadContent, CompareHash, tableVars
  <2>3. QED
    BY <1>b, <2>1, <2>2, MovesOnKeepsHash DEF PreparedFrom
<1>5. CASE DeleteSkipped \/ DeferIntents \/ MarkBatchFailed
  <2>1. PICK b \in Batch :
          /\ worker' = Advance(b) /\ b.cur = worker.cur /\ b.rem = worker.rem
          /\ b.checked = worker.checked
          /\ \A n \in Message : b.ready[n] # 0 => worker.ready[n] # 0
    <3>1. CASE DeleteSkipped
      <4>1. [worker EXCEPT !.skip = {}] \in Batch
        BY <1>0 DEF Batch
      <4>2. QED
        BY <1>0, <3>1, <4>1 DEF DeleteSkipped, Batch
    <3>2. CASE DeferIntents
      <4>1. [worker EXCEPT !.defer = {}] \in Batch
        BY <1>0 DEF Batch
      <4>2. QED
        BY <1>0, <3>2, <4>1 DEF DeferIntents, Batch
    <3>3. CASE MarkBatchFailed
      <4>1. [worker EXCEPT !.ready = Nothing] \in Batch
        BY <1>0 DEF Batch
      <4>2. QED
        BY <1>0, <3>3, <4>1 DEF MarkBatchFailed, Batch
    <3>4. QED
      BY <1>5, <3>1, <3>2, <3>3
  <2>2. /\ WorkerStep /\ UNCHANGED <<hash, doc, abandoned>>
        /\ \A n \in Message : <<n, "remove">> \in pending => <<n, "remove">> \in pending'
    BY <1>0, <1>5, IntentFacts DEF DeleteSkipped, DeferIntents, MarkBatchFailed, Delete, MarkFailed,
       tableVars, Batch
  <2>3. QED
    BY <1>0, <1>b, <2>1, <2>2, MovesOnKeepsHash
<1>6. CASE CommitBatch
  <2>1. /\ WorkerStep /\ UNCHANGED <<pending, hash, abandoned, row, draft, overtaken>>
    BY <1>6 DEF CommitBatch, WorkerStep, mailVars
  <2>2. /\ worker'.rem = worker.rem /\ worker'.cur = worker.cur /\ worker'.ready = worker.ready
        /\ worker'.checked = worker.checked /\ worker'.pc \in {"finish", "batchFailed"}
    BY <1>0, <1>6 DEF CommitBatch, Batch
  <2>3. /\ \A m \in Message : doc[m] # 0 => doc'[m] # 0
        /\ worker'.pc = "finish" => \A m \in Message : worker.ready[m] # 0 => doc'[m] # 0
    BY <1>0, <1>6 DEF CommitBatch, Batch, TypeOK
  <2>4. Rows' /\ Removals'
    BY <1>0, <2>1, <2>2 DEF Rows, Removals
  <2>5. Halfway'
    BY <2>2, <2>3 DEF Halfway, ReadyMessages
  <2>6. HashMeansIndexed'
    BY <1>0, <2>1, <2>3 DEF HashMeansIndexed
  <2>7. QED
    BY <1>b, <2>4, <2>5, <2>6 DEF HashInv
<1>7. CASE FinishBatch
  <2> DEFINE b == [worker EXCEPT !.ready = Nothing]
  <2>1. b \in Batch /\ b.rem = worker.rem /\ b.cur = worker.cur /\ b.ready = Nothing
        /\ b.checked = worker.checked
    BY <1>0 DEF Batch
  <2>2. /\ worker'.rem = worker.rem /\ worker'.cur = worker.cur /\ worker'.ready = Nothing
        /\ worker'.checked = worker.checked /\ worker'.pc \notin {"finish", "forget"}
    <3>1. worker' = Advance(b)
      BY <1>7 DEF FinishBatch
    <3> HIDE DEF b
    <3>2. QED
      BY <2>1, <3>1, AdvanceFacts DEF Fetched
  <2>3. /\ UNCHANGED <<doc, abandoned, row, draft, overtaken>>
        /\ \A n \in Message : <<n, "remove">> \in pending => <<n, "remove">> \in pending'
    BY <1>0, <1>7, IntentFacts DEF FinishBatch, WorkerStep, mailVars, Delete, ReadyMessages
  <2>4. \A m \in Message : hash'[m] # 0 => hash[m] # 0 \/ worker.ready[m] # 0
    BY <1>7 DEF FinishBatch
  <2>5. \A m \in Message : worker.ready[m] # 0 => doc[m] # 0 \/ m \in overtaken
    BY <1>0, <1>7 DEF FinishBatch, Halfway, ReadyMessages
  <2>6. Rows'
    BY <1>0, <2>2, <2>3, <2>4 DEF Rows
  <2>7. Removals' /\ Halfway'
    BY <1>0, <2>2, <2>3 DEF Removals, Halfway
  <2>8. HashMeansIndexed'
    BY <1>0, <2>3, <2>4, <2>5 DEF HashMeansIndexed
  <2>9. QED
    BY <1>b, <2>6, <2>7, <2>8 DEF HashInv
<1>8. ASSUME NEW m \in Message, Remove(m) PROVE HashInv'
  <2>1. PICK pc \in Removing : worker' = [[worker EXCEPT !.rem = @ \ {m}, !.cur = m] EXCEPT !.pc = pc]
    BY <1>8 DEF Remove, Removing
  <2>2. /\ worker'.pc = pc /\ worker'.cur = m /\ worker'.rem = worker.rem \ {m}
        /\ worker'.ready = worker.ready /\ worker'.checked = worker.checked
    BY <1>0, <2>1 DEF Batch
  <2>3. /\ UNCHANGED <<pending, hash, abandoned, row, draft, overtaken>> /\ m \in worker.rem
    BY <1>8 DEF Remove, WorkerStep, mailVars
  <2>4. \A n \in Message : n # m => doc'[n] = doc[n]
    BY <1>0, <1>8 DEF Remove, TypeOK
  <2>5. pc = "forget" => row[m] # "synced"
    BY <1>0, <1>8, <2>2 DEF Remove, Batch
  <2>6. Rows' /\ Removals'
    BY <1>0, <2>2, <2>3 DEF Rows, Removals
  <2>7. Halfway'
    BY <1>0, <2>2, <2>3, <2>5 DEF Halfway, Rows, Removing
  <2>8. HashMeansIndexed'
    BY <1>0, <2>3, <2>4 DEF HashMeansIndexed, Removals
  <2>9. QED
    BY <1>b, <2>6, <2>7, <2>8 DEF HashInv
<1>9. CASE DeleteHash
  <2>1. /\ worker'.pc \in {"forget", "failed"} /\ worker'.cur = worker.cur
        /\ worker'.rem = worker.rem /\ worker'.ready = worker.ready
        /\ worker'.checked = worker.checked /\ worker.cur \in Message
    BY <1>0, <1>9 DEF DeleteHash, Batch, Control, Removing
  <2>2. /\ UNCHANGED <<pending, doc, abandoned, row, draft, overtaken>>
        /\ \A n \in Message : hash'[n] # 0 => hash[n] # 0
        /\ worker'.pc = "forget" => hash'[worker.cur] = 0
    BY <1>0, <1>9, <2>1 DEF DeleteHash, WithoutHash, WorkerStep, mailVars, TypeOK, Batch
  <2>3. Rows' /\ Removals' /\ Halfway'
    BY <1>0, <2>1, <2>2 DEF Rows, Removals, Halfway
  <2>4. HashMeansIndexed'
    BY <1>0, <2>2 DEF HashMeansIndexed
  <2>5. QED
    BY <1>b, <2>3, <2>4 DEF HashInv
<1>10. CASE DeleteRemoveIntent \/ MarkRemoveFailed
  <2> DEFINE b == [worker EXCEPT !.cur = NoMessage]
  <2>1. b \in Batch /\ b.rem = worker.rem /\ b.cur = NoMessage /\ b.ready = worker.ready
        /\ b.checked = worker.checked
    BY <1>0 DEF Batch
  <2>2. /\ worker' = Advance(b) /\ WorkerStep /\ UNCHANGED <<hash, doc, abandoned>>
        /\ pending \ {<<worker.cur, "remove">>} \subseteq pending'
        /\ worker.pc = "forget" \/ pending' = pending
    BY <1>10 DEF DeleteRemoveIntent, MarkRemoveFailed, Delete, MarkFailed
  <2>3. \A m \in b.rem \cup (Message \cap {b.cur}) : <<m, "remove">> # <<worker.cur, "remove">>
    BY <1>0, <2>1, BoundsAssumption DEF Control
  <2>4. \A m \in Message : /\ <<m, "remove">> \in pending /\ <<m, "remove">> \notin pending'
                           => hash[m] = 0 \/ row[m] = "deleted"
    BY <1>0, <2>2 DEF Halfway
  <2> HIDE DEF b
  <2>5. QED
    BY <1>b, <2>1, <2>2, <2>3, <2>4, MovesOnKeepsHash
<1>11. QED
  BY <1>1, <1>2, <1>3, <1>4, <1>5, <1>6, <1>7, <1>8, <1>9, <1>10
     DEF Worker, Preparing

LEMMA OthersKeepHash ==
  HashInv /\ (Restart \/ Clear \/ \E m \in Message : HistoricFetch(m) \/ HistoricStore(m))
    => HashInv'
<1> SUFFICES ASSUME HashInv,
                    Restart \/ Clear \/ \E m \in Message : HistoricFetch(m) \/ HistoricStore(m)
             PROVE  HashInv'
  OBVIOUS
<1>0. BatchInv /\ TypeOK /\ Control /\ Rows /\ Removals /\ Halfway /\ HashMeansIndexed
  BY DEF HashInv, BatchInv
<1>b. BatchInv'
  BY <1>0, OthersKeepBatch
<1>1. CASE Restart
  <2>1. /\ worker'.pc = "poll" /\ worker'.rem = {} /\ worker'.ready = Nothing
        /\ worker'.cur = NoMessage /\ worker'.checked = {}
    BY <1>1, AtFacts DEF Restart
  <2>2. UNCHANGED <<row, draft, pending, hash, doc, abandoned, overtaken>>
    BY <1>1 DEF Restart, mailVars, tableVars
  <2>3. Rows' /\ HashMeansIndexed'
    BY <1>0, <2>1, <2>2 DEF Rows, HashMeansIndexed, Nothing
  <2>4. Removals' /\ Halfway'
    BY <2>1, BoundsAssumption DEF Removals, Halfway
  <2>5. QED
    BY <1>b, <2>3, <2>4 DEF HashInv
<1>2. CASE Clear
  <2>1. /\ UNCHANGED <<row, draft, worker, abandoned>> /\ hash' = Nothing
        /\ overtaken' = overtaken \cup InFlight
    BY <1>2 DEF Clear, mailVars
  <2>2. worker.pc = "forget" => worker.cur \in Message
    BY <1>0 DEF Control, Removing, TypeOK, Batch
  <2>3. Rows' /\ HashMeansIndexed'
    BY <1>0, <2>1 DEF Rows, HashMeansIndexed, Nothing
  <2>4. Removals'
    BY <2>1 DEF Removals, InFlight
  <2>5. worker.pc = "finish" => ReadyMessages \subseteq overtaken'
    BY <1>0, <2>1 DEF Control, InFlight
  <2>6. Halfway'
    BY <2>1, <2>2, <2>5 DEF Halfway, ReadyMessages, Nothing
  <2>7. QED
    BY <1>b, <2>3, <2>4, <2>6 DEF HashInv
<1>3. ASSUME NEW m \in Message, HistoricFetch(m) \/ HistoricStore(m) PROVE HashInv'
  <2>1. UNCHANGED <<draft, worker, hash, abandoned, overtaken>> /\ pending \subseteq pending'
    BY <1>3 DEF HistoricFetch, HistoricStore, mailVars, tableVars, Queue
  <2>2. /\ \A n \in Message : doc[n] # 0 => doc'[n] # 0
        /\ \A n \in Message : row'[n] = row[n] \/ (row[n] = "absent" /\ row'[n] = "synced")
    BY <1>0, <1>3 DEF HistoricFetch, HistoricStore, mailVars, tableVars, TypeOK
  <2>3. Rows'
    BY <1>0, <2>1, <2>2 DEF Rows
  <2>4. HashMeansIndexed'
    BY <1>0, <2>1, <2>2 DEF HashMeansIndexed, Rows
  <2>5. worker.pc = "forget" => worker.cur \in Message
    BY <1>0 DEF Control, Removing, TypeOK, Batch
  <2>6. Removals' /\ Halfway'
    BY <1>0, <2>1, <2>2, <2>5 DEF Removals, Halfway, ReadyMessages
  <2>7. QED
    BY <1>b, <2>3, <2>4, <2>6 DEF HashInv
<1>4. QED
  BY <1>1, <1>2, <1>3

\* A message with a content hash, which makes the worker skip it, is in the
\* index, or its removal is still queued: whatever fails and wherever the
\* process ends between the engine's commit and the transaction on the tables.
THEOREM HashesAreIndexed == Spec => []HashMeansIndexed
<1>1. Init => HashInv
  <2> SUFFICES ASSUME Init PROVE HashInv
    OBVIOUS
  <2>1. /\ worker.pc = "poll" /\ worker.rem = {} /\ worker.ready = Nothing
        /\ worker.cur = NoMessage /\ worker.checked = {}
    BY AtFacts DEF Init
  <2>2. Rows /\ HashMeansIndexed
    BY <2>1 DEF Init, Rows, HashMeansIndexed, Nothing
  <2>3. Removals /\ Halfway
    BY <2>1, BoundsAssumption DEF Removals, Halfway
  <2>4. QED
    BY <2>2, <2>3, InitBatch DEF HashInv
<1>2. HashInv /\ [Next]_vars => HashInv'
  <2> SUFFICES ASSUME HashInv, [Next]_vars PROVE HashInv'
    OBVIOUS
  <2>1. CASE UNCHANGED vars
    BY <2>1, NextKeepsBatch DEF vars, HashInv, Rows, Removals, Halfway, HashMeansIndexed, ReadyMessages
  <2>2. CASE Next
    BY <2>2, MailKeepsHash, WorkerKeepsHash, OthersKeepHash DEF Next
  <2>3. QED
    BY <2>1, <2>2
<1>3. HashInv => HashMeansIndexed
  BY DEF HashInv
<1>4. QED
  BY <1>1, <1>2, <1>3, PTL DEF Spec
====
