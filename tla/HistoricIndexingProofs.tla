----------------------- MODULE HistoricIndexingProofs -----------------------
(***************************************************************************)
(* The historic pass for any mailbox, batch and sub-chunk size, any number *)
(* of callers, runs, retries and faults.                                   *)
(***************************************************************************)
EXTENDS HistoricIndexing, FiniteSetTheorems, TLAPS

-----------------------------------------------------------------------------
(* Types *)

LEMMA RecordFacts ==
  /\ Idle \in CallState
  /\ \A pc \in TaskPc : TaskAt(pc) \in TaskState /\ TaskAt(pc).pc = pc
  /\ \A o \in Status : Finished(o) \in TaskState
  /\ \A a \in 0..Mailbox, n \in 0..MaxRetryAttempts : FetchFrom(a, n) \in TaskState
<1>1. Idle \in CallState
  BY BoundsAssumption DEF Idle, CallState, CallPc
<1>2. \A pc \in TaskPc : TaskAt(pc) \in TaskState /\ TaskAt(pc).pc = pc
  BY BoundsAssumption DEF TaskAt, TaskState, Status
<1>3. \A o \in Status : Finished(o) \in TaskState
  BY BoundsAssumption DEF Finished, TaskAt, TaskState, TaskPc
<1>4. \A a \in 0..Mailbox, n \in 0..MaxRetryAttempts : FetchFrom(a, n) \in TaskState
  <2>1. TaskAt("fetch") \in TaskState
    BY <1>2 DEF TaskPc
  <2>2. QED
    BY <2>1 DEF FetchFrom, TaskState
<1>5. QED
  BY <1>1, <1>2, <1>3, <1>4

\* A batch and a sub-chunk end inside the mailbox, after they begin.
LEMMA EndFacts ==
  ASSUME NEW t \in TaskState
  PROVE  /\ BatchEnd(t.anchor) \in 0..Mailbox /\ t.anchor <= BatchEnd(t.anchor)
         /\ ChunkEnd(t) \in 0..Mailbox /\ ChunkEnd(t) <= BatchEnd(t.anchor)
         /\ t.at <= BatchEnd(t.anchor) => t.at <= ChunkEnd(t)
         /\ Chunk(t) \subseteq Position
         /\ IsLastBatch(t) => BatchEnd(t.anchor) = Mailbox
<1>1. t.anchor \in 0..Mailbox /\ t.at \in 0..Mailbox
  BY DEF TaskState
<1>2. BatchEnd(t.anchor) \in 0..Mailbox /\ t.anchor <= BatchEnd(t.anchor)
  BY <1>1, BoundsAssumption DEF BatchEnd, Least
<1>3. /\ ChunkEnd(t) \in 0..Mailbox /\ ChunkEnd(t) <= BatchEnd(t.anchor)
      /\ t.at <= BatchEnd(t.anchor) => t.at <= ChunkEnd(t)
  BY <1>1, <1>2, BoundsAssumption DEF ChunkEnd, Least
<1>4. Chunk(t) \subseteq Position
  BY <1>1, <1>3, BoundsAssumption DEF Chunk, Position
<1>5. IsLastBatch(t) => BatchEnd(t.anchor) = Mailbox
  BY <1>1, BoundsAssumption DEF IsLastBatch, Fetched, BatchEnd, Least
<1>6. QED
  BY <1>2, <1>3, <1>4, <1>5

LEMMA FailedFacts ==
  ASSUME NEW t \in TaskState
  PROVE  /\ Failed(t) \in TaskState
         /\ \/ Failed(t) = Finished("interrupted")
            \/ \E n \in 0..MaxRetryAttempts : Failed(t) = FetchFrom(t.anchor, n)
<1>1. t.retry \in 0..MaxRetryAttempts /\ t.anchor \in 0..Mailbox /\ "interrupted" \in Status
  BY DEF TaskState, Status
<1>2. CASE t.retry + 1 > MaxRetryAttempts
  BY <1>1, <1>2, RecordFacts DEF Failed
<1>3. CASE ~(t.retry + 1 > MaxRetryAttempts)
  BY <1>1, <1>3, RecordFacts, BoundsAssumption DEF Failed
<1>4. QED
  BY <1>2, <1>3

\* What follows a batch.
LEMMA AfterBatchFacts ==
  ASSUME NEW t \in TaskState
  PROVE  /\ AfterBatch(t) \in TaskState
         /\ \/ AfterBatch(t) = Finished("interrupted")
            \/ AfterBatch(t) = Finished("completed") /\ BatchEnd(t.anchor) = Mailbox
            \/ AfterBatch(t) = FetchFrom(BatchEnd(t.anchor), 0)
<1>1. 0 \in 0..MaxRetryAttempts /\ "interrupted" \in Status /\ "completed" \in Status
  BY BoundsAssumption DEF Status
<1>2. QED
  BY <1>1, EndFacts, RecordFacts DEF AfterBatch

LEMMA InitType == Init => TypeOK
<1>1. /\ Idle \in CallState /\ TaskAt("none") \in TaskState
  BY RecordFacts DEF TaskPc
<1>2. SUFFICES ASSUME Init PROVE TypeOK
  OBVIOUS
<1>3. call \in [Caller -> CallState] /\ task \in [Run -> TaskState]
  <2>1. call = [c \in Caller |-> Idle] /\ task = [r \in Run |-> TaskAt("none")]
    BY <1>2 DEF Init
  <2>2. QED
    BY <1>1, <2>1
<1>4. enabled \in BOOLEAN /\ isRunning \in BOOLEAN /\ overtaken \in BOOLEAN
  BY <1>2 DEF Init
<1>5. /\ checkpoint \in 0..Mailbox /\ docs \subseteq Position
      /\ runCancel \in 0..MaxRuns /\ taskJoin \in 0..MaxRuns
      /\ runs \in 0..MaxRuns /\ faults \in 0..MaxFaults /\ calls \in 0..MaxCalls
  BY <1>2, BoundsAssumption DEF Init
<1>6. /\ status \in Status /\ counted \in [Position -> Nat]
      /\ cancelled \subseteq Run /\ aborted \subseteq Run /\ skipped \subseteq Position
  BY <1>2 DEF Init, Status
<1>7. QED
  BY <1>3, <1>4, <1>5, <1>6 DEF TypeOK

LEMMA StartType ==
  ASSUME TypeOK, NEW c \in Caller, StartLoad(c) \/ StartStep(c)
  PROVE  TypeOK'
<1>1. /\ Idle \in CallState /\ TaskAt("resume") \in TaskState /\ call[c] \in CallState
      /\ "ongoing" \in Status
  BY RecordFacts DEF TaskPc, TypeOK, Status
<1>2. CASE StartLoad(c)
  <2>1. [Idle EXCEPT !.pc = "decide", !.go = enabled /\ status # "completed"] \in CallState
    <3> DEFINE g == enabled /\ status # "completed"
    <3>1. g \in BOOLEAN
      OBVIOUS
    <3> HIDE DEF g
    <3>2. [Idle EXCEPT !.pc = "decide", !.go = g] \in CallState
      BY <1>1, <3>1 DEF CallState, CallPc
    <3>3. QED
      BY <3>2 DEF g
  <2>2. QED
    BY <1>2, <2>1 DEF StartLoad, StartUnchanged, slotVars, signalVars, TypeOK
<1>3. CASE StartDecide(c)
  <2>1. CASE MaySpawn(c) /\ runs < MaxRuns
    <3>1. runs + 1 \in 0..MaxRuns
      BY <2>1, BoundsAssumption DEF TypeOK
    <3>2. [call[c] EXCEPT !.pc = "install", !.run = runs + 1] \in CallState
      BY <1>1, <3>1 DEF CallState, CallPc
    <3>3. QED
      BY <1>3, <2>1, <3>1, <3>2 DEF StartDecide, StartUnchanged, slotVars, signalVars, TypeOK
  <2>2. CASE ~(MaySpawn(c) /\ runs < MaxRuns)
    BY <1>1, <1>3, <2>2 DEF StartDecide, StartUnchanged, slotVars, signalVars, TypeOK
  <2>3. QED
    BY <2>1, <2>2
<1>4. CASE StartInstall(c)
  <2>1. [call[c] EXCEPT !.pc = "mark"] \in CallState /\ call[c].run \in 0..MaxRuns
    BY <1>1 DEF CallState, CallPc
  <2>2. call' = [call EXCEPT ![c] = [call[c] EXCEPT !.pc = "mark"]]
    BY <1>4 DEF StartInstall
  <2>3. QED
    BY <1>4, <2>1, <2>2 DEF StartInstall, StartUnchanged, slotVars, signalVars, TypeOK
<1>5. CASE StartMark(c)
  <2>1. [call[c] EXCEPT !.pc = "spawn"] \in CallState
    BY <1>1 DEF CallState, CallPc
  <2>2. call' \in [Caller -> CallState]
    <3>1. \/ call' = [call EXCEPT ![c] = [call[c] EXCEPT !.pc = "spawn"]]
          \/ call' = [call EXCEPT ![c] = Idle]
      BY <1>5 DEF StartMark
    <3>2. QED
      BY <1>1, <2>1, <3>1 DEF TypeOK
  <2>3. status' \in Status /\ faults' \in 0..MaxFaults /\ isRunning' \in BOOLEAN
        /\ runCancel' \in 0..MaxRuns /\ taskJoin' \in 0..MaxRuns
    <3>1. \/ status' = "ongoing" /\ UNCHANGED <<isRunning, runCancel, taskJoin, faults>>
          \/ /\ faults < MaxFaults /\ faults' = faults + 1 /\ UNCHANGED status
             /\ isRunning' = FALSE /\ runCancel' = 0 /\ taskJoin' = 0
      BY <1>5 DEF StartMark, Fault, ReleaseSlot, slotVars
    <3>2. isRunning' \in BOOLEAN /\ status' \in Status
      BY <1>1, <3>1 DEF TypeOK
    <3>3. faults' \in 0..MaxFaults /\ runCancel' \in 0..MaxRuns /\ taskJoin' \in 0..MaxRuns
      BY <3>1, BoundsAssumption DEF TypeOK
    <3>4. QED
      BY <3>2, <3>3
  <2>4. QED
    BY <1>5, <2>2, <2>3 DEF StartMark, StartUnchanged, signalVars, TypeOK
<1>6. CASE StartSpawn(c)
  <2>1. [call[c] EXCEPT !.pc = "store"] \in CallState
    BY <1>1 DEF CallState, CallPc
  <2>2. call' = [call EXCEPT ![c] = [call[c] EXCEPT !.pc = "store"]]
    BY <1>6 DEF StartSpawn
  <2>3. QED
    BY <1>1, <1>6, <2>1, <2>2 DEF StartSpawn, StartUnchanged, slotVars, signalVars, TypeOK
<1>7. CASE StartStore(c)
  <2>1. call[c].run \in 0..MaxRuns
    BY <1>1 DEF CallState
  <2>2. QED
    BY <1>1, <1>7, <2>1 DEF StartStore, StartUnchanged, slotVars, signalVars, TypeOK
<1>8. QED
  BY <1>2, <1>3, <1>4, <1>5, <1>6, <1>7 DEF StartStep

LEMMA StopType ==
  ASSUME TypeOK, NEW c \in Caller, StopStep(c)
  PROVE  TypeOK'
<1>1. /\ Idle \in CallState /\ call[c] \in CallState
      /\ \A pc \in CallPc, n \in 0..MaxRuns :
           [call[c] EXCEPT !.pc = pc] \in CallState /\ [Idle EXCEPT !.pc = pc] \in CallState
           /\ [call[c] EXCEPT !.pc = pc, !.run = n] \in CallState
  BY RecordFacts DEF TypeOK, CallState
<1>2. call' \in [Caller -> CallState]
  <2>1. \/ call' = call \/ call' = [call EXCEPT ![c] = Idle]
        \/ \E pc \in CallPc : call' = [call EXCEPT ![c] = [call[c] EXCEPT !.pc = pc]]
        \/ \E pc \in CallPc : call' = [call EXCEPT ![c] = [Idle EXCEPT !.pc = pc]]
        \/ call' = [call EXCEPT ![c] = [call[c] EXCEPT !.pc = "wait", !.run = taskJoin]]
    BY DEF StopStep, Cancel, Enable, Disable, WriteDisabled, CancelAndWait, StopRun, WriteFails,
         Stopped, WaitTimeout,
           ClearTables, CallPc
  <2>2. taskJoin \in 0..MaxRuns /\ "wait" \in CallPc
    BY DEF TypeOK, CallPc
  <2>3. QED
    BY <1>1, <2>1, <2>2 DEF TypeOK
<1>3. /\ runCancel' \in 0..MaxRuns /\ taskJoin' \in 0..MaxRuns
      /\ cancelled' \subseteq Run /\ aborted' \subseteq Run
  <2>1. /\ runCancel' = runCancel \/ runCancel' = 0
        /\ taskJoin' = taskJoin \/ taskJoin' = 0
        /\ cancelled' = cancelled \/ (runCancel # 0 /\ cancelled' = cancelled \cup {runCancel})
        /\ aborted' = aborted \/ (taskJoin # 0 /\ aborted' = aborted \cup {taskJoin})
    BY DEF StopStep, Cancel, Enable, Disable, WriteDisabled, CancelAndWait, StopRun, WriteFails,
         Stopped, WaitTimeout, ClearTables,
           CancelRun, TakeToken, slotVars, signalVars
  <2>2. \A n \in 0..MaxRuns : n # 0 => n \in Run
    BY BoundsAssumption DEF Run
  <2>3. 0 \in 0..MaxRuns
    BY BoundsAssumption
  <2>4. QED
    BY <2>1, <2>2, <2>3 DEF TypeOK
<1>4. /\ faults' \in 0..MaxFaults /\ calls' \in 0..MaxCalls
  <2>1. /\ faults' = faults \/ (faults < MaxFaults /\ faults' = faults + 1)
        /\ calls' = calls \/ (calls < MaxCalls /\ calls' = calls + 1)
    BY DEF StopStep, Cancel, Enable, Disable, WriteDisabled, CancelAndWait, StopRun, WriteFails,
         Stopped, WaitTimeout, ClearTables,
           BeginCall, Fault
  <2>2. QED
    BY <2>1, BoundsAssumption DEF TypeOK
<1>5. /\ enabled' \in BOOLEAN /\ isRunning' \in BOOLEAN /\ overtaken' \in BOOLEAN
  BY DEF StopStep, Cancel, Enable, Disable, WriteDisabled, CancelAndWait, StopRun, WriteFails,
         Stopped, WaitTimeout, ClearTables,
         CancelRun, slotVars, durableVars, TypeOK
<1>6. /\ status' \in Status /\ counted' \in [Position -> Nat] /\ checkpoint' \in 0..Mailbox
      /\ docs' \subseteq Position /\ skipped' \subseteq Position
  <2>1. \/ UNCHANGED <<status, counted, checkpoint, docs, skipped>>
        \/ /\ status' = "none" /\ counted' = [p \in Position |-> 0] /\ checkpoint' = 0
           /\ docs' = {} /\ skipped' = {}
    BY DEF StopStep, Cancel, Enable, Disable, WriteDisabled, CancelAndWait, StopRun, WriteFails,
         Stopped, WaitTimeout, ClearTables,
           durableVars
  <2>2. QED
    BY <2>1, BoundsAssumption DEF TypeOK, Status
<1>7. UNCHANGED <<task, runs>>
  BY DEF StopStep, Cancel, Enable, Disable, WriteDisabled, CancelAndWait, StopRun, WriteFails,
         Stopped, WaitTimeout, ClearTables,
         CallUnchanged
<1>8. QED
  BY <1>2, <1>3, <1>4, <1>5, <1>6, <1>7 DEF TypeOK

\* The parts of TypeOK that a task leaves alone.
LEMMA TypeOfRest ==
  ASSUME TypeOK, TaskUnchanged, status' \in Status, counted' \in [Position -> Nat], checkpoint' \in 0..Mailbox,
         docs' \subseteq Position, skipped' \subseteq Position, faults' \in 0..MaxFaults,
         task' \in [Run -> TaskState]
  PROVE  TypeOK'
BY DEF TypeOK, TaskUnchanged, slotVars, signalVars

LEMMA TaskType ==
  ASSUME TypeOK, NEW r \in Run, TaskStep(r)
  PROVE  TypeOK'
<1>1. /\ task[r] \in TaskState /\ task \in [Run -> TaskState]
      /\ status \in Status /\ counted \in [Position -> Nat] /\ checkpoint \in 0..Mailbox
      /\ docs \subseteq Position /\ skipped \subseteq Position /\ faults \in 0..MaxFaults
      /\ 0 \in 0..MaxRetryAttempts
  BY BoundsAssumption DEF TypeOK
<1>2. /\ \A pc \in TaskPc : TaskAt(pc) \in TaskState
      /\ Finished("interrupted") \in TaskState /\ Finished("completed") \in TaskState
      /\ \A a \in 0..Mailbox, n \in 0..MaxRetryAttempts : FetchFrom(a, n) \in TaskState
      /\ Failed(task[r]) \in TaskState /\ AfterBatch(task[r]) \in TaskState
  BY <1>1, RecordFacts, FailedFacts, AfterBatchFacts DEF Status
<1>3. Fault => faults' \in 0..MaxFaults
  BY <1>1, BoundsAssumption DEF Fault
<1>4. CASE Resume(r)
  BY <1>1, <1>2, <1>3, <1>4, TypeOfRest DEF Resume
<1>5. CASE FetchBatch(r)
  <2>1. [task[r] EXCEPT !.pc = "bodies", !.at = task[r].anchor] \in TaskState
    BY <1>1 DEF TaskState, TaskPc
  <2>2. QED
    BY <1>1, <1>2, <1>3, <1>5, <2>1, TypeOfRest DEF FetchBatch
<1>6. CASE FetchBodies(r)
  <2>1. /\ Chunk(task[r]) \subseteq Position /\ ChunkEnd(task[r]) \in 0..Mailbox
        /\ task[r].anchor \in 0..Mailbox /\ task[r].retry \in 0..MaxRetryAttempts
    BY <1>1, EndFacts DEF TaskState
  <2>2. [task[r] EXCEPT !.at = ChunkEnd(task[r])] \in TaskState
    BY <1>1, <2>1 DEF TaskState
  <2>3. \A S \in SUBSET Position : \A p \in S \cup OldestSoFar(task[r]) :
          [task[r] EXCEPT !.pc = "page", !.ready = S, !.last = p] \in TaskState
    <3>1. \A p \in Position \cup OldestSoFar(task[r]) : p \in 0..Mailbox
      BY <1>1, BoundsAssumption DEF Position, OldestSoFar, TaskState
    <3>2. QED
      BY <1>1, <3>1 DEF TaskState, TaskPc
  <2>4. skipped' \subseteq Position /\ faults' \in 0..MaxFaults
    BY <1>1, <1>3, <1>6, <2>1 DEF FetchBodies
  <2>5. \E t \in TaskState : task' = [task EXCEPT ![r] = t]
    BY <1>2, <1>6, <2>1, <2>2, <2>3 DEF FetchBodies
  <2>6. QED
    BY <1>1, <1>6, <2>4, <2>5, TypeOfRest DEF FetchBodies
<1>7. CASE StorePage(r)
  <2>1. ChunkEnd(task[r]) \in 0..Mailbox
    BY <1>1, EndFacts
  <2>2. /\ Stored(task[r]) \in TaskState
        /\ task[r].anchor \in 0..Mailbox /\ task[r].retry \in 0..MaxRetryAttempts
    BY <1>1, <2>1 DEF Stored, TaskState, TaskPc
  <2>3. docs' \subseteq Position /\ skipped' \subseteq Position /\ faults' \in 0..MaxFaults
    BY <1>1, <1>3, <1>7 DEF StorePage, PersistPage, TaskState
  <2>4. \E t \in TaskState : task' = [task EXCEPT ![r] = t]
    BY <1>2, <1>7, <2>2 DEF StorePage, PersistPage
  <2>5. QED
    BY <1>1, <1>7, <2>3, <2>4, TypeOfRest DEF StorePage, PersistPage
<1>8. CASE SaveProgress(r)
  <2>1. task[r].last \in 0..Mailbox
    BY <1>1 DEF TaskState
  <2>2. checkpoint' \in 0..Mailbox /\ counted' \in [Position -> Nat] /\ faults' \in 0..MaxFaults
    BY <1>1, <1>3, <1>8, <2>1 DEF SaveProgress
  <2>3. QED
    BY <1>1, <1>2, <1>8, <2>2, TypeOfRest DEF SaveProgress
<1>9. CASE PersistOutcome(r)
  BY <1>1, <1>2, <1>3, <1>9, TypeOfRest DEF PersistOutcome, TaskState, TaskPc
<1>10. CASE Abort(r)
  BY <1>1, <1>2, <1>10, TypeOfRest DEF Abort, TaskPc
<1>11. CASE Release(r)
  <2>1. /\ task' = [task EXCEPT ![r] = TaskAt("done")] /\ TaskAt("done") \in TaskState
        /\ isRunning' = FALSE /\ runCancel' = 0 /\ taskJoin' = 0
        /\ cancelled' = cancelled \ {r} /\ aborted' = aborted \ {r}
        /\ UNCHANGED <<enabled, status, counted, checkpoint, docs, call, runs, faults, calls,
                       skipped, overtaken>>
    BY <1>2, <1>11 DEF Release, ReleaseSlot, durableVars, TaskPc
  <2>2. 0 \in 0..MaxRuns /\ task' \in [Run -> TaskState]
    BY <1>1, <2>1, BoundsAssumption
  <2>3. QED
    BY <2>1, <2>2 DEF TypeOK
<1>12. QED
  BY <1>4, <1>5, <1>6, <1>7, <1>8, <1>9, <1>10, <1>11 DEF TaskStep

LEMMA CrashType ==
  ASSUME TypeOK, Crash
  PROVE  TypeOK'
<1>1. Idle \in CallState /\ TaskAt("done") \in TaskState
  BY RecordFacts DEF TaskPc
<1>2. call' \in [Caller -> CallState] /\ task' \in [Run -> TaskState]
  BY <1>1 DEF Crash, TypeOK
<1>3. /\ faults < MaxFaults /\ faults' = faults + 1
      /\ status' \in Status
      /\ isRunning' = FALSE /\ runCancel' = 0 /\ taskJoin' = 0
      /\ cancelled' = {} /\ aborted' = {}
      /\ UNCHANGED <<enabled, counted, checkpoint, docs, runs, calls, skipped, overtaken>>
  BY DEF Crash, Fault, ReleaseSlot, TypeOK, Status
<1>4. 0 \in 0..MaxRuns /\ faults' \in 0..MaxFaults
  BY <1>3, BoundsAssumption DEF TypeOK
<1>5. QED
  BY <1>2, <1>3, <1>4 DEF TypeOK

LEMMA NextType ==
  ASSUME TypeOK, [Next]_vars
  PROVE  TypeOK'
<1>1. CASE UNCHANGED vars
  BY <1>1 DEF TypeOK, vars
<1>2. CASE Next
  BY <1>2, StartType, StopType, TaskType, CrashType DEF Next, Client
<1>3. QED
  BY <1>1, <1>2

\* The durable row, the slot, the calls and the tasks stay in their types; in
\* particular the checkpoint and every anchor stay in the mailbox, and a
\* repeated batch never exceeds the walker's retries.
THEOREM TypeCorrect == Spec => []TypeOK
<1>1. Init => TypeOK
  BY InitType
<1>2. TypeOK /\ [Next]_vars => TypeOK'
  BY NextType
<1>3. QED
  BY <1>1, <1>2, PTL DEF Spec

-----------------------------------------------------------------------------
(* The slot *)

Starters == {c \in Caller : call[c].pc \in {"install", "mark", "spawn"}}
LiveRuns == {r \in Run : Live(r)}

\* The slot is taken by the latest reservation, which is held by one start or
\* by the task it spawned.
SlotInv ==
  /\ \A c \in Caller : c \in Starters => isRunning /\ call[c].run = runs /\ runs \notin LiveRuns
  /\ \A c, d \in Caller : c \in Starters /\ d \in Starters => c = d
  /\ \A r \in Run : r \in LiveRuns => isRunning /\ r = runs
  /\ isRunning => runs \in Run /\ (runs \in LiveRuns \/ \E c \in Caller : c \in Starters)

LEMMA InitSlot == Init => SlotInv
<1> SUFFICES ASSUME Init PROVE SlotInv
  OBVIOUS
<1>1. isRunning = FALSE
  BY DEF Init
<1>2. \A c \in Caller : c \notin Starters
  BY DEF Init, Starters, Idle
<1>3. \A r \in Run : r \notin LiveRuns
  BY DEF Init, LiveRuns, Live, TaskAt
<1>4. QED
  BY <1>1, <1>2, <1>3 DEF SlotInv

\* A step that neither takes nor gives back the reservation.
LEMMA SlotKept ==
  ASSUME SlotInv, isRunning' = isRunning, runs' = runs,
         Starters' = Starters, LiveRuns' = LiveRuns,
         \A c \in Starters : call'[c].run = call[c].run
  PROVE  SlotInv'
<1>1. \A r \in Run : r \in LiveRuns' => isRunning' /\ r = runs'
  BY DEF SlotInv
<1>2. isRunning' => runs' \in Run /\ (runs' \in LiveRuns' \/ \E c \in Caller : c \in Starters')
  BY DEF SlotInv
<1>3. \A c \in Caller : c \in Starters' => isRunning' /\ call'[c].run = runs' /\ runs' \notin LiveRuns'
  BY DEF SlotInv
<1>4. \A c, d \in Caller : c \in Starters' /\ d \in Starters' => c = d
  BY DEF SlotInv
<1>5. QED
  BY <1>1, <1>2, <1>3, <1>4 DEF SlotInv

\* A step that gives it back, or the end of the process.
LEMMA SlotFreed ==
  ASSUME isRunning' = FALSE, \A c \in Caller : c \notin Starters', \A r \in Run : r \notin LiveRuns'
  PROVE  SlotInv'
BY DEF SlotInv

LEMMA StartSlot ==
  ASSUME TypeOK, SlotInv, NEW c \in Caller, StartLoad(c) \/ StartStep(c)
  PROVE  SlotInv'
<1>1. call \in [Caller -> CallState] /\ task \in [Run -> TaskState] /\ isRunning \in BOOLEAN
  BY DEF TypeOK
<1>2. (UNCHANGED task) => LiveRuns' = LiveRuns
  BY DEF LiveRuns, Live
<1>3. CASE StartLoad(c)
  <2>1. Starters' = Starters /\ \A d \in Starters : call'[d].run = call[d].run
    BY <1>1, <1>3 DEF StartLoad, Starters, Idle
  <2>2. QED
    <3>1. isRunning' = isRunning /\ runs' = runs /\ UNCHANGED task
      BY <1>3 DEF StartLoad, slotVars
    <3>2. QED
      BY <1>2, <2>1, <3>1, SlotKept
<1>4. CASE StartDecide(c) /\ MaySpawn(c) /\ runs < MaxRuns
  <2>1. /\ ~isRunning /\ isRunning' = TRUE /\ runs' = runs + 1 /\ UNCHANGED task
        /\ call' = [call EXCEPT ![c] = [call[c] EXCEPT !.pc = "install", !.run = runs + 1]]
    BY <1>4 DEF StartDecide, MaySpawn
  <2>2. runs' \in Run
    BY <1>4, <2>1, BoundsAssumption DEF TypeOK, Run
  <2>3. \A r \in Run : r \notin LiveRuns'
    BY <1>2, <2>1 DEF SlotInv
  <2>4. \A d \in Caller : d \notin Starters
    BY <2>1 DEF SlotInv
  <2>5. c \in Starters' /\ call'[c].run = runs'
    BY <1>1, <2>1 DEF Starters, CallState
  <2>6. \A d \in Caller : d \in Starters' => d = c
    BY <1>1, <2>1, <2>4 DEF Starters
  <2>7. QED
    BY <2>1, <2>2, <2>3, <2>5, <2>6 DEF SlotInv
<1>5. CASE StartDecide(c) /\ ~(MaySpawn(c) /\ runs < MaxRuns)
  <2>1. isRunning' = isRunning /\ runs' = runs /\ UNCHANGED task /\ call' = [call EXCEPT ![c] = Idle]
        /\ call[c].pc = "decide"
    BY <1>5 DEF StartDecide
  <2>2. Starters' = Starters /\ \A d \in Starters : call'[d].run = call[d].run
    BY <1>1, <2>1 DEF Starters, Idle
  <2>3. QED
    BY <1>2, <2>1, <2>2, SlotKept
<1>6. CASE StartInstall(c)
  <2>1. isRunning' = isRunning /\ runs' = runs /\ UNCHANGED task /\ call' = [call EXCEPT ![c].pc = "mark"]
        /\ call[c].pc = "install"
    BY <1>6 DEF StartInstall
  <2>2. Starters' = Starters /\ \A d \in Starters : call'[d].run = call[d].run
    BY <1>1, <2>1 DEF Starters, CallState
  <2>3. QED
    BY <1>2, <2>1, <2>2, SlotKept
<1>7. CASE StartMark(c)
  <2>1. CASE call' = [call EXCEPT ![c].pc = "spawn"] /\ UNCHANGED slotVars
    <3>1. isRunning' = isRunning /\ runs' = runs /\ UNCHANGED task /\ call[c].pc = "mark"
      BY <1>7, <2>1 DEF StartMark, slotVars
    <3>2. Starters' = Starters /\ \A d \in Starters : call'[d].run = call[d].run
      BY <1>1, <2>1, <3>1 DEF Starters, CallState
    <3>3. QED
      BY <1>2, <3>1, <3>2, SlotKept
  <2>2. CASE ReleaseSlot /\ call' = [call EXCEPT ![c] = Idle]
    <3>1. c \in Starters /\ isRunning' = FALSE /\ UNCHANGED task
      BY <1>7, <2>2 DEF StartMark, Starters, ReleaseSlot
    <3>2. \A d \in Caller : d \notin Starters'
      <4>1. \A d \in Caller : d \in Starters => d = c
        BY <3>1 DEF SlotInv
      <4>2. QED
        BY <1>1, <2>2, <4>1 DEF Starters, Idle
    <3>3. \A r \in Run : r \notin LiveRuns'
      BY <1>2, <3>1 DEF SlotInv
    <3>4. QED
      BY <3>1, <3>2, <3>3, SlotFreed
  <2>3. QED
    BY <1>7, <2>1, <2>2 DEF StartMark
<1>8. CASE StartSpawn(c)
  <2>1. /\ UNCHANGED <<isRunning, runs>> /\ c \in Starters
        /\ task' = [task EXCEPT ![call[c].run] = TaskAt("resume")]
        /\ call' = [call EXCEPT ![c].pc = "store"]
    BY <1>8 DEF StartSpawn, Starters, slotVars
  <2>2. call[c].run = runs /\ isRunning /\ runs \in Run
    BY <2>1 DEF SlotInv
  <2>3. runs' \in LiveRuns' /\ \A r \in Run : r \in LiveRuns' => r = runs
    <3>1. TaskAt("resume").pc = "resume"
      BY DEF TaskAt
    <3>2. \A r \in Run : task'[r] = IF r = runs THEN TaskAt("resume") ELSE task[r]
      BY <1>1, <2>1, <2>2
    <3>3. QED
      BY <2>1, <2>2, <3>1, <3>2 DEF LiveRuns, Live, SlotInv
  <2>4. \A d \in Caller : d \notin Starters'
    <3>1. \A d \in Caller : d \in Starters => d = c
      BY <2>1 DEF SlotInv
    <3>2. QED
      BY <1>1, <2>1, <3>1 DEF Starters, CallState
  <2>5. QED
    BY <2>1, <2>2, <2>3, <2>4 DEF SlotInv
<1>9. CASE StartStore(c)
  <2>1. isRunning' = isRunning /\ runs' = runs /\ UNCHANGED task /\ call' = [call EXCEPT ![c] = Idle]
        /\ call[c].pc = "store"
    BY <1>9 DEF StartStore
  <2>2. Starters' = Starters /\ \A d \in Starters : call'[d].run = call[d].run
    BY <1>1, <2>1 DEF Starters, Idle
  <2>3. QED
    BY <1>2, <2>1, <2>2, SlotKept
<1>10. QED
  BY <1>3, <1>4, <1>5, <1>6, <1>7, <1>8, <1>9 DEF StartStep

\* Stopping and clearing leave the reservation with its owner.
LEMMA StopSlot ==
  ASSUME TypeOK, SlotInv, NEW c \in Caller, StopStep(c)
  PROVE  SlotInv'
<1>1. call \in [Caller -> CallState] /\ c \notin Starters
  BY DEF TypeOK, StopStep, Cancel, Enable, Disable, WriteDisabled, CancelAndWait, StopRun, WriteFails,
         Stopped, WaitTimeout,
         ClearTables, BeginCall, Starters
<1>2. isRunning' = isRunning /\ runs' = runs /\ UNCHANGED task
  BY DEF StopStep, Cancel, Enable, Disable, WriteDisabled, CancelAndWait, StopRun, WriteFails,
         Stopped, WaitTimeout, ClearTables,
         CancelRun, CallUnchanged, slotVars
<1>3. /\ \A d \in Caller \ {c} : call'[d] = call[d]
      /\ call'[c] = call[c] \/ call'[c].pc \in {"idle", "write", "stop", "wait", "clear"}
  <2>1. \/ call' = call \/ call' = [call EXCEPT ![c] = Idle]
        \/ \E pc \in {"write", "stop", "clear"} : call' = [call EXCEPT ![c] = [call[c] EXCEPT !.pc = pc]]
        \/ call' = [call EXCEPT ![c] = [Idle EXCEPT !.pc = "clear"]]
        \/ call' = [call EXCEPT ![c] = [call[c] EXCEPT !.pc = "wait", !.run = taskJoin]]
    BY DEF StopStep, Cancel, Enable, Disable, WriteDisabled, CancelAndWait, StopRun, WriteFails,
         Stopped, WaitTimeout, ClearTables
  <2>2. [Idle EXCEPT !.pc = "clear"].pc = "clear" /\ Idle.pc = "idle"
    BY DEF Idle
  <2>3. /\ [call[c] EXCEPT !.pc = "wait", !.run = taskJoin].pc = "wait"
        /\ \A pc : [call[c] EXCEPT !.pc = pc].pc = pc
    BY <1>1 DEF CallState
  <2>4. QED
    BY <1>1, <2>1, <2>2, <2>3
<1>4. Starters' = Starters /\ \A d \in Starters : call'[d].run = call[d].run
  BY <1>1, <1>3 DEF Starters
<1>5. LiveRuns' = LiveRuns
  BY <1>2 DEF LiveRuns, Live
<1>6. QED
  BY <1>2, <1>4, <1>5, SlotKept

LEMMA FieldFacts ==
  /\ \A pc : TaskAt(pc).pc = pc
  /\ \A o : Finished(o).pc = "outcome" /\ Finished(o).outcome = o
  /\ \A a, n : /\ FetchFrom(a, n).pc = "fetch" /\ FetchFrom(a, n).anchor = a
                /\ FetchFrom(a, n).got = {}
BY DEF TaskAt, Finished, FetchFrom

\* Every step of a task but the last leaves it running and the slot alone.
LEMMA TaskMoves ==
  ASSUME TypeOK, NEW r \in Run, TaskStep(r)
  PROVE  /\ Live(r)
         /\ \/ Release(r)
            \/ /\ TaskUnchanged
               /\ \E t : t.pc \notin {"none", "done"} /\ task' = [task EXCEPT ![r] = t]
<1>1. task[r] \in TaskState
  BY DEF TypeOK
<1>2. Failed(task[r]).pc \in {"outcome", "fetch"} /\ AfterBatch(task[r]).pc \in {"outcome", "fetch"}
  BY <1>1, FailedFacts, AfterBatchFacts, FieldFacts
<1>3. Live(r)
  BY DEF TaskStep, Resume, FetchBatch, FetchBodies, StorePage, SaveProgress, PersistOutcome, Abort,
         Release, Live
<1>4. CASE Resume(r)
  BY <1>3, <1>4, FieldFacts DEF Resume
<1>5. CASE FetchBatch(r)
  <2>1. [task[r] EXCEPT !.pc = "bodies", !.at = task[r].anchor].pc = "bodies"
    BY <1>1 DEF TaskState
  <2>2. \/ task' = [task EXCEPT ![r] = Finished("interrupted")]
        \/ task' = [task EXCEPT ![r] = Finished("completed")]
        \/ task' = [task EXCEPT ![r] = [task[r] EXCEPT !.pc = "bodies", !.at = task[r].anchor]]
    BY <1>5 DEF FetchBatch
  <2>3. TaskUnchanged
    BY <1>5 DEF FetchBatch
  <2>4. QED
    BY <1>3, <2>1, <2>2, <2>3, FieldFacts
<1>6. CASE FetchBodies(r)
  <2>1. /\ \A S, p : [task[r] EXCEPT !.pc = "page", !.ready = S, !.last = p].pc = "page"
        /\ [task[r] EXCEPT !.at = ChunkEnd(task[r])].pc = task[r].pc
    BY <1>1 DEF TaskState
  <2>2. \E t : t.pc \notin {"none", "done"} /\ task' = [task EXCEPT ![r] = t]
    BY <1>2, <1>6, <2>1, FieldFacts DEF FetchBodies
  <2>3. QED
    BY <1>3, <1>6, <2>2 DEF FetchBodies
<1>7. CASE StorePage(r)
  <2>1. Stored(task[r]).pc = "bodies"
    BY <1>1 DEF Stored, TaskState
  <2>2. QED
    BY <1>2, <1>3, <1>7, <2>1, FieldFacts DEF StorePage, PersistPage
<1>8. CASE SaveProgress(r)
  BY <1>2, <1>3, <1>8 DEF SaveProgress
<1>9. CASE PersistOutcome(r)
  BY <1>3, <1>9, FieldFacts DEF PersistOutcome
<1>10. CASE Abort(r)
  BY <1>3, <1>10, FieldFacts DEF Abort
<1>11. QED
  BY <1>3, <1>4, <1>5, <1>6, <1>7, <1>8, <1>9, <1>10 DEF TaskStep

LEMMA TaskSlot ==
  ASSUME TypeOK, SlotInv, NEW r \in Run, TaskStep(r)
  PROVE  SlotInv'
<1>1. task \in [Run -> TaskState] /\ r \in LiveRuns
  BY TaskMoves DEF TypeOK, LiveRuns
<1>2. CASE Release(r)
  <2>1. r = runs /\ Starters = {}
    BY <1>1 DEF SlotInv, Starters
  <2>2. isRunning' = FALSE /\ UNCHANGED call /\ task' = [task EXCEPT ![r] = TaskAt("done")]
    BY <1>2 DEF Release, ReleaseSlot
  <2>3. \A c \in Caller : c \notin Starters'
    BY <2>1, <2>2 DEF Starters
  <2>4. \A q \in Run : q \notin LiveRuns'
    BY <1>1, <2>1, <2>2, FieldFacts DEF SlotInv, LiveRuns, Live
  <2>5. QED
    BY <2>2, <2>3, <2>4, SlotFreed
<1>3. CASE ~Release(r)
  <2>1. PICK t : t.pc \notin {"none", "done"} /\ task' = [task EXCEPT ![r] = t]
    BY <1>3, TaskMoves
  <2>2. isRunning' = isRunning /\ runs' = runs /\ UNCHANGED call
    BY <1>3, TaskMoves DEF TaskUnchanged, slotVars
  <2>3. LiveRuns' = LiveRuns
    BY <1>1, <2>1 DEF LiveRuns, Live
  <2>4. Starters' = Starters /\ \A d \in Starters : call'[d].run = call[d].run
    BY <2>2 DEF Starters
  <2>5. QED
    BY <2>2, <2>3, <2>4, SlotKept
<1>4. QED
  BY <1>2, <1>3

LEMMA CrashSlot ==
  ASSUME TypeOK, Crash
  PROVE  SlotInv'
<1>1. isRunning' = FALSE /\ call' = [c \in Caller |-> Idle]
      /\ task' = [r \in Run |-> IF task[r].pc = "none" THEN task[r] ELSE TaskAt("done")]
  BY DEF Crash, ReleaseSlot
<1>2. \A c \in Caller : c \notin Starters'
  BY <1>1 DEF Starters, Idle
<1>3. \A r \in Run : r \notin LiveRuns'
  BY <1>1, FieldFacts DEF LiveRuns, Live
<1>4. QED
  BY <1>1, <1>2, <1>3, SlotFreed

LEMMA NextSlot ==
  ASSUME TypeOK, SlotInv, [Next]_vars
  PROVE  SlotInv'
<1>1. CASE UNCHANGED vars
  <2>1. isRunning' = isRunning /\ runs' = runs /\ UNCHANGED call /\ UNCHANGED task
    BY <1>1 DEF vars
  <2>2. LiveRuns' = LiveRuns /\ Starters' = Starters
        /\ \A d \in Starters : call'[d].run = call[d].run
    BY <2>1 DEF LiveRuns, Live, Starters
  <2>3. QED
    BY <2>1, <2>2, SlotKept
<1>2. CASE Next
  BY <1>2, StartSlot, StopSlot, TaskSlot, CrashSlot DEF Next, Client
<1>3. QED
  BY <1>1, <1>2

LEMMA SlotMeansOwned ==
  ASSUME TypeOK, SlotInv
  PROVE  SlotIsOwned
<1>1. \A r \in Owner : r = runs /\ isRunning
  BY DEF Owner, SlotInv, Starters, LiveRuns
<1>2. CASE isRunning
  <2>1. runs \in Owner
    <3>1. runs \in Run /\ (runs \in LiveRuns \/ \E c \in Caller : c \in Starters)
      BY <1>2 DEF SlotInv
    <3>2. CASE runs \in LiveRuns
      BY <3>1, <3>2 DEF Owner, LiveRuns
    <3>3. CASE \E c \in Caller : c \in Starters
      BY <3>1, <3>3 DEF Owner, Starters, SlotInv
    <3>4. QED
      BY <3>1, <3>2, <3>3
  <2>2. Owner = {runs}
    BY <1>1, <2>1
  <2>3. QED
    BY <1>2, <2>2, FS_Singleton DEF SlotIsOwned
<1>3. CASE ~isRunning
  <2>1. Owner = {}
    BY <1>1, <1>3
  <2>2. QED
    BY <1>3, <2>1, FS_EmptySet DEF SlotIsOwned
<1>4. QED
  BY <1>2, <1>3

\* Whatever order starts, cancels, aborts, clears, crashes and ends of runs come
\* in, and however many callers there are, the slot is taken exactly while one
\* start or one task holds the reservation.
THEOREM OneRunAtATime == Spec => []SlotIsOwned
<1>1. Init => TypeOK /\ SlotInv
  BY InitType, InitSlot
<1>2. TypeOK /\ SlotInv /\ [Next]_vars => (TypeOK /\ SlotInv)'
  BY NextType, NextSlot
<1>3. TypeOK /\ SlotInv => SlotIsOwned
  BY SlotMeansOwned
<1>4. QED
  BY <1>1, <1>2, <1>3, PTL DEF Spec

-----------------------------------------------------------------------------
(* The walk *)

Met == docs \cup skipped
UpTo(n, S) == \A p \in Position : p <= n => p \in S

\* What push_doc keeps of the messages of S.
Oldest(p, S) == p \in S /\ \A q \in S \ {p} : Older(p, q)

LEMMA OlderIsTransitive ==
  ASSUME NEW p \in Position, NEW q \in Position, NEW o \in Position, Older(p, q), Older(q, o)
  PROVE  Older(p, o)
<1>1. \A m \in Position : Listing[m].time \in Nat /\ Listing[m].id \in Nat
  BY ListingAssumption
<1>2. QED
  BY <1>1 DEF Older

\* Where a task is in its batch, and what it has of it.
Bounds(t) ==
  /\ t.pc = "fetch" => t.got = {}
  /\ t.pc \in {"bodies", "page"} =>
    /\ t.anchor <= t.at /\ t.at <= BatchEnd(t.anchor)
    /\ \A p \in t.got : t.anchor < p /\ p <= t.at
    /\ t.pc = "bodies" => t.got = {} \/ Oldest(t.last, t.got)
    /\ t.pc = "page" => t.ready \subseteq Chunk(t) /\ Oldest(t.last, t.got \cup t.ready)

\* What a task has behind it was met: it is in S.
Behind(t, S) ==
  /\ t.pc \in {"fetch", "bodies", "page"} => UpTo(t.anchor, S)
  /\ t.pc \in {"bodies", "page"} => UpTo(t.at, S)
  /\ t.pc = "page" => Chunk(t) \subseteq S \cup t.ready
  /\ t.pc = "outcome" /\ t.outcome = "completed" => UpTo(Mailbox, S)

WalkInv ==
  /\ \A r \in Run : Bounds(task[r])
  /\ ~overtaken => /\ UpTo(checkpoint, Met)
                   /\ status = "completed" => UpTo(Mailbox, Met)
                   /\ \A r \in Run : Behind(task[r], Met)

LEMMA BehindGrows ==
  ASSUME NEW S, NEW T, S \subseteq T
  PROVE  /\ \A n : UpTo(n, S) => UpTo(n, T)
         /\ \A t : Behind(t, S) => Behind(t, T)
<1>1. \A n : UpTo(n, S) => UpTo(n, T)
  BY DEF UpTo
<1>2. QED
  BY <1>1 DEF Behind

\* Tasks between batches and outside of the walk.
LEMMA OutOfBatch ==
  /\ \A t, S : t.pc \notin {"fetch", "bodies", "page", "outcome"} => Bounds(t) /\ Behind(t, S)
  /\ \A S : Bounds(Finished("interrupted")) /\ Behind(Finished("interrupted"), S)
  /\ \A S : Bounds(Finished("completed")) /\ (UpTo(Mailbox, S) => Behind(Finished("completed"), S))
  /\ \A a, n, S : Bounds(FetchFrom(a, n)) /\ (UpTo(a, S) => Behind(FetchFrom(a, n), S))
<1>1. \A t, S : t.pc \notin {"fetch", "bodies", "page", "outcome"} => Bounds(t) /\ Behind(t, S)
  BY DEF Bounds, Behind
<1>2. \A S : Bounds(Finished("interrupted")) /\ Behind(Finished("interrupted"), S)
  BY FieldFacts DEF Bounds, Behind
<1>3. \A S : Bounds(Finished("completed"))
            /\ (UpTo(Mailbox, S) => Behind(Finished("completed"), S))
  BY FieldFacts DEF Bounds, Behind
<1>4. \A a, n, S : Bounds(FetchFrom(a, n)) /\ (UpTo(a, S) => Behind(FetchFrom(a, n), S))
  BY FieldFacts DEF Bounds, Behind
<1>5. QED
  BY <1>1, <1>2, <1>3, <1>4

LEMMA InitWalk == Init => WalkInv
<1> SUFFICES ASSUME Init PROVE WalkInv
  OBVIOUS
<1>1. task = [r \in Run |-> TaskAt("none")] /\ checkpoint = 0 /\ status = "none"
  BY DEF Init
<1>2. \A r \in Run : task[r].pc = "none"
  BY <1>1, FieldFacts
<1>3. UpTo(checkpoint, Met)
  BY <1>1, BoundsAssumption DEF UpTo, Position
<1>4. QED
  BY <1>1, <1>2, <1>3, OutOfBatch DEF WalkInv

\* The oldest of a sub-chunk and of the oldest before it is the oldest of all.
LEMMA OldestOfBoth ==
  ASSUME NEW t, NEW S \in SUBSET Position, t.got \subseteq Position,
         t.got = {} \/ Oldest(t.last, t.got), NEW p, Oldest(p, S \cup OldestSoFar(t))
  PROVE  Oldest(p, t.got \cup S)
<1>1. CASE t.got = {}
  <2>1. S \cup OldestSoFar(t) = t.got \cup S
    BY <1>1 DEF OldestSoFar
  <2>2. QED
    BY <2>1
<1>2. CASE t.got # {}
  <2>1. OldestSoFar(t) = {t.last} /\ t.last \in t.got /\ p \in S \cup {t.last}
    BY <1>2 DEF OldestSoFar, Oldest
  <2>2. SUFFICES ASSUME NEW q \in (t.got \cup S) \ {p} PROVE Older(p, q)
    BY <2>1 DEF Oldest
  <2>3. CASE q \in S \cup {t.last}
    BY <2>1, <2>2, <2>3 DEF Oldest
  <2>4. CASE q \in t.got /\ q # t.last
    <3>1. Older(t.last, q) /\ (p = t.last \/ Older(p, t.last))
      BY <1>2, <2>1, <2>4 DEF Oldest
    <3>2. /\ p \in Position /\ q \in Position /\ t.last \in Position
      BY <2>1, <2>4
    <3>3. QED
      BY <3>1, <3>2, OlderIsTransitive
  <2>5. QED
    BY <2>2, <2>3, <2>4
<1>3. QED
  BY <1>1, <1>2

\* A step of one task, and a step that takes tasks out of the walk.
LEMMA WalkStep ==
  ASSUME TypeOK, WalkInv, NEW r \in Run, NEW t, task' = [task EXCEPT ![r] = t],
         overtaken' = overtaken, Met \subseteq Met', Bounds(t),
         ~overtaken => /\ Behind(t, Met') /\ UpTo(checkpoint', Met')
                       /\ status' = "completed" => UpTo(Mailbox, Met')
  PROVE  WalkInv'
<1>1. task'[r] = t /\ \A q \in Run \ {r} : task'[q] = task[q]
  BY DEF TypeOK
<1>2. \A q \in Run : Bounds(task'[q])
  BY <1>1 DEF WalkInv
<1>3. ~overtaken => \A q \in Run : Behind(task'[q], Met')
  BY <1>1, BehindGrows DEF WalkInv
<1>4. QED
  BY <1>2, <1>3 DEF WalkInv

Quiet ==
  /\ UNCHANGED <<counted, checkpoint, docs, skipped>> /\ overtaken' = overtaken
  /\ status' = status \/ status' \in {"ongoing", "interrupted"}
  /\ \A r \in Run : task'[r] = task[r]
                     \/ task'[r].pc \notin {"fetch", "bodies", "page", "outcome"}

LEMMA WalkQuiet ==
  ASSUME WalkInv, Quiet
  PROVE  WalkInv'
<1>1. Met' = Met /\ checkpoint' = checkpoint /\ overtaken' = overtaken
  BY DEF Met, Quiet
<1>2. \A r \in Run : Bounds(task'[r])
  BY OutOfBatch DEF WalkInv, Quiet
<1>3. ~overtaken => \A r \in Run : Behind(task'[r], Met)
  BY OutOfBatch DEF WalkInv, Quiet
<1>4. ~overtaken => UpTo(checkpoint, Met) /\ (status' = "completed" => UpTo(Mailbox, Met))
  BY DEF WalkInv, Quiet
<1>5. QED
  BY <1>1, <1>2, <1>3, <1>4 DEF WalkInv

\* The calls but a clear, a crash and the end of a task are quiet.
LEMMA ClientIsQuiet ==
  ASSUME TypeOK, NEW c \in Caller, Client(c), ~ClearTables(c)
  PROVE  Quiet
<1>1. UNCHANGED <<counted, checkpoint, docs, skipped>> /\ overtaken' = overtaken
  BY DEF Client, StartStep, StartLoad, StartDecide, StartInstall, StartMark, StartSpawn, StartStore,
         StartUnchanged, StopStep, Cancel, Enable, Disable, WriteDisabled, CancelAndWait, StopRun,
         Stopped, WaitTimeout, WriteFails, durableVars
<1>2. status' = status \/ status' \in {"ongoing", "interrupted"}
  BY DEF Client, StartStep, StartLoad, StartDecide, StartInstall, StartMark, StartSpawn, StartStore,
         StopStep, Cancel, Enable, Disable, WriteDisabled, CancelAndWait, StopRun, Stopped,
         WaitTimeout, WriteFails, durableVars
<1>3. UNCHANGED task \/ task' = [task EXCEPT ![call[c].run] = TaskAt("resume")]
  BY DEF Client, StartStep, StartLoad, StartDecide, StartInstall, StartMark, StartSpawn, StartStore,
         StopStep, Cancel, Enable, Disable, WriteDisabled, CancelAndWait, StopRun, Stopped,
         WaitTimeout, WriteFails, CallUnchanged
<1>4. \A r \in Run : task'[r] = task[r] \/ task'[r] = TaskAt("resume")
  BY <1>3 DEF TypeOK
<1>5. QED
  BY <1>1, <1>2, <1>4, FieldFacts DEF Quiet

LEMMA EndIsQuiet ==
  ASSUME TypeOK, NEW r \in Run, Abort(r) \/ Release(r)
  PROVE  Quiet
<1>1. UNCHANGED <<counted, checkpoint, docs, skipped>> /\ overtaken' = overtaken /\ status' = status
  BY DEF Abort, Release, TaskUnchanged, durableVars
<1>2. task' = [task EXCEPT ![r] = TaskAt("release")] \/ task' = [task EXCEPT ![r] = TaskAt("done")]
  BY DEF Abort, Release
<1>3. \A q \in Run : task'[q] = task[q] \/ task'[q] = TaskAt("release") \/ task'[q] = TaskAt("done")
  BY <1>2 DEF TypeOK
<1>4. QED
  BY <1>1, <1>3, FieldFacts DEF Quiet

LEMMA CrashIsQuiet ==
  ASSUME TypeOK, Crash
  PROVE  Quiet
<1>1. UNCHANGED <<counted, checkpoint, docs, skipped>> /\ overtaken' = overtaken
      /\ (status' = status \/ status' = "interrupted")
  BY DEF Crash
<1>2. \A q \in Run : task'[q] = task[q] \/ task'[q] = TaskAt("done")
  BY DEF Crash
<1>3. QED
  BY <1>1, <1>2, FieldFacts DEF Quiet

LEMMA ClearWalk ==
  ASSUME TypeOK, WalkInv, NEW c \in Caller, ClearTables(c)
  PROVE  WalkInv'
<1>1. checkpoint' = 0 /\ status' = "none" /\ UNCHANGED task
      /\ overtaken' = \E r \in Run : HasAnchor(r) \/ task[r].pc = "outcome"
  BY DEF ClearTables, CallUnchanged
<1>2. \A r \in Run : Bounds(task'[r])
  BY <1>1 DEF WalkInv
<1>3. ~overtaken' => \A r \in Run : task'[r].pc \notin {"fetch", "bodies", "page", "outcome"}
  BY <1>1 DEF HasAnchor
<1>4. UpTo(checkpoint', Met')
  BY <1>1, BoundsAssumption DEF UpTo, Position
<1>5. QED
  BY <1>1, <1>2, <1>3, <1>4, OutOfBatch DEF WalkInv

LEMMA TaskWalk ==
  ASSUME TypeOK, WalkInv, NEW r \in Run, TaskStep(r)
  PROVE  WalkInv'
<1> DEFINE t == task[r]
<1>1. /\ t \in TaskState /\ Bounds(t)
      /\ ~overtaken => /\ Behind(t, Met) /\ UpTo(checkpoint, Met)
                       /\ status = "completed" => UpTo(Mailbox, Met)
  BY DEF TypeOK, WalkInv
<1>2. /\ t.anchor \in 0..Mailbox /\ t.at \in 0..Mailbox
      /\ BatchEnd(t.anchor) \in 0..Mailbox /\ ChunkEnd(t) \in 0..Mailbox
      /\ t.at <= BatchEnd(t.anchor) => t.at <= ChunkEnd(t)
      /\ ChunkEnd(t) <= BatchEnd(t.anchor)
      /\ t.got \subseteq Position /\ t.ready \subseteq Position
      /\ Chunk(t) \subseteq Position
  BY <1>1, EndFacts DEF TaskState
\* A failed batch starts over or ends the run.
<1>3. Bounds(Failed(t)) /\ (t.pc \in {"bodies", "page"} /\ ~overtaken => Behind(Failed(t), Met))
  BY <1>1, FailedFacts, OutOfBatch DEF Behind
<1>4. CASE Resume(r)
  <2>1. UNCHANGED <<status, checkpoint>> /\ Met' = Met /\ overtaken' = overtaken
    BY <1>4 DEF Resume, Met, TaskUnchanged
  <2>2. \/ task' = [task EXCEPT ![r] = FetchFrom(checkpoint, 0)]
        \/ task' = [task EXCEPT ![r] = Finished("interrupted")]
    BY <1>4 DEF Resume
  <2>3. QED
    BY <1>1, <2>1, <2>2, OutOfBatch, WalkStep
<1>5. CASE FetchBatch(r)
  <2>1. UNCHANGED <<status, checkpoint>> /\ Met' = Met /\ overtaken' = overtaken /\ t.pc = "fetch"
    BY <1>5 DEF FetchBatch, Met, TaskUnchanged
  <2>2. CASE task' = [task EXCEPT ![r] = Finished("interrupted")]
    BY <1>1, <2>1, <2>2, OutOfBatch, WalkStep
  <2>3. CASE task' = [task EXCEPT ![r] = Finished("completed")] /\ t.anchor >= Mailbox
    <3>1. ~overtaken => UpTo(Mailbox, Met)
      BY <1>1, <1>2, <2>1, <2>3, BoundsAssumption DEF Behind, UpTo, Position
    <3>2. QED
      BY <1>1, <2>1, <2>3, <3>1, OutOfBatch, WalkStep
  <2>4. CASE /\ task' = [task EXCEPT ![r] = [t EXCEPT !.pc = "bodies", !.at = t.anchor]]
    <3> DEFINE u == [t EXCEPT !.pc = "bodies", !.at = t.anchor]
    <3>1. u.pc = "bodies" /\ u.anchor = t.anchor /\ u.at = t.anchor /\ u.got = {}
      BY <1>1, <2>1 DEF TaskState, Bounds
    <3>2. Bounds(u)
      BY <1>1, <1>2, <3>1, EndFacts DEF Bounds
    <3>3. ~overtaken => Behind(u, Met)
      BY <1>1, <2>1, <3>1 DEF Behind
    <3> HIDE DEF u
    <3>4. task' = [task EXCEPT ![r] = u]
      BY <2>4 DEF u
    <3>5. QED
      BY <1>1, <2>1, <3>2, <3>3, <3>4, WalkStep
  <2>5. \/ task' = [task EXCEPT ![r] = Finished("interrupted")]
        \/ task' = [task EXCEPT ![r] = Finished("completed")] /\ t.anchor >= Mailbox
        \/ task' = [task EXCEPT ![r] = [t EXCEPT !.pc = "bodies", !.at = t.anchor]]
    BY <1>5 DEF FetchBatch
  <2>6. QED
    BY <2>2, <2>3, <2>4, <2>5
<1>6. CASE FetchBodies(r)
  <2>1. UNCHANGED <<status, checkpoint>> /\ overtaken' = overtaken /\ t.pc = "bodies"
        /\ docs' = docs /\ t.at < BatchEnd(t.anchor)
    BY <1>6 DEF FetchBodies, TaskUnchanged
  <2>2. CASE UNCHANGED skipped /\ \E u : /\ task' = [task EXCEPT ![r] = u]
                                        /\ \/ u = Finished("interrupted")
                                           \/ u = FetchFrom(t.anchor, t.retry)
                                           \/ u = Failed(t)
    <3>1. Met' = Met
      BY <2>1, <2>2 DEF Met
    <3>2. ~overtaken => UpTo(t.anchor, Met)
      BY <1>1, <2>1 DEF Behind
    <3>3. PICK u : task' = [task EXCEPT ![r] = u] /\ Bounds(u) /\ (~overtaken => Behind(u, Met))
      BY <1>3, <2>1, <2>2, <3>2, OutOfBatch
    <3>4. QED
      BY <1>1, <2>1, <3>1, <3>3, WalkStep
  <2>3. ASSUME NEW S \in SUBSET Chunk(t), skipped' = skipped \cup (Chunk(t) \ (S \cup docs)),
               \/ S = {} /\ task' = [task EXCEPT ![r].at = ChunkEnd(t)]
               \/ \E p : /\ Oldest(p, S \cup OldestSoFar(t)) /\ S # {}
                         /\ task' = [task EXCEPT ![r] =
                                       [t EXCEPT !.pc = "page", !.ready = S, !.last = p]]
        PROVE  WalkInv'
    <3>1. Met \subseteq Met' /\ Chunk(t) \subseteq Met' \cup S
      BY <2>1, <2>3 DEF Met
    <3>2. ~overtaken => /\ UpTo(t.anchor, Met') /\ UpTo(t.at, Met') /\ UpTo(checkpoint, Met')
                        /\ status = "completed" => UpTo(Mailbox, Met')
      BY <1>1, <2>1, <3>1, BehindGrows DEF Behind
    <3>3. CASE S = {} /\ task' = [task EXCEPT ![r].at = ChunkEnd(t)]
      <4> DEFINE u == [t EXCEPT !.at = ChunkEnd(t)]
      <4>1. u.pc = "bodies" /\ u.anchor = t.anchor /\ u.at = ChunkEnd(t) /\ u.got = t.got
            /\ u.last = t.last
        BY <1>1, <2>1 DEF TaskState
      <4>2. Bounds(u)
        BY <1>1, <1>2, <2>1, <4>1 DEF Bounds, Position
      <4>3. ~overtaken => UpTo(ChunkEnd(t), Met')
        BY <1>2, <3>1, <3>2, <3>3 DEF UpTo, Chunk, Position
      <4>4. ~overtaken => Behind(u, Met')
        BY <3>2, <4>1, <4>3 DEF Behind
      <4> HIDE DEF u
      <4>5. task' = [task EXCEPT ![r] = u]
        BY <3>3 DEF u
      <4>6. QED
        BY <2>1, <3>1, <3>2, <4>2, <4>4, <4>5, WalkStep
    <3>4. ASSUME NEW p, Oldest(p, S \cup OldestSoFar(t)), S # {},
                 task' = [task EXCEPT ![r] = [t EXCEPT !.pc = "page", !.ready = S, !.last = p]]
          PROVE  WalkInv'
      <4> DEFINE u == [t EXCEPT !.pc = "page", !.ready = S, !.last = p]
      <4>1. u.pc = "page" /\ u.anchor = t.anchor /\ u.at = t.at /\ u.got = t.got
            /\ u.last = p /\ u.ready = S
        BY <1>1 DEF TaskState
      <4>2. Chunk(u) = Chunk(t)
        BY <4>1 DEF Chunk, ChunkEnd
      <4>3. Bounds(u)
        <5>1. t.got = {} \/ Oldest(t.last, t.got)
          BY <1>1, <2>1 DEF Bounds
        <5>2. Oldest(p, t.got \cup S)
          BY <1>2, <3>4, <5>1, OldestOfBoth
        <5>3. QED
          BY <1>1, <2>1, <4>1, <4>2, <5>2 DEF Bounds
      <4>4. ~overtaken => Behind(u, Met')
        BY <3>1, <3>2, <4>1, <4>2 DEF Behind
      <4> HIDE DEF u
      <4>5. task' = [task EXCEPT ![r] = u]
        BY <3>4 DEF u
      <4>6. QED
        BY <2>1, <3>1, <3>2, <4>3, <4>4, <4>5, WalkStep
    <3>5. QED
      BY <2>3, <3>3, <3>4
  <2>4. QED
    BY <1>6, <2>2, <2>3 DEF FetchBodies, Oldest
<1>7. CASE StorePage(r)
  <2>1. UNCHANGED <<status, checkpoint>> /\ overtaken' = overtaken /\ t.pc = "page"
    BY <1>7 DEF StorePage, PersistPage, TaskUnchanged
  <2>2. CASE UNCHANGED <<docs, skipped>> /\ \E u : /\ task' = [task EXCEPT ![r] = u]
                                                 /\ u \in {Finished("interrupted"), Failed(t),
                                                          FetchFrom(t.anchor, t.retry)}
    <3>1. Met' = Met
      BY <2>2 DEF Met
    <3>2. PICK u : task' = [task EXCEPT ![r] = u] /\ Bounds(u) /\ (~overtaken => Behind(u, Met))
      <4>1. ~overtaken => UpTo(t.anchor, Met)
        BY <1>1, <2>1 DEF Behind
      <4>2. \A u \in {Finished("interrupted"), Failed(t), FetchFrom(t.anchor, t.retry)} :
              Bounds(u) /\ (~overtaken => Behind(u, Met))
        BY <1>3, <2>1, <4>1, OutOfBatch
      <4>3. QED
        BY <2>2, <4>2
    <3>3. QED
      BY <1>1, <2>1, <3>1, <3>2, WalkStep
  <2>3. CASE /\ docs' = docs \cup t.ready /\ skipped' = skipped \ t.ready
             /\ task' = [task EXCEPT ![r] = Stored(t)]
    <3>1. Met \subseteq Met' /\ Met' = Met \cup t.ready
      BY <2>3 DEF Met
    <3>2. Stored(t).pc = "bodies" /\ Stored(t).anchor = t.anchor /\ Stored(t).at = ChunkEnd(t)
          /\ Stored(t).got = t.got \cup t.ready /\ Stored(t).last = t.last
      BY <1>1 DEF Stored, TaskState
    <3>3. /\ t.anchor <= t.at /\ t.at <= ChunkEnd(t) /\ ChunkEnd(t) <= BatchEnd(t.anchor)
          /\ \A p \in t.got : t.anchor < p /\ p <= t.at
          /\ \A p \in t.ready : t.at < p /\ p <= ChunkEnd(t)
          /\ Oldest(t.last, t.got \cup t.ready)
      BY <1>1, <1>2, <2>1 DEF Bounds, Chunk, Position
    <3>4. Bounds(Stored(t))
      <4>1. \A p \in t.got \cup t.ready : p \in Nat /\ t.anchor < p /\ p <= ChunkEnd(t)
        BY <1>2, <3>3, BoundsAssumption DEF Position
      <4>2. QED
        BY <1>2, <3>2, <3>3, <4>1 DEF Bounds
    <3>5. ~overtaken => /\ UpTo(t.anchor, Met') /\ UpTo(t.at, Met') /\ UpTo(checkpoint, Met')
                        /\ status = "completed" => UpTo(Mailbox, Met')
      BY <1>1, <2>1, <3>1, BehindGrows DEF Behind
    <3>6. ~overtaken => Chunk(t) \subseteq Met'
      BY <1>1, <2>1, <3>1 DEF Behind
    <3>7. ~overtaken => UpTo(ChunkEnd(t), Met')
      BY <1>2, <3>5, <3>6 DEF UpTo, Chunk, Position
    <3>8. ~overtaken => Behind(Stored(t), Met')
      BY <3>2, <3>5, <3>7 DEF Behind
    <3>9. QED
      BY <2>1, <2>3, <3>1, <3>4, <3>5, <3>8, WalkStep
  <2>4. QED
    BY <1>7, <2>2, <2>3 DEF StorePage, PersistPage
<1>8. CASE SaveProgress(r)
  <2>1. UNCHANGED status /\ overtaken' = overtaken /\ t.pc = "bodies" /\ Met' = Met
        /\ t.at = BatchEnd(t.anchor)
    BY <1>8 DEF SaveProgress, TaskUnchanged, Met
  <2>2. CASE checkpoint' = checkpoint /\ task' = [task EXCEPT ![r] = Failed(t)]
    BY <1>1, <1>3, <2>1, <2>2, WalkStep
  <2>3. CASE /\ checkpoint' = IF t.got = {} THEN checkpoint ELSE t.last
             /\ task' = [task EXCEPT ![r] = AfterBatch(t)]
    <3>1. ~overtaken => UpTo(BatchEnd(t.anchor), Met)
      BY <1>1, <2>1 DEF Behind
    <3>2. Bounds(AfterBatch(t)) /\ (~overtaken => Behind(AfterBatch(t), Met))
      BY <1>1, <3>1, AfterBatchFacts, OutOfBatch
    <3>3. t.got # {} => t.last \in Position /\ t.last <= t.at
      BY <1>1, <1>2, <2>1 DEF Bounds, Oldest
    <3>4. ~overtaken => UpTo(checkpoint', Met)
      <4>1. CASE t.got = {}
        BY <1>1, <2>3, <4>1
      <4>2. CASE t.got # {}
        BY <1>2, <2>1, <2>3, <3>1, <3>3, <4>2 DEF UpTo, Position
      <4>3. QED
        BY <4>1, <4>2
    <3>5. QED
      BY <1>1, <2>1, <2>3, <3>2, <3>4, WalkStep
  <2>4. QED
    BY <1>8, <2>2, <2>3 DEF SaveProgress
<1>9. CASE PersistOutcome(r)
  <2>1. UNCHANGED checkpoint /\ overtaken' = overtaken /\ t.pc = "outcome" /\ Met' = Met
        /\ task' = [task EXCEPT ![r] = TaskAt("release")]
        /\ (status' = status \/ status' = t.outcome)
    BY <1>9 DEF PersistOutcome, TaskUnchanged, Met
  <2>2. ~overtaken /\ status' = "completed" => UpTo(Mailbox, Met)
    BY <1>1, <2>1 DEF Behind
  <2>3. Bounds(TaskAt("release")) /\ Behind(TaskAt("release"), Met)
    BY FieldFacts, OutOfBatch
  <2>4. QED
    BY <1>1, <2>1, <2>2, <2>3, WalkStep
<1>10. CASE Abort(r) \/ Release(r)
  BY <1>10, EndIsQuiet, WalkQuiet
<1>11. QED
  BY <1>4, <1>5, <1>6, <1>7, <1>8, <1>9, <1>10 DEF TaskStep

LEMMA NextWalk ==
  ASSUME TypeOK, WalkInv, [Next]_vars
  PROVE  WalkInv'
<1>1. CASE UNCHANGED vars
  <2>1. Quiet
    BY <1>1 DEF Quiet, vars
  <2>2. QED
    BY <2>1, WalkQuiet
<1>2. ASSUME NEW c \in Caller, Client(c) PROVE WalkInv'
  BY <1>2, ClearWalk, ClientIsQuiet, WalkQuiet
<1>3. CASE Crash
  BY <1>3, CrashIsQuiet, WalkQuiet
<1>4. QED
  BY <1>1, <1>2, <1>3, TaskWalk DEF Next

LEMMA WalkMeans ==
  ASSUME TypeOK, WalkInv
  PROVE  CheckpointCovers /\ CompletedMeansWalked
<1>1. CheckpointCovers
  BY DEF WalkInv, CheckpointCovers, UpTo, Met
<1>2. CompletedMeansWalked
  <2>1. SUFFICES ASSUME status = "completed", ~overtaken PROVE docs \cup skipped = Position
    BY DEF CompletedMeansWalked
  <2>2. UpTo(Mailbox, Met) /\ docs \subseteq Position /\ skipped \subseteq Position
    BY <2>1 DEF WalkInv, TypeOK
  <2>3. \A p \in Position : p <= Mailbox
    BY BoundsAssumption DEF Position
  <2>4. QED
    BY <2>2, <2>3 DEF UpTo, Met
<1>3. QED
  BY <1>1, <1>2

\* The checkpoint, from which a later run resumes, never passes a message that
\* no run has met, whatever the sub-chunks, retries, faults and crashes were,
\* unless a clear overtook a run that went on.
THEOREM CheckpointNeverSkips == Spec => []CheckpointCovers
<1>1. Init => TypeOK /\ WalkInv
  BY InitType, InitWalk
<1>2. TypeOK /\ WalkInv /\ [Next]_vars => (TypeOK /\ WalkInv)'
  BY NextType, NextWalk
<1>3. TypeOK /\ WalkInv => CheckpointCovers
  BY WalkMeans
<1>4. QED
  BY <1>1, <1>2, <1>3, PTL DEF Spec

\* A pass is marked as completed, after which no start does any work, only
\* when every message of the mailbox was met.
THEOREM CompletionIsTrue == Spec => []CompletedMeansWalked
<1>1. Init => TypeOK /\ WalkInv
  BY InitType, InitWalk
<1>2. TypeOK /\ WalkInv /\ [Next]_vars => (TypeOK /\ WalkInv)'
  BY NextType, NextWalk
<1>3. TypeOK /\ WalkInv => CompletedMeansWalked
  BY WalkMeans
<1>4. QED
  BY <1>1, <1>2, <1>3, PTL DEF Spec

-----------------------------------------------------------------------------
(* The totals *)

\* The messages listed after n that have the time of n.
SameTime(p, n) == n \in Position /\ Listing[p].time = Listing[n].time

\* A task that walks is past the checkpoint n.
Ahead(t, n) == t.pc \in {"fetch", "bodies", "page"} => n <= t.anchor

CountInv ==
  ~overtaken => /\ \A p \in Position : counted[p] > 0 => p <= checkpoint \/ SameTime(p, checkpoint)
                /\ \A p \in Position : counted[p] > 1 => HasTwin(p)
                /\ \A r \in Run : Ahead(task[r], checkpoint)

LEMMA OutOfCount ==
  /\ \A t, n : t.pc \notin {"fetch", "bodies", "page"} => Ahead(t, n)
  /\ \A o, n : Ahead(Finished(o), n)
  /\ \A a, k, n : n <= a => Ahead(FetchFrom(a, k), n)
BY FieldFacts DEF Ahead

LEMMA InitCount == Init => CountInv
<1> SUFFICES ASSUME Init PROVE CountInv
  OBVIOUS
<1>1. task = [r \in Run |-> TaskAt("none")] /\ counted = [p \in Position |-> 0]
  BY DEF Init
<1>2. \A r \in Run : task[r].pc = "none"
  BY <1>1, FieldFacts
<1>3. QED
  BY <1>1, <1>2, OutOfCount DEF CountInv

\* A step of one task that saves nothing.
LEMMA CountStep ==
  ASSUME TypeOK, CountInv, NEW r \in Run, NEW t, task' = [task EXCEPT ![r] = t],
         overtaken' = overtaken, checkpoint' = checkpoint, counted' = counted,
         ~overtaken => Ahead(t, checkpoint)
  PROVE  CountInv'
<1>1. task'[r] = t /\ \A q \in Run \ {r} : task'[q] = task[q]
  BY DEF TypeOK
<1>2. ~overtaken => \A q \in Run : Ahead(task'[q], checkpoint)
  BY <1>1 DEF CountInv
<1>3. QED
  BY <1>2 DEF CountInv

LEMMA CountQuiet ==
  ASSUME CountInv, Quiet
  PROVE  CountInv'
<1>1. checkpoint' = checkpoint /\ counted' = counted /\ overtaken' = overtaken
  BY DEF Quiet
<1>2. ~overtaken => \A r \in Run : Ahead(task'[r], checkpoint)
  BY OutOfCount DEF CountInv, Quiet
<1>3. QED
  BY <1>1, <1>2 DEF CountInv

LEMMA ClearCount ==
  ASSUME TypeOK, NEW c \in Caller, ClearTables(c)
  PROVE  CountInv'
<1>1. counted' = [p \in Position |-> 0] /\ UNCHANGED task
      /\ overtaken' = \E r \in Run : HasAnchor(r) \/ task[r].pc = "outcome"
  BY DEF ClearTables, CallUnchanged
<1>2. ~overtaken' => \A r \in Run : task'[r].pc \notin {"fetch", "bodies", "page"}
  BY <1>1 DEF HasAnchor
<1>3. QED
  BY <1>1, <1>2, OutOfCount DEF CountInv

\* A message listed after the oldest one of a batch, and in the batch, has its time.
LEMMA OldestHasTheTime ==
  ASSUME NEW S \in SUBSET Position, NEW n, Oldest(n, S), NEW p \in S
  PROVE  p <= n \/ SameTime(p, n)
<1>1. n \in Position /\ p \in Position /\ \A m \in Position : m \in Int /\ Listing[m].time \in Nat
  BY ListingAssumption DEF Oldest, Position
<1>2. SUFFICES ASSUME n < p PROVE Listing[p].time = Listing[n].time
  BY <1>1 DEF SameTime
<1>3. Listing[p].time <= Listing[n].time
  BY <1>1, <1>2, ListingAssumption
<1>4. Listing[n].time <= Listing[p].time
  BY <1>1, <1>2 DEF Oldest, Older
<1>5. QED
  BY <1>1, <1>3, <1>4

\* A message between two of one time has that time too.
LEMMA TimesBetween ==
  ASSUME NEW n \in 0..Mailbox, NEW m \in Position, NEW p \in Position,
         n <= m, SameTime(p, n)
  PROVE  p <= m \/ SameTime(p, m)
<1>1. n \in Position /\ \A q \in Position : q \in Int /\ Listing[q].time \in Nat
  BY ListingAssumption DEF SameTime, Position
<1>2. SUFFICES ASSUME m < p PROVE Listing[p].time = Listing[m].time
  BY <1>1 DEF SameTime
<1>3. Listing[p].time <= Listing[m].time /\ (n = m \/ Listing[m].time <= Listing[n].time)
  BY <1>1, <1>2, ListingAssumption
<1>4. QED
  BY <1>1, <1>3 DEF SameTime

\* A batch that is saved lies behind the checkpoint, so what it counts again has
\* the checkpoint's time; no other run has an anchor the checkpoint could pass.
LEMMA SaveCount ==
  ASSUME TypeOK, SlotInv, WalkInv, CountInv, NEW r \in Run, SaveProgress(r),
         task' = [task EXCEPT ![r] = AfterBatch(task[r])],
         checkpoint' = IF task[r].got = {} THEN checkpoint ELSE task[r].last,
         counted' = [p \in Position |-> counted[p] + IF p \in Counted(task[r]) THEN 1 ELSE 0]
  PROVE  CountInv'
<1> DEFINE t == task[r]
<1>1. /\ t \in TaskState /\ Bounds(t) /\ t.pc = "bodies" /\ t.at = BatchEnd(t.anchor)
      /\ (~overtaken => Ahead(t, checkpoint)) /\ overtaken' = overtaken
      /\ t.got \subseteq Position /\ t.anchor \in 0..Mailbox /\ BatchEnd(t.anchor) \in 0..Mailbox
      /\ t.anchor <= BatchEnd(t.anchor)
      /\ checkpoint \in 0..Mailbox /\ counted \in [Position -> Nat]
  BY EndFacts DEF SaveProgress, TaskUnchanged, TypeOK, WalkInv, CountInv, TaskState
<1>2. task'[r] = AfterBatch(t) /\ \A q \in Run \ {r} : task'[q] = task[q]
  BY DEF TypeOK
<1>3. \A q \in Run \ {r} : task[q].pc \in {"none", "done"}
  <2>1. r \in LiveRuns
    BY <1>1 DEF LiveRuns, Live
  <2>2. QED
    BY <2>1 DEF SlotInv, LiveRuns, Live
<1>4. SUFFICES ASSUME ~overtaken
               PROVE  /\ \A p \in Position :
                           counted'[p] > 0 => p <= checkpoint' \/ SameTime(p, checkpoint')
                      /\ \A p \in Position : counted'[p] > 1 => HasTwin(p)
                      /\ \A q \in Run : Ahead(task'[q], checkpoint')
  BY <1>1 DEF CountInv
<1>5. /\ checkpoint <= t.anchor
      /\ \A p \in t.got : t.anchor < p /\ p <= t.at
      /\ t.got # {} => Oldest(t.last, t.got)
  BY <1>1, <1>4 DEF Bounds, Ahead
<1>6. /\ checkpoint' <= BatchEnd(t.anchor) /\ checkpoint <= checkpoint' /\ checkpoint' \in 0..Mailbox
      /\ t.got # {} => checkpoint' \in Position /\ Oldest(checkpoint', t.got)
  <2>1. CASE t.got = {}
    BY <1>1, <1>5, <2>1
  <2>2. CASE t.got # {}
    <3>1. checkpoint' = t.last /\ t.last \in t.got /\ t.last \in Position /\ Oldest(t.last, t.got)
      BY <1>1, <1>5, <2>2 DEF Oldest
    <3>2. t.last \in 0..Mailbox /\ t.anchor < t.last /\ t.last <= BatchEnd(t.anchor)
      BY <1>1, <1>5, <3>1 DEF TaskState
    <3>3. checkpoint <= t.last
      BY <1>1, <1>5, <3>2, BoundsAssumption
    <3>4. QED
      BY <3>1, <3>2, <3>3
  <2>3. QED
    BY <2>1, <2>2
<1>7. \A q \in Run : Ahead(task'[q], checkpoint')
  <2>1. Ahead(AfterBatch(t), checkpoint')
    BY <1>1, <1>6, AfterBatchFacts, OutOfCount
  <2>2. QED
    BY <1>2, <1>3, <2>1, OutOfCount
<1>8. ASSUME NEW p \in Position
      PROVE  /\ counted'[p] > 0 => p <= checkpoint' \/ SameTime(p, checkpoint')
             /\ counted'[p] > 1 => HasTwin(p)
  <2>1. CASE p \in t.got
    <3>1. p <= checkpoint' \/ SameTime(p, checkpoint')
      BY <1>1, <1>6, <2>1, OldestHasTheTime
    <3>2. counted'[p] = counted[p] + 1 /\ counted[p] \in Nat
      BY <1>1, <2>1 DEF Counted
    <3>3. counted[p] > 0 => HasTwin(p)
      <4>1. SUFFICES ASSUME counted[p] > 0 PROVE HasTwin(p)
        OBVIOUS
      <4>2. ~(p <= checkpoint)
        BY <1>1, <1>5, <2>1 DEF Position
      <4>3. SameTime(p, checkpoint)
        BY <1>4, <4>1, <4>2 DEF CountInv
      <4>4. QED
        BY <4>2, <4>3, BoundsAssumption DEF SameTime, HasTwin, Position
    <3>4. QED
      BY <3>1, <3>2, <3>3
  <2>2. CASE p \notin t.got
    <3>1. counted'[p] = counted[p] /\ counted[p] \in Nat
      BY <1>1, <2>2 DEF Counted
    <3>2. counted[p] > 0 => p <= checkpoint \/ SameTime(p, checkpoint)
      BY <1>4 DEF CountInv
    <3>3. p <= checkpoint => p <= checkpoint'
      BY <1>1, <1>6 DEF Position
    <3>4. SameTime(p, checkpoint) => p <= checkpoint' \/ SameTime(p, checkpoint')
      <4>1. CASE t.got = {}
        BY <4>1
      <4>2. CASE t.got # {}
        BY <1>1, <1>6, <4>2, TimesBetween
      <4>3. QED
        BY <4>1, <4>2
    <3>5. counted[p] > 1 => HasTwin(p)
      BY <1>4 DEF CountInv
    <3>6. QED
      BY <3>1, <3>2, <3>3, <3>4, <3>5
  <2>3. QED
    BY <2>1, <2>2
<1>9. QED
  BY <1>7, <1>8

LEMMA TaskCount ==
  ASSUME TypeOK, SlotInv, WalkInv, CountInv, NEW r \in Run, TaskStep(r)
  PROVE  CountInv'
<1> DEFINE t == task[r]
<1>1. t \in TaskState /\ checkpoint \in 0..Mailbox /\ (~overtaken => Ahead(t, checkpoint))
  BY DEF TypeOK, CountInv
<1>2. t.pc \in {"bodies", "page"} /\ ~overtaken =>
        \A u \in {Finished("interrupted"), FetchFrom(t.anchor, t.retry), Failed(t)} :
          Ahead(u, checkpoint)
  <2>1. SUFFICES ASSUME t.pc \in {"bodies", "page"}, ~overtaken
                 PROVE  \A u \in {Finished("interrupted"), FetchFrom(t.anchor, t.retry), Failed(t)} :
                          Ahead(u, checkpoint)
    OBVIOUS
  <2>2. checkpoint <= t.anchor
    BY <1>1, <2>1 DEF Ahead
  <2>3. QED
    BY <1>1, <2>2, FailedFacts, OutOfCount
<1>3. CASE Resume(r)
  <2>1. UNCHANGED <<counted, checkpoint>> /\ overtaken' = overtaken
    BY <1>3 DEF Resume, TaskUnchanged
  <2>2. PICK u : /\ task' = [task EXCEPT ![r] = u]
                 /\ u \in {FetchFrom(checkpoint, 0), Finished("interrupted")}
    BY <1>3 DEF Resume
  <2>3. Ahead(u, checkpoint)
    BY <1>1, <2>2, OutOfCount
  <2>4. QED
    BY <1>1, <2>1, <2>2, <2>3, CountStep
<1>4. CASE FetchBatch(r)
  <2>1. UNCHANGED <<counted, checkpoint>> /\ overtaken' = overtaken /\ t.pc = "fetch"
    BY <1>4 DEF FetchBatch, TaskUnchanged
  <2>2. PICK u : /\ task' = [task EXCEPT ![r] = u]
                 /\ u \in {Finished("interrupted"), Finished("completed"),
                          [t EXCEPT !.pc = "bodies", !.at = t.anchor]}
    BY <1>4 DEF FetchBatch
  <2>3. ~overtaken => Ahead([t EXCEPT !.pc = "bodies", !.at = t.anchor], checkpoint)
    BY <1>1, <2>1 DEF Ahead, TaskState
  <2>4. ~overtaken => Ahead(u, checkpoint)
    BY <2>2, <2>3, OutOfCount
  <2>5. QED
    BY <1>1, <2>1, <2>2, <2>4, CountStep
<1>5. CASE FetchBodies(r)
  <2>1. UNCHANGED <<counted, checkpoint>> /\ overtaken' = overtaken /\ t.pc = "bodies"
    BY <1>5 DEF FetchBodies, TaskUnchanged
  <2>2. \/ \E u \in {Finished("interrupted"), FetchFrom(t.anchor, t.retry), Failed(t)} :
             task' = [task EXCEPT ![r] = u]
        \/ task' = [task EXCEPT ![r] = [t EXCEPT !.at = ChunkEnd(t)]]
        \/ \E S, p : task' = [task EXCEPT ![r] =
                                [t EXCEPT !.pc = "page", !.ready = S, !.last = p]]
    <3>1. task' = [task EXCEPT ![r].at = ChunkEnd(t)]
            => task' = [task EXCEPT ![r] = [t EXCEPT !.at = ChunkEnd(t)]]
      OBVIOUS
    <3>2. QED
      BY <1>5, <3>1 DEF FetchBodies
  <2>3. ~overtaken => /\ Ahead([t EXCEPT !.at = ChunkEnd(t)], checkpoint)
                      /\ \A S, p : Ahead([t EXCEPT !.pc = "page", !.ready = S, !.last = p],
                                         checkpoint)
    BY <1>1, <2>1 DEF Ahead, TaskState
  <2>4. PICK u : task' = [task EXCEPT ![r] = u] /\ (~overtaken => Ahead(u, checkpoint))
    BY <1>2, <2>1, <2>2, <2>3
  <2>5. QED
    BY <1>1, <2>1, <2>4, CountStep
<1>6. CASE StorePage(r)
  <2>1. UNCHANGED <<counted, checkpoint>> /\ overtaken' = overtaken /\ t.pc = "page"
    BY <1>6 DEF StorePage, PersistPage, TaskUnchanged
  <2>2. \/ task' = [task EXCEPT ![r] = Stored(t)]
        \/ \E u \in {Finished("interrupted"), FetchFrom(t.anchor, t.retry), Failed(t)} :
             task' = [task EXCEPT ![r] = u]
    BY <1>6 DEF StorePage, PersistPage
  <2>3. ~overtaken => Ahead(Stored(t), checkpoint)
    BY <1>1, <2>1 DEF Ahead, Stored, TaskState
  <2>4. PICK u : task' = [task EXCEPT ![r] = u] /\ (~overtaken => Ahead(u, checkpoint))
    BY <1>2, <2>1, <2>2, <2>3
  <2>5. QED
    BY <1>1, <2>1, <2>4, CountStep
<1>7. CASE SaveProgress(r)
  <2>1. overtaken' = overtaken /\ t.pc = "bodies"
    BY <1>7 DEF SaveProgress, TaskUnchanged
  <2>2. CASE UNCHANGED <<checkpoint, counted>> /\ task' = [task EXCEPT ![r] = Failed(t)]
    BY <1>1, <1>2, <2>1, <2>2, CountStep
  <2>3. QED
    BY <1>7, <2>2, SaveCount DEF SaveProgress
<1>8. CASE PersistOutcome(r)
  <2>1. UNCHANGED <<counted, checkpoint>> /\ overtaken' = overtaken
        /\ task' = [task EXCEPT ![r] = TaskAt("release")]
    BY <1>8 DEF PersistOutcome, TaskUnchanged
  <2>2. Ahead(TaskAt("release"), checkpoint)
    BY FieldFacts, OutOfCount
  <2>3. QED
    BY <1>1, <2>1, <2>2, CountStep
<1>9. CASE Abort(r) \/ Release(r)
  BY <1>9, EndIsQuiet, CountQuiet
<1>10. QED
  BY <1>3, <1>4, <1>5, <1>6, <1>7, <1>8, <1>9 DEF TaskStep

LEMMA NextCount ==
  ASSUME TypeOK, SlotInv, WalkInv, CountInv, [Next]_vars
  PROVE  CountInv'
<1>1. CASE UNCHANGED vars
  <2>1. Quiet
    BY <1>1 DEF Quiet, vars
  <2>2. QED
    BY <2>1, CountQuiet
<1>2. ASSUME NEW c \in Caller, Client(c) PROVE CountInv'
  BY <1>2, ClearCount, ClientIsQuiet, CountQuiet
<1>3. CASE Crash
  BY <1>3, CrashIsQuiet, CountQuiet
<1>4. QED
  BY <1>1, <1>2, <1>3, TaskCount DEF Next

\* The total that the progress is computed from counts a message twice, however
\* often batches, runs and the process fail and are started again, only if
\* another message has the same time: for every way of listing such messages.
THEOREM TotalsCountOnce == Spec => []NothingCountedTwice
<1> DEFINE CInv == TypeOK /\ SlotInv /\ WalkInv /\ CountInv
<1>1. Init => CInv
  BY InitType, InitSlot, InitWalk, InitCount
<1>2. CInv /\ [Next]_vars => CInv'
  BY NextType, NextSlot, NextWalk, NextCount
<1>3. CInv => NothingCountedTwice
  BY DEF CountInv, NothingCountedTwice
<1>4. QED
  BY <1>1, <1>2, <1>3, PTL DEF Spec

=============================================================================
