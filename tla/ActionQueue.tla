---------------------------- MODULE ActionQueue ----------------------------
(***************************************************************************)
(* The persistent action queue of the mail client                          *)
(* (src/project/mail/rust/shared/action-queue).  Clients queue, replace,   *)
(* cancel and delete actions; executors pop an action, run its remote part *)
(* while they hold an execution guard, and remove it, requeue it or cancel *)
(* it together with the actions that require it.  Every step below that    *)
(* touches the tables is one SQLite write transaction: the database has a  *)
(* single writer, so these transactions are atomic and totally ordered.    *)
(***************************************************************************)
EXTENDS Integers, FiniteSets

CONSTANTS
  Executor,        \* the live queue executors, each with its own UUID
  Type,            \* action types
  Group,           \* action groups
  Key,             \* dependency keys
  Request,         \* what clients submit: an action and its metadata
  GroupOf,         \* GroupOf[e]: the group that executor e serves
  Factory,         \* Factory[e]: the types that the build running e can decode
  MaxRetries,      \* MaxRetries[t]: Action::MAX_RETRIES, or Unlimited
  None,            \* no executor (SQL NULL)
  Gone,            \* a terminated executor: its UUID is never used again
  MaxId,           \* bound: actions ever stored
  MaxExplicit,     \* bound: explicit dependencies of one submission
  MaxPayload,      \* bound: versions of one action made by replacing it
  MaxPermit,       \* bound: permits handed out for one lock row
  MaxDisruptions,  \* bound: suspensions, aborts and half-done cancellations
  MaxLeaks         \* bound: guards that a live executor never released

Unlimited == -1
Id == 1 .. MaxId

RequestRecord ==
  [type : Type, group : Group, priority : Nat, created : Nat, delayed : BOOLEAN,
   required : SUBSET Key, optional : SUBSET Key, record : SUBSET Key]

ASSUME ConstantsAssumption ==
  /\ Request \subseteq RequestRecord
  /\ GroupOf \in [Executor -> Group]
  /\ Factory \in [Executor -> SUBSET Type]
  /\ MaxRetries \in [Type -> Nat \cup {Unlimited}]
  /\ None \notin Executor /\ Gone \notin Executor /\ None # Gone
  /\ MaxId \in Nat /\ MaxPayload \in Nat /\ MaxPermit \in Nat
  /\ MaxExplicit \in Nat /\ MaxDisruptions \in Nat /\ MaxLeaks \in Nat

VARIABLES
  \* The tables.
  life,         \* row i of action_queue exists iff life[i] = "queued"; once it
                \* is gone, life[i] remembers how it left (history)
  info,         \* info[i]: the columns of row i
  required,     \* action_queue_dependencies, dependency_type = Required:
  optional,     \* and = Optional: sets of pairs <<action_id, dependency_id>>
  keys,         \* keys[i]: the keys that action_queue_key_deps_v2 holds for i
  lock,         \* lock[i]: row i of action_queue_lock; no row iff permit = 0
  seq,          \* the AUTOINCREMENT counter of action_queue
  \* In memory.
  exec,         \* exec[e]: where executor e is, with its guard
  said,         \* said[i]: the broadcast messages sent about action i
  \* Budgets.
  disruptions,  \* suspensions, aborts and half-done cancellations so far
  leaks         \* guards left behind so far

tables == <<life, info, required, optional, keys, lock, seq>>
vars == <<life, info, required, optional, keys, lock, seq, exec, said,
          disruptions, leaks>>

-----------------------------------------------------------------------------
(* Rows and types.  A definition that no action uses and that stands before *)
(* the one it resembles is a faulty variant of it: the mutants of           *)
(* PROJECT.json put it in its place to show that a property notices.        *)

Queued == {i \in Id : life[i] = "queued"}

Message == {"queued", "success", "error", "cancelled", "deleted"}

NoInfo == [type |-> None, group |-> None, priority |-> 0, created |-> 0,
           due |-> FALSE, payload |-> 0, retries |-> 0]

\* Row x with another schedule and retry count.
WithTime(x, due, retries) ==
  [type |-> x.type, group |-> x.group, priority |-> x.priority, created |-> x.created,
   due |-> due, payload |-> x.payload, retries |-> retries]

RetriedDown(x) == WithTime(x, x.due, x.retries - 1)

\* StoredAction::update_retries.
Retried(x) == WithTime(x, x.due, x.retries + 1)

NoLock == [owner |-> None, permit |-> 0, fresh |-> FALSE]

\* Lock row l with acquired_at set to now (fresh) or long ago.
WithFresh(l, fresh) == [owner |-> l.owner, permit |-> l.permit, fresh |-> fresh]

Idle == [pc |-> "idle", action |-> 0, permit |-> 0, payload |-> 0,
         out |-> "none", cancelled |-> {}]

\* An executor that holds the guard of action i.
Guarding(pc, i, permit, payload) ==
  [pc |-> pc, action |-> i, permit |-> permit, payload |-> payload,
   out |-> "none", cancelled |-> {}]

Info == [type : Type \cup {None}, group : Group \cup {None}, priority : Nat,
         created : Nat, due : BOOLEAN, payload : Nat, retries : Nat]

Lock == [owner : Executor \cup {None, Gone}, permit : Nat, fresh : BOOLEAN]

Exec == [pc : {"idle", "undecoded", "remote", "report"}, action : Id \cup {0},
         permit : Nat, payload : Nat,
         out : {"none", "executed", "requeued", "error"}, cancelled : SUBSET Id]

\* Types of the tables and of the executors' memory.
TypeOK ==
  /\ life \in [Id -> {"none", "queued", "executed", "cancelled", "deleted"}]
  /\ info \in [Id -> Info]
  /\ required \subseteq Id \X Id
  /\ optional \subseteq Id \X Id
  /\ keys \in [Id -> SUBSET Key]
  /\ lock \in [Id -> Lock]
  /\ seq \in 0 .. MaxId
  /\ exec \in [Executor -> Exec]
  /\ said \in [Id -> SUBSET Message]
  /\ disruptions \in Nat
  /\ leaks \in Nat

-----------------------------------------------------------------------------
(* Dependencies. *)

Edges == required \cup optional

\* The least set that holds S and every n with <<m, n>> in E for some m in it.
Closure(S, E) ==
  {n \in Id : \A T \in SUBSET Id :
                (S \subseteq T /\ \A p \in E : p[1] \in T => p[2] \in T) => n \in T}

CycleFoundDirect(i, E) == <<i, i>> \in E

\* The cycle check made after an action's dependencies are stored: the sorter
\* is filled with all edges reachable from the action and its first pop yields
\* nothing although it is not empty.
CycleFound(i, E) ==
  LET reached == Closure({i}, E)
      sorter == {p \in E : p[1] \in reached}
  IN  /\ sorter # {}
      /\ \A n \in reached : \E p \in sorter : p[2] = n

\* Required dependees, transitively: what is cancelled together with action i.
CancelSet(i) == Closure({i}, {<<p[2], p[1]>> : p \in required})

\* The holders of a dependency key.
KeyHolders(K, kt) == {h \in Id : kt[h] \cap K # {}}

\* The dependency tables after action i is stored with request r and explicit
\* dependencies exReq and exOpt.  Only dependencies on rows of q are stored. A
\* dependency that is both required and optional is inserted twice, in the
\* order of a hash set, and the second insert overwrites the type of the first.
Upserts(i, r, exReq, exOpt, q, kt, req, opt) ==
  LET toReq == (exReq \cap q) \cup KeyHolders(r.required, kt)
      toOpt == (exOpt \cap q) \cup KeyHolders(r.optional, kt)
  IN  { [req |-> (req \ ({i} \X (toOpt \ asReq))) \cup ({i} \X ((toReq \ toOpt) \cup asReq)),
         opt |-> (opt \ ({i} \X ((toReq \ toOpt) \cup asReq))) \cup ({i} \X (toOpt \ asReq))]
        : asReq \in SUBSET (toReq \cap toOpt) }

RecordedKeys(r) == r.required \cup r.record

StoredInfo(r, payload) ==
  [type |-> r.type, group |-> r.group, priority |-> r.priority,
   created |-> r.created, due |-> ~r.delayed, payload |-> payload, retries |-> 0]

RemoveKeepsDependencies(S, fate) ==
  /\ life' = [i \in Id |-> IF i \in S THEN fate ELSE life[i]]
  /\ info' = [i \in Id |-> IF i \in S THEN NoInfo ELSE info[i]]
  /\ required' = {p \in required : p[1] \notin S}
  /\ optional' = {p \in optional : p[1] \notin S}
  /\ keys' = [i \in Id |-> IF i \in S THEN {} ELSE keys[i]]

\* DELETE of the rows S: dependencies, keys and lock rows go with them
\* (foreign keys with ON DELETE CASCADE).
Remove(S, fate) ==
  /\ life' = [i \in Id |-> IF i \in S THEN fate ELSE life[i]]
  /\ info' = [i \in Id |-> IF i \in S THEN NoInfo ELSE info[i]]
  /\ required' = {p \in required : p[1] \notin S /\ p[2] \notin S}
  /\ optional' = {p \in optional : p[1] \notin S /\ p[2] \notin S}
  /\ keys' = [i \in Id |-> IF i \in S THEN {} ELSE keys[i]]

LockWithout(S) == [i \in Id |-> IF i \in S THEN NoLock ELSE lock[i]]

-----------------------------------------------------------------------------
(* Execution guards. *)

HasFreshExecutor(i) == lock[i].owner # None /\ lock[i].fresh

\* ExecutionGuard::has_executor: an owner is recorded, expired or not.
HasExecutor(i) == lock[i].owner # None

\* The permit of e's guard is still the one in the lock row.
Valid(e) == lock[exec[e].action].permit = exec[e].permit

AcquiredSamePermit(l, e) ==
  [owner |-> e, permit |-> IF l.permit = 0 THEN 1 ELSE l.permit, fresh |-> TRUE]

\* ExecutionGuard::acquire: a new row gets permit 1, an old one the next.
Acquired(l, e) == [owner |-> e, permit |-> l.permit + 1, fresh |-> TRUE]

\* ExecutionGuard::release.
Released(i, permit) ==
  IF lock[i].permit = permit
  THEN [owner |-> None, permit |-> lock[i].permit, fresh |-> FALSE]
  ELSE lock[i]

ClearSlateNothing(e) == lock

\* ExecutionGuard::clear_slate_state.
ClearSlate(e) == [i \in Id |-> IF lock[i].owner = e THEN NoLock ELSE lock[i]]

ReadyIgnoringOptional(g, lk) ==
  {i \in Queued : /\ info[i].group = g
                  /\ ~lk[i].fresh
                  /\ info[i].due
                  /\ \A p \in required : p[1] # i}

ReadyUnlocked(g, lk) ==
  {i \in Queued : /\ info[i].group = g
                  /\ lk[i].permit = 0
                  /\ info[i].due
                  /\ \A p \in Edges : p[1] # i}

\* StoredAction::next: rows that an executor of group g may take.
Ready(g, lk) ==
  {i \in Queued : /\ info[i].group = g
                  /\ ~lk[i].fresh
                  /\ info[i].due
                  /\ \A p \in Edges : p[1] # i}

\* ORDER BY priority, created; SQLite may order ties as it likes.
First(S) ==
  {i \in S : \A j \in S : \/ info[i].priority < info[j].priority
                          \/ /\ info[i].priority = info[j].priority
                             /\ info[i].created <= info[j].created}

-----------------------------------------------------------------------------
Init ==
  /\ life = [i \in Id |-> "none"]
  /\ info = [i \in Id |-> NoInfo]
  /\ required = {}
  /\ optional = {}
  /\ keys = [i \in Id |-> {}]
  /\ lock = [i \in Id |-> NoLock]
  /\ seq = 0
  /\ exec = [e \in Executor |-> Idle]
  /\ said = [i \in Id |-> {}]
  /\ disruptions = 0
  /\ leaks = 0

(* Clients. *)

Say(S, m) == said' = [i \in Id |-> IF i \in S THEN said[i] \cup {m} ELSE said[i]]

\* queue_action_with_metadata: insert the row, apply the local changes, store
\* the dependencies, refuse a cycle.  Any error rolls everything back.
QueueAction(r, exReq, exOpt) ==
  LET i == seq + 1
  IN  /\ i \in Id
      /\ \E d \in Upserts(i, r, exReq, exOpt, Queued, keys, required, optional) :
           /\ ~CycleFound(i, d.req \cup d.opt)
           /\ required' = d.req
           /\ optional' = d.opt
      /\ life' = [life EXCEPT ![i] = "queued"]
      /\ info' = [info EXCEPT ![i] = StoredInfo(r, 1)]
      /\ keys' = [keys EXCEPT ![i] = RecordedKeys(r)]
      /\ seq' = i
      /\ Say({i}, "queued")
      /\ UNCHANGED <<lock, exec, disruptions, leaks>>

\* queue_actions: a chain in one transaction, each action requiring the one
\* before; last holds the id the first one is to require, if any.
QueueActions(r, r2, last) ==
  LET i == seq + 1
      j == seq + 2
  IN  /\ j \in Id
      /\ \E d \in Upserts(i, r, last, {}, Queued, keys, required, optional) :
         \E d2 \in Upserts(j, r2, {i}, {}, Queued \cup {i},
                           [keys EXCEPT ![i] = RecordedKeys(r)], d.req, d.opt) :
           /\ ~CycleFound(i, d.req \cup d.opt)
           /\ ~CycleFound(j, d2.req \cup d2.opt)
           /\ required' = d2.req
           /\ optional' = d2.opt
      /\ life' = [life EXCEPT ![i] = "queued", ![j] = "queued"]
      /\ info' = [info EXCEPT ![i] = StoredInfo(r, 1), ![j] = StoredInfo(r2, 1)]
      /\ keys' = [keys EXCEPT ![i] = RecordedKeys(r), ![j] = RecordedKeys(r2)]
      /\ seq' = j
      /\ Say({i, j}, "queued")
      /\ UNCHANGED <<lock, exec, disruptions, leaks>>

\* queue_actions when a later action of the chain fails, or when the commit
\* does: the first action was broadcast inside the transaction, which is then
\* rolled back with the AUTOINCREMENT counter.
QueueActionsRolledBack ==
  /\ seq + 1 \in Id
  /\ Say({seq + 1}, "queued")
  /\ UNCHANGED <<tables, exec, disruptions, leaks>>

CanReplaceRunning(old, r) ==
  /\ old \in Queued
  /\ info[old].type = r.type

\* replace_or_queue_action_with_metadata, when create_or_update finds a row of
\* the same type that nobody executes: the row keeps its id and its stored
\* dependencies, gives up its keys and gets new columns.  Nothing is broadcast.
CanReplace(old, r) ==
  /\ old \in Queued
  /\ info[old].type = r.type
  /\ ~HasExecutor(old)

ReplaceAction(old, r, exReq, exOpt) ==
  /\ CanReplace(old, r)
  /\ info[old].payload < MaxPayload
  /\ \E d \in Upserts(old, r, exReq \ {old}, exOpt \ {old}, Queued,
                      [keys EXCEPT ![old] = {}], required, optional) :
       /\ ~CycleFound(old, d.req \cup d.opt)
       /\ required' = d.req
       /\ optional' = d.opt
  /\ info' = [info EXCEPT ![old] = StoredInfo(r, info[old].payload + 1)]
  /\ keys' = [keys EXCEPT ![old] = RecordedKeys(r)]
  /\ UNCHANGED <<life, lock, seq, exec, said, disruptions, leaks>>

\* The same call when no such row is found: a new action is queued.
ReplaceOrQueueAction(old, r, exReq, exOpt) ==
  \/ ReplaceAction(old, r, exReq, exOpt)
  \/ ~CanReplace(old, r) /\ QueueAction(r, exReq, exOpt)

\* delete_action: nothing is reverted, and dependees are let go.
DeleteAction(i) ==
  /\ i \in Queued
  /\ ~HasExecutor(i)
  /\ Remove({i}, "deleted")
  /\ lock' = LockWithout({i})
  /\ Say({i}, "deleted")
  /\ UNCHANGED <<seq, exec, disruptions, leaks>>

\* delete_all_in_group and delete_all_by_type: no guard is consulted and
\* nothing is broadcast.
DeleteRows(S) ==
  /\ S # {}
  /\ Remove(S, "deleted")
  /\ lock' = LockWithout(S)
  /\ UNCHANGED <<seq, exec, said, disruptions, leaks>>

DeleteAllInGroup(g) == DeleteRows({i \in Queued : info[i].group = g})

DeleteAllByType(t) == DeleteRows({i \in Queued : info[i].type = t})

\* cancel: revert and delete the action and its required dependees.
Cancel(i) ==
  /\ i \in Queued
  /\ ~HasExecutor(i)
  /\ Remove(CancelSet(i), "cancelled")
  /\ lock' = LockWithout(CancelSet(i))
  /\ Say(CancelSet(i), "cancelled")
  /\ UNCHANGED <<seq, exec, disruptions, leaks>>

-----------------------------------------------------------------------------
(* Executors. *)

\* StoredAction::pop, one transaction: forget what this executor left locked,
\* find the next action, acquire its guard (permit + 1).  The action is then
\* decoded, and its remote part is spawned as a task.
Pop(e) ==
  /\ exec[e].pc = "idle"
  /\ LET lk == ClearSlate(e)
         next == First(Ready(GroupOf[e], lk))
     IN  \/ /\ next = {}
            /\ lock' = lk
            /\ UNCHANGED exec
         \/ \E i \in next :
              /\ lk[i].permit < MaxPermit
              /\ lock' = [lk EXCEPT ![i] = Acquired(lk[i], e)]
              /\ exec' = [exec EXCEPT ![e] =
                   Guarding(IF info[i].type \in Factory[e] THEN "remote" ELSE "undecoded",
                            i, Acquired(lk[i], e).permit, info[i].payload)]
  /\ UNCHANGED <<life, info, required, optional, keys, seq, said, disruptions, leaks>>

\* decode_action failed: the guard is released and the error is not broadcast.
DecodeFailed(e) ==
  /\ exec[e].pc = "undecoded"
  /\ lock' = [lock EXCEPT ![exec[e].action] = Released(exec[e].action, exec[e].permit)]
  /\ exec' = [exec EXCEPT ![e] = Idle]
  /\ UNCHANGED <<life, info, required, optional, keys, seq, said, disruptions, leaks>>

\* The empty transaction every 15 seconds that keeps the guard alive.
KeepAlive(e) ==
  /\ exec[e].pc = "remote"
  /\ Valid(e)
  /\ lock' = [lock EXCEPT ![exec[e].action] = WithFresh(@, TRUE)]
  /\ UNCHANGED <<life, info, required, optional, keys, seq, exec, said, disruptions, leaks>>

Outcome(e, out, cancelled) ==
  exec' = [exec EXCEPT ![e] =
    [pc |-> "report", action |-> exec[e].action, permit |-> 0, payload |-> 0,
     out |-> out, cancelled |-> cancelled]]

\* The keep-alive or the final transaction finds another permit: the executor
\* gives up and leaves the lock row alone.
GuardExpired(e) ==
  /\ exec[e].pc = "remote"
  /\ ~Valid(e)
  /\ Outcome(e, "requeued", {})
  /\ UNCHANGED <<tables, said, disruptions, leaks>>

\* tx_and_release after the remote part succeeded.
FinishExecuted(e) ==
  LET i == exec[e].action
  IN  /\ exec[e].pc = "remote"
      /\ Valid(e)
      /\ Remove({i}, "executed")
      /\ lock' = LockWithout({i})
      /\ Outcome(e, "executed", {})
      /\ UNCHANGED <<seq, said, disruptions, leaks>>

CanRequeue(i) ==
  \/ MaxRetries[info[i].type] = Unlimited
  \/ info[i].retries < MaxRetries[info[i].type]

\* tx_and_release after the remote part failed with an error that can be retried.
FinishRequeued(e) ==
  LET i == exec[e].action
  IN  /\ exec[e].pc = "remote"
      /\ Valid(e)
      /\ CanRequeue(i)
      /\ info' = [info EXCEPT ![i] = Retried(@)]
      /\ lock' = [lock EXCEPT ![i] = Released(i, exec[e].permit)]
      /\ Outcome(e, "requeued", {})
      /\ UNCHANGED <<life, required, optional, keys, seq, said, disruptions, leaks>>

\* tx_and_release after the remote part failed for good, or too often.
FinishFailed(e) ==
  LET i == exec[e].action
  IN  /\ exec[e].pc = "remote"
      /\ Valid(e)
      /\ Remove(CancelSet(i), "cancelled")
      /\ lock' = LockWithout(CancelSet(i))
      /\ Outcome(e, "error", CancelSet(i) \ {i})
      /\ UNCHANGED <<seq, said, disruptions, leaks>>

CancelledSoFarUnordered(i) == SUBSET (CancelSet(i) \ {i})

\* The same when loading, decoding or deleting one of the actions fails half-way.
\* Dependees are cancelled before what they depend on; the error is only logged,
\* so what was done so far is committed, and nobody is told of it.
CancelledSoFar(i) ==
  {S \in SUBSET (CancelSet(i) \ {i}) : \A p \in required : p[2] \in S => p[1] \in S}

FinishFailedPartly(e) ==
  LET i == exec[e].action
  IN  /\ exec[e].pc = "remote"
      /\ Valid(e)
      /\ disruptions < MaxDisruptions
      /\ \E S \in CancelledSoFar(i) :
           /\ Remove(S, "cancelled")
           /\ lock' = [LockWithout(S) EXCEPT ![i] = Released(i, exec[e].permit)]
      /\ Outcome(e, "error", {})
      /\ disruptions' = disruptions + 1
      /\ UNCHANGED <<seq, said, leaks>>

\* The remote task died, or a transaction of the executor failed: the error is
\* returned, and the lock row stays as it is.
LeaveLocked(e) ==
  /\ exec[e].pc \in {"undecoded", "remote"}
  /\ leaks < MaxLeaks
  /\ IF exec[e].pc = "remote" THEN Outcome(e, "error", {})
                              ELSE exec' = [exec EXCEPT ![e] = Idle]
  /\ leaks' = leaks + 1
  /\ UNCHANGED <<tables, said, disruptions>>

ReportForgetsDependees(e) ==
  /\ exec[e].pc = "report"
  /\ said' = [said EXCEPT ![exec[e].action] =
                @ \cup {IF exec[e].out = "error" THEN "error" ELSE "success"}]
  /\ exec' = [exec EXCEPT ![e] = Idle]
  /\ UNCHANGED <<tables, disruptions, leaks>>

\* execute_impl broadcasts the result; the executor is free again.
Report(e) ==
  LET m == IF exec[e].out = "error" THEN "error" ELSE "success"
  IN  /\ exec[e].pc = "report"
      /\ said' = [i \in Id |-> said[i]
                     \cup (IF i = exec[e].action THEN {m} ELSE {})
                     \cup (IF i \in exec[e].cancelled THEN {"cancelled"} ELSE {})]
      /\ exec' = [exec EXCEPT ![e] = Idle]
      /\ UNCHANGED <<tables, disruptions, leaks>>

\* terminate, or the end of the process: what e locked stays locked under a
\* UUID that no executor has any more, and a new executor takes e's place.
Terminate(e) ==
  /\ exec[e].pc # "idle" \/ \E i \in Id : lock[i].owner = e
  /\ disruptions < MaxDisruptions
  /\ exec' = [exec EXCEPT ![e] = Idle]
  /\ lock' = [i \in Id |-> IF lock[i].owner = e THEN [owner |-> Gone, permit |-> lock[i].permit,
                                 fresh |-> lock[i].fresh]
                           ELSE lock[i]]
  /\ disruptions' = disruptions + 1
  /\ UNCHANGED <<life, info, required, optional, keys, seq, said, leaks>>

-----------------------------------------------------------------------------
(* Time. *)

\* Some executor holds the guard of i and can keep it alive.
Attended(i) ==
  \E e \in Executor : exec[e].pc \in {"remote", "undecoded"} /\ exec[e].action = i /\ Valid(e)

\* DEFAULT_LOCK_TIMEOUT passed since the guard of i was acquired or kept alive.
Expire(i) ==
  /\ lock[i].fresh
  /\ ~Attended(i)
  /\ lock' = [lock EXCEPT ![i] = WithFresh(@, FALSE)]
  /\ UNCHANGED <<life, info, required, optional, keys, seq, exec, said, disruptions, leaks>>

\* The same although its executor is alive: the device slept or the executor's
\* transactions waited for the writer for too long.
Suspend(i) ==
  /\ lock[i].fresh
  /\ Attended(i)
  /\ disruptions < MaxDisruptions
  /\ lock' = [lock EXCEPT ![i] = WithFresh(@, FALSE)]
  /\ disruptions' = disruptions + 1
  /\ UNCHANGED <<life, info, required, optional, keys, seq, exec, said, leaks>>

\* The scheduled time of a delayed action is reached.
BecomeDue(i) ==
  /\ i \in Queued
  /\ ~info[i].due
  /\ info' = [info EXCEPT ![i] = WithTime(@, TRUE, @.retries)]
  /\ UNCHANGED <<life, required, optional, keys, lock, seq, exec, said, disruptions, leaks>>

-----------------------------------------------------------------------------
\* The explicit dependencies of a submission: required ones and optional ones.
Explicit ==
  {x \in (SUBSET (1 .. seq)) \X (SUBSET (1 .. seq)) :
     Cardinality(x[1]) + Cardinality(x[2]) <= MaxExplicit}

Client ==
  \/ \E r \in Request, x \in Explicit : QueueAction(r, x[1], x[2])
  \/ \E r \in Request, r2 \in Request, last \in {S \in SUBSET (1 .. seq) : Cardinality(S) <= 1} :
       QueueActions(r, r2, last)
  \/ QueueActionsRolledBack
  \/ \E old \in 1 .. seq, r \in Request, x \in Explicit :
       ReplaceOrQueueAction(old, r, x[1], x[2])
  \/ \E i \in Id : DeleteAction(i) \/ Cancel(i)
  \/ \E g \in Group : DeleteAllInGroup(g)
  \/ \E t \in Type : DeleteAllByType(t)

Finish(e) == FinishExecuted(e) \/ FinishRequeued(e) \/ FinishFailed(e)

Run(e) == Pop(e) \/ DecodeFailed(e) \/ KeepAlive(e) \/ GuardExpired(e) \/ Finish(e) \/ Report(e)

Fault(e) == FinishFailedPartly(e) \/ LeaveLocked(e) \/ Terminate(e)

Time == \E i \in Id : Expire(i) \/ Suspend(i) \/ BecomeDue(i)

Next == Client \/ (\E e \in Executor : Run(e) \/ Fault(e)) \/ Time

Spec == Init /\ [][Next]_vars

\* What the run time guarantees: an executor looks at the queue again (it is
\* notified, or its wait times out), remote parts end, time passes.
Fairness ==
  /\ \A e \in Executor : /\ WF_vars(Pop(e))
                         /\ WF_vars(DecodeFailed(e))
                         /\ WF_vars(GuardExpired(e))
                         /\ WF_vars(Finish(e))
                         /\ WF_vars(Report(e))
  /\ \A i \in Id : WF_vars(Expire(i)) /\ WF_vars(BecomeDue(i))

FairSpec == Spec /\ Fairness

-----------------------------------------------------------------------------
(* Properties. *)

\* No set of queued actions waits only for itself: nothing can deadlock on
\* dependencies, and the walk over dependees in cancel_action_with_dependees
\* ends.  The code relies on one pop of its sorter to see this.
Acyclic ==
  \A S \in SUBSET Id : S # {} => \E n \in S : \A p \in Edges : p[1] = n => p[2] \notin S

\* Dependencies, keys and lock rows belong to queued actions: no action waits
\* for one that has left the queue (ON DELETE CASCADE, and the check for
\* existing ids in update_dependency_keys_sync).
NoDanglingRows ==
  /\ Edges \subseteq Queued \X Queued
  /\ \A i \in Id : keys[i] # {} \/ lock[i].permit > 0 => i \in Queued

\* An action with an executor has no stored dependency: replacing it cannot add
\* one while it runs, and cancelling what it once waited for cannot reach it.
RunningIsUnblocked ==
  \A i \in Id : lock[i].owner # None => \A p \in Edges : p[1] # i

\* clear_slate_state leaves at most one lock row per executor, as the UNIQUE
\* column of the lock table demands.
OneLockPerExecutor ==
  \A i, j \in Id : lock[i].owner \in Executor /\ lock[i].owner = lock[j].owner => i = j

\* Executor e works on an action and the lock row has its permit.
Holds(e) ==
  exec[e].pc \in {"undecoded", "remote"} /\ lock[exec[e].action].permit = exec[e].permit

\* As long as no executor left a guard behind, a guard that still validates is
\* the guard of the executor recorded in the lock row: two executors never
\* both commit work on one action, whatever expires or is terminated.
GuardExclusive ==
  leaks = 0 => \A e \in Executor : Holds(e) => lock[exec[e].action].owner = e

\* "If for some reason another executor has started working on the action, the
\* permit id will no longer match and we abort" (ExecutionGuard, db.rs).
GuardNeverShared ==
  \A e, f \in Executor :
    Holds(e) /\ Holds(f) /\ exec[e].action = exec[f].action => e = f

\* When an action is cancelled, by a client or after a failure, everything that
\* requires it is cancelled in the same transaction, even when the
\* cancellation stops half-way.
CancelTakesDependees ==
  [][\A p \in required : life[p[2]] = "queued" /\ life'[p[2]] = "cancelled"
                           => life'[p[1]] = "cancelled"]_vars

\* As long as no guard was left behind, an action leaves the queue as executed
\* only when it waits for nothing and when the version of it that was sent is
\* the one stored: a replacement made meanwhile is never lost.
ExecutedIsCurrent ==
  [][\A i \in Id : leaks = 0 /\ life[i] = "queued" /\ life'[i] = "executed" =>
       /\ \A p \in Edges : p[1] # i
       /\ \E e \in Executor : Holds(e) /\ exec[e].action = i /\ exec[e].payload = info[i].payload]_vars

\* An action that has an executor is executed or cancelled only by an executor
\* whose guard validates, even when it has expired: cancel keeps away from it.
LeavesByItsExecutor ==
  [][\A i \in Id : lock[i].owner # None /\ life'[i] # life[i] /\ life'[i] \in {"executed", "cancelled"} =>
       \E e \in Executor : Holds(e) /\ exec[e].action = i /\ exec'[e].pc = "report"]_vars

\* Every queued action leaves the queue in the end, when its type limits its
\* retries: dependencies resolve, expired and abandoned guards are taken over.
EventuallyLeaves == \A i \in Id : life[i] = "queued" ~> life[i] # "queued"

\* Unless something was disrupted or a guard was left behind, whoever awaits an
\* action that was executed or cancelled is told so once no report is pending:
\* dependees that fall with a failed action are not forgotten.
AwaiterIsTold ==
  (disruptions = 0 /\ leaks = 0 /\ \A e \in Executor : exec[e].pc # "report") =>
     \A i \in Id : /\ life[i] = "executed" => "success" \in said[i]
                   /\ life[i] = "cancelled" => said[i] \cap {"cancelled", "error"} # {}

Lifecycle == INSTANCE ActionLifecycle WITH requires <- required, follows <- optional

\* The queue implements the life cycle that ActionLifecycle promises.
ImplementsLifecycle == Lifecycle!Spec
=============================================================================
