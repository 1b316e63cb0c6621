----------------------- MODULE ActionQueueGuardProofs -----------------------
(***************************************************************************)
(* How actions leave the queue, what an execution guard is worth, and that *)
(* the queue implements the life cycle of ActionLifecycle when no live     *)
(* executor leaves a guard behind.                                         *)
(***************************************************************************)
EXTENDS ActionQueueGraphProofs

-----------------------------------------------------------------------------
(* How actions leave. *)

\* The queued actions of S leave, with their dependencies.
Left(S, fate) ==
  /\ S \subseteq Queued
  /\ life' = [i \in Id |-> IF i \in S THEN fate ELSE life[i]]
  /\ required' = {p \in required : p[1] \notin S /\ p[2] \notin S}
  /\ optional' = {p \in optional : p[1] \notin S /\ p[2] \notin S}

\* Actions are queued, or one is replaced.
Joined(I) ==
  /\ Stored(I)
  /\ \/ \A i \in I : life[i] = "none"
     \/ UNCHANGED life /\ \E i \in Id : I = {i}

\* Executor e ends the execution of action i, whose guard it holds.
EndedBy(e, i) == Holds(e) /\ exec[e].action = i /\ exec[e].pc = "remote" /\ exec'[e].pc = "report"

CancelledWithDependees(S) ==
  /\ Left(S, "cancelled")
  /\ \A p \in required : p[2] \in S => p[1] \in S
  /\ \A i \in S : lock[i].owner # None => \E e \in Executor : EndedBy(e, i)

\* The fate of the actions in any step.
Fates ==
  \/ UNCHANGED <<life, required, optional>>
  \/ \E I \in SUBSET Id : I # {} /\ Joined(I)
  \/ \E S : Left(S, "deleted")
  \/ \E S : CancelledWithDependees(S)
  \/ \E e \in Executor : EndedBy(e, exec[e].action) /\ Left({exec[e].action}, "executed")

LEMMA HowActionsLeave ==
  ASSUME TableInv, [Next]_vars PROVE Fates
<1>l. TypeOK
  BY DEF TableInv, TypeInv
<1>t. TypeInv'
  BY NextType DEF TableInv
<1>u. ASSUME UNCHANGED <<life, required, optional>> PROVE Fates
  BY <1>u DEF Fates
<1>o. ASSUME NEW e \in Executor, NEW out, NEW c, Outcome(e, out, c), exec[e].pc = "remote", Valid(e)
      PROVE  EndedBy(e, exec[e].action)
  BY <1>o, <1>l DEF EndedBy, Holds, Outcome, Valid, TypeOK
<1>b. ASSUME NEW i \in Queued, NEW n \in CancelSet(i), n # i PROVE lock[n].owner = None
  <2>1. n \in Id /\ \E p \in Edges : p[1] = n
    BY <1>b, CancelSetFacts DEF Edges, Queued
  <2>2. QED
    BY <2>1 DEF TableInv, RunningIsUnblocked
<1>1. ASSUME NEW r \in Request, NEW x \in Explicit, QueueAction(r, x[1], x[2]) PROVE Fates
  <2>1. {seq + 1} \in SUBSET Id
    BY <1>1 DEF QueueAction
  <2>2. Joined({seq + 1})
    BY <1>1, <1>t, QueueActionStores DEF Joined
  <2>3. QED
    BY <2>1, <2>2 DEF Fates
<1>2. ASSUME NEW r \in Request, NEW r2 \in Request, NEW last, QueueActions(r, r2, last) PROVE Fates
  <2>1. {seq + 1, seq + 2} \in SUBSET Id
    BY <1>2, <1>l, ConstantsAssumption DEF QueueActions, TypeOK, Id
  <2>2. Joined({seq + 1, seq + 2})
    BY <1>2, <1>t, QueueActionsStores DEF Joined
  <2>3. QED
    BY <2>1, <2>2 DEF Fates
<1>3. ASSUME NEW old \in 1 .. seq, NEW r \in Request, NEW x \in Explicit, ReplaceAction(old, r, x[1], x[2])
      PROVE  Fates
  <2>1. old \in Id /\ {old} \in SUBSET Id
    BY <1>3 DEF ReplaceAction, CanReplace, Queued
  <2>2. Joined({old})
    BY <1>3, <1>t, <2>1, ReplaceActionStores DEF Joined
  <2>3. QED
    BY <2>1, <2>2 DEF Fates
<1>4. ASSUME NEW i \in Id, DeleteAction(i) PROVE Fates
  BY <1>4 DEF DeleteAction, Remove, Left, Fates
<1>5. ASSUME NEW i \in Id, Cancel(i) PROVE Fates
  <2>1. i \in Queued /\ lock[i].owner = None /\ Left(CancelSet(i), "cancelled")
    BY <1>5, CancelSetFacts DEF Cancel, HasExecutor, Remove, Left
  <2>2. CancelledWithDependees(CancelSet(i))
    BY <1>b, <2>1, CancelSetFacts DEF CancelledWithDependees
  <2>3. QED
    BY <2>2 DEF Fates
<1>6. ASSUME NEW S, S \subseteq Queued, DeleteRows(S) PROVE Fates
  BY <1>6 DEF DeleteRows, Remove, Left, Fates
<1>7. ASSUME NEW e \in Executor, FinishExecuted(e) PROVE Fates
  <2>1. EndedBy(e, exec[e].action)
    BY <1>7, <1>o DEF FinishExecuted
  <2>2. Left({exec[e].action}, "executed")
    BY <1>7, GuardedIsQueued DEF FinishExecuted, Remove, Left
  <2>3. QED
    BY <2>1, <2>2 DEF Fates
<1>8. ASSUME NEW e \in Executor, FinishFailed(e) PROVE Fates
  <2> DEFINE i == exec[e].action
  <2>1. EndedBy(e, i)
    BY <1>8, <1>o DEF FinishFailed
  <2>2. i \in Queued
    BY <1>8, GuardedIsQueued DEF FinishFailed
  <2>3. Left(CancelSet(i), "cancelled")
    BY <1>8, <2>2, CancelSetFacts DEF FinishFailed, Remove, Left
  <2> HIDE DEF i
  <2>4. CancelledWithDependees(CancelSet(i))
    BY <1>b, <2>1, <2>2, <2>3, CancelSetFacts DEF CancelledWithDependees
  <2>5. QED
    BY <2>4 DEF Fates
<1>9. ASSUME NEW e \in Executor, FinishFailedPartly(e) PROVE Fates
  <2> DEFINE i == exec[e].action
  <2>1. i \in Queued
    BY <1>9, GuardedIsQueued DEF FinishFailedPartly
  <2>2. PICK S \in CancelledSoFar(i) : Left(S, "cancelled")
    BY <1>9, <2>1, CancelSetFacts DEF FinishFailedPartly, Remove, Left, CancelledSoFar
  <2> HIDE DEF i
  <2>3. CancelledWithDependees(S)
    BY <1>b, <2>1, <2>2 DEF CancelledSoFar, CancelledWithDependees
  <2>4. QED
    BY <2>3 DEF Fates
<1>10. ASSUME NEW e \in Executor,
              \/ Pop(e) \/ DecodeFailed(e) \/ KeepAlive(e) \/ GuardExpired(e) \/ FinishRequeued(e)
              \/ LeaveLocked(e) \/ Report(e) \/ Terminate(e)
       PROVE  Fates
  BY <1>10, <1>u DEF Pop, DecodeFailed, KeepAlive, GuardExpired, FinishRequeued, LeaveLocked,
                     Report, Terminate, tables
<1>11. CASE QueueActionsRolledBack \/ UNCHANGED vars
  BY <1>11, <1>u DEF QueueActionsRolledBack, vars, tables
<1>12. ASSUME NEW i \in Id, Expire(i) \/ Suspend(i) \/ BecomeDue(i) PROVE Fates
  <2>1. UNCHANGED <<life, required, optional>>
    BY <1>12 DEF Expire, Suspend, BecomeDue
  <2>2. QED
    BY <2>1, <1>u
<1>13. QED
  BY <1>1, <1>2, <1>3, <1>4, <1>5, <1>6, <1>7, <1>8, <1>9, <1>10, <1>11, <1>12
     DEF Next, Client, Run, Finish, Fault, Time, ReplaceOrQueueAction, DeleteAllInGroup,
         DeleteAllByType

\* Whoever cancels an action, and however far a cancellation after a failure
\* gets, what requires it goes in the same transaction.
THEOREM CancelReachesDependees == Spec => CancelTakesDependees
<1> DEFINE A == \A p \in required : life[p[2]] = "queued" /\ life'[p[2]] = "cancelled"
                                      => life'[p[1]] = "cancelled"
<1>1. TableInv /\ [Next]_vars => A
  <2> SUFFICES ASSUME TableInv, [Next]_vars, NEW p \in required,
                      life[p[2]] = "queued", life'[p[2]] = "cancelled"
               PROVE  life'[p[1]] = "cancelled"
    OBVIOUS
  <2>1. p[1] \in Id /\ p[2] \in Id
    BY DEF TableInv, TypeInv, TypeOK
  <2>2. Fates
    BY HowActionsLeave
  <2>3. PICK S : CancelledWithDependees(S)
    BY <2>1, <2>2 DEF Fates, Left, Joined, Stored
  <2>4. p[2] \in S
    BY <2>1, <2>3 DEF CancelledWithDependees, Left
  <2>5. QED
    BY <2>1, <2>3, <2>4 DEF CancelledWithDependees, Left
<1>2. QED
  BY <1>1, TableInvariant, PTL DEF Spec, CancelTakesDependees

\* An action that has an executor is executed or cancelled only by an executor
\* that holds its guard.
THEOREM OnlyItsExecutorEndsIt == Spec => LeavesByItsExecutor
<1> DEFINE A == \A i \in Id :
                  lock[i].owner # None /\ life'[i] # life[i] /\ life'[i] \in {"executed", "cancelled"} =>
                    \E e \in Executor : Holds(e) /\ exec[e].action = i /\ exec'[e].pc = "report"
<1>1. TableInv /\ [Next]_vars => A
  <2> SUFFICES ASSUME TableInv, [Next]_vars, NEW i \in Id,
                      lock[i].owner # None, life'[i] # life[i], life'[i] \in {"executed", "cancelled"}
               PROVE  \E e \in Executor : Holds(e) /\ exec[e].action = i /\ exec'[e].pc = "report"
    OBVIOUS
  <2>1. Fates
    BY HowActionsLeave
  <2>2. ASSUME NEW S, CancelledWithDependees(S) PROVE \E e \in Executor : EndedBy(e, i)
    BY <2>2 DEF CancelledWithDependees, Left
  <2>3. ASSUME NEW e \in Executor, EndedBy(e, exec[e].action), Left({exec[e].action}, "executed")
        PROVE  EndedBy(e, i)
    BY <2>3 DEF Left
  <2>4. \E e \in Executor : EndedBy(e, i)
    BY <2>1, <2>2, <2>3 DEF Fates, Left, Joined, Stored
  <2>5. QED
    BY <2>4 DEF EndedBy
<1>2. QED
  BY <1>1, TableInvariant, PTL DEF Spec, LeavesByItsExecutor

-----------------------------------------------------------------------------
(* What a guard is worth. *)

Working(e) == exec[e].pc \in {"undecoded", "remote"}

\* The permits of a row never fall behind those of its executors.
PermitsLead ==
  \A e \in Executor : Working(e) =>
    /\ exec[e].action <= seq
    /\ life[exec[e].action] = "queued" => exec[e].permit <= lock[exec[e].action].permit

\* Guards and lock rows agree, and a guarded action is not replaced.
GuardsMatch ==
  /\ \A e \in Executor : Holds(e) =>
       /\ lock[exec[e].action].owner = e
       /\ exec[e].payload = info[exec[e].action].payload
  /\ \A e \in Executor, i \in Id : lock[i].owner = e => Holds(e) /\ exec[e].action = i

GuardInv == TableInv /\ OneLockPerExecutor /\ (leaks = 0 => PermitsLead /\ GuardsMatch)

\* No row gets a new owner.
OwnersShrink ==
  \A i \in Id : lock'[i].owner \in Executor => lock'[i].owner = lock[i].owner

\* The lock row of e's action stays e's as long as it keeps its permit.
KeepsLock(e) ==
  LET i == exec[e].action
  IN  lock'[i].permit = lock[i].permit /\ lock[i].owner = e => lock'[i].owner = e

\* No guard is acquired: a row keeps its permit or goes with its action, an
\* executor keeps its guard with its lock row or lets go of both.
GuardsShrink ==
  /\ \A i \in Id : \/ lock'[i].permit = lock[i].permit
                   \/ lock'[i].permit = 0 /\ life'[i] # "queued"
  /\ \A i \in Id : lock'[i].owner \in Executor => info'[i].payload = info[i].payload
  /\ \A i \in Id : life'[i] = "queued" => life[i] = "queued" \/ i > seq
  /\ seq <= seq'
  /\ \A e \in Executor :
       \/ /\ exec'[e] = exec[e]
          /\ Working(e) => KeepsLock(e)
       \/ exec'[e].pc \in {"idle", "report"} /\ \A i \in Id : lock'[i].owner # e

LEMMA OneLockShrinks ==
  ASSUME OneLockPerExecutor, OwnersShrink PROVE OneLockPerExecutor'
  BY DEF OneLockPerExecutor, OwnersShrink

LEMMA GuardsShrinkKeeps ==
  ASSUME TableInv, TableInv', PermitsLead, GuardsMatch, OwnersShrink, GuardsShrink
  PROVE  PermitsLead' /\ GuardsMatch'
<1>1. ASSUME NEW e \in Executor, Working(e)'
      PROVE  /\ exec'[e] = exec[e] /\ Working(e) /\ exec[e].action \in Id /\ exec[e].permit > 0
             /\ exec[e].permit \in Nat /\ exec[e].action \in Nat
  <2>1. exec'[e] = exec[e] /\ Working(e)
    BY <1>1 DEF GuardsShrink, Working
  <2>2. exec[e].action \in Id /\ exec[e].permit > 0
    BY <2>1 DEF Working, TableInv, TypeInv
  <2>3. QED
    BY <2>1, <2>2, ConstantsAssumption DEF TableInv, TypeInv, TypeOK, Exec, Id
<1>2. ASSUME NEW e \in Executor, Working(e)', Holds(e)' PROVE Holds(e)
  <2> DEFINE i == exec[e].action
  <2>1. lock'[i].permit = exec[e].permit /\ exec[e].permit > 0
    BY <1>1, <1>2 DEF Holds
  <2>2. lock'[i].permit = lock[i].permit
    BY <1>1, <1>2, <2>1 DEF GuardsShrink
  <2>3. QED
    BY <1>1, <1>2, <2>1, <2>2 DEF Holds, Working
<1>3. PermitsLead'
  <2> SUFFICES ASSUME NEW e \in Executor, Working(e)'
               PROVE  /\ exec'[e].action <= seq'
                      /\ life'[exec'[e].action] = "queued" => exec'[e].permit <= lock'[exec'[e].action].permit
    BY DEF PermitsLead
  <2>1. seq \in Nat /\ seq' \in Nat
    BY ConstantsAssumption DEF TableInv, TypeInv, TypeOK
  <2>2. exec[e].action <= seq
    BY <1>1 DEF PermitsLead
  <2>3. exec'[e].action <= seq'
    BY <1>1, <2>1, <2>2 DEF GuardsShrink
  <2>4. ASSUME life'[exec[e].action] = "queued" PROVE exec[e].permit <= lock'[exec[e].action].permit
    <3>1. life[exec[e].action] = "queued"
      BY <1>1, <2>1, <2>2, <2>4 DEF GuardsShrink
    <3>2. lock'[exec[e].action].permit = lock[exec[e].action].permit
      BY <1>1, <2>4 DEF GuardsShrink
    <3>3. QED
      BY <1>1, <3>1, <3>2 DEF PermitsLead
  <2>5. QED
    BY <1>1, <2>3, <2>4
<1>4. ASSUME NEW e \in Executor, Holds(e)'
      PROVE  /\ lock'[exec'[e].action].owner = e
             /\ exec'[e].payload = info'[exec'[e].action].payload
  <2>1. Working(e)'
    BY <1>4 DEF Holds, Working
  <2>2. Holds(e) /\ exec'[e] = exec[e] /\ exec[e].action \in Id
    BY <1>1, <1>2, <1>4, <2>1
  <2>3. lock[exec[e].action].owner = e /\ exec[e].payload = info[exec[e].action].payload
    BY <2>2 DEF GuardsMatch
  <2>4. lock'[exec[e].action].permit = lock[exec[e].action].permit
    BY <1>4, <2>2 DEF Holds
  <2>5. lock'[exec[e].action].owner = e
    BY <1>1, <2>1, <2>3, <2>4 DEF GuardsShrink, Working, KeepsLock
  <2>6. QED
    BY <2>2, <2>3, <2>5 DEF GuardsShrink
<1>5. ASSUME NEW e \in Executor, NEW i \in Id, lock'[i].owner = e
      PROVE  Holds(e)' /\ exec'[e].action = i
  <2>1. lock[i].owner = e
    BY <1>5 DEF OwnersShrink
  <2>2. Holds(e) /\ exec[e].action = i
    BY <2>1 DEF GuardsMatch
  <2>3. exec'[e] = exec[e]
    BY <1>5 DEF GuardsShrink
  <2>4. lock'[i].permit = lock[i].permit
    <3>1. lock'[i].permit # 0
      BY <1>5, ConstantsAssumption DEF TableInv
    <3>2. QED
      BY <3>1 DEF GuardsShrink
  <2>5. QED
    BY <2>2, <2>3, <2>4 DEF Holds
<1>6. QED
  BY <1>3, <1>4, <1>5 DEF GuardsMatch

\* Putting the last two lemmas together.
LEMMA ShrinkKeeps ==
  ASSUME GuardInv, TableInv', OwnersShrink, UNCHANGED leaks,
         PermitsLead /\ GuardsMatch => GuardsShrink
  PROVE  GuardInv'
  BY OneLockShrinks, GuardsShrinkKeeps DEF GuardInv

\* Storing actions touches no action that is guarded.
LEMMA StoredGuards ==
  ASSUME GuardInv, TableInv', NEW I \in SUBSET Id, Stored(I)
  PROVE  GuardInv'
<1>1. OwnersShrink /\ UNCHANGED leaks
  BY DEF Stored, OwnersShrink
<1>2. GuardsShrink
  <2>1. \A i \in Id : lock'[i].owner \in Executor => info'[i].payload = info[i].payload
    BY ConstantsAssumption DEF Stored
  <2>2. \A i \in Id : life'[i] = "queued" => life[i] = "queued" \/ i > seq
    <3> SUFFICES ASSUME NEW i \in Id, life'[i] = "queued", life[i] # "queued" PROVE i > seq
      OBVIOUS
    <3>1. i \in I /\ ~(i <= seq)
      BY DEF Stored
    <3>2. QED
      BY <3>1, ConstantsAssumption DEF GuardInv, TableInv, TypeInv, TypeOK, Id
  <2>3. QED
    BY <2>1, <2>2 DEF Stored, GuardsShrink, KeepsLock
<1>3. QED
  BY <1>1, <1>2, ShrinkKeeps

\* Removing rows takes the guards of their executors with them.
LEMMA RemovedGuards ==
  ASSUME GuardInv, TableInv', NEW S, NEW fate \in {"executed", "cancelled", "deleted"},
         Remove(S, fate), lock' = LockWithout(S), UNCHANGED <<seq, leaks>>,
         \/ UNCHANGED exec
         \/ \E e \in Executor :
              /\ exec[e].action \in S
              /\ exec'[e].pc = "report"
              /\ \A f \in Executor \ {e} : exec'[f] = exec[f]
  PROVE  GuardInv'
<1>1. \A i \in Id : lock'[i] = IF i \in S THEN NoLock ELSE lock[i]
  BY DEF LockWithout
<1>2. OwnersShrink
  BY <1>1, ConstantsAssumption DEF OwnersShrink, NoLock
<1>3. ASSUME GuardsMatch, PermitsLead PROVE GuardsShrink
  <2>1. \A i \in Id : \/ lock'[i].permit = lock[i].permit
                      \/ lock'[i].permit = 0 /\ life'[i] # "queued"
    <3>1. \A i \in Id \cap S : lock'[i].permit = 0
      BY <1>1 DEF NoLock
    <3>2. \A i \in Id \cap S : life'[i] # "queued"
      BY DEF Remove
    <3>3. \A i \in Id \ S : lock'[i] = lock[i]
      BY <1>1
    <3>4. QED
      BY <3>1, <3>2, <3>3
  <2>2. \A i \in Id : lock'[i].owner \in Executor => info'[i].payload = info[i].payload
    BY <1>1, ConstantsAssumption DEF Remove, NoLock
  <2>3. \A i \in Id : life'[i] = "queued" => life[i] = "queued" \/ i > seq
    BY DEF Remove
  <2>4. seq <= seq'
    BY ConstantsAssumption DEF GuardInv, TableInv, TypeInv, TypeOK
  <2>5. ASSUME NEW e \in Executor, Working(e)
        PROVE  KeepsLock(e)
    <3>1. exec[e].action \in Id
      BY <2>5 DEF Working, GuardInv, TableInv, TypeInv
    <3>2. lock[exec[e].action].owner = e => lock[exec[e].action].permit # 0
      BY <3>1, ConstantsAssumption DEF GuardInv, TableInv
    <3>3. QED
      BY <1>1, <3>1, <3>2 DEF NoLock, KeepsLock
  <2>6. ASSUME NEW e \in Executor, exec[e].action \in S, exec'[e].pc = "report"
        PROVE  \A i \in Id : lock'[i].owner # e
    BY <1>1, <1>3, <2>6, ConstantsAssumption DEF GuardsMatch, NoLock
  <2>7. QED
    BY <2>1, <2>2, <2>3, <2>4, <2>5, <2>6 DEF GuardsShrink
<1>4. QED
  BY <1>2, <1>3, ShrinkKeeps

LEMMA NextGuard == GuardInv /\ [Next]_vars => GuardInv'
<1> SUFFICES ASSUME GuardInv, [Next]_vars PROVE GuardInv'
  OBVIOUS
<1>t. TableInv /\ TableInv' /\ TypeInv'
  BY NextTable DEF GuardInv, TableInv
<1>l. TypeOK /\ seq \in Nat /\ None \notin Executor /\ Gone \notin Executor
  BY <1>t, ConstantsAssumption DEF TableInv, TypeInv, TypeOK
<1>o. ASSUME NEW e \in Executor, NEW out, NEW c, Outcome(e, out, c)
      PROVE  exec'[e].pc = "report" /\ \A f \in Executor \ {e} : exec'[f] = exec[f]
  BY <1>o, <1>l DEF Outcome, TypeOK
<1>i. ASSUME NEW e \in Executor, exec' = [exec EXCEPT ![e] = Idle]
      PROVE  exec'[e].pc = "idle" /\ \A f \in Executor \ {e} : exec'[f] = exec[f]
  BY <1>i, <1>l DEF Idle, TypeOK
\* Executor e lets go of its guard of action i, if it still has it.
<1>r. ASSUME NEW e \in Executor, Working(e),
             lock' = [lock EXCEPT ![exec[e].action] = Released(exec[e].action, exec[e].permit)],
             exec'[e].pc \in {"idle", "report"}, \A f \in Executor \ {e} : exec'[f] = exec[f],
             UNCHANGED <<life, seq, leaks>>, \A i \in Id : info'[i].payload = info[i].payload
      PROVE  GuardInv'
  <2> DEFINE i == exec[e].action
  <2>1. i \in Id
    BY <1>r, <1>t DEF Working, TableInv, TypeInv
  <2>2. \A j \in Id : j # i => lock'[j] = lock[j]
    BY <1>r, <1>l DEF TypeOK
  <2>3. lock'[i] = Released(i, exec[e].permit)
    BY <1>r, <1>l, <2>1 DEF TypeOK
  <2>4. /\ lock'[i].permit = lock[i].permit
        /\ lock[i].permit # exec[e].permit => lock'[i] = lock[i]
        /\ lock[i].permit = exec[e].permit => lock'[i].owner = None
    BY <2>3 DEF Released
  <2> HIDE DEF i
  <2>5. OwnersShrink
    BY <1>l, <2>2, <2>4 DEF OwnersShrink
  <2>6. ASSUME PermitsLead, GuardsMatch PROVE GuardsShrink
    <3>1. \A j \in Id : lock'[j].permit = lock[j].permit
      BY <2>2, <2>4
    <3>2. \A j \in Id : lock'[j].owner # e
      <4> SUFFICES ASSUME NEW j \in Id, lock'[j].owner = e PROVE FALSE
        OBVIOUS
      <4>1. Holds(e) /\ j = i
        BY <2>5, <2>6 DEF OwnersShrink, GuardsMatch, i
      <4>2. QED
        BY <1>l, <2>4, <4>1 DEF Holds, i
    <3>3. ASSUME NEW f \in Executor \ {e}, Working(f) PROVE KeepsLock(f)
      <4>1. exec[f].action \in Id
        BY <1>t, <3>3 DEF Working, TableInv, TypeInv
      <4>2. CASE exec[f].action # i
        BY <2>2, <4>1, <4>2 DEF KeepsLock
      <4>3. CASE lock[i].permit # exec[e].permit
        BY <2>2, <2>4, <4>1, <4>3 DEF KeepsLock
      <4>4. CASE exec[f].action = i /\ lock[i].permit = exec[e].permit
        <5>1. Holds(e)
          BY <1>r, <4>4 DEF Holds, Working, i
        <5>2. lock[i].owner = e
          BY <2>6, <5>1 DEF GuardsMatch, i
        <5>3. QED
          BY <3>3, <4>4, <5>2 DEF KeepsLock
      <4>5. QED
        BY <4>2, <4>3, <4>4
    <3>4. QED
      BY <1>r, <1>l, <3>1, <3>2, <3>3 DEF GuardsShrink
  <2>7. QED
    BY <1>r, <1>t, <2>5, <2>6, ShrinkKeeps
\* The lock rows keep owner and permit, and no executor is involved.
<1>s. ASSUME \A i \in Id : lock'[i].owner = lock[i].owner /\ lock'[i].permit = lock[i].permit,
             UNCHANGED <<life, seq, leaks, exec>>, \A i \in Id : info'[i].payload = info[i].payload
      PROVE  GuardInv'
  <2>1. OwnersShrink
    BY <1>s DEF OwnersShrink
  <2>2. \A e \in Executor : Working(e) => KeepsLock(e)
    BY <1>s, <1>t DEF Working, KeepsLock, TableInv, TypeInv
  <2>3. GuardsShrink
    BY <1>s, <1>l, <2>2 DEF GuardsShrink
  <2>4. QED
    BY <1>s, <1>t, <2>1, <2>3, ShrinkKeeps
<1>1. ASSUME NEW r \in Request, NEW x \in Explicit, QueueAction(r, x[1], x[2]) PROVE GuardInv'
  <2>1. {seq + 1} \in SUBSET Id
    BY <1>1 DEF QueueAction
  <2>2. QED
    BY <1>1, <1>t, <2>1, QueueActionStores, StoredGuards
<1>2. ASSUME NEW r \in Request, NEW r2 \in Request, NEW last, QueueActions(r, r2, last) PROVE GuardInv'
  <2>1. {seq + 1, seq + 2} \in SUBSET Id
    BY <1>2, <1>l, ConstantsAssumption DEF QueueActions, TypeOK, Id
  <2>2. QED
    BY <1>2, <1>t, <2>1, QueueActionsStores, StoredGuards
<1>3. CASE QueueActionsRolledBack
  BY <1>3, <1>s DEF QueueActionsRolledBack, tables
<1>4. ASSUME NEW old \in 1 .. seq, NEW r \in Request, NEW x \in Explicit, ReplaceAction(old, r, x[1], x[2])
      PROVE  GuardInv'
  <2>1. {old} \in SUBSET Id
    BY <1>4 DEF ReplaceAction, CanReplace, Queued
  <2>2. QED
    BY <1>4, <1>t, <2>1, ReplaceActionStores, StoredGuards
<1>5. ASSUME NEW i \in Id, DeleteAction(i) PROVE GuardInv'
  BY <1>5, <1>t, RemovedGuards DEF DeleteAction
<1>6. ASSUME NEW i \in Id, Cancel(i) PROVE GuardInv'
  BY <1>6, <1>t, RemovedGuards DEF Cancel
<1>7. ASSUME NEW S, DeleteRows(S) PROVE GuardInv'
  BY <1>7, <1>t, RemovedGuards DEF DeleteRows
<1>8. ASSUME NEW e \in Executor, Pop(e) PROVE GuardInv'
  <2> DEFINE lk == ClearSlate(e)
  <2>1. UNCHANGED <<life, info, seq, leaks>> /\ exec[e].pc = "idle"
    BY <1>8 DEF Pop
  <2>2. lk \in [Id -> Lock]
    BY <1>l DEF ClearSlate, NoLock, Lock, TypeOK
  <2>3. \A j \in Id : lk[j].owner # e /\ (lk[j].owner # None => lk[j].owner = lock[j].owner)
    BY <1>l DEF ClearSlate, NoLock
  <2>4. ASSUME GuardsMatch PROVE \A j \in Id : lk[j] = lock[j]
    <3>1. \A j \in Id : lock[j].owner # e
      BY <2>1, <2>4 DEF GuardsMatch, Holds
    <3>2. QED
      BY <3>1 DEF ClearSlate
  <2> HIDE DEF lk
  <2>5. CASE lock' = lk /\ UNCHANGED exec
    <3>1. OwnersShrink
      BY <1>l, <2>3, <2>5 DEF OwnersShrink
    <3>2. ASSUME GuardsMatch PROVE GuardsShrink
      <4>1. \A j \in Id : lock'[j] = lock[j]
        BY <2>4, <2>5, <3>2
      <4>2. \A f \in Executor : Working(f) => KeepsLock(f)
        BY <1>t, <4>1 DEF Working, KeepsLock, TableInv, TypeInv
      <4>3. QED
        BY <1>l, <2>1, <2>5, <4>1, <4>2 DEF GuardsShrink
    <3>3. QED
      BY <1>t, <2>1, <3>1, <3>2, ShrinkKeeps
  <2>6. ASSUME NEW i \in First(Ready(GroupOf[e], lk)), NEW pc \in {"undecoded", "remote"},
               lock' = [lk EXCEPT ![i] = Acquired(lk[i], e)],
               exec' = [exec EXCEPT ![e] = Guarding(pc, i, Acquired(lk[i], e).permit, info[i].payload)]
        PROVE  GuardInv'
    <3>1. i \in Id /\ life[i] = "queued"
      BY DEF First, Ready, Queued
    <3>2. \A j \in Id : j # i => lock'[j] = lk[j]
      BY <2>2, <2>6
    <3>3. lock'[i] = Acquired(lk[i], e) /\ lock'[i].owner = e
      BY <2>2, <2>6, <3>1 DEF Acquired
    <3>4. lock'[i].permit = lk[i].permit + 1 /\ lk[i].permit \in Nat
      BY <2>2, <3>1, <3>3 DEF Acquired, Lock
    <3>5. OneLockPerExecutor'
      <4> SUFFICES ASSUME NEW j \in Id, NEW k \in Id, lock'[j].owner \in Executor,
                          lock'[j].owner = lock'[k].owner
                   PROVE  j = k
        BY DEF OneLockPerExecutor
      <4>1. CASE j = i \/ k = i
        BY <2>3, <3>2, <3>3, <4>1
      <4>2. CASE j # i /\ k # i
        <5>1. lock[j].owner = lock'[j].owner /\ lock[k].owner = lock'[k].owner
          BY <1>l, <2>3, <3>2, <4>2
        <5>2. QED
          BY <5>1 DEF GuardInv, OneLockPerExecutor
      <4>3. QED
        BY <4>1, <4>2
    <3>6. ASSUME PermitsLead, GuardsMatch PROVE PermitsLead' /\ GuardsMatch'
      <4>1. \A j \in Id : lk[j] = lock[j]
        BY <2>4, <3>6
      <4>2. /\ exec'[e].action = i /\ exec'[e].permit = lock'[i].permit
            /\ exec'[e].payload = info[i].payload
        BY <1>l, <2>6, <3>3 DEF Guarding, TypeOK
      <4>3. \A f \in Executor \ {e} : exec'[f] = exec[f]
        BY <1>l, <2>6 DEF TypeOK
      <4>4. \A f \in Executor : Working(f) =>
               exec[f].action \in Id /\ exec[f].action \in Nat /\ exec[f].permit \in Nat
        BY <1>l, <1>t, ConstantsAssumption DEF Working, TableInv, TypeInv, TypeOK, Exec, Id
      <4>5. PermitsLead'
        <5> SUFFICES ASSUME NEW f \in Executor, Working(f)'
                     PROVE  /\ exec'[f].action <= seq
                            /\ life[exec'[f].action] = "queued"
                                 => exec'[f].permit <= lock'[exec'[f].action].permit
          BY <2>1 DEF PermitsLead
        <5>1. CASE f = e
          <6>1. ~(i > seq)
            BY <1>t, <3>1 DEF TableInv
          <6>2. i \in Nat /\ lock'[i].permit \in Nat
            BY <3>1, <3>4, ConstantsAssumption DEF Id
          <6>3. QED
            BY <1>l, <4>2, <5>1, <6>1, <6>2
        <5>2. CASE f # e
          <6>1. Working(f) /\ exec'[f] = exec[f]
            BY <4>3, <5>2 DEF Working
          <6>2. /\ exec[f].action <= seq
                /\ life[exec[f].action] = "queued" => exec[f].permit <= lock[exec[f].action].permit
            BY <3>6, <6>1 DEF PermitsLead
          <6>3. exec[f].action = i => exec[f].permit <= lock'[i].permit
            BY <3>1, <3>4, <4>1, <4>4, <6>1, <6>2
          <6>4. exec[f].action # i => lock'[exec[f].action] = lock[exec[f].action]
            BY <3>2, <4>1, <4>4, <6>1
          <6>5. QED
            BY <6>1, <6>2, <6>3, <6>4
        <5>3. QED
          BY <5>1, <5>2
      <4>6. ASSUME NEW f \in Executor, Holds(f)'
            PROVE  /\ lock'[exec'[f].action].owner = f
                   /\ exec'[f].payload = info'[exec'[f].action].payload
        <5>1. CASE f = e
          BY <2>1, <3>3, <4>2, <5>1
        <5>2. CASE f # e
          <6>1. Working(f) /\ exec'[f] = exec[f] /\ lock'[exec[f].action].permit = exec[f].permit
            BY <4>3, <4>6, <5>2 DEF Holds, Working
          <6>2. exec[f].action # i
            <7> SUFFICES ASSUME exec[f].action = i PROVE FALSE
              OBVIOUS
            <7>1. exec[f].permit <= lock[i].permit
              BY <3>1, <3>6, <6>1 DEF PermitsLead
            <7>2. QED
              BY <3>1, <3>4, <4>1, <4>4, <6>1, <7>1
          <6>3. lock'[exec[f].action] = lock[exec[f].action]
            BY <3>2, <4>1, <4>4, <6>1, <6>2
          <6>4. Holds(f)
            BY <6>1, <6>3 DEF Holds, Working
          <6>5. QED
            BY <2>1, <3>6, <6>1, <6>3, <6>4 DEF GuardsMatch
        <5>3. QED
          BY <5>1, <5>2
      <4>7. ASSUME NEW f \in Executor, NEW j \in Id, lock'[j].owner = f
            PROVE  Holds(f)' /\ exec'[f].action = j
        <5>1. CASE j = i
          <6>1. f = e
            BY <3>3, <4>7, <5>1
          <6>2. exec'[e].pc \in {"undecoded", "remote"}
            <7>1. pc \in {"undecoded", "remote"}
              OBVIOUS
            <7>2. QED
              BY <1>l, <2>6, <7>1 DEF Guarding, TypeOK
          <6>3. QED
            BY <4>2, <5>1, <6>1, <6>2 DEF Holds
        <5>2. CASE j # i
          <6>1. lock'[j] = lock[j] /\ f # e
            BY <2>3, <3>2, <4>1, <4>7, <5>2
          <6>2. Holds(f) /\ exec[f].action = j
            BY <3>6, <4>7, <6>1 DEF GuardsMatch
          <6>3. QED
            BY <4>3, <6>1, <6>2 DEF Holds
        <5>3. QED
          BY <5>1, <5>2
      <4>8. QED
        BY <4>5, <4>6, <4>7 DEF GuardsMatch
    <3>7. QED
      BY <1>t, <2>1, <3>5, <3>6 DEF GuardInv
  <2>7. QED
    BY <1>8, <2>5, <2>6 DEF Pop, lk
<1>9. ASSUME NEW e \in Executor, DecodeFailed(e) PROVE GuardInv'
  <2>1. Working(e) /\ exec' = [exec EXCEPT ![e] = Idle]
    BY <1>9 DEF DecodeFailed, Working
  <2>2. QED
    BY <1>9, <1>i, <1>r, <2>1 DEF DecodeFailed
<1>10. ASSUME NEW e \in Executor, KeepAlive(e) PROVE GuardInv'
  <2>1. \A i \in Id : lock'[i].owner = lock[i].owner /\ lock'[i].permit = lock[i].permit
    BY <1>10, <1>l DEF KeepAlive, WithFresh, TypeOK
  <2>2. QED
    BY <1>10, <1>s, <2>1 DEF KeepAlive
\* Executor e stops working, and no lock row was its own.
<1>f. ASSUME NEW e \in Executor, GuardsMatch => ~Holds(e), exec'[e].pc \in {"idle", "report"},
             \A f \in Executor \ {e} : exec'[f] = exec[f], UNCHANGED <<life, info, lock, seq, leaks>>
      PROVE  GuardInv'
  <2>1. OwnersShrink
    BY <1>f DEF OwnersShrink
  <2>2. ASSUME GuardsMatch PROVE GuardsShrink
    <3>1. \A i \in Id : lock'[i].owner # e
      BY <1>f, <2>2 DEF GuardsMatch
    <3>2. \A f \in Executor : KeepsLock(f)
      BY <1>f DEF KeepsLock
    <3>3. QED
      BY <1>f, <1>l, <3>1, <3>2 DEF GuardsShrink
  <2>3. QED
    BY <1>f, <1>t, <2>1, <2>2, ShrinkKeeps
<1>11. ASSUME NEW e \in Executor, GuardExpired(e) PROVE GuardInv'
  <2>1. ~Holds(e) /\ Outcome(e, "requeued", {}) /\ UNCHANGED <<life, info, lock, seq, leaks>>
    BY <1>11 DEF GuardExpired, Holds, Valid, tables
  <2>2. QED
    BY <1>f, <1>o, <2>1
<1>12. ASSUME NEW e \in Executor, FinishExecuted(e) PROVE GuardInv'
  <2>1. exec[e].action \in {exec[e].action} /\ Outcome(e, "executed", {})
    BY <1>12 DEF FinishExecuted
  <2>2. Remove({exec[e].action}, "executed") /\ lock' = LockWithout({exec[e].action}) /\ UNCHANGED <<seq, leaks>>
    BY <1>12 DEF FinishExecuted
  <2>3. QED
    BY <1>t, <1>o, <2>1, <2>2, RemovedGuards
<1>13. ASSUME NEW e \in Executor, FinishRequeued(e) PROVE GuardInv'
  <2>1. Working(e) /\ Outcome(e, "requeued", {})
    BY <1>13 DEF FinishRequeued, Working
  <2>2. \A i \in Id : info'[i].payload = info[i].payload
    BY <1>13, <1>l DEF FinishRequeued, Retried, WithTime, TypeOK
  <2>3. QED
    BY <1>13, <1>o, <1>r, <2>1, <2>2 DEF FinishRequeued
<1>14. ASSUME NEW e \in Executor, FinishFailed(e) PROVE GuardInv'
  <2> DEFINE S == CancelSet(exec[e].action)
  <2>1. exec[e].action \in S
    BY <1>14, <1>t, GuardedIsQueued, CancelSetFacts DEF FinishFailed
  <2>2. /\ Remove(S, "cancelled") /\ lock' = LockWithout(S) /\ UNCHANGED <<seq, leaks>>
        /\ Outcome(e, "error", S \ {exec[e].action})
    BY <1>14 DEF FinishFailed
  <2> HIDE DEF S
  <2>3. QED
    BY <1>t, <1>o, <2>1, <2>2, RemovedGuards
<1>15. ASSUME NEW e \in Executor, FinishFailedPartly(e) PROVE GuardInv'
  <2> DEFINE i == exec[e].action
  <2>1. i \in Id /\ Holds(e)
    BY <1>15, <1>t DEF FinishFailedPartly, Holds, Valid, TableInv, TypeInv
  <2>2. PICK S \in CancelledSoFar(i) :
          Remove(S, "cancelled") /\ lock' = [LockWithout(S) EXCEPT ![i] = Released(i, exec[e].permit)]
    BY <1>15 DEF FinishFailedPartly
  <2>3. Outcome(e, "error", {}) /\ UNCHANGED <<seq, leaks>>
    BY <1>15 DEF FinishFailedPartly
  <2>4. lock[i].permit = exec[e].permit
    BY <2>1 DEF Holds
  <2> HIDE DEF i
  <2>5. /\ i \notin S /\ lock'[i].permit = lock[i].permit /\ lock'[i].owner = None
        /\ \A j \in Id : j # i => lock'[j] = IF j \in S THEN NoLock ELSE lock[j]
    BY <2>1, <2>2, <2>4 DEF CancelledSoFar, LockWithout, Released
  <2>6. OwnersShrink
    BY <1>l, <2>5 DEF OwnersShrink, NoLock
  <2>7. ASSUME GuardsMatch PROVE GuardsShrink
    <3>1. \A j \in Id : \/ lock'[j].permit = lock[j].permit
                        \/ lock'[j].permit = 0 /\ life'[j] # "queued"
      <4>1. \A j \in Id \cap S : lock'[j].permit = 0
        BY <2>5 DEF NoLock
      <4>2. \A j \in Id \cap S : life'[j] # "queued"
        BY <2>2 DEF Remove
      <4>3. \A j \in Id \ S : lock'[j].permit = lock[j].permit
        BY <2>5
      <4>4. QED
        BY <4>1, <4>2, <4>3
    <3>2. \A j \in Id : lock'[j].owner \in Executor => info'[j].payload = info[j].payload
      BY <1>l, <2>2, <2>5 DEF Remove, NoLock
    <3>3. \A j \in Id : life'[j] = "queued" => life[j] = "queued"
      BY <2>2 DEF Remove
    <3>4. \A j \in Id : lock'[j].owner # e
      BY <1>l, <2>5, <2>7 DEF GuardsMatch, NoLock, i
    <3>5. ASSUME NEW f \in Executor \ {e}, Working(f) PROVE KeepsLock(f)
      <4>1. exec[f].action \in Id
        BY <1>t, <3>5 DEF Working, TableInv, TypeInv
      <4>2. lock[i].owner = e
        BY <2>1, <2>7 DEF GuardsMatch, i
      <4>3. lock[exec[f].action].owner = f => lock[exec[f].action].permit # 0
        BY <1>l, <1>t, <4>1 DEF TableInv
      <4>4. QED
        BY <2>5, <4>1, <4>2, <4>3 DEF KeepsLock, NoLock
    <3>6. exec'[e].pc = "report" /\ \A f \in Executor \ {e} : exec'[f] = exec[f]
      BY <1>o, <2>3
    <3>7. QED
      BY <1>l, <2>3, <3>1, <3>2, <3>3, <3>4, <3>5, <3>6 DEF GuardsShrink
  <2>8. QED
    BY <1>t, <2>3, <2>6, <2>7, ShrinkKeeps
<1>16. ASSUME NEW e \in Executor, LeaveLocked(e) PROVE GuardInv'
  <2>1. UNCHANGED lock /\ leaks' # 0
    BY <1>16, <1>l DEF LeaveLocked, tables, TypeOK
  <2>2. QED
    BY <1>t, <2>1 DEF GuardInv, OneLockPerExecutor
<1>17. ASSUME NEW e \in Executor, Report(e) PROVE GuardInv'
  <2>1. ~Holds(e) /\ exec' = [exec EXCEPT ![e] = Idle] /\ UNCHANGED <<life, info, lock, seq, leaks>>
    BY <1>17 DEF Report, Holds, tables
  <2>2. QED
    BY <1>f, <1>i, <2>1
<1>18. ASSUME NEW e \in Executor, Terminate(e) PROVE GuardInv'
  <2>1. UNCHANGED <<life, info, seq, leaks>> /\ exec' = [exec EXCEPT ![e] = Idle]
    BY <1>18 DEF Terminate
  <2>2. \A i \in Id : /\ lock'[i].permit = lock[i].permit
                      /\ lock[i].owner = e => lock'[i].owner = Gone
                      /\ lock[i].owner # e => lock'[i] = lock[i]
    BY <1>18 DEF Terminate
  <2>3. OwnersShrink
    BY <1>l, <2>2 DEF OwnersShrink
  <2>4. GuardsShrink
    <3>1. \A i \in Id : lock'[i].owner # e
      BY <1>l, <2>2
    <3>2. \A f \in Executor \ {e} : Working(f) => KeepsLock(f)
      BY <1>t, <2>2 DEF Working, KeepsLock, TableInv, TypeInv
    <3>3. exec'[e].pc = "idle" /\ \A f \in Executor \ {e} : exec'[f] = exec[f]
      BY <1>i, <2>1
    <3>4. \A i \in Id : lock'[i].permit = lock[i].permit
      BY <2>2
    <3>5. QED
      BY <1>l, <2>1, <3>1, <3>2, <3>3, <3>4 DEF GuardsShrink
  <2>5. QED
    BY <1>t, <2>1, <2>3, <2>4, ShrinkKeeps
<1>19. ASSUME NEW i \in Id, Expire(i) \/ Suspend(i) PROVE GuardInv'
  <2>1. lock' = [lock EXCEPT ![i] = WithFresh(lock[i], FALSE)]
    BY <1>19 DEF Expire, Suspend
  <2>2. \A j \in Id : lock'[j].owner = lock[j].owner /\ lock'[j].permit = lock[j].permit
    BY <1>l, <2>1 DEF WithFresh, TypeOK
  <2>3. UNCHANGED <<life, info, seq, leaks, exec>>
    BY <1>19 DEF Expire, Suspend
  <2>4. QED
    BY <1>s, <2>2, <2>3
<1>20. ASSUME NEW i \in Id, BecomeDue(i) PROVE GuardInv'
  <2>1. \A j \in Id : info'[j].payload = info[j].payload
    BY <1>20, <1>l DEF BecomeDue, WithTime, TypeOK
  <2>2. QED
    BY <1>20, <1>s, <2>1 DEF BecomeDue
<1>21. CASE UNCHANGED vars
  BY <1>21, <1>s DEF vars
<1>22. QED
  BY <1>1, <1>2, <1>3, <1>4, <1>5, <1>6, <1>7, <1>8, <1>9, <1>10, <1>11, <1>12, <1>13, <1>14,
     <1>15, <1>16, <1>17, <1>18, <1>19, <1>20, <1>21
     DEF Next, Client, Run, Finish, Fault, Time, ReplaceOrQueueAction, DeleteAllInGroup,
         DeleteAllByType

LEMMA GuardInvariant == Spec => []GuardInv
<1>1. Init => GuardInv
  <2> SUFFICES ASSUME Init PROVE GuardInv
    OBVIOUS
  <2>1. \A i \in Id : lock[i] = NoLock /\ lock[i].owner \notin Executor
    BY ConstantsAssumption DEF Init, NoLock
  <2>2. \A e \in Executor : exec[e].pc = "idle"
    BY DEF Init, Idle
  <2>3. PermitsLead /\ GuardsMatch /\ OneLockPerExecutor
    BY <2>1, <2>2 DEF PermitsLead, GuardsMatch, OneLockPerExecutor, Working, Holds
  <2>4. TableInv
    BY InitTable
  <2>5. QED
    BY <2>3, <2>4 DEF GuardInv
<1>2. QED
  BY <1>1, NextGuard, PTL DEF Spec

\* The UNIQUE executor column of the lock table is never violated, even by an
\* executor that left guards behind.
THEOREM OneLockEach == Spec => []OneLockPerExecutor
<1>1. GuardInv => OneLockPerExecutor
  BY DEF GuardInv
<1>2. QED
  BY <1>1, GuardInvariant, PTL

\* As long as no live executor has left a guard behind, a guard that validates
\* is the guard of the recorded owner: expiry, takeover, replacement and
\* termination never let two executors commit work on one action.
THEOREM GuardsAreExclusive == Spec => []GuardExclusive
<1>1. GuardInv => GuardExclusive
  BY DEF GuardInv, GuardsMatch, GuardExclusive
<1>2. QED
  BY <1>1, GuardInvariant, PTL

\* As long as no guard was left behind, what leaves the queue as executed waited
\* for nothing, and it was the stored version of it that was executed.
THEOREM ExecutesTheCurrentVersion == Spec => ExecutedIsCurrent
<1> DEFINE A == \A i \in Id : leaks = 0 /\ life[i] = "queued" /\ life'[i] = "executed" =>
                  /\ \A p \in Edges : p[1] # i
                  /\ \E e \in Executor : Holds(e) /\ exec[e].action = i /\ exec[e].payload = info[i].payload
<1>1. GuardInv /\ [Next]_vars => A
  <2> SUFFICES ASSUME GuardInv, [Next]_vars, NEW i \in Id,
                      leaks = 0, life[i] = "queued", life'[i] = "executed"
               PROVE  /\ \A p \in Edges : p[1] # i
                      /\ \E e \in Executor : Holds(e) /\ exec[e].action = i /\ exec[e].payload = info[i].payload
    OBVIOUS
  <2>1. Fates
    BY HowActionsLeave DEF GuardInv
  <2>2. PICK e \in Executor : EndedBy(e, exec[e].action) /\ Left({exec[e].action}, "executed")
    BY <2>1 DEF Fates, Left, CancelledWithDependees, Joined, Stored
  <2>3. Holds(e) /\ exec[e].action = i
    BY <2>2 DEF EndedBy, Left
  <2>4. lock[i].owner = e /\ exec[e].payload = info[i].payload
    BY <2>3 DEF GuardInv, GuardsMatch
  <2>5. \A p \in Edges : p[1] # i
    BY <2>4, ConstantsAssumption DEF GuardInv, TableInv, RunningIsUnblocked
  <2>6. QED
    BY <2>3, <2>4, <2>5
<1>2. QED
  BY <1>1, GuardInvariant, PTL DEF Spec, ExecutedIsCurrent

-----------------------------------------------------------------------------
(* The abstract life cycle. *)

LEMMA StepsRefine ==
  ASSUME GuardInv, leaks = 0, GuardInv', [Next]_vars
  PROVE  [Lifecycle!Next]_(Lifecycle!vars)
<1>l. TypeOK /\ TypeOK' /\ TableInv /\ TableInv'
  BY DEF GuardInv, TableInv, TypeInv
<1>w. Lifecycle!Waiting = Queued /\ Lifecycle!Waiting' = Queued' /\ Lifecycle!Id = Id
  BY DEF Lifecycle!Waiting, Lifecycle!Id, Queued, Id
<1>e. Fates
  BY <1>l, HowActionsLeave
<1>v. Left({}, "cancelled") => UNCHANGED Lifecycle!vars
  BY <1>l DEF Left, Lifecycle!vars, TypeOK
<1>r. ASSUME NEW S, NEW fate, Left(S, fate), S # {} PROVE Lifecycle!Leave(S, fate)
  BY <1>r, <1>w DEF Left, Lifecycle!Leave, Lifecycle!Without
<1>1. CASE UNCHANGED <<life, required, optional>>
  BY <1>1 DEF Lifecycle!vars
<1>2. ASSUME NEW I \in SUBSET Id, I # {}, Joined(I) PROVE Lifecycle!Next
  <2>1. Lifecycle!Rewire(I)
    <3>1. Edges' \subseteq Queued' \X Queued' /\ NoCycle(Edges')
      BY <1>2 DEF Joined, Stored
    <3>2. \A p : p[1] \notin I => (p \in required <=> p \in required') /\ (p \in optional <=> p \in optional')
      BY <1>2 DEF Joined, Stored
    <3>3. Lifecycle!WellFounded(Edges')
      BY <1>w, <3>1 DEF Lifecycle!WellFounded, NoCycle
    <3>4. required' \subseteq Queued' \X Queued' /\ optional' \subseteq Queued' \X Queued'
      BY <3>1 DEF Edges
    <3>5. QED
      BY <1>w, <3>2, <3>3, <3>4 DEF Lifecycle!Rewire, Edges
  <2>2. CASE \A i \in I : life[i] = "none"
    <3>1. life' = [i \in Id |-> IF i \in I THEN "queued" ELSE life[i]]
      BY <1>2, <1>l DEF Joined, Stored, TypeOK
    <3>2. I \in SUBSET {a \in Id : life[a] = "none"}
      BY <2>2
    <3>3. Lifecycle!Submit
      BY <1>2, <1>w, <2>1, <3>1, <3>2 DEF Lifecycle!Submit
    <3>4. QED
      BY <3>3 DEF Lifecycle!Next
  <2>3. CASE UNCHANGED life /\ \E i \in Id : I = {i}
    <3>1. PICK i \in Id : I = {i}
      BY <2>3
    <3>2. i \in Queued
      BY <1>2, <2>3, <3>1 DEF Joined, Stored, Queued
    <3>3. Lifecycle!Revise
      BY <1>w, <2>1, <2>3, <3>1, <3>2 DEF Lifecycle!Revise
    <3>4. QED
      BY <3>3 DEF Lifecycle!Next
  <2>4. QED
    BY <1>2, <2>2, <2>3 DEF Joined
<1>3. ASSUME NEW S, Left(S, "deleted") PROVE Lifecycle!Next \/ UNCHANGED Lifecycle!vars
  <2>1. CASE S = {}
    BY <1>3, <1>l, <2>1 DEF Left, Lifecycle!vars, TypeOK
  <2>2. CASE S # {}
    <3>1. S \in SUBSET Queued /\ Lifecycle!Leave(S, "deleted")
      BY <1>3, <1>r, <2>2 DEF Left
    <3>2. QED
      BY <1>w, <3>1 DEF Lifecycle!Drop, Lifecycle!Next
  <2>3. QED
    BY <2>1, <2>2
<1>4. ASSUME NEW S, CancelledWithDependees(S) PROVE Lifecycle!Next \/ UNCHANGED Lifecycle!vars
  <2>1. CASE S = {}
    BY <1>4, <1>v, <2>1 DEF CancelledWithDependees
  <2>2. CASE S # {}
    <3>1. S \in SUBSET Queued /\ Lifecycle!Leave(S, "cancelled") /\ \A p \in required : p[2] \in S => p[1] \in S
      BY <1>4, <1>r, <2>2 DEF CancelledWithDependees, Left
    <3>2. QED
      BY <1>w, <3>1 DEF Lifecycle!TakeBack, Lifecycle!Next
  <2>3. QED
    BY <2>1, <2>2
<1>5. ASSUME NEW e \in Executor, EndedBy(e, exec[e].action), Left({exec[e].action}, "executed")
      PROVE  Lifecycle!Next
  <2> DEFINE i == exec[e].action
  <2>1. i \in Queued /\ i \in Id
    BY <1>5 DEF Left, Queued
  <2>2. lock[i].owner = e
    BY <1>5 DEF EndedBy, GuardInv, GuardsMatch
  <2>3. \A p \in required \cup optional : p[1] # i
    BY <1>l, <2>1, <2>2, ConstantsAssumption DEF TableInv, RunningIsUnblocked, Edges
  <2>4. Lifecycle!Leave({i}, "executed")
    BY <1>5, <1>r
  <2> HIDE DEF i
  <2>5. Lifecycle!Execute
    BY <1>w, <2>1, <2>3, <2>4 DEF Lifecycle!Execute
  <2>6. QED
    BY <2>5 DEF Lifecycle!Next
<1>6. QED
  BY <1>e, <1>1, <1>2, <1>3, <1>4, <1>5 DEF Fates

\* In every behaviour in which no live executor leaves a guard behind, each step
\* of the queue, of its executors and of their failures is a step of the
\* abstract life cycle: an action is executed or taken back once, after all it
\* waits for, and together with what requires it.
THEOREM QueueRefinesLifecycle == Spec /\ [](leaks = 0) => ImplementsLifecycle
<1>1. Init => Lifecycle!Init
  BY DEF Init, Lifecycle!Init, Lifecycle!Id, Id
<1>2. GuardInv /\ leaks = 0 /\ GuardInv' /\ [Next]_vars => [Lifecycle!Next]_(Lifecycle!vars)
  BY StepsRefine
<1>3. QED
  BY <1>1, <1>2, GuardInvariant, PTL DEF Spec, ImplementsLifecycle, Lifecycle!Spec
=============================================================================
