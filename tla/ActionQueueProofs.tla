------------------------- MODULE ActionQueueProofs -------------------------
(***************************************************************************)
(* Types of the action queue for every number of actions and executors,    *)
(* and that the outcome of every action is broadcast.                      *)
(***************************************************************************)
EXTENDS ActionQueue, TLAPS

-----------------------------------------------------------------------------
(* Type correctness. *)

\* Deleting rows keeps the tables well typed.
LEMMA RemoveType ==
  ASSUME TypeOK, NEW S, NEW fate \in {"executed", "cancelled", "deleted"}, Remove(S, fate)
  PROVE  /\ life' \in [Id -> {"none", "queued", "executed", "cancelled", "deleted"}]
         /\ info' \in [Id -> Info]
         /\ required' \subseteq Id \X Id
         /\ optional' \subseteq Id \X Id
         /\ keys' \in [Id -> SUBSET Key]
  BY DEF TypeOK, Remove, NoInfo, Info

\* So does dropping their lock rows.
LEMMA LockWithoutType ==
  ASSUME TypeOK, NEW S
  PROVE  LockWithout(S) \in [Id -> Lock]
  BY DEF TypeOK, LockWithout, NoLock, Lock

LEMMA ReleasedType ==
  ASSUME TypeOK, NEW i \in Id, NEW p
  PROVE  Released(i, p) \in Lock
  BY DEF TypeOK, Released, Lock

\* Storing dependencies yields pairs of ids.
LEMMA UpsertsType ==
  ASSUME NEW i \in Id, NEW r, NEW exReq, NEW exOpt, NEW q, q \subseteq Id, NEW kt,
         NEW req, req \subseteq Id \X Id, NEW opt, opt \subseteq Id \X Id,
         NEW d \in Upserts(i, r, exReq, exOpt, q, kt, req, opt)
  PROVE  d.req \subseteq Id \X Id /\ d.opt \subseteq Id \X Id
  BY DEF Upserts, KeyHolders

LEMMA StoredInfoType ==
  ASSUME NEW r \in Request, NEW p \in Nat
  PROVE  StoredInfo(r, p) \in Info /\ RecordedKeys(r) \subseteq Key
  BY ConstantsAssumption DEF StoredInfo, Info, RecordedKeys, RequestRecord

LEMMA InitType == Init => TypeOK
  BY ConstantsAssumption DEF Init, TypeOK, Id, NoInfo, NoLock, Idle, Info, Lock, Exec

\* The inductive form: an executor that is not idle works on some action.
TypeInv ==
  /\ TypeOK
  /\ \A e \in Executor : exec[e].pc # "idle" => exec[e].action \in Id

LEMMA NextType == TypeInv /\ [Next]_vars => TypeInv'
<1> SUFFICES ASSUME TypeInv, [Next]_vars PROVE TypeInv'
  OBVIOUS
<1> USE DEF TypeInv
<1>q. Queued \subseteq Id
  BY DEF Queued
<1>s. \A S, m : m \in Message /\ Say(S, m) => said' \in [Id -> SUBSET Message]
  BY DEF Say, TypeOK
<1>1. ASSUME NEW r \in Request, NEW x \in Explicit, QueueAction(r, x[1], x[2])
      PROVE  TypeInv'
  <2>1. required' \subseteq Id \X Id /\ optional' \subseteq Id \X Id
    BY <1>1, <1>q, UpsertsType DEF QueueAction, TypeOK
  <2>2. said' \in [Id -> SUBSET Message]
    BY <1>1, <1>s DEF QueueAction, Message
  <2>3. QED
    BY <1>1, <2>1, <2>2, StoredInfoType, ConstantsAssumption DEF QueueAction, TypeOK, Id
<1>2. ASSUME NEW r \in Request, NEW r2 \in Request, NEW last, QueueActions(r, r2, last)
      PROVE  TypeInv'
  <2>1. seq + 1 \in Id /\ seq + 2 \in Id
    BY <1>2, ConstantsAssumption DEF QueueActions, TypeOK, Id
  <2>2. required' \subseteq Id \X Id /\ optional' \subseteq Id \X Id
    <3>1. PICK d \in Upserts(seq + 1, r, last, {}, Queued, keys, required, optional) :
            \E d2 \in Upserts(seq + 2, r2, {seq + 1}, {}, Queued \cup {seq + 1},
                              [keys EXCEPT ![seq + 1] = RecordedKeys(r)], d.req, d.opt) :
              required' = d2.req /\ optional' = d2.opt
      BY <1>2 DEF QueueActions
    <3>2. d.req \subseteq Id \X Id /\ d.opt \subseteq Id \X Id
      BY <2>1, <1>q, UpsertsType DEF TypeOK
    <3>3. PICK d2 \in Upserts(seq + 2, r2, {seq + 1}, {}, Queued \cup {seq + 1},
                              [keys EXCEPT ![seq + 1] = RecordedKeys(r)], d.req, d.opt) :
              required' = d2.req /\ optional' = d2.opt
      BY <3>1
    <3>4. Queued \cup {seq + 1} \subseteq Id
      BY <2>1, <1>q
    <3>5. QED
      BY <2>1, <3>2, <3>3, <3>4, UpsertsType
  <2>3. said' \in [Id -> SUBSET Message]
    BY <1>2, <1>s DEF QueueActions, Message
  <2>4. life' \in [Id -> {"none", "queued", "executed", "cancelled", "deleted"}]
    BY <1>2, <2>1 DEF QueueActions, TypeOK
  <2>5. info' \in [Id -> Info]
    BY <1>2, <2>1, StoredInfoType DEF QueueActions, TypeOK
  <2>6. keys' \in [Id -> SUBSET Key]
    BY <1>2, <2>1, StoredInfoType DEF QueueActions, TypeOK
  <2>7. seq' \in 0 .. MaxId
    BY <1>2, <2>1, ConstantsAssumption DEF QueueActions, Id
  <2>8. UNCHANGED <<lock, exec, disruptions, leaks>>
    BY <1>2 DEF QueueActions
  <2>9. QED
    BY <2>2, <2>3, <2>4, <2>5, <2>6, <2>7, <2>8 DEF TypeOK
<1>3. CASE QueueActionsRolledBack
  BY <1>3, <1>s DEF QueueActionsRolledBack, TypeOK, Message, tables
<1>4. ASSUME NEW old \in 1 .. seq, NEW r \in Request, NEW x \in Explicit, ReplaceAction(old, r, x[1], x[2])
      PROVE  TypeInv'
  <2>1. old \in Id
    BY <1>4 DEF ReplaceAction, CanReplace, Queued
  <2>2. required' \subseteq Id \X Id /\ optional' \subseteq Id \X Id
    BY <1>4, <2>1, <1>q, UpsertsType DEF ReplaceAction, TypeOK
  <2>3. info[old].payload + 1 \in Nat
    BY <2>1 DEF TypeOK, Info
  <2>4. QED
    BY <1>4, <2>1, <2>2, <2>3, StoredInfoType DEF ReplaceAction, TypeOK
<1>5. ASSUME NEW i \in Id, DeleteAction(i) PROVE TypeInv'
  <2>1. said' \in [Id -> SUBSET Message]
    BY <1>5, <1>s DEF DeleteAction, Message
  <2>2. QED
    BY <1>5, <2>1, RemoveType, LockWithoutType DEF DeleteAction, TypeOK
<1>6. ASSUME NEW i \in Id, Cancel(i) PROVE TypeInv'
  <2>1. said' \in [Id -> SUBSET Message]
    BY <1>6, <1>s DEF Cancel, Message
  <2>2. QED
    BY <1>6, <2>1, RemoveType, LockWithoutType DEF Cancel, TypeOK
<1>7. ASSUME NEW S, DeleteRows(S) PROVE TypeInv'
  BY <1>7, RemoveType, LockWithoutType DEF DeleteRows, TypeOK
<1>8. ASSUME NEW e \in Executor, Pop(e) PROVE TypeInv'
  <2>1. ClearSlate(e) \in [Id -> Lock]
    BY DEF ClearSlate, NoLock, Lock, TypeOK
  <2>2. CASE lock' = ClearSlate(e) /\ UNCHANGED exec
    BY <1>8, <2>1, <2>2 DEF Pop, TypeOK
  <2>3. CASE \E i \in First(Ready(GroupOf[e], ClearSlate(e))) :
               /\ lock' = [ClearSlate(e) EXCEPT ![i] =
                     Acquired(ClearSlate(e)[i], e)]
               /\ exec' = [exec EXCEPT ![e] =
                     Guarding(IF info[i].type \in Factory[e] THEN "remote" ELSE "undecoded",
                              i, Acquired(ClearSlate(e)[i], e).permit, info[i].payload)]
    <3>1. PICK i \in Id :
               /\ lock' = [ClearSlate(e) EXCEPT ![i] =
                     Acquired(ClearSlate(e)[i], e)]
               /\ exec' = [exec EXCEPT ![e] =
                     Guarding(IF info[i].type \in Factory[e] THEN "remote" ELSE "undecoded",
                              i, Acquired(ClearSlate(e)[i], e).permit, info[i].payload)]
      BY <2>3 DEF First, Ready, Queued
    <3>2. Acquired(ClearSlate(e)[i], e) \in Lock /\ info[i].payload \in Nat
      BY <2>1 DEF Acquired, Lock, TypeOK, Info
    <3>3. lock' \in [Id -> Lock]
      BY <2>1, <3>1, <3>2 DEF Lock
    <3>4. exec' \in [Executor -> Exec]
      BY <3>1, <3>2 DEF Guarding, Exec, Lock, TypeOK
    <3>5. \A f \in Executor : exec'[f].pc # "idle" => exec'[f].action \in Id
      BY <3>1 DEF Guarding, TypeOK
    <3>6. QED
      BY <1>8, <3>3, <3>4, <3>5 DEF Pop, TypeOK
  <2>4. QED
    BY <1>8, <2>2, <2>3 DEF Pop
<1>o. ASSUME NEW e \in Executor, NEW out \in {"executed", "requeued", "error"}, NEW c \in SUBSET Id,
             exec[e].pc = "remote", Outcome(e, out, c)
      PROVE  /\ exec' \in [Executor -> Exec]
             /\ \A f \in Executor : exec'[f].pc # "idle" => exec'[f].action \in Id
  BY <1>o DEF Outcome, Exec, TypeOK
<1>i. ASSUME NEW e \in Executor, exec' = [exec EXCEPT ![e] = Idle]
      PROVE  /\ exec' \in [Executor -> Exec]
             /\ \A f \in Executor : exec'[f].pc # "idle" => exec'[f].action \in Id
  BY <1>i DEF Idle, Exec, TypeOK
<1>9. ASSUME NEW e \in Executor, DecodeFailed(e) PROVE TypeInv'
  BY <1>9, <1>i, ReleasedType DEF DecodeFailed, TypeOK
<1>10. ASSUME NEW e \in Executor, KeepAlive(e) PROVE TypeInv'
  BY <1>10 DEF KeepAlive, WithFresh, TypeOK, Lock
<1>11. ASSUME NEW e \in Executor, GuardExpired(e) PROVE TypeInv'
  BY <1>11, <1>o DEF GuardExpired, TypeOK, tables
<1>12. ASSUME NEW e \in Executor, FinishExecuted(e) PROVE TypeInv'
  BY <1>12, <1>o, RemoveType, LockWithoutType DEF FinishExecuted, TypeOK
<1>13. ASSUME NEW e \in Executor, FinishRequeued(e) PROVE TypeInv'
  BY <1>13, <1>o, ReleasedType DEF FinishRequeued, Retried, WithTime, TypeOK, Info
<1>14. ASSUME NEW e \in Executor, FinishFailed(e) PROVE TypeInv'
  <2>1. CancelSet(exec[e].action) \ {exec[e].action} \in SUBSET Id
    BY DEF CancelSet, Closure
  <2>2. QED
    BY <1>14, <2>1, <1>o, RemoveType, LockWithoutType DEF FinishFailed, TypeOK
<1>15. ASSUME NEW e \in Executor, FinishFailedPartly(e) PROVE TypeInv'
  BY <1>15, <1>o, RemoveType, LockWithoutType, ReleasedType DEF FinishFailedPartly, TypeOK
<1>16. ASSUME NEW e \in Executor, LeaveLocked(e) PROVE TypeInv'
  BY <1>16, <1>o, <1>i DEF LeaveLocked, TypeOK, tables
<1>17. ASSUME NEW e \in Executor, Report(e) PROVE TypeInv'
  BY <1>17, <1>i DEF Report, TypeOK, tables, Message
<1>18. ASSUME NEW e \in Executor, Terminate(e) PROVE TypeInv'
  <2>1. lock' \in [Id -> Lock]
    BY <1>18 DEF Terminate, TypeOK, Lock
  <2>2. disruptions' \in Nat
    BY <1>18 DEF Terminate, TypeOK
  <2>3. exec' = [exec EXCEPT ![e] = Idle]
    BY <1>18 DEF Terminate
  <2>4. UNCHANGED <<life, info, required, optional, keys, seq, said, leaks>>
    BY <1>18 DEF Terminate
  <2>5. QED
    BY <2>1, <2>2, <2>3, <2>4, <1>i DEF TypeOK
<1>19. ASSUME NEW i \in Id, Expire(i) \/ Suspend(i) PROVE TypeInv'
  <2>1. WithFresh(lock[i], FALSE) \in Lock
    BY DEF WithFresh, TypeOK, Lock
  <2>2. lock' = [lock EXCEPT ![i] = WithFresh(lock[i], FALSE)]
    BY <1>19 DEF Expire, Suspend
  <2>3. disruptions' = disruptions \/ disruptions' = disruptions + 1
    BY <1>19 DEF Expire, Suspend
  <2>4. UNCHANGED <<life, info, required, optional, keys, seq, exec, said, leaks>>
    BY <1>19 DEF Expire, Suspend
  <2>5. lock' \in [Id -> Lock]
    BY <2>1, <2>2 DEF TypeOK
  <2>6. disruptions' \in Nat
    BY <2>3 DEF TypeOK
  <2>7. QED
    BY <2>4, <2>5, <2>6 DEF TypeOK
<1>20. ASSUME NEW i \in Id, BecomeDue(i) PROVE TypeInv'
  BY <1>20 DEF BecomeDue, WithTime, TypeOK, Info
<1>21. CASE UNCHANGED vars
  BY <1>21 DEF vars, TypeOK
<1>22. QED
  BY <1>1, <1>2, <1>3, <1>4, <1>5, <1>6, <1>7, <1>8, <1>9, <1>10, <1>11, <1>12, <1>13, <1>14,
     <1>15, <1>16, <1>17, <1>18, <1>19, <1>20, <1>21
     DEF Next, Client, Run, Finish, Fault, Time, ReplaceOrQueueAction, DeleteAllInGroup,
         DeleteAllByType

LEMMA TypeInvariant == Spec => []TypeInv
<1>1. Init => TypeInv
  BY InitType DEF Init, TypeInv, Idle
<1>2. QED
  BY <1>1, NextType, PTL DEF Spec

\* The tables and the executors' memory are always well typed.
THEOREM TypeCorrect == Spec => []TypeOK
<1>1. TypeInv => TypeOK
  BY DEF TypeInv
<1>2. QED
  BY <1>1, TypeInvariant, PTL

-----------------------------------------------------------------------------
(* Whoever awaits an action is told. *)

\* Executor e is about to broadcast that i was executed, or that it was
\* cancelled: because it failed, or because it required one that failed.
ReportsSuccess(e, i) == exec[e].pc = "report" /\ exec[e].action = i /\ exec[e].out # "error"
ReportsEnd(e, i) ==
  /\ exec[e].pc = "report"
  /\ \/ exec[e].action = i /\ exec[e].out = "error"
     \/ i \in exec[e].cancelled

SuccessKnown(i) == "success" \in said[i] \/ \E e \in Executor : ReportsSuccess(e, i)
EndKnown(i) == said[i] \cap {"cancelled", "error"} # {} \/ \E e \in Executor : ReportsEnd(e, i)

\* Between the transaction in which an action leaves and the broadcast of it,
\* the outcome is with the executor that made the transaction.
TellInv ==
  disruptions = 0 /\ leaks = 0 =>
     \A i \in Id : /\ life[i] = "executed" => SuccessKnown(i)
                   /\ life[i] = "cancelled" => EndKnown(i)

\* What is known stays known when broadcasts are kept and no executor in the
\* middle of a report changes.
KeepsReports ==
  /\ \A i \in Id : said[i] \subseteq said'[i]
  /\ \A e \in Executor : exec[e].pc = "report" => exec'[e] = exec[e]

LEMMA KnownStays ==
  ASSUME KeepsReports, NEW i \in Id
  PROVE  (SuccessKnown(i) => SuccessKnown(i)') /\ (EndKnown(i) => EndKnown(i)')
BY DEF KeepsReports, SuccessKnown, EndKnown, ReportsSuccess, ReportsEnd

\* A step that lets nothing leave as executed or cancelled.
LEMMA NothingToTell ==
  ASSUME TellInv, KeepsReports, disruptions' = 0 /\ leaks' = 0 => disruptions = 0 /\ leaks = 0,
         \A i \in Id : life'[i] \in {"executed", "cancelled"} => life'[i] = life[i]
  PROVE  TellInv'
BY KnownStays DEF TellInv

\* An executor that works on an action ends its work.
LEMMA OutcomeKeeps ==
  ASSUME TypeInv, NEW e \in Executor, exec[e].pc # "report", UNCHANGED said,
         NEW out, NEW S, Outcome(e, out, S)
  PROVE  /\ KeepsReports
         /\ exec'[e].pc = "report" /\ exec'[e].action = exec[e].action
         /\ exec'[e].out = out /\ exec'[e].cancelled = S
BY DEF Outcome, TypeInv, TypeOK, KeepsReports

LEMMA NextTell == TypeInv /\ TellInv /\ [Next]_vars => TellInv'
<1> SUFFICES ASSUME TypeInv, TellInv, [Next]_vars, disruptions' = 0, leaks' = 0
             PROVE  TellInv'
  BY DEF TellInv
<1> USE DEF tables
<1>t. /\ life \in [Id -> {"none", "queued", "executed", "cancelled", "deleted"}]
      /\ exec \in [Executor -> Exec] /\ said \in [Id -> SUBSET Message]
      /\ disruptions \in Nat /\ leaks \in Nat
  BY DEF TypeInv, TypeOK
<1>s. \A S, m : Say(S, m) => \A i \in Id : said[i] \subseteq said'[i]
  BY DEF Say
<1>r. ASSUME NEW S, Remove(S, "deleted")
      PROVE  \A i \in Id : life'[i] \in {"executed", "cancelled"} => life'[i] = life[i]
  BY <1>r DEF Remove
<1>l. ASSUME UNCHANGED <<life, said, exec, disruptions, leaks>>
      PROVE  TellInv'
  BY <1>l, NothingToTell DEF KeepsReports
<1>1. ASSUME NEW r \in Request, NEW x \in Explicit, QueueAction(r, x[1], x[2])
      PROVE  TellInv'
  BY <1>1, <1>t, <1>s, NothingToTell DEF QueueAction, KeepsReports
<1>2. ASSUME NEW r \in Request, NEW r2 \in Request, NEW last, QueueActions(r, r2, last)
      PROVE  TellInv'
  BY <1>2, <1>t, <1>s, NothingToTell DEF QueueActions, KeepsReports
<1>3. CASE QueueActionsRolledBack
  BY <1>3, <1>t, <1>s, NothingToTell DEF QueueActionsRolledBack, KeepsReports
<1>4. ASSUME NEW old, NEW r, NEW exReq, NEW exOpt, ReplaceAction(old, r, exReq, exOpt)
      PROVE  TellInv'
  BY <1>4, <1>l DEF ReplaceAction
<1>5. ASSUME NEW i \in Id, DeleteAction(i)
      PROVE  TellInv'
  BY <1>5, <1>r, <1>s, NothingToTell DEF DeleteAction, KeepsReports
<1>6. ASSUME NEW S, DeleteRows(S)
      PROVE  TellInv'
  BY <1>6, <1>r, NothingToTell DEF DeleteRows, KeepsReports
<1>7. ASSUME NEW i \in Id, Cancel(i)
      PROVE  TellInv'
  <2>1. KeepsReports /\ disruptions = 0 /\ leaks = 0
    BY <1>7, <1>s DEF Cancel, KeepsReports
  <2>2. ASSUME NEW j \in Id
        PROVE  /\ life'[j] = "executed" => SuccessKnown(j)'
               /\ life'[j] = "cancelled" => EndKnown(j)'
    <3>1. CASE j \in CancelSet(i)
      BY <3>1, <1>7 DEF Cancel, Remove, Say, EndKnown
    <3>2. CASE j \notin CancelSet(i)
      <4>1. life'[j] = life[j]
        BY <3>2, <1>7 DEF Cancel, Remove
      <4>2. QED
        BY <4>1, <2>1, KnownStays DEF TellInv
    <3>3. QED
      BY <3>1, <3>2
  <2>3. QED
    BY <2>2 DEF TellInv
<1>8. ASSUME NEW e \in Executor, Pop(e) \/ DecodeFailed(e) \/ KeepAlive(e)
      PROVE  TellInv'
  <2>1. KeepsReports
    BY <1>8, <1>t DEF Pop, DecodeFailed, KeepAlive, KeepsReports
  <2>2. UNCHANGED <<life, disruptions, leaks>>
    BY <1>8 DEF Pop, DecodeFailed, KeepAlive
  <2>3. QED
    BY <2>1, <2>2, NothingToTell
<1>9. ASSUME NEW e \in Executor, GuardExpired(e) \/ FinishRequeued(e)
      PROVE  TellInv'
  <2>1. Outcome(e, "requeued", {}) /\ exec[e].pc # "report" /\ UNCHANGED <<life, said, disruptions, leaks>>
    BY <1>9 DEF GuardExpired, FinishRequeued
  <2>2. QED
    BY <2>1, OutcomeKeeps, NothingToTell
<1>10. ASSUME NEW e \in Executor, FinishExecuted(e)
       PROVE  TellInv'
  <2>1. /\ Outcome(e, "executed", {}) /\ exec[e].pc # "report" /\ UNCHANGED <<said, disruptions, leaks>>
        /\ Remove({exec[e].action}, "executed")
    BY <1>10 DEF FinishExecuted
  <2>2. KeepsReports /\ ReportsSuccess(e, exec[e].action)'
    BY <2>1, OutcomeKeeps DEF ReportsSuccess
  <2>3. ASSUME NEW j \in Id
        PROVE  /\ life'[j] = "executed" => SuccessKnown(j)'
               /\ life'[j] = "cancelled" => EndKnown(j)'
    <3>1. CASE j = exec[e].action
      <4>1. SuccessKnown(j)'
        BY <3>1, <2>1, OutcomeKeeps DEF ReportsSuccess, SuccessKnown
      <4>2. QED
        BY <3>1, <4>1, <2>1 DEF Remove
    <3>2. CASE j # exec[e].action
      <4>1. life'[j] = life[j]
        BY <3>2, <2>1 DEF Remove
      <4>2. QED
        BY <4>1, <2>1, <2>2, KnownStays DEF TellInv
    <3>3. QED
      BY <3>1, <3>2
  <2>4. QED
    BY <2>3 DEF TellInv
<1>11. ASSUME NEW e \in Executor, FinishFailed(e)
       PROVE  TellInv'
  <2> DEFINE i == exec[e].action
  <2>1. /\ Outcome(e, "error", CancelSet(i) \ {i}) /\ exec[e].pc # "report"
        /\ UNCHANGED <<said, disruptions, leaks>>
        /\ Remove(CancelSet(i), "cancelled")
    BY <1>11 DEF FinishFailed
  <2>2. /\ KeepsReports
        /\ exec'[e].pc = "report" /\ exec'[e].action = i /\ exec'[e].out = "error"
        /\ exec'[e].cancelled = CancelSet(i) \ {i}
    BY <2>1, OutcomeKeeps
  <2> HIDE DEF i
  <2>3. ASSUME NEW j \in Id
        PROVE  /\ life'[j] = "executed" => SuccessKnown(j)'
               /\ life'[j] = "cancelled" => EndKnown(j)'
    <3>1. CASE j \in CancelSet(i)
      <4>1. ReportsEnd(e, j)'
        BY <3>1, <2>2 DEF ReportsEnd
      <4>2. EndKnown(j)' /\ life'[j] = "cancelled"
        BY <3>1, <4>1, <2>1 DEF EndKnown, Remove
      <4>3. QED
        BY <4>2
    <3>2. CASE j \notin CancelSet(i)
      <4>1. life'[j] = life[j]
        BY <3>2, <2>1 DEF Remove
      <4>2. QED
        BY <4>1, <2>1, <2>2, KnownStays DEF TellInv
    <3>3. QED
      BY <3>1, <3>2
  <2>4. QED
    BY <2>3 DEF TellInv
<1>12. ASSUME NEW e \in Executor, Fault(e)
       PROVE  FALSE
  BY <1>12, <1>t DEF Fault, FinishFailedPartly, LeaveLocked, Terminate
<1>13. ASSUME NEW e \in Executor, Report(e)
       PROVE  TellInv'
  <2>1. exec[e].pc = "report" /\ UNCHANGED <<life, disruptions, leaks>> /\ exec' = [exec EXCEPT ![e] = Idle]
    BY <1>13 DEF Report
  <2>2. \A f \in Executor : f # e => exec'[f] = exec[f]
    BY <2>1, <1>t
  <2>3. \A j \in Id : said[j] \subseteq said'[j]
    BY <1>13 DEF Report
  <2>4. ASSUME NEW j \in Id, ReportsSuccess(e, j)
        PROVE  "success" \in said'[j]
    BY <2>4, <1>13 DEF Report, ReportsSuccess
  <2>5. ASSUME NEW j \in Id, ReportsEnd(e, j)
        PROVE  said'[j] \cap {"cancelled", "error"} # {}
    BY <2>5, <1>13 DEF Report, ReportsEnd
  <2>6. ASSUME NEW j \in Id
        PROVE  (SuccessKnown(j) => SuccessKnown(j)') /\ (EndKnown(j) => EndKnown(j)')
    <3>1. ASSUME NEW f \in Executor, f # e
          PROVE  (ReportsSuccess(f, j) => ReportsSuccess(f, j)') /\ (ReportsEnd(f, j) => ReportsEnd(f, j)')
      BY <3>1, <2>2 DEF ReportsSuccess, ReportsEnd
    <3>2. SuccessKnown(j) => SuccessKnown(j)'
      BY <3>1, <2>3, <2>4 DEF SuccessKnown
    <3>3. EndKnown(j) => EndKnown(j)'
      BY <3>1, <2>3, <2>5 DEF EndKnown
    <3>4. QED
      BY <3>2, <3>3
  <2>7. QED
    BY <2>1, <2>6 DEF TellInv
<1>14. ASSUME NEW i \in Id, Expire(i) \/ Suspend(i) \/ BecomeDue(i)
       PROVE  TellInv'
  <2>1. UNCHANGED <<life, said, exec, leaks>> /\ (disruptions' = disruptions \/ disruptions' = disruptions + 1)
    BY <1>14 DEF Expire, Suspend, BecomeDue
  <2>2. disruptions' = disruptions
    BY <2>1, <1>t
  <2>3. QED
    BY <2>1, <2>2, <1>l
<1>15. CASE UNCHANGED vars
  BY <1>15, <1>l DEF vars
<1>16. QED
  BY <1>1, <1>2, <1>3, <1>4, <1>5, <1>6, <1>7, <1>8, <1>9, <1>10, <1>11, <1>12, <1>13, <1>14, <1>15
     DEF Next, Client, Run, Finish, Time, ReplaceOrQueueAction, DeleteAllInGroup, DeleteAllByType

\* Unless something was disrupted or a guard was left behind, the observers of an
\* action that was executed or cancelled have been told so as soon as no
\* executor is about to report (execute_impl and cancel broadcast every outcome,
\* those of the dependees that fall with a failed action included).
THEOREM OutcomesAreBroadcast == Spec => []AwaiterIsTold
<1>1. Init => TellInv
  BY DEF Init, TellInv
<1>2. TellInv => AwaiterIsTold
  BY DEF TellInv, AwaiterIsTold, SuccessKnown, EndKnown, ReportsSuccess, ReportsEnd
<1>3. QED
  BY <1>1, <1>2, NextTell, TypeInvariant, PTL DEF Spec
=============================================================================
