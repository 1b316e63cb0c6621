------------------------- MODULE AutoExecutorProofs -------------------------
(***************************************************************************)
(* The executor pool and the broadcast channel, for any number of          *)
(* executors and actions, any dependencies and any capacity.               *)
(***************************************************************************)
EXTENDS AutoExecutor, FiniteSetTheorems, SequenceTheorems, TLAPS

ExecType ==
    [pc : Pc, action : Action \cup {NoAction}, then : Pc, messages : Seq(Message)]

AwaiterType ==
    [pc : {"none", "waiting", "lagged", "answered"}, action : Action \cup {NoAction},
     inbox : Seq(Message)]

PoolOK == policy \in Policies /\ paused \in BOOLEAN /\ online \in BOOLEAN /\ failures \in 0..MaxFailures

\* An open transaction is about a new action, and only finitely many actions
\* are ever in the queue.
QueueOK ==
    /\ writer \in Action \cup {NoAction} /\ writer \notin stored \cup gone
    /\ stored \subseteq Action /\ gone \subseteq Action /\ stored \cap gone = {}
    /\ IsFiniteSet(stored)
    /\ waitsFor \in [Action -> SUBSET Action]

\* What runs is an action, and after a report no executor is at one.
ExecOK ==
    /\ exec \in [Executor -> ExecType]
    /\ \A e \in Executor : exec[e].then # "run" /\ (exec[e].pc = "run" => exec[e].action \in Action)

AwaiterOK == awaiter \in AwaiterType /\ Len(awaiter.inbox) <= Capacity

PoolInv == PoolOK /\ QueueOK /\ ExecOK /\ AwaiterOK

-----------------------------------------------------------------------------
(* Sequences. *)

LEMMA MaxOfZero ==
  ASSUME NEW n \in Int
  PROVE  Max({0, n}) \in Nat /\ (n <= 0 => Max({0, n}) = 0) /\ (n > 0 => Max({0, n}) = n)
BY DEF Max

\* A finite set is listed completely.
LEMMA SetToSeqFacts ==
  ASSUME NEW S, IsFiniteSet(S)
  PROVE  /\ SetToSeq(S) \in Seq(S)
         /\ \A x \in S : \E k \in DOMAIN SetToSeq(S) : SetToSeq(S)[k] = x
<1> DEFINE n == Cardinality(S)
<1>1. n \in Nat /\ ExistsBijection(1 .. n, S)
  BY FS_CardinalityType
<1>2. PICK f \in [1 .. n -> S] : IsInjective(f)
  BY <1>1 DEF ExistsBijection, Bijection, Injection
<1>3. SetToSeq(S) \in [1 .. n -> S] /\ IsInjective(SetToSeq(S))
  BY <1>2 DEF SetToSeq
<1>4. SetToSeq(S) \in Injection(1 .. n, S)
  BY <1>3 DEF Injection
<1>5. Cardinality(1 .. n) = n
  <2> HIDE DEF n
  <2>1. QED
    BY <1>1, FS_Interval
<1>6. SetToSeq(S) \in Surjection(1 .. n, S)
  BY <1>4, <1>5, FS_Injection
<1>7. \A x \in S : \E k \in 1 .. n : SetToSeq(S)[k] = x
  BY <1>6 DEF Surjection
<1> HIDE DEF n
<1>8. SetToSeq(S) \in Seq(S)
  BY <1>1, <1>3
<1>9. DOMAIN SetToSeq(S) = 1 .. n
  BY <1>3
<1>10. QED
  BY <1>7, <1>8, <1>9

\* A concatenation has the elements of both parts.
LEMMA ConcatFacts ==
  ASSUME NEW X, NEW s \in Seq(X), NEW t \in Seq(X)
  PROVE  /\ s \o t \in Seq(X)
         /\ \A k \in DOMAIN s : k \in DOMAIN (s \o t) /\ (s \o t)[k] = s[k]
         /\ \A k \in DOMAIN t : Len(s) + k \in DOMAIN (s \o t) /\ (s \o t)[Len(s) + k] = t[k]
<1>1. /\ s \o t \in Seq(X) /\ Len(s \o t) = Len(s) + Len(t)
      /\ \A k \in 1 .. Len(s) + Len(t) :
           (s \o t)[k] = IF k <= Len(s) THEN s[k] ELSE t[k - Len(s)]
  BY ConcatProperties
<1>2. Len(s) \in Nat /\ Len(t) \in Nat /\ DOMAIN s = 1 .. Len(s) /\ DOMAIN t = 1 .. Len(t)
  OBVIOUS
<1>3. DOMAIN (s \o t) = 1 .. Len(s) + Len(t)
  BY <1>1
<1>4. ASSUME NEW k \in DOMAIN s
      PROVE  k \in DOMAIN (s \o t) /\ (s \o t)[k] = s[k]
  <2>1. k \in 1 .. Len(s) + Len(t) /\ k <= Len(s)
    BY <1>2, <1>4
  <2>2. QED
    BY <2>1, <1>1, <1>3
<1>5. ASSUME NEW k \in DOMAIN t
      PROVE  Len(s) + k \in DOMAIN (s \o t) /\ (s \o t)[Len(s) + k] = t[k]
  <2>1. Len(s) + k \in 1 .. Len(s) + Len(t) /\ ~(Len(s) + k <= Len(s)) /\ Len(s) + k - Len(s) = k
    BY <1>2, <1>5
  <2>2. QED
    BY <2>1, <1>1, <1>3
<1>6. QED
  BY <1>1, <1>4, <1>5

\* What Failed reports: the fallen actions and then the failed one.
Reports(a, fallen) == SetToSeq({<<"cancelled", b>> : b \in fallen}) \o <<<<"error", a>>>>

LEMMA FallenMessages ==
  ASSUME NEW a \in Action, NEW F \in SUBSET Action, IsFiniteSet(F)
  PROVE  /\ Reports(a, F) \in Seq(Message)
         /\ \A b \in F : \E k \in DOMAIN Reports(a, F) : Reports(a, F)[k] = <<"cancelled", b>>
         /\ \E k \in DOMAIN Reports(a, F) : Reports(a, F)[k] = <<"error", a>>
<1> DEFINE ms == Reports(a, F)
           M == {<<"cancelled", b>> : b \in F}
           g == [b \in F |-> <<"cancelled", b>>]
<1>1. IsFiniteSet(M)
  <2>1. g \in Surjection(F, M)
    BY DEF Surjection
  <2>2. QED
    BY <2>1, FS_Surjection
<1>2. M \subseteq Message
  BY DEF Message, Outcome
<1> DEFINE s == SetToSeq(M)
           t == <<<<"error", a>>>>
<1>3. s \in Seq(M) /\ \A x \in M : \E k \in DOMAIN s : s[k] = x
  BY <1>1, SetToSeqFacts
<1>4. s \in Seq(Message)
  BY <1>2, <1>3
<1>5. t \in Seq(Message) /\ 1 \in DOMAIN t /\ t[1] = <<"error", a>>
  <2>1. <<"error", a>> \in Message
    BY DEF Message, Outcome
  <2>2. QED
    BY <2>1
<1>6. ms = s \o t
  BY DEF Reports
<1> HIDE DEF s, M, t, ms
<1>7. /\ ms \in Seq(Message)
      /\ \A k \in DOMAIN s : k \in DOMAIN ms /\ ms[k] = s[k]
      /\ \A k \in DOMAIN t : Len(s) + k \in DOMAIN ms /\ ms[Len(s) + k] = t[k]
  <2>1. /\ s \o t \in Seq(Message)
        /\ \A k \in DOMAIN s : k \in DOMAIN (s \o t) /\ (s \o t)[k] = s[k]
        /\ \A k \in DOMAIN t : Len(s) + k \in DOMAIN (s \o t) /\ (s \o t)[Len(s) + k] = t[k]
    <3>1. s \in Seq(Message) /\ t \in Seq(Message)
      BY <1>4, <1>5
    <3>2. QED
      BY ONLY <3>1, ConcatFacts
  <2>2. QED
    BY ONLY <1>6, <2>1
<1>8. \A b \in F : \E k \in DOMAIN ms : ms[k] = <<"cancelled", b>>
  <2>1. SUFFICES ASSUME NEW b \in F PROVE \E k \in DOMAIN ms : ms[k] = <<"cancelled", b>>
    OBVIOUS
  <2>2. <<"cancelled", b>> \in M
    BY DEF M
  <2>3. PICK k \in DOMAIN s : s[k] = <<"cancelled", b>>
    BY <1>3, <2>2
  <2>4. k \in DOMAIN ms /\ ms[k] = <<"cancelled", b>>
    BY <1>7, <2>3
  <2>5. QED
    BY <2>4
<1>9. \E k \in DOMAIN ms : ms[k] = <<"error", a>>
  BY <1>5, <1>7
<1>10. QED
  BY <1>7, <1>8, <1>9 DEF ms

-----------------------------------------------------------------------------
(* The channel. *)

\* Sending respects the capacity, and takes nothing from a receiver that does
\* not fall behind.
LEMMA SendFacts ==
  ASSUME awaiter \in AwaiterType, Len(awaiter.inbox) <= Capacity,
         NEW messages \in Seq(Message), Send(messages)
  PROVE  /\ awaiter' \in AwaiterType /\ Len(awaiter'.inbox) <= Capacity
         /\ awaiter'.action = awaiter.action
         /\ awaiter.pc = "waiting" /\ awaiter'.pc = "waiting" =>
              awaiter'.inbox = awaiter.inbox \o messages
<1> DEFINE all == awaiter.inbox \o messages
           n == Len(all) - Capacity
           lost == Max({0, n})
<1>1. all \in Seq(Message) /\ Len(all) \in Nat /\ n \in Int /\ Capacity \in Nat
  BY ConstantsAssumption DEF AwaiterType
<1>2. lost \in Nat /\ (n <= 0 => lost = 0) /\ (n > 0 => lost = n)
  <2> HIDE DEF n
  <2>1. QED
    BY <1>1, MaxOfZero
<1>3. lost <= Len(all)
  BY <1>1, <1>2
<1>4. CASE ~Waiting
  <2>1. awaiter' = awaiter
    BY <1>4 DEF Send
  <2>2. QED
    BY <1>4, <2>1 DEF Waiting
<1>5. CASE Waiting
  <2> DEFINE rest == SubSeq(all, lost + 1, Len(all))
  <2>1. awaiter' = [awaiter EXCEPT !.inbox = rest, !.pc = IF lost > 0 THEN "lagged" ELSE @]
    BY <1>5 DEF Send
  <2> HIDE DEF n, all, lost
  <2>2. rest \in Seq(Message) /\ Len(rest) = Len(all) - lost
    BY <1>1, <1>2, <1>3
  <2>3. lost = 0 => rest = all
    BY <1>1
  <2>4. Len(rest) <= Capacity
    BY <1>1, <1>2, <2>2 DEF n
  <2> HIDE DEF rest
  <2>5. awaiter' \in AwaiterType /\ awaiter'.inbox = rest /\ awaiter'.action = awaiter.action
    BY <2>1, <2>2 DEF AwaiterType
  <2>6. awaiter'.pc = "waiting" => lost = 0
    BY <2>1, <1>2 DEF AwaiterType
  <2>7. QED
    BY <2>3, <2>4, <2>5, <2>6 DEF all
<1>6. QED
  BY <1>4, <1>5

-----------------------------------------------------------------------------
(* Every step keeps the types. *)

LEMMA InitPool ==
  Init => PoolInv
<1> SUFFICES ASSUME Init PROVE PoolInv
  OBVIOUS
<1>1. PoolOK
  <2>1. 0 \in 0..MaxFailures
    BY ConstantsAssumption
  <2>2. QED
    BY <2>1 DEF Init, PoolOK
<1>2. QueueOK
  BY FS_EmptySet, ConstantsAssumption DEF Init, QueueOK
<1>3. ExecOK
  BY DEF Init, ExecOK, ExecType, At, Pc
<1>4. AwaiterOK
  BY ConstantsAssumption DEF Init, AwaiterOK, AwaiterType
<1>5. QED
  BY <1>1, <1>2, <1>3, <1>4 DEF PoolInv

LEMMA GotoKeeps ==
  ASSUME ExecOK, NEW e \in Executor, NEW pc \in Pc \ {"run"}, Goto(e, pc)
  PROVE  ExecOK'
<1>1. At(pc) \in ExecType /\ At(pc).pc = pc /\ At(pc).then = "top"
  BY DEF At, ExecType, Pc
<1>2. exec' \in [Executor -> ExecType]
  BY <1>1 DEF ExecOK, Goto
<1>3. \A f \in Executor : exec'[f] = IF f = e THEN At(pc) ELSE exec[f]
  BY DEF ExecOK, Goto
<1>4. QED
  BY <1>1, <1>2, <1>3 DEF ExecOK

LEMMA ReportKeeps ==
  ASSUME ExecOK, NEW e \in Executor, NEW messages \in Seq(Message), NEW pc \in Pc \ {"run"},
         Report(e, messages, pc)
  PROVE  /\ ExecOK'
         /\ exec'[e].pc = "report" /\ exec'[e].messages = messages
         /\ \A f \in Executor \ {e} : exec'[f] = exec[f]
<1> DEFINE r == [pc |-> "report", action |-> exec[e].action, then |-> pc, messages |-> messages]
<1>1. r \in ExecType /\ r.pc = "report" /\ r.then = pc /\ r.messages = messages
  BY DEF ExecOK, ExecType, Pc
<1>2. exec' = [exec EXCEPT ![e] = r]
  BY DEF ExecOK, Report
<1> HIDE DEF r
<1>3. exec' \in [Executor -> ExecType]
  BY <1>1, <1>2 DEF ExecOK
<1>4. \A f \in Executor : exec'[f] = IF f = e THEN r ELSE exec[f]
  BY <1>2 DEF ExecOK
<1>5. QED
  BY <1>1, <1>3, <1>4 DEF ExecOK

\* Actions that leave the queue cannot come back.
LEMMA LeaveKeeps ==
  ASSUME QueueOK, writer = NoAction, NEW A \in SUBSET Action, Leave(A)
  PROVE  QueueOK'
<1>1. IsFiniteSet(stored')
  BY FS_Subset DEF QueueOK, Leave
<1>2. writer' \notin stored' \cup gone'
  BY ConstantsAssumption DEF QueueOK, Leave
<1>3. stored' \cap gone' = {} /\ stored' \subseteq Action /\ gone' \subseteq Action
  BY DEF QueueOK, Leave
<1>4. QED
  BY <1>1, <1>2, <1>3 DEF QueueOK, Leave

LEMMA SentKeeps ==
  ASSUME AwaiterOK, NEW messages \in Seq(Message), Send(messages)
  PROVE  AwaiterOK'
BY SendFacts DEF AwaiterOK

LEMMA FailureKeeps ==
  ASSUME PoolOK, Failure
  PROVE  failures' \in 0..MaxFailures
BY ConstantsAssumption DEF PoolOK, Failure

\* The steps of one executor.
LEMMA StepPool ==
  ASSUME PoolInv, NEW e \in Executor, Step(e)
  PROVE  PoolInv'
<1> USE DEF PoolInv
<1>1. ASSUME NEW pc \in Pc \ {"run"}, Goto(e, pc), UNCHANGED <<poolVars, queueVars, awaiter>>,
             UNCHANGED failures \/ Failure
      PROVE  PoolInv'
  <2>1. ExecOK'
    BY <1>1, GotoKeeps
  <2>2. failures' \in 0..MaxFailures
    BY <1>1, FailureKeeps DEF PoolOK
  <2>3. QED
    BY <1>1, <2>1, <2>2 DEF PoolOK, QueueOK, AwaiterOK, poolVars, queueVars
<1>2. NoWork \in Pc \ {"run"} /\ AfterNetworkFailure \in Pc \ {"run"}
  BY DEF NoWork, AfterNetworkFailure, Pc
<1>3. CASE LoopTop(e)
  BY <1>1, <1>3 DEF LoopTop, Pc
<1>4. CASE Pop(e)
  <2>1. CASE Goto(e, NoWork)
    BY <1>1, <1>2, <1>4, <2>1 DEF Pop, Failure
  <2>2. ASSUME NEW a \in Ready, exec' = [exec EXCEPT ![e] = [At("run") EXCEPT !.action = a]]
        PROVE  PoolInv'
    <3> DEFINE r == [At("run") EXCEPT !.action = a]
    <3>1. a \in Action
      BY <2>2 DEF Ready, QueueOK
    <3>2. r \in ExecType /\ r.action = a /\ r.then = "top"
      <4>1. r = [pc |-> "run", action |-> a, then |-> "top", messages |-> <<>>]
        BY DEF At
      <4>2. "run" \in Pc /\ "top" \in Pc /\ <<>> \in Seq(Message)
        BY DEF Pc
      <4> HIDE DEF r
      <4>3. QED
        BY <3>1, <4>1, <4>2 DEF ExecType
    <3> HIDE DEF r
    <3>3. exec' = [exec EXCEPT ![e] = r]
      BY <2>2 DEF r
    <3>4. exec' \in [Executor -> ExecType] /\ \A f \in Executor : exec'[f] = IF f = e THEN r ELSE exec[f]
      BY <3>2, <3>3 DEF ExecOK
    <3>5. ExecOK'
      BY <3>1, <3>2, <3>4 DEF ExecOK
    <3>6. failures' \in 0..MaxFailures
      BY <1>4, FailureKeeps DEF Pop, PoolOK
    <3>7. QED
      BY <1>4, <3>5, <3>6 DEF Pop, PoolOK, QueueOK, AwaiterOK, poolVars, queueVars
  <2>3. CASE Goto(e, "top")
    BY <1>1, <1>4, <2>3 DEF Pop, Pc
  <2>4. QED
    BY <1>4, <2>1, <2>2, <2>3 DEF Pop
<1>5. CASE Undecoded(e)
  BY <1>1, <1>5 DEF Undecoded, Pc
<1>6. Running(e) => exec[e].action \in Action /\ writer = NoAction
  BY DEF Running, ExecOK
<1>7. Running(e) => <<<<"success", exec[e].action>>>> \in Seq(Message)
  <2>1. Running(e) => <<"success", exec[e].action>> \in Message
    BY <1>6 DEF Message, Outcome
  <2>2. QED
    BY <2>1
<1>8. CASE Executed(e)
  <2>1. ExecOK'
    <3>1. "top" \in Pc \ {"run"}
      BY DEF Pc
    <3>2. QED
      BY <1>7, <1>8, <3>1, ReportKeeps DEF Executed
  <2>2. QueueOK'
    BY <1>6, <1>8, LeaveKeeps DEF Executed
  <2>3. QED
    BY <1>8, <2>1, <2>2 DEF Executed, Leave, PoolOK, AwaiterOK, poolVars
<1>9. CASE Requeued(e)
  <2>1. PICK then \in {"top", NoWork, AfterNetworkFailure} :
          /\ IF ~online /\ then = AfterNetworkFailure THEN UNCHANGED failures ELSE Failure
          /\ Report(e, <<<<"success", exec[e].action>>>>, then)
    BY <1>9 DEF Requeued
  <2>2. then \in Pc \ {"run"}
    BY <1>2 DEF Pc
  <2>3. ExecOK'
    BY <1>7, <1>9, <2>1, <2>2, ReportKeeps DEF Requeued
  <2>4. failures' \in 0..MaxFailures
    BY <2>1, FailureKeeps DEF PoolOK
  <2>5. QED
    BY <1>9, <2>3, <2>4 DEF Requeued, PoolOK, QueueOK, AwaiterOK, poolVars, queueVars
<1>10. CASE Failed(e)
  <2> DEFINE a == exec[e].action
             fallen == {b \in stored : a \in waitsFor[b]}
             ms == Reports(a, fallen)
  <2>1. Running(e) /\ Failure /\ Leave(fallen \cup {a}) /\ Report(e, ms, "top")
    BY <1>10 DEF Failed, Reports
  <2>2. a \in Action /\ writer = NoAction /\ fallen \in SUBSET Action /\ IsFiniteSet(fallen)
    BY <1>6, <2>1, FS_Subset DEF QueueOK
  <2>3. ms \in Seq(Message)
    BY <2>2, FallenMessages
  <2> HIDE DEF ms, fallen, a
  <2>4. ExecOK'
    <3>1. "top" \in Pc \ {"run"}
      BY DEF Pc
    <3>2. QED
      BY <2>1, <2>3, <3>1, ReportKeeps
  <2>5. QueueOK'
    BY <2>1, <2>2, LeaveKeeps
  <2>6. QED
    BY <2>1, <2>4, <2>5, FailureKeeps DEF Leave, PoolOK, AwaiterOK, poolVars
<1>11. CASE Broadcast(e)
  <2>1. exec[e].messages \in Seq(Message) /\ exec[e].then \in Pc \ {"run"}
    BY DEF ExecOK, ExecType
  <2>2. AwaiterOK'
    BY <1>11, <2>1, SentKeeps DEF Broadcast
  <2>3. ExecOK'
    BY <1>11, <2>1, GotoKeeps DEF Broadcast
  <2>4. QED
    BY <1>11, <2>2, <2>3 DEF Broadcast, PoolOK, QueueOK, poolVars, queueVars
<1>12. CASE Count(e)
  BY <1>1, <1>12 DEF Count, Pc
<1>13. CASE Listen(e)
  BY <1>1, <1>13 DEF Listen, Pc
<1>14. CASE Timeout(e)
  BY <1>1, <1>14 DEF Timeout, Pc
<1>15. CASE BackOnline(e)
  BY <1>1, <1>15 DEF BackOnline, Pc
<1>16. QED
  BY <1>3, <1>4, <1>5, <1>8, <1>9, <1>10, <1>11, <1>12, <1>13, <1>14, <1>15 DEF Step

LEMMA NextPool ==
  PoolInv /\ [Next]_vars => PoolInv'
<1> SUFFICES ASSUME PoolInv, [Next]_vars PROVE PoolInv'
  OBVIOUS
<1> USE DEF PoolInv
<1>1. CASE UNCHANGED vars
  BY <1>1 DEF vars, poolVars, queueVars, PoolOK, QueueOK, ExecOK, AwaiterOK
<1>2. ASSUME NEW a \in Action, Queue(a)
      PROVE  PoolInv'
  <2>1. QueueOK'
    BY <1>2 DEF Queue, QueueOK
  <2>2. ExecOK'
    <3>1. At("top") \in ExecType /\ At("top").then = "top" /\ At("top").pc = "top"
      BY DEF At, ExecType, Pc
    <3>2. \A f \in Executor : exec'[f] = IF exec[f].pc = "wait" THEN At("top") ELSE exec[f]
      BY <1>2 DEF Queue, Woken
    <3>3. exec' \in [Executor -> ExecType]
      BY <1>2, <3>1 DEF Queue, Woken, ExecOK
    <3>4. QED
      BY <3>1, <3>2, <3>3 DEF ExecOK
  <2>3. <<<<"queued", a>>>> \in Seq(Message)
    <3>1. <<"queued", a>> \in Message
      BY DEF Message
    <3>2. QED
      BY <3>1
  <2>4. AwaiterOK'
    BY <1>2, <2>3, SentKeeps DEF Queue
  <2>5. QED
    BY <1>2, <2>1, <2>2, <2>4 DEF Queue, PoolOK, poolVars
<1>3. ASSUME NEW a \in Awaited, Subscribe(a)
      PROVE  PoolInv'
  <2>1. AwaiterOK'
    BY <1>3, ConstantsAssumption DEF Subscribe, AwaiterOK, AwaiterType
  <2>2. QED
    BY <1>3, <2>1 DEF Subscribe, PoolOK, QueueOK, ExecOK, poolVars, queueVars
<1>4. CASE Commit
  <2>1. writer \in Action /\ NoAction \notin Action
    BY <1>4, ConstantsAssumption DEF Commit, QueueOK
  <2>2. IsFiniteSet(stored')
    BY <1>4, FS_AddElement DEF Commit, QueueOK
  <2>3. waitsFor' \in [Action -> SUBSET Action]
    BY <1>4, <2>1, ConstantsAssumption DEF Commit, QueueOK
  <2>4. QueueOK'
    BY <1>4, <2>1, <2>2, <2>3 DEF Commit, QueueOK
  <2>5. QED
    BY <1>4, <2>4 DEF Commit, PoolOK, ExecOK, AwaiterOK, poolVars
<1>5. CASE Rollback
  <2>1. writer \in Action /\ NoAction \notin Action
    BY <1>5, ConstantsAssumption DEF Rollback, QueueOK
  <2>2. QueueOK'
    BY <1>5, <2>1 DEF Rollback, QueueOK
  <2>3. QED
    BY <1>5, <2>2, FailureKeeps DEF Rollback, PoolOK, ExecOK, AwaiterOK, poolVars
<1>6. CASE Receive
  <2>1. AwaiterOK'
    <3>1. awaiter.inbox \in Seq(Message) /\ awaiter.inbox # <<>> /\ Capacity \in Nat
      BY <1>6, ConstantsAssumption DEF Receive, AwaiterOK, AwaiterType
    <3>2. /\ Tail(awaiter.inbox) \in Seq(Message)
          /\ Len(Tail(awaiter.inbox)) = Len(awaiter.inbox) - 1 /\ Len(awaiter.inbox) \in Nat
      BY <3>1
    <3>3. CASE awaiter' = [awaiter EXCEPT !.pc = "answered", !.inbox = <<>>]
      <4> DEFINE nothing == <<>>
      <4>1. nothing \in Seq(Message) /\ Len(nothing) = 0
        OBVIOUS
      <4>2. awaiter' = [awaiter EXCEPT !.pc = "answered", !.inbox = nothing]
        BY <3>3
      <4> HIDE DEF nothing
      <4>3. awaiter' \in AwaiterType /\ awaiter'.inbox = nothing
        BY <4>1, <4>2 DEF AwaiterOK, AwaiterType
      <4>4. QED
        BY <3>1, <4>1, <4>3 DEF AwaiterOK
    <3>4. CASE awaiter' = [awaiter EXCEPT !.inbox = Tail(@)]
      <4>1. awaiter' \in AwaiterType /\ awaiter'.inbox = Tail(awaiter.inbox)
        BY <3>2, <3>4 DEF AwaiterOK, AwaiterType
      <4>2. QED
        BY <3>1, <3>2, <4>1 DEF AwaiterOK
    <3>5. QED
      BY <1>6, <3>3, <3>4 DEF Receive
  <2>2. QED
    BY <1>6, <2>1 DEF Receive, PoolOK, QueueOK, ExecOK, poolVars, queueVars
<1>7. CASE \E e \in Executor : Step(e)
  BY <1>7, StepPool
<1>8. CASE PauseOrResume
  <2>1. PoolOK'
    BY <1>8, FailureKeeps DEF PauseOrResume, PoolOK
  <2>2. QED
    BY <1>8, <2>1 DEF PauseOrResume, QueueOK, ExecOK, AwaiterOK, queueVars
<1>9. CASE NetworkChange
  <2>1. PoolOK'
    BY <1>9, FailureKeeps DEF NetworkChange, PoolOK
  <2>2. QED
    BY <1>9, <2>1 DEF NetworkChange, QueueOK, ExecOK, AwaiterOK, queueVars
<1>10. CASE Terminate
  <2>1. ExecOK'
    BY <1>10 DEF Terminate, ExecOK, ExecType, At, Pc
  <2>2. QED
    BY <1>10, <2>1, FailureKeeps DEF Terminate, PoolOK, QueueOK, AwaiterOK, poolVars, queueVars
<1>11. QED
  BY <1>1, <1>2, <1>3, <1>4, <1>5, <1>6, <1>7, <1>8, <1>9, <1>10 DEF Next

LEMMA PoolInvariant ==
  Spec => []PoolInv
BY InitPool, NextPool, PTL DEF Spec

\* TypeOK: whatever is queued, executed, reported and dropped, an action is in
\* the queue or gone but never both, and a receiver of the broadcast channel
\* never holds more than the channel's capacity.
THEOREM TypeCorrect ==
  Spec => []TypeOK
<1>1. PoolInv => TypeOK
  BY DEF PoolInv, PoolOK, QueueOK, ExecOK, AwaiterOK, ExecType, AwaiterType, TypeOK
<1>2. QED
  BY <1>1, PoolInvariant, PTL

-----------------------------------------------------------------------------
(* An answer stays under way. *)

\* The awaited action is queued or its outcome is on its way.
Owed == awaiter.action \in stored \/ AnswerUnderWay

\* What AnswerIsNeverLost says of one step.
KeepsAnswer ==
    awaiter.pc = "waiting" /\ awaiter'.pc = "waiting" /\ Owed
      => \/ awaiter.action \in stored' \/ AnswerUnderWay'
         \/ \A e \in Executor : exec'[e].pc = "ended"

\* A step that takes no message from the awaiter and leaves reports alone.
LEMMA UnderWayStays ==
  ASSUME awaiter'.action = awaiter.action,
         \A k \in DOMAIN awaiter.inbox :
             k \in DOMAIN awaiter'.inbox /\ awaiter'.inbox[k] = awaiter.inbox[k],
         \A e \in Executor : exec[e].pc = "report" => exec'[e] = exec[e],
         AnswerUnderWay
  PROVE  AnswerUnderWay'
<1>1. CASE \E k \in DOMAIN awaiter.inbox : Answers(awaiter.inbox[k])
  BY <1>1 DEF AnswerUnderWay, Answers
<1>2. ASSUME NEW e \in Executor, exec[e].pc = "report",
             NEW k \in DOMAIN exec[e].messages, Answers(exec[e].messages[k])
      PROVE  AnswerUnderWay'
  <2>1. exec'[e] = exec[e]
    BY <1>2
  <2>2. exec'[e].pc = "report" /\ k \in DOMAIN exec'[e].messages /\ Answers(exec[e].messages[k])'
    BY <1>2, <2>1 DEF Answers
  <2>3. QED
    BY <2>2 DEF AnswerUnderWay
<1>3. QED
  BY <1>1, <1>2 DEF AnswerUnderWay

\* A report of an outcome of the awaited action.
LEMMA ReportedUnderWay ==
  ASSUME awaiter' = awaiter, NEW e \in Executor, exec'[e].pc = "report",
         NEW k \in DOMAIN exec'[e].messages, NEW o \in Outcome,
         exec'[e].messages[k] = <<o, awaiter.action>>
  PROVE  AnswerUnderWay'
<1>1. Answers(exec[e].messages[k])'
  BY DEF Answers
<1>2. QED
  BY <1>1 DEF AnswerUnderWay

\* An action leaves the queue only together with its report.
LEMMA LeaveKeepsAnswer ==
  ASSUME PoolInv, NEW e \in Executor, exec[e].pc # "report", NEW A, Leave(A),
         NEW messages \in Seq(Message), Report(e, messages, "top"),
         \A a \in A : \E k \in DOMAIN messages, o \in Outcome : messages[k] = <<o, a>>
  PROVE  KeepsAnswer
<1> SUFFICES ASSUME Owed, awaiter.action \notin stored' PROVE AnswerUnderWay'
  BY DEF KeepsAnswer
<1>1. awaiter' = awaiter
  BY DEF Leave
<1>2. /\ exec'[e].pc = "report" /\ exec'[e].messages = messages
      /\ \A f \in Executor \ {e} : exec'[f] = exec[f]
  <2>1. "top" \in Pc \ {"run"}
    BY DEF Pc
  <2>2. QED
    BY <2>1, ReportKeeps DEF PoolInv
<1>3. CASE AnswerUnderWay
  BY <1>1, <1>2, <1>3, UnderWayStays
<1>4. CASE awaiter.action \in stored
  <2>1. awaiter.action \in A
    BY <1>4 DEF Leave
  <2>2. PICK k \in DOMAIN messages, o \in Outcome : messages[k] = <<o, awaiter.action>>
    BY <2>1
  <2>3. QED
    BY <1>1, <1>2, <2>2, ReportedUnderWay
<1>5. QED
  BY <1>3, <1>4 DEF Owed

\* What one executor does keeps an answer under way.
LEMMA StepKeepsAnswer ==
  ASSUME PoolInv, NEW e \in Executor, Step(e)
  PROVE  KeepsAnswer
<1> USE DEF PoolInv
<1>1. ASSUME awaiter' = awaiter, stored' = stored,
             \A f \in Executor : exec[f].pc = "report" => exec'[f] = exec[f]
      PROVE  KeepsAnswer
  BY <1>1, UnderWayStays DEF KeepsAnswer, Owed
<1>2. ASSUME NEW pc, Goto(e, pc), exec[e].pc # "report",
             UNCHANGED <<poolVars, queueVars, awaiter>>
      PROVE  KeepsAnswer
  <2>1. \A f \in Executor : exec[f].pc = "report" => exec'[f] = exec[f]
    BY <1>2 DEF Goto, ExecOK
  <2>2. QED
    BY <1>1, <1>2, <2>1 DEF queueVars
<1>3. CASE LoopTop(e)
  BY <1>2, <1>3 DEF LoopTop
<1>4. CASE Pop(e)
  <2>1. CASE Goto(e, NoWork)
    BY <1>2, <1>4, <2>1 DEF Pop
  <2>2. ASSUME NEW a \in Ready, exec' = [exec EXCEPT ![e] = [At("run") EXCEPT !.action = a]]
        PROVE  KeepsAnswer
    <3>1. \A f \in Executor : exec[f].pc = "report" => exec'[f] = exec[f]
      BY <1>4, <2>2 DEF Pop, ExecOK
    <3>2. QED
      BY <1>1, <1>4, <3>1 DEF Pop, queueVars
  <2>3. CASE Goto(e, "top")
    BY <1>2, <1>4, <2>3 DEF Pop
  <2>4. QED
    BY <1>4, <2>1, <2>2, <2>3 DEF Pop
<1>5. CASE Undecoded(e)
  BY <1>2, <1>5 DEF Undecoded
<1>6. Running(e) => exec[e].action \in Action /\ writer = NoAction /\ exec[e].pc # "report"
  BY DEF Running, ExecOK
<1>7. Running(e) => <<<<"success", exec[e].action>>>> \in Seq(Message)
  <2>1. Running(e) => <<"success", exec[e].action>> \in Message
    BY <1>6 DEF Message, Outcome
  <2>2. QED
    BY <2>1
<1>8. CASE Executed(e)
  <2> DEFINE a == exec[e].action
             ms == <<<<"success", a>>>>
  <2>1. Running(e) /\ Leave({a}) /\ Report(e, ms, "top")
    BY <1>8 DEF Executed
  <2>2. ms \in Seq(Message)
    BY <1>7, <2>1
  <2>3. \E k \in DOMAIN ms, o \in Outcome : ms[k] = <<o, a>>
    <3>1. 1 \in DOMAIN ms /\ ms[1] = <<"success", a>> /\ "success" \in Outcome
      BY DEF Outcome
    <3>2. QED
      BY <3>1
  <2> HIDE DEF ms, a
  <2>4. \A b \in {a} : \E k \in DOMAIN ms, o \in Outcome : ms[k] = <<o, b>>
    BY <2>3
  <2>5. QED
    BY <1>6, <2>1, <2>2, <2>4, LeaveKeepsAnswer
<1>9. CASE Requeued(e)
  <2>1. PICK then \in {"top", NoWork, AfterNetworkFailure} :
          Report(e, <<<<"success", exec[e].action>>>>, then)
    BY <1>9 DEF Requeued
  <2>2. \A f \in Executor : exec[f].pc = "report" => exec'[f] = exec[f]
    BY <1>6, <1>9, <2>1 DEF Requeued, Report, ExecOK
  <2>3. QED
    BY <1>1, <1>9, <2>2 DEF Requeued, queueVars
<1>10. CASE Failed(e)
  <2> DEFINE a == exec[e].action
             fallen == {b \in stored : a \in waitsFor[b]}
             ms == Reports(a, fallen)
  <2>1. Running(e) /\ Leave(fallen \cup {a}) /\ Report(e, ms, "top")
    BY <1>10 DEF Failed, Reports
  <2>2. a \in Action /\ fallen \in SUBSET Action /\ IsFiniteSet(fallen)
    BY <1>6, <2>1, FS_Subset DEF QueueOK
  <2>3. /\ ms \in Seq(Message)
        /\ \A b \in fallen : \E k \in DOMAIN ms : ms[k] = <<"cancelled", b>>
        /\ \E k \in DOMAIN ms : ms[k] = <<"error", a>>
    <3> HIDE DEF fallen, a
    <3>1. QED
      BY <2>2, FallenMessages
  <2> HIDE DEF ms, fallen, a
  <2>4. \A b \in fallen \cup {a} : \E k \in DOMAIN ms, o \in Outcome : ms[k] = <<o, b>>
    BY <2>3 DEF Outcome
  <2>5. QED
    BY <1>6, <2>1, <2>3, <2>4, LeaveKeepsAnswer
<1>11. CASE Broadcast(e)
  <2> DEFINE ms == exec[e].messages
  <2> SUFFICES ASSUME awaiter.pc = "waiting", awaiter'.pc = "waiting", AnswerUnderWay
               PROVE  AnswerUnderWay'
    BY <1>11 DEF KeepsAnswer, Owed, Broadcast, queueVars
  <2>1. ms \in Seq(Message) /\ awaiter.inbox \in Seq(Message)
    BY DEF ExecOK, ExecType, AwaiterOK, AwaiterType
  <2>2. awaiter'.inbox = awaiter.inbox \o ms /\ awaiter'.action = awaiter.action
    BY <1>11, <2>1, SendFacts DEF Broadcast, AwaiterOK
  <2> HIDE DEF ms
  <2>3. /\ \A k \in DOMAIN awaiter.inbox :
             k \in DOMAIN awaiter'.inbox /\ awaiter'.inbox[k] = awaiter.inbox[k]
        /\ \A k \in DOMAIN ms :
             /\ Len(awaiter.inbox) + k \in DOMAIN awaiter'.inbox
             /\ awaiter'.inbox[Len(awaiter.inbox) + k] = ms[k]
    <3> DEFINE box == awaiter.inbox
    <3>1. box \in Seq(Message) /\ ms \in Seq(Message) /\ awaiter'.inbox = box \o ms
      BY <2>1, <2>2
    <3> HIDE DEF box
    <3>2. /\ \A k \in DOMAIN box : k \in DOMAIN (box \o ms) /\ (box \o ms)[k] = box[k]
          /\ \A k \in DOMAIN ms : /\ Len(box) + k \in DOMAIN (box \o ms)
                                  /\ (box \o ms)[Len(box) + k] = ms[k]
      BY ONLY <3>1, ConcatFacts
    <3>3. QED
      BY ONLY <3>1, <3>2 DEF box
  <2>4. CASE \E k \in DOMAIN awaiter.inbox : Answers(awaiter.inbox[k])
    BY <2>2, <2>3, <2>4 DEF AnswerUnderWay, Answers
  <2>5. CASE \E k \in DOMAIN ms : Answers(ms[k])
    <3>1. PICK k \in DOMAIN ms : Answers(ms[k])
      BY <2>5
    <3>2. PICK i \in DOMAIN awaiter'.inbox : awaiter'.inbox[i] = ms[k]
      BY <2>3
    <3>3. Answers(awaiter.inbox[i])'
      BY <2>2, <3>1, <3>2 DEF Answers
    <3>4. QED
      BY <3>3 DEF AnswerUnderWay
  <2>6. ASSUME NEW f \in Executor \ {e}, exec[f].pc = "report",
               NEW k \in DOMAIN exec[f].messages, Answers(exec[f].messages[k])
        PROVE  AnswerUnderWay'
    <3>1. exec'[f] = exec[f]
      BY <1>11, <2>6 DEF Broadcast, Goto, ExecOK
    <3>2. exec'[f].pc = "report" /\ k \in DOMAIN exec'[f].messages /\ Answers(exec[f].messages[k])'
      BY <2>2, <2>6, <3>1 DEF Answers
    <3>3. QED
      BY <3>2 DEF AnswerUnderWay
  <2>7. QED
    BY <2>4, <2>5, <2>6 DEF AnswerUnderWay, ms
<1>12. CASE Count(e)
  BY <1>2, <1>12 DEF Count
<1>13. CASE Listen(e)
  BY <1>2, <1>13 DEF Listen
<1>14. CASE Timeout(e)
  BY <1>2, <1>14 DEF Timeout, MayTimeOut
<1>15. CASE BackOnline(e)
  BY <1>2, <1>15 DEF BackOnline
<1>16. QED
  BY <1>3, <1>4, <1>5, <1>8, <1>9, <1>10, <1>11, <1>12, <1>13, <1>14, <1>15 DEF Step

LEMMA NextKeepsAnswer ==
  ASSUME PoolInv, Next
  PROVE  KeepsAnswer
<1> USE DEF PoolInv
<1>1. ASSUME awaiter' = awaiter, exec' = exec, stored \subseteq stored'
      PROVE  KeepsAnswer
  BY <1>1, UnderWayStays DEF KeepsAnswer, Owed
<1>2. ASSUME NEW a \in Action, Queue(a)
      PROVE  KeepsAnswer
  <2> DEFINE ms == <<<<"queued", a>>>>
  <2> SUFFICES ASSUME awaiter.pc = "waiting", awaiter'.pc = "waiting", AnswerUnderWay
               PROVE  AnswerUnderWay'
    BY <1>2 DEF KeepsAnswer, Owed, Queue
  <2>1. ms \in Seq(Message)
    <3>1. <<"queued", a>> \in Message
      BY DEF Message
    <3>2. QED
      BY <3>1
  <2>2. Send(ms)
    BY <1>2 DEF Queue
  <2> HIDE DEF ms
  <2>3. awaiter'.inbox = awaiter.inbox \o ms /\ awaiter'.action = awaiter.action
    BY <2>1, <2>2, SendFacts DEF AwaiterOK
  <2>4. awaiter.inbox \in Seq(Message)
    BY DEF AwaiterOK, AwaiterType
  <2>5. \A k \in DOMAIN awaiter.inbox :
          k \in DOMAIN awaiter'.inbox /\ awaiter'.inbox[k] = awaiter.inbox[k]
    <3> DEFINE box == awaiter.inbox
    <3>1. box \in Seq(Message) /\ ms \in Seq(Message) /\ awaiter'.inbox = box \o ms
      BY <2>1, <2>3, <2>4
    <3> HIDE DEF box
    <3>2. \A k \in DOMAIN box : k \in DOMAIN (box \o ms) /\ (box \o ms)[k] = box[k]
      BY ONLY <3>1, ConcatFacts
    <3>3. QED
      BY ONLY <3>1, <3>2 DEF box
  <2>6. \A f \in Executor : exec[f].pc = "report" => exec'[f] = exec[f]
    BY <1>2 DEF Queue, Woken
  <2>7. QED
    BY <2>3, <2>5, <2>6, UnderWayStays
<1>3. ASSUME NEW a \in Awaited, Subscribe(a)
      PROVE  KeepsAnswer
  BY <1>3 DEF Subscribe, KeepsAnswer
<1>4. CASE Commit
  BY <1>1, <1>4 DEF Commit
<1>5. CASE Rollback
  BY <1>1, <1>5 DEF Rollback
<1>6. CASE Receive
  <2> SUFFICES ASSUME awaiter'.pc = "waiting", AnswerUnderWay
               PROVE  AnswerUnderWay'
    BY <1>6 DEF KeepsAnswer, Owed, Receive, queueVars
  <2> DEFINE box == awaiter.inbox
  <2>1. box \in Seq(Message) /\ box # <<>> /\ exec' = exec
    BY <1>6 DEF Receive, AwaiterOK, AwaiterType
  <2>2. ~Answers(Head(box)) /\ awaiter' = [awaiter EXCEPT !.inbox = Tail(@)]
    BY <1>6 DEF Receive, AwaiterOK, AwaiterType
  <2>3. awaiter'.inbox = Tail(box) /\ awaiter'.action = awaiter.action
    BY <2>2 DEF AwaiterOK, AwaiterType
  <2> HIDE DEF box
  <2>4. ASSUME NEW k \in DOMAIN box, Answers(box[k])
        PROVE  AnswerUnderWay'
    <3>1. k \in 1 .. Len(box) /\ Len(box) \in Nat /\ Head(box) = box[1]
      BY <2>1, <2>4
    <3>2. k # 1
      BY <2>2, <2>4, <3>1
    <3>3. k - 1 \in 1 .. Len(box) - 1
      BY <3>1, <3>2
    <3>4. DOMAIN Tail(box) = 1 .. Len(box) - 1 /\ Tail(box)[k - 1] = box[k]
      <4>1. /\ Tail(box) \in Seq(Message) /\ Len(Tail(box)) = Len(box) - 1
            /\ \A i \in 1 .. Len(Tail(box)) : Tail(box)[i] = box[i + 1]
        BY <2>1, HeadTailProperties
      <4>2. (k - 1) + 1 = k
        BY <3>1
      <4>3. QED
        BY <3>3, <4>1, <4>2
    <3>5. k - 1 \in DOMAIN awaiter'.inbox /\ awaiter'.inbox[k - 1] = box[k]
      BY <2>3, <3>3, <3>4
    <3>6. Answers(awaiter.inbox[k - 1])'
      BY <2>3, <2>4, <3>5 DEF Answers
    <3>7. QED
      BY <3>5, <3>6 DEF AnswerUnderWay
  <2>5. ASSUME NEW f \in Executor, exec[f].pc = "report",
               NEW k \in DOMAIN exec[f].messages, Answers(exec[f].messages[k])
        PROVE  AnswerUnderWay'
    <3>1. exec'[f].pc = "report" /\ k \in DOMAIN exec'[f].messages /\ Answers(exec[f].messages[k])'
      BY <2>1, <2>3, <2>5 DEF Answers
    <3>2. QED
      BY <3>1 DEF AnswerUnderWay
  <2>6. QED
    BY <2>4, <2>5 DEF AnswerUnderWay, box
<1>7. CASE \E e \in Executor : Step(e)
  BY <1>7, StepKeepsAnswer
<1>8. CASE PauseOrResume
  BY <1>1, <1>8 DEF PauseOrResume, queueVars
<1>9. CASE NetworkChange
  BY <1>1, <1>9 DEF NetworkChange, queueVars
<1>10. CASE Terminate
  BY <1>10 DEF Terminate, KeepsAnswer, At
<1>11. QED
  BY <1>2, <1>3, <1>4, <1>5, <1>6, <1>7, <1>8, <1>9, <1>10 DEF Next

\* AnswerIsNeverLost: an action that ActionAwaiter::wait waits for leaves the
\* queue only together with a report of its outcome, and neither the broadcast
\* nor the reading of other messages loses that outcome while the awaiter keeps
\* up with the channel; only dropping the pool before the broadcast does.
THEOREM AnswersAreKept ==
  Spec => AnswerIsNeverLost
<1>1. PoolInv /\ [Next]_vars => [KeepsAnswer]_vars
  BY NextKeepsAnswer
<1>2. QED
  BY <1>1, PoolInvariant, PTL DEF Spec, AnswerIsNeverLost, KeepsAnswer, Owed
=============================================================================
