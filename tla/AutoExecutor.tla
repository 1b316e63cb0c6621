---------------------------- MODULE AutoExecutor ----------------------------
(***************************************************************************)
(* The loop around the action queue: QueueAutoExecutorPool runs executors  *)
(* that take actions until there are none, sleep until one is queued or a  *)
(* timeout passes, wait for the network and for resume, and end when their *)
(* termination policy says so.  The queue tells its observers of every     *)
(* outcome over a broadcast channel of limited capacity, on which          *)
(* ActionAwaiter waits for one action.                                     *)
(*                                                                         *)
(* ActionQueue has the rows, guards and dependencies in detail; here an    *)
(* action is queued, executed by one executor at a time and gone, and      *)
(* which of the ready ones comes first is left open.  A write transaction  *)
(* holds the only writer of the database from its begin to its commit.     *)
(*                                                                         *)
(* A definition whose name extends the name of the one that follows it is  *)
(* a faulty variant of it: the mutants of PROJECT.json put it in its place *)
(* to show that a property can fail.                                       *)
(***************************************************************************)
EXTENDS Naturals, Sequences, FiniteSets, SequencesExt

CONSTANTS
    Executor,
    Action,
    Needs,         \* the actions that an action depends on, directly or not
    Undecodable,   \* actions that this build cannot decode
    Awaited,       \* bound: the actions that somebody waits for
    Policies,      \* the termination policies to consider
    Capacity,      \* messages the broadcast channel holds
    MaxFailures,   \* bound: failed executions, outages and pauses
    NoAction

ASSUME ConstantsAssumption ==
    /\ NoAction \notin Action
    /\ Needs \in [Action -> SUBSET Action]
    /\ \A a \in Action : a \notin Needs[a] /\ \A b \in Needs[a] : Needs[b] \subseteq Needs[a]
    /\ Undecodable \subseteq Action /\ Awaited \subseteq Action
    /\ Policies \subseteq SUBSET {"empty", "networkLoss"}
    /\ Capacity \in Nat \ {0} /\ MaxFailures \in Nat

VARIABLES
    policy,     \* QueueAutoTerminationPolicy of the pool
    writer,     \* the action whose transaction is open
    stored,     \* action_queue
    gone,       \* actions that were executed, cancelled or rolled back
    waitsFor,   \* action_queue_dependencies
    exec,       \* the executors
    paused,     \* the pool's watch channel
    online,
    awaiter,    \* ActionAwaiter::wait, with what its receiver has yet to read
    failures

poolVars == <<policy, paused, online>>
queueVars == <<writer, stored, gone, waitsFor>>
vars == <<poolVars, queueVars, exec, awaiter, failures>>

Pc == {"top", "pop", "run", "report", "count", "listen", "wait", "offline", "ended"}
Outcome == {"success", "error", "cancelled"}
Message == (Outcome \cup {"queued"}) \X Action

TypeOK ==
    /\ policy \in Policies
    /\ writer \in Action \cup {NoAction}
    /\ stored \subseteq Action /\ gone \subseteq Action /\ stored \cap gone = {}
    /\ waitsFor \in [Action -> SUBSET Action]
    /\ exec \in [Executor -> [pc : Pc, action : Action \cup {NoAction}, then : Pc,
                              messages : Seq(Message)]]
    /\ paused \in BOOLEAN /\ online \in BOOLEAN
    /\ awaiter \in [pc : {"none", "waiting", "lagged", "answered"},
                    action : Action \cup {NoAction}, inbox : Seq(Message)]
    /\ Len(awaiter.inbox) <= Capacity
    /\ failures \in 0..MaxFailures

At(pc) == [pc |-> pc, action |-> NoAction, then |-> "top", messages |-> <<>>]

Init ==
    /\ policy \in Policies
    /\ writer = NoAction
    /\ stored = {} /\ gone = {}
    /\ waitsFor = [a \in Action |-> {}]
    /\ exec = [e \in Executor |-> At("top")]
    /\ paused = FALSE
    /\ online = TRUE
    /\ awaiter = [pc |-> "none", action |-> NoAction, inbox |-> <<>>]
    /\ failures = 0

Failure == failures < MaxFailures /\ failures' = failures + 1

-----------------------------------------------------------------------------
(* The broadcast channel and the awaiter *)

Waiting == awaiter.pc \in {"waiting", "lagged"}

SendAll(messages) ==
    awaiter' = IF ~Waiting THEN awaiter ELSE [awaiter EXCEPT !.inbox = @ \o messages]

\* broadcast::Sender::send: a receiver that has Capacity messages to read loses
\* the oldest one.
Send(messages) ==
    LET all == awaiter.inbox \o messages
        lost == Max({0, Len(all) - Capacity})
    IN  awaiter' = IF ~Waiting THEN awaiter
                   ELSE [awaiter EXCEPT !.inbox = SubSeq(all, lost + 1, Len(all)),
                                        !.pc = IF lost > 0 THEN "lagged" ELSE @]

\* ActionAwaiter::new, before the action is queued or at any later time.
Subscribe(a) ==
    /\ awaiter.pc = "none"
    /\ awaiter' = [pc |-> "waiting", action |-> a, inbox |-> <<>>]
    /\ UNCHANGED <<poolVars, queueVars, exec, failures>>

AnswersSuccess(message) == message = <<"success", awaiter.action>>

\* Which messages end the wait.
Answers(message) == message[2] = awaiter.action /\ message[1] \in Outcome

\* One turn of the loop in ActionAwaiter::wait, which ignores that it lagged.
Receive ==
    /\ Waiting /\ awaiter.inbox # <<>>
    /\ awaiter' = IF Answers(Head(awaiter.inbox))
                  THEN [awaiter EXCEPT !.pc = "answered", !.inbox = <<>>]
                  ELSE [awaiter EXCEPT !.inbox = Tail(@)]
    /\ UNCHANGED <<poolVars, queueVars, exec, failures>>

-----------------------------------------------------------------------------
(* Queueing *)

\* notify_waiters reaches the executors that are waiting now and keeps nothing
\* for the others.
Woken == [e \in Executor |-> IF exec[e].pc = "wait" THEN At("top") ELSE exec[e]]

\* queue_action_with_metadata_in_tx: the executors and the observers are told
\* before the transaction commits.
Queue(a) ==
    /\ writer = NoAction /\ a \notin stored \cup gone
    /\ writer' = a
    /\ exec' = Woken
    /\ Send(<<<<"queued", a>>>>)
    /\ UNCHANGED <<poolVars, stored, gone, waitsFor, failures>>

Commit ==
    /\ writer # NoAction
    /\ writer' = NoAction
    /\ stored' = stored \cup {writer}
    /\ waitsFor' = [waitsFor EXCEPT ![writer] = Needs[writer] \cap stored]
    /\ UNCHANGED <<poolVars, gone, exec, awaiter, failures>>

\* The rest of the caller's transaction fails.
Rollback ==
    /\ writer # NoAction
    /\ Failure
    /\ writer' = NoAction
    /\ gone' = gone \cup {writer}
    /\ UNCHANGED <<poolVars, stored, waitsFor, exec, awaiter>>

-----------------------------------------------------------------------------
(* QueueAutoExecutor::run *)

\* What StoredAction::next may return: no guard and no dependency is left.
Ready ==
    LET held == {exec[e].action : e \in {f \in Executor : exec[f].pc = "run"}}
    IN  {a \in stored \ held : waitsFor[a] \cap stored = {}}

Goto(e, pc) == exec' = [exec EXCEPT ![e] = At(pc)]

\* An executor between two actions looks at the watch channel, and waits there
\* until it is resumed.
LoopTop(e) ==
    /\ exec[e].pc = "top" /\ ~paused
    /\ Goto(e, "pop")
    /\ UNCHANGED <<poolVars, queueVars, awaiter, failures>>

\* WaitForAction: an executor with the Empty policy counts the actions first.
NoWork == IF "empty" \in policy THEN "count" ELSE "listen"

\* StoredAction::pop, a write transaction; when it fails, it is tried again.
Pop(e) ==
    /\ exec[e].pc = "pop" /\ writer = NoAction
    /\ \/ Ready = {} /\ Goto(e, NoWork) /\ UNCHANGED failures
       \/ /\ \E a \in Ready : exec' = [exec EXCEPT ![e] = [At("run") EXCEPT !.action = a]]
          /\ UNCHANGED failures
       \/ Goto(e, "top") /\ Failure
    /\ UNCHANGED <<poolVars, queueVars, awaiter>>

\* decode_action fails: the guard is released and the next action is picked.
Undecoded(e) ==
    /\ exec[e].pc = "run" /\ exec[e].action \in Undecodable /\ writer = NoAction
    /\ Goto(e, "top")
    /\ UNCHANGED <<poolVars, queueVars, awaiter, failures>>

Running(e) ==
    exec[e].pc = "run" /\ exec[e].action \notin Undecodable /\ writer = NoAction

Report(e, messages, pc) ==
    exec' = [exec EXCEPT ![e] = [pc |-> "report", action |-> @.action,
                                 then |-> pc, messages |-> messages]]

Leave(actions) ==
    /\ stored' = stored \ actions
    /\ gone' = gone \cup actions
    /\ UNCHANGED <<poolVars, writer, waitsFor, awaiter>>

Executed(e) ==
    /\ Running(e)
    /\ Leave({exec[e].action})
    /\ Report(e, <<<<"success", exec[e].action>>>>, "top")
    /\ UNCHANGED failures

FailedForgetsDependees(e) ==
    /\ Running(e)
    /\ Failure
    /\ LET a == exec[e].action
       IN  /\ Leave({b \in stored : a \in waitsFor[b]} \cup {a})
           /\ Report(e, <<<<"error", a>>>>, "top")

\* The action and those that depend on it leave; the latter are reported first.
Failed(e) ==
    /\ Running(e)
    /\ Failure
    /\ LET a == exec[e].action
           fallen == {b \in stored : a \in waitsFor[b]}
       IN  /\ Leave(fallen \cup {a})
           /\ Report(e, SetToSeq({<<"cancelled", b>> : b \in fallen}) \o <<<<"error", a>>>>, "top")

\* Offline: the executor ends or waits for the network.
AfterNetworkFailure == IF "networkLoss" \in policy THEN "ended" ELSE "offline"

\* The action stays; execute_impl reports a success nevertheless.
Requeued(e) ==
    /\ Running(e)
    /\ \E then \in {"top", NoWork, AfterNetworkFailure} :   \* GuardExpired, LostContext, NetworkFailed
           /\ IF ~online /\ then = AfterNetworkFailure THEN UNCHANGED failures ELSE Failure
           /\ Report(e, <<<<"success", exec[e].action>>>>, then)
    /\ UNCHANGED <<poolVars, queueVars, awaiter>>

Broadcast(e) ==
    /\ exec[e].pc = "report"
    /\ Send(exec[e].messages)
    /\ Goto(e, exec[e].then)
    /\ UNCHANGED <<poolVars, queueVars, failures>>

\* pending_count under the Empty policy; when it fails, the executor goes on.
Count(e) ==
    /\ exec[e].pc = "count"
    /\ \/ Goto(e, IF stored = {} THEN "ended" ELSE "listen") /\ UNCHANGED failures
       \/ Goto(e, "listen") /\ Failure
    /\ UNCHANGED <<poolVars, queueVars, awaiter>>

Listen(e) ==
    /\ exec[e].pc = "listen"
    /\ Goto(e, "wait")
    /\ UNCHANGED <<poolVars, queueVars, awaiter, failures>>

MayTimeOutNever(e) == FALSE

MayTimeOut(e) == exec[e].pc = "wait"

\* DEFAULT_LOCK_TIMEOUT ends the wait for a notification.
Timeout(e) ==
    /\ MayTimeOut(e)
    /\ Goto(e, "top")
    /\ UNCHANGED <<poolVars, queueVars, awaiter, failures>>

BackOnline(e) ==
    /\ exec[e].pc = "offline" /\ online
    /\ Goto(e, "top")
    /\ UNCHANGED <<poolVars, queueVars, awaiter, failures>>

Step(e) ==
    \/ LoopTop(e) \/ Pop(e) \/ Undecoded(e) \/ Executed(e) \/ Requeued(e) \/ Failed(e)
    \/ Broadcast(e) \/ Count(e) \/ Listen(e) \/ Timeout(e) \/ BackOnline(e)

-----------------------------------------------------------------------------
(* The surroundings of the pool *)

PauseOrResume ==
    /\ IF paused THEN UNCHANGED failures ELSE Failure
    /\ paused' = ~paused
    /\ UNCHANGED <<policy, online, queueVars, exec, awaiter>>

NetworkChange ==
    /\ IF online THEN Failure ELSE UNCHANGED failures
    /\ online' = ~online
    /\ UNCHANGED <<policy, paused, queueVars, exec, awaiter>>

\* The pool is dropped: its tasks are aborted wherever they are.
Terminate ==
    /\ Failure
    /\ exec' = [e \in Executor |-> At("ended")]
    /\ UNCHANGED <<poolVars, queueVars, awaiter>>

Next ==
    \/ \E a \in Action : Queue(a)
    \/ \E a \in Awaited : Subscribe(a)
    \/ Commit \/ Rollback \/ Receive
    \/ \E e \in Executor : Step(e)
    \/ PauseOrResume \/ NetworkChange \/ Terminate

Spec == Init /\ [][Next]_vars

\* Tasks and timers run; an open transaction commits or rolls back.  Nobody
\* has to queue, resume or restore the network.
FairSpec ==
    /\ Spec
    /\ \A e \in Executor : WF_vars(Step(e))
    /\ WF_vars(Commit) /\ WF_vars(Receive)

-----------------------------------------------------------------------------
(* Properties *)

\* An outcome of the awaited action waits to be read, or an executor is about to
\* broadcast it.
AnswerUnderWay ==
    \/ \E k \in DOMAIN awaiter.inbox : Answers(awaiter.inbox[k])
    \/ \E e \in Executor :
           exec[e].pc = "report" /\ \E k \in DOMAIN exec[e].messages : Answers(exec[e].messages[k])

\* As long as an awaiter keeps up with the channel, the outcome of an action that
\* it found in the queue cannot get past it: when the action leaves, by its own
\* execution or with another one, its outcome is under way, and it stays so
\* until the awaiter has it, unless the pool is dropped before the broadcast.
AnswerIsNeverLost ==
    [][awaiter.pc = "waiting" /\ awaiter'.pc = "waiting"
         /\ (awaiter.action \in stored \/ AnswerUnderWay)
       => \/ awaiter.action \in stored' \/ AnswerUnderWay'
          \/ \A e \in Executor : exec'[e].pc = "ended"]_vars

\* Nobody executes, or an action that cannot be decoded may be picked again
\* and again.
Stalled ==
    \/ paused \/ ~online \/ \A e \in Executor : exec[e].pc = "ended"
    \/ stored \cap Undecodable # {}

\* An action that was queued is taken from the queue although its notification
\* is sent before it is stored and is lost on executors that are not waiting
\* yet, although nobody is told when a dependency is gone, and after any pause
\* or outage that ends: the timeout finds it.
EveryActionIsTaken ==
    <>[]~Stalled => \A a \in Action : a \in stored ~> a \notin stored

\* ActionAwaiter::wait returns for an action that was still queued after the
\* awaiter was created, whether it is executed, fails or falls with another
\* one, unless the pool stalls or the awaiter fell behind the channel and its
\* message was dropped.
AwaiterIsAnswered ==
    <>[]~Stalled =>
        ((awaiter.pc = "waiting" /\ awaiter.action \in stored)
            ~> awaiter.pc \in {"answered", "lagged"})

=============================================================================
