--------------------------- MODULE MCActionQueue ---------------------------
(***************************************************************************)
(* Instances of ActionQueue for TLC.                                       *)
(***************************************************************************)
EXTENDS ActionQueue, TLC

CONSTANTS e1, e2, send, save, mail, k

OneGroup == [e \in Executor |-> mail]
FullFactory == [e \in Executor |-> Type]
OneRetry == [t \in Type |-> 1]

\* The build that runs e2 does not know the type send.
MixedFactory == [e \in Executor |-> IF e = e2 THEN Type \ {send} ELSE Type]
SendUnlimited == [t \in Type |-> IF t = send THEN Unlimited ELSE 1]

Plain(t) == [type |-> t, group |-> mail, priority |-> 1, created |-> 1, delayed |-> FALSE,
             required |-> {}, optional |-> {}, record |-> {}]

PlainRequests == {Plain(t) : t \in Type}

\* An urgent action that is delayed, and two that differ in age only.
TimedRequests ==
  { [Plain(save) EXCEPT !.priority = 0, !.delayed = TRUE],
    Plain(save),
    [Plain(save) EXCEPT !.created = 2] }

\* Actions on the same item: one records its key, one requires or follows it.
KeyRequests ==
  { [Plain(save) EXCEPT !.record = {k}],
    [Plain(save) EXCEPT !.required = {k}, !.optional = {k}] }
=============================================================================
