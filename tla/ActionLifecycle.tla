-------------------------- MODULE ActionLifecycle --------------------------
(***************************************************************************)
(* What the action queue promises, without guards, executors or keys: a    *)
(* set of actions that wait for one another without a cycle.  An action is *)
(* executed only when it waits for nothing, it is executed or taken back   *)
(* once, and what requires an action that is taken back is taken back with *)
(* it.                                                                     *)
(***************************************************************************)
EXTENDS Integers

CONSTANT MaxId

VARIABLES
  life,      \* what became of each action
  requires,  \* <<a, b>>: a waits for b and cannot do without it
  follows    \* <<a, b>>: a waits for b, whatever becomes of b

vars == <<life, requires, follows>>

Id == 1 .. MaxId
Waiting == {a \in Id : life[a] = "queued"}

WellFounded(E) ==
  \A S \in SUBSET Id : S # {} => \E a \in S : \A p \in E : p[1] = a => p[2] \notin S

Init ==
  /\ life = [a \in Id |-> "none"]
  /\ requires = {}
  /\ follows = {}

Without(E, S) == {p \in E : p[1] \notin S /\ p[2] \notin S}

\* The dependencies of the actions of S change; those of the others do not.
Rewire(S) ==
  /\ requires' \subseteq Waiting' \X Waiting'
  /\ follows' \subseteq Waiting' \X Waiting'
  /\ \A p \in (requires \cup requires' \cup follows \cup follows') :
       p[1] \notin S => (p \in requires <=> p \in requires') /\ (p \in follows <=> p \in follows')
  /\ WellFounded(requires' \cup follows')

Submit ==
  \E S \in SUBSET {a \in Id : life[a] = "none"} :
    /\ S # {}
    /\ life' = [a \in Id |-> IF a \in S THEN "queued" ELSE life[a]]
    /\ Rewire(S)

Revise ==
  \E a \in Waiting :
    /\ UNCHANGED life
    /\ Rewire({a})

Leave(S, fate) ==
  /\ S # {}
  /\ life' = [a \in Id |-> IF a \in S THEN fate ELSE life[a]]
  /\ requires' = Without(requires, S)
  /\ follows' = Without(follows, S)

Execute ==
  \E a \in Waiting :
    /\ \A p \in requires \cup follows : p[1] # a
    /\ Leave({a}, "executed")

TakeBack ==
  \E S \in SUBSET Waiting :
    /\ \A p \in requires : p[2] \in S => p[1] \in S
    /\ Leave(S, "cancelled")

Drop == \E S \in SUBSET Waiting : Leave(S, "deleted")

Next == Submit \/ Revise \/ Execute \/ TakeBack \/ Drop

Spec == Init /\ [][Next]_vars
=============================================================================
