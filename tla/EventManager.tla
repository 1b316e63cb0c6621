---------------------------- MODULE EventManager ----------------------------
(***************************************************************************)
(* The registry of the event loop: event sources, the order in which they  *)
(* run, and their subscribers (core-event-loop/src/v6/manager.rs and       *)
(* subscriber.rs).  The manager belongs to one actor                       *)
(* (core-common/.../event_loop_service.rs), which runs one operation at a  *)
(* time: every operation below is atomic, and operations of different      *)
(* clients come in any order.  Running the sources is in EventPoller.      *)
(*                                                                         *)
(* A definition that no action uses and that stands before the one it      *)
(* resembles is a faulty variant of it: the mutants of PROJECT.json put it *)
(* in its place to show that a property notices.                           *)
(***************************************************************************)
EXTENDS EventSchedule, Sequences

CONSTANTS
  Name,      \* subscriber names
  None,      \* a vacant slot
  MaxTicket  \* bound: subscriptions ever made

ASSUME RegistryAssumption == None \notin Name /\ MaxTicket \in Nat

VARIABLES
  sources,   \* the registered sources
  order,     \* exec_order
  slots,     \* slots[s]: the slot map of subscribers of s
  ids,       \* the EventSubscriberIds handed out: clients keep and copy them
  alive,     \* FALSE once the actor has panicked
  \* History.
  used,      \* tickets of the ids that were used to unsubscribe
  removed    \* sources that were removed, or whose add was refused, at least once

vars == <<sources, order, slots, ids, alive, used, removed>>

Slot == [version : Nat \ {0}, name : Name \cup {None}, ticket : Nat]

SubscriberId == [source : Source, slot : Nat \ {0}, version : Nat \ {0}, ticket : Nat]

\* Types of the registry.
TypeOK ==
  /\ sources \subseteq Source
  /\ order \in Seq(Source)
  /\ slots \in [Source -> Seq(Slot)]
  /\ ids \subseteq SubscriberId
  /\ alive \in BOOLEAN
  /\ used \subseteq Nat
  /\ removed \subseteq Source

Init ==
  /\ sources = {}
  /\ order = << >>
  /\ slots = [s \in Source |-> << >>]
  /\ ids = {}
  /\ alive = TRUE
  /\ used = {}
  /\ removed = {}

\* Source s is taken out, its subscribers with it, and the order is rebuilt,
\* which "should never fail": expect panics when it does.
Drop(s) ==
  /\ sources' = sources \ {s}
  /\ slots' = [slots EXCEPT ![s] = << >>]
  /\ removed' = removed \cup {s}
  /\ IF Cyclic(sources \ {s})
     THEN alive' = FALSE /\ order' = << >>
     ELSE alive' = TRUE /\ order' \in Pops(sources \ {s})

RefuseKeepsEmptyOrder(s) ==
  /\ order' = << >>
  /\ removed' = removed \cup {s}
  /\ UNCHANGED <<sources, slots, alive>>

\* add after CyclicDependency: the source is removed again.
Refuse(s) == Drop(s)

AddOverwriting(s) ==
  /\ alive
  /\ IF Cyclic(sources \cup {s})
     THEN Refuse(s)
     ELSE /\ sources' = sources \cup {s}
          /\ order' \in Pops(sources \cup {s})
          /\ slots' = [slots EXCEPT ![s] = << >>]
          /\ UNCHANGED <<removed, alive>>
  /\ UNCHANGED <<ids, used>>

\* add: a source that is registered already is refused and nothing changes.
Add(s) ==
  /\ alive
  /\ s \notin sources
  /\ IF Cyclic(sources \cup {s})
     THEN Refuse(s)
     ELSE /\ sources' = sources \cup {s}
          /\ order' \in Pops(sources \cup {s})
          /\ UNCHANGED <<slots, removed, alive>>
  /\ UNCHANGED <<ids, used>>

\* remove: whether or not the source is registered.
Remove(s) ==
  /\ alive
  /\ Drop(s)
  /\ UNCHANGED <<ids, used>>

NextTicket == Cardinality(ids) + 1

Names(s) == {slots[s][k].name : k \in DOMAIN slots[s]} \ {None}

InsertVersionDown(q, n, t, k) ==
  IF k > Len(q) THEN Append(q, [version |-> 1, name |-> n, ticket |-> t])
  ELSE [q EXCEPT ![k] = [version |-> q[k].version - 1, name |-> n, ticket |-> t]]

\* SlotMap::insert in slot k: a new slot has version 1, a vacant one the next.
Insert(q, n, t, k) ==
  IF k > Len(q) THEN Append(q, [version |-> 1, name |-> n, ticket |-> t])
  ELSE [q EXCEPT ![k] = [version |-> q[k].version + 1, name |-> n, ticket |-> t]]

\* The slots that insert may use: a vacant one if there is any.
InsertAt(q) ==
  LET vacant == {k \in DOMAIN q : q[k].name = None}
  IN  IF vacant = {} THEN {Len(q) + 1} ELSE vacant

\* subscribe: refused when the source is unknown or the name is taken.
Subscribe(s, n) ==
  /\ alive
  /\ s \in sources
  /\ n \notin Names(s)
  /\ NextTicket <= MaxTicket
  /\ \E k \in InsertAt(slots[s]) :
       LET q == Insert(slots[s], n, NextTicket, k)
       IN  /\ slots' = [slots EXCEPT ![s] = q]
           /\ ids' = ids \cup {[source |-> s, slot |-> k, version |-> q[k].version,
                                ticket |-> NextTicket]}
  /\ UNCHANGED <<sources, order, alive, used, removed>>

\* The slot map of id's source has a subscriber under id.
Found(id) ==
  /\ id.source \in sources
  /\ id.slot \in DOMAIN slots[id.source]
  /\ slots[id.source][id.slot].name # None
  /\ slots[id.source][id.slot].version = id.version

\* unsubscribe: nothing happens when the source or the slot is not found.
Unsubscribe(id) ==
  /\ alive
  /\ used' = used \cup {id.ticket}
  /\ slots' = IF Found(id)
              THEN [slots EXCEPT ![id.source] =
                     [@ EXCEPT ![id.slot] = [version |-> id.version, name |-> None, ticket |-> 0]]]
              ELSE slots
  /\ UNCHANGED <<sources, order, ids, alive, removed>>

\* The actor is gone: every later call returns EventLoopError::Actor.
Dead == ~alive /\ UNCHANGED vars

Next ==
  \/ \E s \in Source : Add(s) \/ Remove(s)
  \/ \E s \in Source, n \in Name : Subscribe(s, n)
  \/ \E id \in ids : Unsubscribe(id)
  \/ Dead

Spec == Init /\ [][Next]_vars

-----------------------------------------------------------------------------
(* Properties. *)

\* What source s depends on through registered sources.
Ancestors(s) ==
  {n \in Source : \A T \in SUBSET Source :
     (Deps[s] \subseteq T /\ \A m \in T \cap sources : Deps[m] \subseteq T) => n \in T}

\* "An order that satisfies their dependencies" (EventManager): whatever was
\* added and removed, and in whatever order the sorter yields, a scheduled
\* source comes after everything that it depends on, directly or not.
DependenciesFirst ==
  \A k \in DOMAIN order : order[k] \in sources =>
    \A n \in Ancestors(order[k]) : \E j \in DOMAIN order : j < k /\ order[j] = n

\* Unless the registered sources wait for one another in a circle, each of
\* them is scheduled, exactly once.
AllScheduled ==
  alive /\ Orderly(sources) =>
    \A s \in sources : \E k \in DOMAIN order : order[k] = s /\ \A j \in DOMAIN order : order[j] = s => j = k

\* An add that is refused because of a cycle leaves the loop as it was: the
\* actor survives it, and the same sources go on being scheduled.
RefusedAddIsHarmless ==
  [][sources' = sources /\ order' # order => alive' /\ Elements(order') = Elements(order)]_vars

\* Subscription id has not been used to unsubscribe and its source is there.
Lasts(id) == id.source \in sources /\ id.ticket \notin used

Present(id) ==
  id.slot \in DOMAIN slots[id.source] /\ slots[id.source][id.slot].ticket = id.ticket

\* As long as its source was never removed, a subscription stays until its own
\* id is used: a kept copy of an older id never takes away the subscriber that
\* moved into its slot.
SubscriptionIsOwn ==
  alive => \A id \in ids : Lasts(id) /\ id.source \notin removed => Present(id)

\* "Should never fail" (the expect in EventManager::remove).
RemoveNeverFails == alive
=============================================================================
