------------------------- MODULE EventManagerProofs -------------------------
(***************************************************************************)
(* The order in which the event sources run, for any set of sources and    *)
(* any dependencies among them, cyclic ones included, and the life of      *)
(* subscriptions, for any number of them.                                  *)
(***************************************************************************)
EXTENDS EventManager, FiniteSetTheorems, WellFoundedInduction, TLAPS

\* The order comes from the sorter, or the actor has panicked; while the actor
\* lives, the sorter has a first element to yield if it has any.
OrderInv ==
  /\ sources \subseteq Source
  /\ alive => ~Cyclic(sources)
  /\ order \in Pops(sources) \/ (~alive /\ order = << >>)

-----------------------------------------------------------------------------
\* What the sorter yields for registered sources are sources.
LEMMA SortedSources ==
  ASSUME NEW S \in SUBSET Source
  PROVE  Sorted(S) \subseteq Source
BY DepsAssumption DEF Sorted

\* A sequence of pops is a sequence, and lists everything before an element of
\* it at an earlier position.
LEMMA PopsFacts ==
  ASSUME NEW S \in SUBSET Source, NEW q \in Pops(S)
  PROVE  /\ q \in Seq(Source)
         /\ \A j \in DOMAIN q, k \in DOMAIN q : q[j] = q[k] => j = k
         /\ \A k \in DOMAIN q : \A d \in Before(S, q[k]) : \E j \in DOMAIN q : j < k /\ q[j] = d
         /\ \A n \in Sorted(S) : Before(S, n) \subseteq Elements(q) => n \in Elements(q)
<1>1. PICK n \in 0 .. Cardinality(Sorted(S)) : q \in [1 .. n -> Sorted(S)]
  BY DEF Pops
<1>2. n \in Nat
  BY <1>1
<1>3. q \in [1 .. n -> Source]
  BY <1>1, SortedSources
<1>4. q \in Seq(Source)
  BY <1>2, <1>3
<1>5. QED
  BY <1>4 DEF Pops

\* The sorter starts empty when nothing is registered.
LEMMA NoPops == << >> \in Pops({})
<1>1. Sorted({}) = {}
  BY DEF Sorted
<1>2. Cardinality(Sorted({})) = 0
  BY <1>1, FS_EmptySet
<1>3. << >> \in [1 .. 0 -> Sorted({})]
  OBVIOUS
<1>4. << >> \in UNION {[1 .. n -> Sorted({})] : n \in 0 .. Cardinality(Sorted({}))}
  BY <1>2, <1>3
<1>5. QED
  BY <1>1, <1>4 DEF Pops

LEMMA InitOrder == Init => OrderInv
BY NoPops DEF Init, OrderInv, Cyclic, Sorted

\* Every operation leaves an order that the sorter yields for what is
\* registered then; remove may end the actor.
LEMMA NextOrder == OrderInv /\ [Next]_vars => OrderInv'
<1> SUFFICES ASSUME OrderInv, [Next]_vars
             PROVE  OrderInv'
  OBVIOUS
<1>1. ASSUME NEW s \in Source, Drop(s)
      PROVE  OrderInv'
  BY <1>1 DEF Drop, OrderInv
<1>2. ASSUME NEW s \in Source, Add(s)
      PROVE  OrderInv'
  <2>1. CASE Cyclic(sources \cup {s})
    BY <2>1, <1>1, <1>2 DEF Add, Refuse
  <2>2. CASE ~Cyclic(sources \cup {s})
    BY <2>2, <1>2 DEF Add, OrderInv
  <2>3. QED
    BY <2>1, <2>2
<1>3. ASSUME NEW s \in Source, Remove(s)
      PROVE  OrderInv'
  BY <1>1, <1>3 DEF Remove
<1>4. ASSUME NEW s \in Source, NEW n \in Name, Subscribe(s, n)
      PROVE  OrderInv'
  BY <1>4 DEF Subscribe, OrderInv
<1>5. ASSUME NEW id \in ids, Unsubscribe(id)
      PROVE  OrderInv'
  BY <1>5 DEF Unsubscribe, OrderInv
<1>6. CASE UNCHANGED vars
  BY <1>6 DEF vars, OrderInv
<1>7. QED
  BY <1>2, <1>3, <1>4, <1>5, <1>6 DEF Next, Dead

LEMMA OrderInvariant == Spec => []OrderInv
BY InitOrder, NextOrder, PTL DEF Spec

-----------------------------------------------------------------------------
\* A scheduled source comes after all that it depends on: the elements before
\* it contain its dependencies and are closed under dependency themselves.
LEMMA OrderRespects == OrderInv => DependenciesFirst
<1> SUFFICES ASSUME OrderInv,
                    NEW k \in DOMAIN order, order[k] \in sources,
                    NEW n \in Ancestors(order[k])
             PROVE  \E j \in DOMAIN order : j < k /\ order[j] = n
  BY DEF DependenciesFirst
<1>1. order \in Pops(sources)
  BY DEF OrderInv
<1>2. sources \in SUBSET Source
  BY DEF OrderInv
<1> DEFINE T == {order[j] : j \in {i \in DOMAIN order : i < k}}
<1>3. order \in Seq(Source)
  BY <1>1, <1>2, PopsFacts
<1>4. DOMAIN order \subseteq Nat
  BY <1>3
<1>5. \A i \in DOMAIN order : \A d \in Before(sources, order[i]) :
        \E j \in DOMAIN order : j < i /\ order[j] = d
  BY <1>1, <1>2, PopsFacts
<1>6. T \in SUBSET Source
  BY <1>3
<1>7. Deps[order[k]] \subseteq T
  BY <1>5 DEF Before
<1>8. ASSUME NEW m \in T \cap sources
      PROVE  Deps[m] \subseteq T
  <2>1. PICK i \in DOMAIN order : i < k /\ m = order[i]
    BY <1>8
  <2>2. SUFFICES ASSUME NEW d \in Deps[m] PROVE d \in T
    OBVIOUS
  <2>3. PICK j \in DOMAIN order : j < i /\ order[j] = d
    BY <2>1, <2>2, <1>5, <1>8 DEF Before
  <2>4. j < k
    BY <2>1, <2>3, <1>4
  <2>5. QED
    BY <2>3, <2>4
<1>9. n \in T
  BY <1>6, <1>7, <1>8 DEF Ancestors
<1>10. QED
  BY <1>9

\* The registry never schedules a source before what it depends on, directly or
\* through other sources (EventManager::rebuild_execution_order), whatever the
\* dependencies are and whichever ready source the sorter yields.
THEOREM SourcesRunInOrder == Spec => []DependenciesFirst
BY OrderInvariant, OrderRespects, PTL

\* Sources without a circle among them are all scheduled: what is left over
\* would have an element that nothing left over precedes.
LEMMA OrderComplete == OrderInv => AllScheduled
<1> SUFFICES ASSUME OrderInv, alive, Orderly(sources), NEW s \in sources
             PROVE  \E k \in DOMAIN order :
                      order[k] = s /\ \A j \in DOMAIN order : order[j] = s => j = k
  BY DEF AllScheduled
<1>1. order \in Pops(sources)
  BY DEF OrderInv
<1>2. sources \in SUBSET Source
  BY DEF OrderInv
<1>3. \A n \in Sorted(sources) : Before(sources, n) \subseteq Elements(order) => n \in Elements(order)
  BY <1>1, <1>2, PopsFacts
<1> DEFINE Left == Sorted(sources) \ Elements(order)
<1>4. \A n \in Sorted(sources) : Before(sources, n) \subseteq Sorted(sources)
  BY DEF Before, Sorted
<1>5. Left = {}
  <2>1. SUFFICES ASSUME Left # {} PROVE FALSE
    OBVIOUS
  <2>2. PICK n \in Left : Before(sources, n) \cap Left = {}
    BY <2>1 DEF Orderly
  <2>3. Before(sources, n) \subseteq Elements(order)
    BY <2>2, <1>4
  <2>4. QED
    BY <2>2, <2>3, <1>3
<1>6. s \in Elements(order)
  BY <1>5 DEF Sorted
<1>7. PICK k \in DOMAIN order : order[k] = s
  BY <1>6 DEF Elements
<1>8. \A j \in DOMAIN order : order[j] = s => j = k
  BY <1>1, <1>2, <1>7, PopsFacts
<1>9. QED
  BY <1>7, <1>8

\* Sources whose dependencies form no circle are all scheduled, each once,
\* however they were added and removed (rebuild_execution_order).
THEOREM EverySourceRuns == Spec => []AllScheduled
BY OrderInvariant, OrderComplete, PTL

-----------------------------------------------------------------------------
\* A set of natural numbers that is not empty has a least element.
LEMMA LeastNumber ==
  ASSUME NEW T \in SUBSET Nat, T # {}
  PROVE  \E k \in T : \A j \in T : ~(j < k)
<1> DEFINE R == OpToRel(<, Nat)
<1>1. \E k \in T : \A j \in T : <<j, k>> \notin R
  <2>1. IsWellFoundedOn(R, Nat)
    BY NatLessThanWellFounded
  <2> HIDE DEF R
  <2>2. QED
    BY <2>1, WFMin
<1>2. \A j \in T, k \in T : j < k => <<j, k>> \in R
  BY DEF OpToRel
<1>3. QED
  BY <1>1, <1>2

\* What one sequence of pops yields, every other one yields too: the first
\* element that the other missed would be ready there.
LEMMA PopsWithin ==
  ASSUME NEW S \in SUBSET Source, NEW p \in Pops(S), NEW q \in Pops(S)
  PROVE  Elements(p) \subseteq Elements(q)
<1> DEFINE Missed == {k \in DOMAIN p : p[k] \notin Elements(q)}
<1>1. p \in Seq(Source)
  BY PopsFacts
<1>2. Missed \in SUBSET Nat
  BY <1>1
<1>3. \A k \in DOMAIN p : p[k] \in Sorted(S)
  BY DEF Pops
<1>4. Missed = {}
  <2>1. SUFFICES ASSUME Missed # {} PROVE FALSE
    OBVIOUS
  <2>2. PICK k \in Missed : \A j \in Missed : ~(j < k)
    BY <1>2, <2>1, LeastNumber
  <2>3. \A d \in Before(S, p[k]) : \E j \in DOMAIN p : j < k /\ p[j] = d
    BY <2>2, PopsFacts
  <2>4. Before(S, p[k]) \subseteq Elements(q)
    BY <2>2, <2>3
  <2>5. \A n \in Sorted(S) : Before(S, n) \subseteq Elements(q) => n \in Elements(q)
    BY PopsFacts
  <2>6. QED
    BY <2>2, <2>4, <2>5, <1>3
<1>5. QED
  BY <1>4 DEF Elements

\* An add that is refused for a cycle, and a remove of a source that is not
\* there, leave the same sources scheduled and the actor alive
\* (EventManager::add and remove).
THEOREM RefusedAddChangesNothing == Spec => RefusedAddIsHarmless
<1> DEFINE A == sources' = sources /\ order' # order => alive' /\ Elements(order') = Elements(order)
<1>1. OrderInv /\ [Next]_vars => [A]_vars
  <2> SUFFICES ASSUME OrderInv, Next, sources' = sources, order' # order
               PROVE  alive' /\ Elements(order') = Elements(order)
    OBVIOUS
  <2>1. ASSUME NEW s \in Source, alive, Drop(s)
        PROVE  alive' /\ Elements(order') = Elements(order)
    <3>1. sources \ {s} = sources
      BY <2>1 DEF Drop
    <3>2. alive' /\ order' \in Pops(sources)
      BY <2>1, <3>1 DEF Drop, OrderInv
    <3>3. order \in Pops(sources) /\ sources \in SUBSET Source
      BY <2>1 DEF OrderInv
    <3>4. QED
      BY <3>2, <3>3, PopsWithin
  <2>2. ASSUME NEW s \in Source, Add(s)
        PROVE  alive' /\ Elements(order') = Elements(order)
    <3>1. CASE Cyclic(sources \cup {s})
      BY <3>1, <2>1, <2>2 DEF Add, Refuse
    <3>2. CASE ~Cyclic(sources \cup {s})
      BY <3>2, <2>2 DEF Add
    <3>3. QED
      BY <3>1, <3>2
  <2>3. ASSUME NEW s \in Source, Remove(s)
        PROVE  alive' /\ Elements(order') = Elements(order)
    BY <2>1, <2>3 DEF Remove
  <2>4. ASSUME NEW s \in Source, NEW n \in Name, Subscribe(s, n)
        PROVE  FALSE
    BY <2>4 DEF Subscribe
  <2>5. ASSUME NEW id \in ids, Unsubscribe(id)
        PROVE  FALSE
    BY <2>5 DEF Unsubscribe
  <2>6. CASE Dead
    BY <2>6 DEF Dead, vars
  <2>7. QED
    BY <2>2, <2>3, <2>4, <2>5, <2>6 DEF Next
<1>2. QED
  BY <1>1, OrderInvariant, PTL DEF Spec, RefusedAddIsHarmless

-----------------------------------------------------------------------------
(* Subscriptions. *)

\* Tickets count the ids that were handed out.
Tickets ==
  /\ IsFiniteSet(ids)
  /\ \A id \in ids : id.ticket \in 1 .. Cardinality(ids)

\* A vacant slot holds no subscription.
VacantSlots ==
  \A s \in Source : \A k \in DOMAIN slots[s] : slots[s][k].name = None => slots[s][k].ticket = 0

\* The slot of an id keeps its place and never gets an older version, and a
\* subscriber that is found under the version of the id is the one of the id.
SlotOf(id) ==
  /\ id.slot \in DOMAIN slots[id.source]
  /\ id.version <= slots[id.source][id.slot].version
  /\ slots[id.source][id.slot].name # None /\ slots[id.source][id.slot].version = id.version =>
       slots[id.source][id.slot].ticket = id.ticket

\* A subscription whose id was not used to unsubscribe is where it was put.
Own(id) == SlotOf(id) /\ (id.ticket \notin used => Present(id))

OwnInv ==
  /\ TypeOK
  /\ Tickets
  /\ VacantSlots
  /\ \A id \in ids : id.source \notin removed => Own(id)

LEMMA InitOwn == Init => OwnInv
<1> SUFFICES ASSUME Init PROVE OwnInv
  OBVIOUS
<1>1. TypeOK
  <2>1. << >> \in Seq(Source) /\ << >> \in Seq(Slot)
    OBVIOUS
  <2>2. QED
    BY <2>1 DEF Init, TypeOK
<1>2. Tickets
  BY FS_EmptySet DEF Init, Tickets
<1>3. QED
  BY <1>1, <1>2 DEF Init, OwnInv, VacantSlots

\* What insert does to a slot map: r is q with the subscriber n in slot k.
Inserted(q, n, t, k, r) ==
  /\ r \in Seq(Slot)
  /\ k \in Nat \ {0} /\ k \in DOMAIN r /\ DOMAIN q \subseteq DOMAIN r
  /\ DOMAIN r = DOMAIN q \cup {k}
  /\ \A j \in DOMAIN q : j # k => r[j] = q[j]
  /\ r[k].name = n /\ r[k].ticket = t /\ r[k].version \in Nat \ {0}
  /\ k \in DOMAIN q => q[k].name = None /\ r[k].version = q[k].version + 1

LEMMA InsertFacts ==
  ASSUME NEW q \in Seq(Slot), NEW n \in Name, NEW t \in Nat, NEW k \in InsertAt(q),
         NEW r, r = Insert(q, n, t, k)
  PROVE  Inserted(q, n, t, k, r)
<1> USE DEF Inserted
<1>1. Len(q) \in Nat /\ DOMAIN q = 1 .. Len(q)
  OBVIOUS
<1>2. CASE {j \in DOMAIN q : q[j].name = None} = {}
  <2>1. k = Len(q) + 1
    BY <1>2 DEF InsertAt
  <2> DEFINE e == [version |-> 1, name |-> n, ticket |-> t]
  <2>2. e \in Slot
    BY DEF Slot
  <2>3. r = Append(q, e)
    BY <1>1, <2>1 DEF Insert
  <2>4. e.name = n /\ e.ticket = t /\ e.version = 1
    OBVIOUS
  <2> HIDE DEF e
  <2>5. r \in Seq(Slot) /\ DOMAIN r = 1 .. Len(q) + 1 /\ r[k] = e /\ \A j \in DOMAIN q : r[j] = q[j]
    BY <1>1, <2>1, <2>2, <2>3
  <2>6. k \notin DOMAIN q /\ DOMAIN r = DOMAIN q \cup {k} /\ k \in Nat \ {0}
    <3>1. \A j \in DOMAIN r : j \in DOMAIN q \/ j = k
      BY <1>1, <2>1, <2>5
    <3>2. \A j \in DOMAIN q : j \in DOMAIN r
      BY <1>1, <2>1, <2>5
    <3>3. k \in DOMAIN r /\ k \notin DOMAIN q /\ k \in Nat \ {0}
      BY <1>1, <2>1, <2>5
    <3>4. QED
      BY <3>1, <3>2, <3>3
  <2>7. QED
    BY <2>4, <2>5, <2>6
<1>3. CASE {j \in DOMAIN q : q[j].name = None} # {}
  <2>1. k \in DOMAIN q /\ q[k].name = None
    BY <1>3 DEF InsertAt
  <2> DEFINE e == [version |-> q[k].version + 1, name |-> n, ticket |-> t]
  <2>2. q[k] \in Slot
    BY <2>1
  <2>3. q[k].version \in Nat \ {0}
    BY <2>2 DEF Slot
  <2>4. e \in Slot /\ q[k].version + 1 \in Nat \ {0}
    BY <2>3 DEF Slot
  <2>5. r = [q EXCEPT ![k] = e]
    <3>1. ~(k > Len(q))
      BY <1>1, <2>1
    <3>2. QED
      BY <3>1 DEF Insert
  <2>6. e.name = n /\ e.ticket = t /\ e.version = q[k].version + 1
    OBVIOUS
  <2> HIDE DEF e
  <2>7. r \in Seq(Slot) /\ DOMAIN r = DOMAIN q /\ r[k] = e /\ \A j \in DOMAIN q : j # k => r[j] = q[j]
    BY <1>1, <2>1, <2>4, <2>5
  <2>8. QED
    BY <1>1, <2>1, <2>4, <2>6, <2>7
<1>4. QED
  BY <1>2, <1>3

\* A source is dropped: the ids of the other sources do not notice.
LEMMA DropOwn ==
  ASSUME OwnInv, NEW s \in Source, Drop(s), UNCHANGED <<ids, used>>
  PROVE  OwnInv'
<1>1. << >> \in Seq(Slot) /\ << >> \in Seq(Source) /\ sources \ {s} \in SUBSET Source
  BY DEF OwnInv, TypeOK
<1>2. slots' = [slots EXCEPT ![s] = << >>] /\ removed' = removed \cup {s}
  BY DEF Drop
<1>3. slots'[s] = << >> /\ \A t \in Source : t # s => slots'[t] = slots[t]
  BY <1>2 DEF OwnInv, TypeOK
<1>4. order' \in Seq(Source) /\ alive' \in BOOLEAN
  BY <1>1, PopsFacts DEF Drop
<1>5. TypeOK'
  <2>1. slots' \in [Source -> Seq(Slot)]
    BY <1>1, <1>2 DEF OwnInv, TypeOK
  <2>2. QED
    BY <1>2, <1>4, <2>1 DEF OwnInv, TypeOK, Drop
<1>6. Tickets'
  BY DEF OwnInv, Tickets
<1>7. VacantSlots'
  BY <1>3 DEF OwnInv, VacantSlots
<1>8. ASSUME NEW id \in ids, id.source \notin removed'
      PROVE  Own(id)'
  <2>1. Own(id) /\ id.source # s /\ id.source \in Source
    BY <1>2, <1>8 DEF OwnInv, TypeOK, SubscriberId
  <2>2. slots'[id.source] = slots[id.source]
    BY <1>3, <2>1
  <2>3. QED
    BY <2>1, <2>2 DEF Own, SlotOf, Present
<1>9. QED
  BY <1>5, <1>6, <1>7, <1>8 DEF OwnInv

\* A new subscription: its ticket is new, and it takes no slot that is in use.
LEMMA SubscribeOwn ==
  ASSUME OwnInv, NEW s \in Source, NEW n \in Name, Subscribe(s, n)
  PROVE  OwnInv'
<1> DEFINE q == slots[s]
           t == Cardinality(ids) + 1
<1>1. PICK k \in InsertAt(q) :
        /\ slots' = [slots EXCEPT ![s] = Insert(q, n, t, k)]
        /\ ids' = ids \cup {[source |-> s, slot |-> k, version |-> Insert(q, n, t, k)[k].version,
                             ticket |-> t]}
  BY DEF Subscribe, NextTicket
<1> DEFINE r == Insert(q, n, t, k)
           new == [source |-> s, slot |-> k, version |-> r[k].version, ticket |-> t]
<1>2. q \in Seq(Slot) /\ Cardinality(ids) \in Nat /\ t \in Nat \ {0}
  BY FS_CardinalityType DEF OwnInv, TypeOK, Tickets
<1>3. /\ r \in Seq(Slot)
      /\ k \in Nat \ {0} /\ k \in DOMAIN r /\ DOMAIN q \subseteq DOMAIN r
      /\ DOMAIN r = DOMAIN q \cup {k}
      /\ \A j \in DOMAIN q : j # k => r[j] = q[j]
      /\ r[k].name = n /\ r[k].ticket = t /\ r[k].version \in Nat \ {0}
      /\ k \in DOMAIN q => q[k].name = None /\ r[k].version = q[k].version + 1
  <2>1. r = Insert(q, n, t, k) /\ t \in Nat /\ q \in Seq(Slot) /\ k \in InsertAt(q)
    BY <1>1, <1>2
  <2> HIDE DEF q, t, r
  <2>2. QED
    <3>1. Inserted(q, n, t, k, r)
      BY <2>1, InsertFacts
    <3>2. QED
      BY <3>1 DEF Inserted
<1>4. slots' = [slots EXCEPT ![s] = r] /\ ids' = ids \cup {new} /\ UNCHANGED <<sources, order, alive, used, removed>>
  BY <1>1 DEF Subscribe
<1>5. new \in SubscriberId /\ new.source = s /\ new.slot = k /\ new.version = r[k].version /\ new.ticket = t
  BY <1>2, <1>3 DEF SubscriberId
<1> HIDE DEF r, new, t
<1>6. slots'[s] = r /\ \A u \in Source : u # s => slots'[u] = slots[u]
  BY <1>4 DEF OwnInv, TypeOK
<1>7. TypeOK'
  <2>1. slots' \in [Source -> Seq(Slot)]
    BY <1>3, <1>4 DEF OwnInv, TypeOK
  <2>2. QED
    BY <1>4, <1>5, <2>1 DEF OwnInv, TypeOK
<1>8. Tickets'
  <2>1. new \notin ids
    BY <1>2, <1>5 DEF OwnInv, Tickets, t
  <2>2. IsFiniteSet(ids') /\ Cardinality(ids') = Cardinality(ids) + 1
    BY <1>4, <2>1, FS_AddElement DEF OwnInv, Tickets
  <2>3. SUFFICES ASSUME NEW id \in ids' PROVE id.ticket \in 1 .. Cardinality(ids) + 1
    BY <2>2 DEF Tickets
  <2>4. CASE id \in ids
    BY <2>4, <1>2 DEF OwnInv, Tickets
  <2>5. CASE id = new
    BY <2>5, <1>2, <1>5 DEF t
  <2>6. QED
    BY <1>4, <2>4, <2>5
<1>9. VacantSlots'
  <2>1. n # None
    BY RegistryAssumption
  <2>2. SUFFICES ASSUME NEW u \in Source, NEW j \in DOMAIN slots'[u], slots'[u][j].name = None
                 PROVE  slots'[u][j].ticket = 0
    BY DEF VacantSlots
  <2>3. CASE u # s
    BY <2>2, <2>3, <1>6 DEF OwnInv, VacantSlots
  <2>4. CASE u = s
    <3>1. j # k /\ j \in DOMAIN q /\ r[j] = q[j]
      BY <2>1, <2>2, <2>4, <1>3, <1>6
    <3>2. QED
      BY <2>2, <2>4, <3>1, <1>6 DEF OwnInv, VacantSlots
  <2>5. QED
    BY <2>3, <2>4
<1>10. ASSUME NEW id \in ids', id.source \notin removed'
       PROVE  Own(id)'
  <2>1. CASE id = new
    BY <2>1, <1>3, <1>5, <1>6 DEF Own, SlotOf, Present
  <2>2. CASE id \in ids /\ id.source # s
    <3>1. slots'[id.source] = slots[id.source] /\ Own(id)
      BY <2>2, <1>4, <1>6, <1>10 DEF OwnInv, TypeOK, SubscriberId
    <3>2. QED
      BY <3>1, <1>4 DEF Own, SlotOf, Present
  <2>3. CASE id \in ids /\ id.source = s
    <3>1. Own(id) /\ id.slot \in DOMAIN q /\ id.version \in Nat /\ id.ticket \in Nat /\ id.ticket # 0
      BY <2>3, <1>2, <1>4, <1>10 DEF OwnInv, TypeOK, SubscriberId, Tickets, Own, SlotOf
    <3>2. CASE id.slot # k
      <4>1. slots'[id.source][id.slot] = slots[id.source][id.slot] /\ id.slot \in DOMAIN slots'[id.source]
        BY <2>3, <3>1, <3>2, <1>3, <1>6
      <4>2. QED
        BY <3>1, <4>1, <1>4 DEF Own, SlotOf, Present
    <3>3. CASE id.slot = k
      <4>1. q[k].name = None /\ r[k].version = q[k].version + 1 /\ q[k].version \in Nat
        <5>1. k \in DOMAIN q /\ q[k] \in Slot
          BY <3>1, <3>3, <1>2
        <5>2. QED
          BY <5>1, <1>3 DEF Slot
      <4>2. q[k].ticket = 0
        BY <3>1, <3>3, <4>1 DEF OwnInv, VacantSlots
      <4>3. ~Present(id)
        BY <2>3, <3>1, <3>3, <4>2 DEF Present
      <4>4. id.ticket \in used
        BY <3>1, <4>3 DEF Own
      <4>5. id.version < r[k].version
        BY <2>3, <3>1, <3>3, <4>1 DEF Own, SlotOf
      <4>6. SlotOf(id)'
        BY <2>3, <3>1, <3>3, <4>1, <4>5, <1>3, <1>6 DEF SlotOf
      <4>7. QED
        BY <4>4, <4>6, <1>4 DEF Own
    <3>4. QED
      BY <3>2, <3>3
  <2>4. QED
    BY <2>1, <2>2, <2>3, <1>4
<1>11. QED
  BY <1>7, <1>8, <1>9, <1>10 DEF OwnInv

\* An id is used: a subscriber that is found under it is its own.
LEMMA UnsubscribeOwn ==
  ASSUME OwnInv, NEW old \in ids, Unsubscribe(old)
  PROVE  OwnInv'
<1>1. /\ old.source \in Source /\ old.slot \in Nat /\ old.version \in Nat \ {0}
      /\ old.ticket \in Nat /\ used' = used \cup {old.ticket}
      /\ UNCHANGED <<sources, order, ids, alive, removed>>
  BY DEF OwnInv, TypeOK, SubscriberId, Unsubscribe
<1>2. Tickets'
  BY <1>1 DEF OwnInv, Tickets
<1>3. CASE ~Found(old)
  <2>1. slots' = slots
    BY <1>3 DEF Unsubscribe
  <2>2. TypeOK' /\ VacantSlots'
    BY <1>1, <2>1 DEF OwnInv, TypeOK, VacantSlots
  <2>3. ASSUME NEW id \in ids, id.source \notin removed
        PROVE  Own(id)'
    BY <1>1, <2>1, <2>3 DEF OwnInv, Own, SlotOf, Present
  <2>4. QED
    BY <1>1, <1>2, <2>2, <2>3 DEF OwnInv
<1>4. CASE Found(old)
  <2> DEFINE s == old.source
             q == slots[s]
             k == old.slot
             e == [version |-> old.version, name |-> None, ticket |-> 0]
  <2>1. /\ k \in DOMAIN q /\ q[k].name # None /\ q[k].version = old.version
        /\ slots' = [slots EXCEPT ![s] = [q EXCEPT ![k] = e]]
    BY <1>4 DEF Found, Unsubscribe
  <2>2. q \in Seq(Slot) /\ e \in Slot
    BY <1>1 DEF OwnInv, TypeOK, Slot
  <2>3. e.name = None /\ e.ticket = 0 /\ e.version = old.version
    OBVIOUS
  <2> HIDE DEF e
  <2> DEFINE r == [q EXCEPT ![k] = e]
  <2>4. r \in Seq(Slot) /\ DOMAIN r = DOMAIN q /\ r[k] = e /\ \A j \in DOMAIN q : j # k => r[j] = q[j]
    BY <2>1, <2>2
  <2>5. slots' = [slots EXCEPT ![s] = r]
    BY <2>1
  <2> HIDE DEF r
  <2>6. slots'[s] = r /\ \A u \in Source : u # s => slots'[u] = slots[u]
    BY <1>1, <2>5 DEF OwnInv, TypeOK
  <2>7. TypeOK'
    <3>1. slots' \in [Source -> Seq(Slot)]
      BY <2>4, <2>5 DEF OwnInv, TypeOK
    <3>2. QED
      BY <1>1, <3>1 DEF OwnInv, TypeOK
  <2>8. VacantSlots'
    <3>1. SUFFICES ASSUME NEW u \in Source, NEW j \in DOMAIN slots'[u], slots'[u][j].name = None
                   PROVE  slots'[u][j].ticket = 0
      BY DEF VacantSlots
    <3>2. CASE u = s /\ j = k
      BY <3>2, <2>3, <2>4, <2>6
    <3>3. CASE u = s /\ j # k
      BY <3>1, <3>3, <2>4, <2>6 DEF OwnInv, VacantSlots
    <3>4. CASE u # s
      BY <3>1, <3>4, <2>6 DEF OwnInv, VacantSlots
    <3>5. QED
      BY <3>2, <3>3, <3>4
  <2>9. ASSUME NEW id \in ids, id.source \notin removed
        PROVE  Own(id)'
    <3>1. Own(id) /\ id.source \in Source
      BY <2>9 DEF OwnInv, TypeOK, SubscriberId
    <3>2. CASE id.source # s
      <4>1. slots'[id.source] = slots[id.source]
        BY <3>1, <3>2, <2>6
      <4>2. QED
        BY <3>1, <4>1, <1>1 DEF Own, SlotOf, Present
    <3>3. CASE id.source = s /\ id.slot # k
      <4>1. id.slot \in DOMAIN r /\ r[id.slot] = q[id.slot]
        BY <3>1, <3>3, <2>4 DEF Own, SlotOf
      <4>2. QED
        BY <3>1, <3>3, <4>1, <2>4, <2>6, <1>1 DEF Own, SlotOf, Present
    <3>4. CASE id.source = s /\ id.slot = k
      <4>1. Own(old)
        BY <2>9, <3>4 DEF OwnInv
      <4>2. q[k].ticket = old.ticket
        BY <2>1, <4>1 DEF Own, SlotOf
      <4>3. id.ticket \in used'
        <5>1. CASE id.ticket \in used
          BY <5>1, <1>1
        <5>2. CASE id.ticket \notin used
          BY <5>2, <3>1, <3>4, <4>2, <1>1 DEF Own, Present
        <5>3. QED
          BY <5>1, <5>2
      <4>4. SlotOf(id)'
        BY <3>1, <3>4, <2>1, <2>3, <2>4, <2>6 DEF Own, SlotOf
      <4>5. QED
        BY <4>3, <4>4 DEF Own
    <3>5. QED
      BY <3>2, <3>3, <3>4
  <2>10. QED
    BY <1>1, <1>2, <2>7, <2>8, <2>9 DEF OwnInv
<1>5. QED
  BY <1>3, <1>4

LEMMA NextOwn == OwnInv /\ [Next]_vars => OwnInv'
<1> SUFFICES ASSUME OwnInv, [Next]_vars
             PROVE  OwnInv'
  OBVIOUS
<1>1. ASSUME NEW s \in Source, Add(s)
      PROVE  OwnInv'
  <2>1. CASE Cyclic(sources \cup {s})
    BY <2>1, <1>1, DropOwn DEF Add, Refuse
  <2>2. CASE ~Cyclic(sources \cup {s})
    <3>1. sources \cup {s} \in SUBSET Source
      BY DEF OwnInv, TypeOK
    <3>2. sources' = sources \cup {s} /\ order' \in Seq(Source) /\ UNCHANGED <<slots, removed, alive, ids, used>>
      BY <2>2, <3>1, <1>1, PopsFacts DEF Add
    <3>3. TypeOK'
      BY <3>1, <3>2 DEF OwnInv, TypeOK
    <3>4. QED
      BY <3>2, <3>3 DEF OwnInv, Tickets, VacantSlots, Own, SlotOf, Present
  <2>3. QED
    BY <2>1, <2>2
<1>2. ASSUME NEW s \in Source, Remove(s)
      PROVE  OwnInv'
  BY <1>2, DropOwn DEF Remove
<1>3. ASSUME NEW s \in Source, NEW n \in Name, Subscribe(s, n)
      PROVE  OwnInv'
  BY <1>3, SubscribeOwn
<1>4. ASSUME NEW id \in ids, Unsubscribe(id)
      PROVE  OwnInv'
  BY <1>4, UnsubscribeOwn
<1>5. CASE UNCHANGED vars
  BY <1>5 DEF vars, OwnInv, TypeOK, Tickets, VacantSlots, Own, SlotOf, Present
<1>6. QED
  BY <1>1, <1>2, <1>3, <1>4, <1>5 DEF Next, Dead

LEMMA OwnInvariant == Spec => []OwnInv
BY InitOwn, NextOwn, PTL DEF Spec

\* The registry's variables keep their types.
THEOREM TypeCorrect == Spec => []TypeOK
<1>1. OwnInv => TypeOK
  BY DEF OwnInv
<1>2. QED
  BY <1>1, OwnInvariant, PTL

\* EventManager::unsubscribe never takes away another subscriber than its own:
\* a slot that is given to a new subscriber has a version that no earlier id of
\* the source has.
THEOREM OnlyOwnIdUnsubscribes == Spec => []SubscriptionIsOwn
<1>1. OwnInv => SubscriptionIsOwn
  BY DEF OwnInv, Own, Lasts, SubscriptionIsOwn
<1>2. QED
  BY <1>1, OwnInvariant, PTL
=============================================================================
