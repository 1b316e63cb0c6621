--------------------------- MODULE EventSchedule ---------------------------
(***************************************************************************)
(* The order in which EventManager runs its event sources                  *)
(* (src/project/core/rust/core-event-loop/src/v6/manager.rs).  The order   *)
(* is what a topological sorter yields, one pop after the other, when it   *)
(* is filled with the registered sources and their dependencies.           *)
(* SortedDependentsOnly and BeforeReversed are faulty variants for the     *)
(* mutants of PROJECT.json.                                                *)
(***************************************************************************)
EXTENDS Integers, FiniteSets

CONSTANTS
  Source,  \* event sources (their TypeId)
  Deps     \* Deps[s]: EventSource::dependencies of s

ASSUME DepsAssumption == Deps \in [Source -> SUBSET Source] /\ IsFiniteSet(Source)

SortedDependentsOnly(S) == UNION {Deps[s] \cup {s} : s \in {t \in S : Deps[t] # {}}}

\* What the sorter holds when the sources S are registered: a dependency gets
\* into it even when no such source is registered.
Sorted(S) == S \cup UNION {Deps[s] : s \in S}

BeforeReversed(S, n) == {s \in S : n \in Deps[s]}

\* The elements that the sorter must yield before n.
Before(S, n) == IF n \in S THEN Deps[n] ELSE {}

Elements(q) == {q[k] : k \in DOMAIN q}

\* Every sequence of pops: each yields an element that is left and that nothing
\* left precedes, in the order of a hash map; they end when there is none.
Pops(S) ==
  {q \in UNION {[1 .. n -> Sorted(S)] : n \in 0 .. Cardinality(Sorted(S))} :
     /\ \A j, k \in DOMAIN q : q[j] = q[k] => j = k
     /\ \A k \in DOMAIN q : \A d \in Before(S, q[k]) : \E j \in DOMAIN q : j < k /\ q[j] = d
     /\ \A n \in Sorted(S) : Before(S, n) \subseteq Elements(q) => n \in Elements(q)}

\* rebuild_execution_order returns CyclicDependency: the first pop yields
\* nothing although the sorter is not empty.  Later pops are not looked at.
Cyclic(S) == Sorted(S) # {} /\ \A n \in Sorted(S) : Before(S, n) # {}

\* No set of sources of S waits only for itself.
Orderly(S) ==
  \A T \in SUBSET Sorted(S) : T # {} => \E n \in T : Before(S, n) \cap T = {}
=============================================================================
