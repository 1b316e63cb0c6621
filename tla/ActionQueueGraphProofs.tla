----------------------- MODULE ActionQueueGraphProofs -----------------------
(***************************************************************************)
(* The dependency tables stay free of cycles and of dangling rows, and     *)
(* what runs waits for nothing.                                            *)
(***************************************************************************)
EXTENDS ActionQueueProofs

-----------------------------------------------------------------------------
(* Graphs. *)

\* Every nonempty set of actions has one that waits for none of the set.
NoCycle(E) ==
  \A S \in SUBSET Id : S # {} => \E n \in S : \A p \in E : p[1] = n => p[2] \notin S

\* A closure holds its start, and is closed.
LEMMA ClosureClosed ==
  ASSUME NEW S \in SUBSET Id, NEW E \in SUBSET (Id \X Id)
  PROVE  /\ S \subseteq Closure(S, E)
         /\ \A p \in E : p[1] \in Closure(S, E) => p[2] \in Closure(S, E)
  BY DEF Closure

\* It is the smallest such set.
LEMMA ClosureLeast ==
  ASSUME NEW S, NEW E, NEW T \in SUBSET Id,
         S \subseteq T, \A p \in E : p[1] \in T => p[2] \in T
  PROVE  Closure(S, E) \subseteq T
  BY DEF Closure

\* Whatever a closure adds has a predecessor in it.
LEMMA ClosureReached ==
  ASSUME NEW S \in SUBSET Id, NEW E \in SUBSET (Id \X Id), NEW n \in Closure(S, E), n \notin S
  PROVE  \E p \in E : p[1] \in Closure(S, E) /\ p[2] = n
<1> SUFFICES ASSUME \A p \in E : p[1] \in Closure(S, E) => p[2] # n PROVE FALSE
  OBVIOUS
<1> DEFINE T == Closure(S, E) \ {n}
<1>1. T \in SUBSET Id
  BY DEF Closure
<1>2. S \subseteq T
  BY ClosureClosed
<1>3. \A p \in E : p[1] \in T => p[2] \in T
  BY ClosureClosed
<1> HIDE DEF T
<1>4. Closure(S, E) \subseteq T
  BY <1>1, <1>2, <1>3, ClosureLeast
<1>5. QED
  BY <1>4 DEF T

\* The heart of the cycle check: when only the dependencies of action i change
\* in a graph without cycles, one pop of the sorter is enough to see a new one.
LEMMA FirstPopSuffices ==
  ASSUME NEW i \in Id, NEW E \in SUBSET (Id \X Id), NEW F \in SUBSET (Id \X Id),
         NoCycle(E), \A p \in F : p[1] # i => p \in E, ~CycleFound(i, F)
  PROVE  NoCycle(F)
<1> SUFFICES ASSUME NEW S \in SUBSET Id, S # {},
                    \A n \in S : \E p \in F : p[1] = n /\ p[2] \in S
             PROVE  FALSE
  BY DEF NoCycle
<1>1. i \in S
  <2> SUFFICES ASSUME i \notin S PROVE FALSE
    OBVIOUS
  <2>1. \A n \in S : \E p \in E : p[1] = n /\ p[2] \in S
    OBVIOUS
  <2>2. QED
    BY <2>1 DEF NoCycle
<1> DEFINE R == Closure({i}, F)
           T == S \cap R
<1>2. i \in R /\ (\A p \in F : p[1] \in R => p[2] \in R) /\ R \in SUBSET Id
  BY ClosureClosed DEF Closure
<1>3. \A n \in T : \E p \in F : p[1] = n /\ p[2] \in T
  BY <1>2
<1>4. PICK n \in R : \A p \in F : p[1] \in R => p[2] # n
  <2>1. {p \in F : p[1] \in R} # {}
    BY <1>1, <1>2, <1>3
  <2>2. QED
    BY <2>1 DEF CycleFound
<1>5. n = i
  <2>1. {i} \in SUBSET Id
    OBVIOUS
  <2> HIDE DEF T
  <2>2. n \notin {i} => \E p \in F : p[1] \in Closure({i}, F) /\ p[2] = n
    BY <2>1, ClosureReached
  <2>3. QED
    BY <1>4, <2>2
<1>6. T \ {i} # {} /\ \A m \in T \ {i} : \E p \in E : p[1] = m /\ p[2] \in T \ {i}
  <2>1. \A m \in T : \E p \in F : p[1] = m /\ p[2] \in T \ {i}
    BY <1>3, <1>4, <1>5
  <2>2. i \in T
    BY <1>1, <1>2
  <2>3. QED
    BY <2>1, <2>2
<1> DEFINE U == T \ {i}
<1>7. U \in SUBSET Id
  OBVIOUS
<1>8. U # {} /\ \A m \in U : \E p \in E : p[1] = m /\ p[2] \in U
  BY <1>6
<1> HIDE DEF U
<1>9. QED
  BY <1>7, <1>8 DEF NoCycle

LEMMA NoCycleSubset ==
  ASSUME NEW E, NEW F, F \subseteq E, NoCycle(E)
  PROVE  NoCycle(F)
  BY DEF NoCycle

-----------------------------------------------------------------------------
(* What the operations do to the tables. *)

\* Storing action i touches the dependencies of i only, and the new ones are
\* on existing actions or on holders of a key.
LEMMA UpsertsEffect ==
  ASSUME NEW i \in Id, NEW r, NEW exReq, NEW exOpt, NEW q, NEW kt, NEW req, NEW opt,
         NEW d \in Upserts(i, r, exReq, exOpt, q, kt, req, opt)
  PROVE  /\ \A p : p[1] # i => (p \in d.req <=> p \in req) /\ (p \in d.opt <=> p \in opt)
         /\ \A p \in d.req \cup d.opt :
              \/ p \in req \cup opt
              \/ p \in {i} \X (q \cup {h \in Id : kt[h] # {}})
<1> DEFINE toReq == (exReq \cap q) \cup KeyHolders(r.required, kt)
           toOpt == (exOpt \cap q) \cup KeyHolders(r.optional, kt)
           known == q \cup {h \in Id : kt[h] # {}}
<1>1. PICK asReq \in SUBSET (toReq \cap toOpt) :
        /\ d.req = (req \ ({i} \X (toOpt \ asReq))) \cup ({i} \X ((toReq \ toOpt) \cup asReq))
        /\ d.opt = (opt \ ({i} \X ((toReq \ toOpt) \cup asReq))) \cup ({i} \X (toOpt \ asReq))
  BY DEF Upserts
<1>2. toReq \subseteq known /\ toOpt \subseteq known
  BY DEF KeyHolders
<1> HIDE DEF toReq, toOpt, known
<1>3. \A p : p[1] # i => (p \in d.req <=> p \in req) /\ (p \in d.opt <=> p \in opt)
  BY <1>1
<1>4. \A p \in d.req \cup d.opt : p \in req \cup opt \/ p \in {i} \X known
  BY <1>1, <1>2
<1>5. QED
  BY <1>3, <1>4 DEF known

\* The inductive invariant of the tables.  Ids above the counter are unused, so
\* that a new action meets no old row; an executor at work has a permit, so that
\* a guard that validates belongs to a row that still exists.
TableInv ==
  /\ TypeInv
  /\ \A i \in Id : i > seq => life[i] = "none"
  /\ \A i \in Id : lock[i].permit = 0 => lock[i].owner = None
  /\ \A e \in Executor : exec[e].pc \in {"undecoded", "remote"} => exec[e].permit > 0
  /\ NoDanglingRows
  /\ RunningIsUnblocked
  /\ NoCycle(Edges)

\* The actions of I are stored or stored again; nothing else changes.
Stored(I) ==
  /\ UNCHANGED <<lock, exec, disruptions, leaks>>
  /\ \A i \in I : life[i] \in {"none", "queued"} /\ life'[i] = "queued" /\ lock[i].owner = None
  /\ \A i \in Id \ I : life'[i] = life[i] /\ info'[i] = info[i] /\ keys'[i] = keys[i]
  /\ \A p : p[1] \notin I => (p \in required' <=> p \in required) /\ (p \in optional' <=> p \in optional)
  /\ Edges' \subseteq Queued' \X Queued'
  /\ NoCycle(Edges')
  /\ seq <= seq' /\ \A i \in I : i <= seq' /\ (i <= seq => life[i] = "queued")

\* An id above the counter has no row of any kind.
LEMMA UnusedId ==
  ASSUME TableInv, NEW i \in Id, i > seq
  PROVE  life[i] = "none" /\ lock[i].owner = None
<1>1. life[i] = "none"
  BY DEF TableInv
<1>2. lock[i].permit \in Nat /\ i \notin Queued
  BY <1>1 DEF TableInv, TypeInv, TypeOK, Lock, Queued
<1>3. lock[i].permit = 0
  BY <1>2 DEF TableInv, NoDanglingRows
<1>4. QED
  BY <1>1, <1>3 DEF TableInv

LEMMA QueueActionStores ==
  ASSUME TableInv, TypeInv', NEW r \in Request, NEW exReq, NEW exOpt, QueueAction(r, exReq, exOpt)
  PROVE  Stored({seq + 1}) /\ life[seq + 1] = "none"
<1> DEFINE i == seq + 1
<1>1. i \in Id /\ seq \in Nat /\ i > seq
  BY ConstantsAssumption DEF QueueAction, TableInv, TypeInv, TypeOK, Id
<1>2. life[i] = "none" /\ lock[i].owner = None
  BY <1>1, UnusedId
<1>3. PICK d \in Upserts(i, r, exReq, exOpt, Queued, keys, required, optional) :
        ~CycleFound(i, d.req \cup d.opt) /\ required' = d.req /\ optional' = d.opt
  BY DEF QueueAction
<1> HIDE DEF i
<1>4. /\ \A p : p[1] # i => (p \in d.req <=> p \in required) /\ (p \in d.opt <=> p \in optional)
      /\ \A p \in d.req \cup d.opt : p \in Edges \/ p \in {i} \X (Queued \cup {h \in Id : keys[h] # {}})
  BY <1>1, UpsertsEffect DEF Edges
<1>5. life' = [life EXCEPT ![i] = "queued"] /\ info' = [info EXCEPT ![i] = StoredInfo(r, 1)]
      /\ keys' = [keys EXCEPT ![i] = RecordedKeys(r)] /\ seq' = i
      /\ UNCHANGED <<lock, exec, disruptions, leaks>>
  BY DEF QueueAction, i
<1>6. Queued' = Queued \cup {i}
  BY <1>1, <1>2, <1>5 DEF Queued, TableInv, TypeInv, TypeOK
<1>7. Edges' \subseteq Queued' \X Queued'
  BY <1>3, <1>4, <1>6 DEF TableInv, NoDanglingRows, Edges
<1>8. NoCycle(Edges')
  <2>1. Edges \in SUBSET (Id \X Id) /\ Edges' \in SUBSET (Id \X Id)
    BY DEF TableInv, TypeInv, TypeOK, Edges
  <2>2. \A p \in Edges' : p[1] # i => p \in Edges
    BY <1>3, <1>4 DEF Edges
  <2>3. ~CycleFound(i, Edges')
    BY <1>3 DEF Edges
  <2>4. QED
    BY <1>1, <2>1, <2>2, <2>3, FirstPopSuffices DEF TableInv
<1>9. \A j \in Id \ {i} : life'[j] = life[j] /\ info'[j] = info[j] /\ keys'[j] = keys[j]
  BY <1>5 DEF TableInv, TypeInv, TypeOK
<1>10. life'[i] = "queued"
  BY <1>1, <1>5 DEF TableInv, TypeInv, TypeOK
<1>11. \A p : p[1] \notin {i} => (p \in required' <=> p \in required) /\ (p \in optional' <=> p \in optional)
  BY <1>3, <1>4
<1>12. \A j \in {i} : life[j] \in {"none", "queued"} /\ life'[j] = "queued" /\ lock[j].owner = None
  BY <1>2, <1>10
<1>13. seq <= seq' /\ \A j \in {i} : j <= seq' /\ (j <= seq => life[j] = "queued")
  BY <1>1, <1>5, ConstantsAssumption DEF Id
<1>14. Stored({i})
  BY <1>5, <1>7, <1>8, <1>9, <1>11, <1>12, <1>13 DEF Stored
<1>15. QED
  BY <1>2, <1>14 DEF i

LEMMA QueueActionsStores ==
  ASSUME TableInv, TypeInv', NEW r \in Request, NEW r2 \in Request, NEW last, QueueActions(r, r2, last)
  PROVE  Stored({seq + 1, seq + 2}) /\ life[seq + 1] = "none" /\ life[seq + 2] = "none"
<1> DEFINE i == seq + 1
           j == seq + 2
           kt == [keys EXCEPT ![i] = RecordedKeys(r)]
<1>1. i \in Id /\ j \in Id /\ seq \in Nat /\ i > seq /\ j > seq /\ i # j /\ i <= j
  BY ConstantsAssumption DEF QueueActions, TableInv, TypeInv, TypeOK, Id
<1>2. life[i] = "none" /\ lock[i].owner = None /\ life[j] = "none" /\ lock[j].owner = None
  BY <1>1, UnusedId
<1>3. PICK d \in Upserts(i, r, last, {}, Queued, keys, required, optional) :
        \E d2 \in Upserts(j, r2, {i}, {}, Queued \cup {i}, kt, d.req, d.opt) :
           /\ ~CycleFound(i, d.req \cup d.opt)
           /\ ~CycleFound(j, d2.req \cup d2.opt)
           /\ required' = d2.req
           /\ optional' = d2.opt
  BY DEF QueueActions
<1>4. PICK d2 \in Upserts(j, r2, {i}, {}, Queued \cup {i}, kt, d.req, d.opt) :
           /\ ~CycleFound(i, d.req \cup d.opt)
           /\ ~CycleFound(j, d2.req \cup d2.opt)
           /\ required' = d2.req
           /\ optional' = d2.opt
  BY <1>3
<1>5. /\ life' = [life EXCEPT ![i] = "queued", ![j] = "queued"]
      /\ info' = [info EXCEPT ![i] = StoredInfo(r, 1), ![j] = StoredInfo(r2, 1)]
      /\ keys' = [keys EXCEPT ![i] = RecordedKeys(r), ![j] = RecordedKeys(r2)]
      /\ seq' = j
      /\ UNCHANGED <<lock, exec, disruptions, leaks>>
  BY DEF QueueActions
<1>6. {h \in Id : kt[h] # {}} \subseteq Queued \cup {i}
  BY DEF TableInv, NoDanglingRows, TypeInv, TypeOK
<1> HIDE DEF i, j, kt
<1>7. /\ \A p : p[1] # i => (p \in d.req <=> p \in required) /\ (p \in d.opt <=> p \in optional)
      /\ \A p \in d.req \cup d.opt : p \in Edges \/ p \in {i} \X (Queued \cup {h \in Id : keys[h] # {}})
  BY <1>1, UpsertsEffect DEF Edges
<1>8. /\ \A p : p[1] # j => (p \in d2.req <=> p \in d.req) /\ (p \in d2.opt <=> p \in d.opt)
      /\ \A p \in d2.req \cup d2.opt :
           p \in d.req \cup d.opt \/ p \in {j} \X (Queued \cup {i} \cup {h \in Id : kt[h] # {}})
  BY <1>1, UpsertsEffect
<1>9. Queued' = Queued \cup {i, j}
  <2>1. life \in [Id -> {"none", "queued", "executed", "cancelled", "deleted"}]
    BY DEF TableInv, TypeInv, TypeOK
  <2>2. \A h \in Id : life'[h] = IF h \in {i, j} THEN "queued" ELSE life[h]
    BY <1>1, <1>5, <2>1
  <2>3. QED
    BY <1>1, <2>2 DEF Queued
<1>10. {h \in Id : keys[h] # {}} \subseteq Queued
  BY DEF TableInv, NoDanglingRows
<1>11. \A p \in d.req \cup d.opt : p \in (Queued \cup {i}) \X (Queued \cup {i})
  BY <1>7, <1>10 DEF TableInv, NoDanglingRows
<1>12. Edges' \subseteq Queued' \X Queued'
  <2>1. Edges' = d2.req \cup d2.opt
    BY <1>4 DEF Edges
  <2>2. \A p \in d2.req \cup d2.opt : p \in (Queued \cup {i, j}) \X (Queued \cup {i, j})
    BY <1>6, <1>8, <1>11
  <2>3. QED
    BY <1>9, <2>1, <2>2
<1>13. NoCycle(Edges')
  <2>1. Queued \subseteq Id
    BY DEF Queued
  <2>2. Edges \in SUBSET (Id \X Id) /\ d.req \cup d.opt \in SUBSET (Id \X Id)
    BY <1>1, <1>11, <2>1 DEF TableInv, TypeInv, TypeOK, Edges
  <2>3. \A p \in d.req \cup d.opt : p[1] # i => p \in Edges
    BY <1>7 DEF Edges
  <2>4. NoCycle(d.req \cup d.opt)
    BY <1>1, <1>4, <2>2, <2>3, FirstPopSuffices DEF TableInv
  <2>5. d2.req \cup d2.opt \in SUBSET (Id \X Id)
    BY <1>4 DEF TypeInv, TypeOK
  <2>6. \A p \in d2.req \cup d2.opt : p[1] # j => p \in d.req \cup d.opt
    BY <1>8
  <2>7. NoCycle(d2.req \cup d2.opt)
    BY <1>1, <1>4, <2>2, <2>4, <2>5, <2>6, FirstPopSuffices
  <2>8. QED
    BY <1>4, <2>7 DEF Edges
<1>14. \A h \in Id \ {i, j} : life'[h] = life[h] /\ info'[h] = info[h] /\ keys'[h] = keys[h]
  BY <1>5 DEF TableInv, TypeInv, TypeOK
<1>15. \A p : p[1] \notin {i, j} => (p \in required' <=> p \in required) /\ (p \in optional' <=> p \in optional)
  BY <1>4, <1>7, <1>8
<1>16. \A h \in {i, j} : life[h] \in {"none", "queued"} /\ life'[h] = "queued" /\ lock[h].owner = None
  BY <1>1, <1>2, <1>5 DEF TableInv, TypeInv, TypeOK
<1>17. seq <= seq' /\ \A h \in {i, j} : h <= seq' /\ (h <= seq => life[h] = "queued")
  BY <1>1, <1>5, ConstantsAssumption DEF Id
<1>18. Stored({i, j})
  BY <1>5, <1>12, <1>13, <1>14, <1>15, <1>16, <1>17 DEF Stored
<1>19. QED
  BY <1>2, <1>18 DEF i, j

LEMMA ReplaceActionStores ==
  ASSUME TableInv, TypeInv', NEW old \in 1 .. seq, NEW r \in Request, NEW exReq, NEW exOpt,
         ReplaceAction(old, r, exReq, exOpt)
  PROVE  Stored({old}) /\ UNCHANGED <<life, seq, said>>
<1> DEFINE kt == [keys EXCEPT ![old] = {}]
           req == exReq \ {old}
           opt == exOpt \ {old}
<1>1. old \in Id /\ old \in Queued /\ lock[old].owner = None /\ life[old] = "queued"
  BY DEF ReplaceAction, CanReplace, HasExecutor, Queued
<1>2. PICK d \in Upserts(old, r, req, opt, Queued, kt, required, optional) :
        ~CycleFound(old, d.req \cup d.opt) /\ required' = d.req /\ optional' = d.opt
  BY DEF ReplaceAction
<1>3. /\ info' = [info EXCEPT ![old] = StoredInfo(r, info[old].payload + 1)]
      /\ keys' = [keys EXCEPT ![old] = RecordedKeys(r)]
      /\ UNCHANGED <<life, lock, seq, exec, said, disruptions, leaks>>
  BY DEF ReplaceAction
<1>4. {h \in Id : kt[h] # {}} \subseteq Queued
  BY DEF TableInv, NoDanglingRows, TypeInv, TypeOK
<1> HIDE DEF kt, req, opt
<1>5. /\ \A p : p[1] # old => (p \in d.req <=> p \in required) /\ (p \in d.opt <=> p \in optional)
      /\ \A p \in d.req \cup d.opt : p \in Edges \/ p \in {old} \X (Queued \cup {h \in Id : kt[h] # {}})
  BY <1>1, UpsertsEffect DEF Edges
<1>6. Queued' = Queued
  BY <1>3 DEF Queued
<1>7. Edges' \subseteq Queued' \X Queued'
  <2>1. \A p \in d.req \cup d.opt : p \in Queued \X Queued
    BY <1>1, <1>4, <1>5 DEF TableInv, NoDanglingRows
  <2>2. QED
    BY <1>2, <1>6, <2>1 DEF Edges
<1>8. NoCycle(Edges')
  <2>1. Edges \in SUBSET (Id \X Id) /\ Edges' \in SUBSET (Id \X Id)
    BY DEF TableInv, TypeInv, TypeOK, Edges
  <2>2. \A p \in Edges' : p[1] # old => p \in Edges
    BY <1>2, <1>5 DEF Edges
  <2>3. ~CycleFound(old, Edges')
    BY <1>2 DEF Edges
  <2>4. QED
    BY <1>1, <2>1, <2>2, <2>3, FirstPopSuffices DEF TableInv
<1>9. \A h \in Id \ {old} : life'[h] = life[h] /\ info'[h] = info[h] /\ keys'[h] = keys[h]
  BY <1>3 DEF TableInv, TypeInv, TypeOK
<1>10. \A p : p[1] \notin {old} => (p \in required' <=> p \in required) /\ (p \in optional' <=> p \in optional)
  BY <1>2, <1>5
<1>11. \A h \in {old} : life[h] \in {"none", "queued"} /\ life'[h] = "queued" /\ lock[h].owner = None
  BY <1>1, <1>3
<1>12. seq <= seq' /\ \A h \in {old} : h <= seq' /\ (h <= seq => life[h] = "queued")
  BY <1>1, <1>3 DEF TableInv, TypeInv, TypeOK
<1>13. QED
  BY <1>3, <1>7, <1>8, <1>9, <1>10, <1>11, <1>12 DEF Stored

-----------------------------------------------------------------------------
(* The three ways the tables change keep the invariant. *)

LEMMA StoredKeeps ==
  ASSUME TableInv, TypeInv', NEW I \in SUBSET Id, Stored(I)
  PROVE  TableInv'
<1>1. \A i \in Id : i > seq' => life'[i] = "none"
  <2> SUFFICES ASSUME NEW i \in Id, i > seq' PROVE life'[i] = "none"
    OBVIOUS
  <2>1. seq \in Int /\ seq' \in Int /\ i \in Int
    BY ConstantsAssumption DEF TableInv, TypeInv, TypeOK, Id
  <2>2. i > seq /\ i \notin I
    BY <2>1 DEF Stored
  <2>3. QED
    BY <2>2 DEF Stored, TableInv
<1>2. \A i \in Id : lock'[i].permit = 0 => lock'[i].owner = None
  BY DEF Stored, TableInv
<1>3. \A e \in Executor : exec'[e].pc \in {"undecoded", "remote"} => exec'[e].permit > 0
  BY DEF Stored, TableInv
<1>4. Queued \subseteq Queued' /\ I \subseteq Queued'
  BY DEF Stored, Queued
<1>5. NoDanglingRows'
  <2>1. \A i \in Id : keys'[i] # {} \/ lock'[i].permit > 0 => i \in Queued'
    BY <1>4 DEF Stored, TableInv, NoDanglingRows
  <2>2. QED
    BY <2>1 DEF Stored, NoDanglingRows
<1>6. RunningIsUnblocked'
  <2> SUFFICES ASSUME NEW i \in Id, lock'[i].owner # None, NEW p \in Edges', p[1] = i PROVE FALSE
    BY DEF RunningIsUnblocked
  <2>1. lock[i].owner # None /\ i \notin I
    BY DEF Stored
  <2>2. p \in Edges
    BY <2>1 DEF Stored, Edges
  <2>3. QED
    BY <2>1, <2>2 DEF TableInv, RunningIsUnblocked
<1>7. NoCycle(Edges)'
  BY DEF Stored, NoCycle
<1>8. QED
  BY <1>1, <1>2, <1>3, <1>5, <1>6, <1>7 DEF TableInv

\* No lock row is acquired: rows lose their owner or disappear.
LocksWeaken ==
  \A i \in Id : /\ lock'[i].permit \in {0, lock[i].permit}
                /\ lock'[i].permit = 0 => lock'[i].owner = None
                /\ lock'[i].owner # None => lock[i].owner # None

\* Executors finish or go on with the guard they have.
ExecsKeepGuard ==
  \A e \in Executor : exec'[e].pc \in {"undecoded", "remote"} => exec'[e] = exec[e]

LEMMA RemoveKeeps ==
  ASSUME TableInv, TypeInv', NEW S, S \subseteq Queued,
         NEW fate \in {"executed", "cancelled", "deleted"}, Remove(S, fate),
         LocksWeaken, \A i \in S : lock'[i].permit = 0, ExecsKeepGuard, seq' = seq
  PROVE  TableInv'
<1>1. \A i \in Id : i > seq' => life'[i] = "none"
  BY DEF Remove, TableInv, Queued
<1>2. \A i \in Id : lock'[i].permit = 0 => lock'[i].owner = None
  BY DEF LocksWeaken
<1>3. \A e \in Executor : exec'[e].pc \in {"undecoded", "remote"} => exec'[e].permit > 0
  BY DEF ExecsKeepGuard, TableInv
<1>4. Queued' = Queued \ S
  BY DEF Queued, Remove
<1>5. Edges' \subseteq Edges /\ \A p \in Edges' : p[1] \notin S /\ p[2] \notin S
  BY DEF Edges, Remove
<1>6. NoDanglingRows'
  <2>1. Edges' \subseteq Queued' \X Queued'
    BY <1>4, <1>5 DEF TableInv, NoDanglingRows
  <2>2. \A i \in Id : keys'[i] # {} => i \in Queued'
    BY <1>4 DEF Remove, TableInv, NoDanglingRows
  <2>3. \A i \in Id : lock'[i].permit > 0 => i \in Queued'
    BY <1>4 DEF LocksWeaken, TableInv, NoDanglingRows
  <2>4. QED
    BY <2>1, <2>2, <2>3 DEF NoDanglingRows
<1>7. RunningIsUnblocked'
  BY <1>5 DEF LocksWeaken, TableInv, RunningIsUnblocked
<1>8. NoCycle(Edges)'
  <2>1. NoCycle(Edges')
    BY <1>5, NoCycleSubset DEF TableInv
  <2>2. QED
    BY <2>1 DEF NoCycle
<1>9. QED
  BY <1>1, <1>2, <1>3, <1>6, <1>7, <1>8 DEF TableInv

LEMMA WeakenKeeps ==
  ASSUME TableInv, TypeInv', UNCHANGED <<life, required, optional, keys, seq>>,
         LocksWeaken, ExecsKeepGuard
  PROVE  TableInv'
<1>1. \A e \in Executor : exec'[e].pc \in {"undecoded", "remote"} => exec'[e].permit > 0
  BY DEF ExecsKeepGuard, TableInv
<1>2. Queued' = Queued /\ Edges' = Edges
  BY DEF Queued, Edges
<1>3. NoDanglingRows'
  BY <1>2 DEF LocksWeaken, TableInv, NoDanglingRows
<1>4. RunningIsUnblocked'
  BY <1>2 DEF LocksWeaken, TableInv, RunningIsUnblocked
<1>5. NoCycle(Edges)'
  BY <1>2 DEF TableInv, NoCycle
<1>6. QED
  BY <1>1, <1>3, <1>4, <1>5 DEF LocksWeaken, TableInv

\* What is cancelled with action i: i, all that requires what is cancelled, and
\* nothing that requires nothing.
LEMMA CancelSetFacts ==
  ASSUME TableInv, NEW i \in Queued
  PROVE  /\ i \in CancelSet(i) /\ CancelSet(i) \subseteq Queued
         /\ \A p \in required : p[2] \in CancelSet(i) => p[1] \in CancelSet(i)
         /\ \A n \in CancelSet(i) : n # i => \E p \in required : p[1] = n
<1> DEFINE E == {<<p[2], p[1]>> : p \in required}
<1>1. required \subseteq Queued \X Queued /\ Queued \subseteq Id
  BY DEF TableInv, NoDanglingRows, Edges, Queued
<1>2. E \in SUBSET (Id \X Id) /\ {i} \in SUBSET Id /\ \A p \in E : <<p[2], p[1]>> \in required
  BY <1>1
<1>3. CancelSet(i) = Closure({i}, E)
  BY DEF CancelSet
<1>4. \A p \in required : <<p[2], p[1]>> \in E
  OBVIOUS
<1> HIDE DEF E
<1>5. i \in Closure({i}, E) /\ \A p \in E : p[1] \in Closure({i}, E) => p[2] \in Closure({i}, E)
  BY <1>2, ClosureClosed
<1>6. \A n \in Closure({i}, E) : n # i => \E p \in E : p[2] = n
  BY <1>2, ClosureReached
<1>7. \A p \in required : p[2] \in CancelSet(i) => p[1] \in CancelSet(i)
  BY <1>3, <1>4, <1>5
<1>8. \A n \in CancelSet(i) : n # i => \E p \in required : p[1] = n
  <2> SUFFICES ASSUME NEW n \in CancelSet(i), n # i PROVE \E p \in required : p[1] = n
    OBVIOUS
  <2>1. PICK p \in E : p[2] = n
    BY <1>3, <1>6
  <2>2. <<p[2], p[1]>> \in required
    BY <1>2
  <2>3. QED
    BY <2>1, <2>2
<1>9. CancelSet(i) \subseteq Queued
  BY <1>1, <1>8
<1>10. QED
  BY <1>3, <1>5, <1>7, <1>8, <1>9

\* A guard that validates belongs to a queued action.
LEMMA GuardedIsQueued ==
  ASSUME TableInv, NEW e \in Executor, exec[e].pc \in {"undecoded", "remote"}, Valid(e)
  PROVE  exec[e].action \in Queued
<1>1. exec[e].action \in Id
  BY DEF TableInv, TypeInv
<1>2. lock[exec[e].action].permit > 0
  BY DEF TableInv, Valid
<1>3. QED
  BY <1>1, <1>2 DEF TableInv, NoDanglingRows

LEMMA NextTable == TableInv /\ [Next]_vars => TableInv'
<1> SUFFICES ASSUME TableInv, [Next]_vars PROVE TableInv'
  OBVIOUS
<1>t. TypeInv'
  BY NextType DEF TableInv
<1>l. TypeOK
  BY DEF TableInv, TypeInv
<1>w. ASSUME UNCHANGED lock PROVE LocksWeaken
  BY <1>w DEF LocksWeaken, TableInv
<1>r. ASSUME NEW S, lock' = LockWithout(S) PROVE LocksWeaken /\ \A i \in S : i \in Id => lock'[i].permit = 0
  BY <1>r DEF LocksWeaken, LockWithout, NoLock, TableInv
<1>g. ASSUME UNCHANGED exec PROVE ExecsKeepGuard
  BY <1>g DEF ExecsKeepGuard
<1>o. ASSUME NEW e \in Executor, NEW out, NEW c, Outcome(e, out, c) PROVE ExecsKeepGuard
  BY <1>o, <1>l DEF ExecsKeepGuard, Outcome, TypeOK
<1>i. ASSUME NEW e \in Executor, exec' = [exec EXCEPT ![e] = Idle] PROVE ExecsKeepGuard
  BY <1>i, <1>l DEF ExecsKeepGuard, Idle, TypeOK
<1>q. Queued \subseteq Id
  BY DEF Queued
<1>1. ASSUME NEW r \in Request, NEW x \in Explicit, QueueAction(r, x[1], x[2]) PROVE TableInv'
  <2>1. {seq + 1} \in SUBSET Id
    BY <1>1 DEF QueueAction
  <2>2. QED
    BY <1>1, <1>t, <2>1, QueueActionStores, StoredKeeps
<1>2. ASSUME NEW r \in Request, NEW r2 \in Request, NEW last, QueueActions(r, r2, last) PROVE TableInv'
  <2>1. {seq + 1, seq + 2} \in SUBSET Id
    BY <1>2, <1>l, ConstantsAssumption DEF QueueActions, TypeOK, Id
  <2>2. QED
    BY <1>2, <1>t, <2>1, QueueActionsStores, StoredKeeps
<1>3. CASE QueueActionsRolledBack
  BY <1>3, <1>t, <1>w, <1>g, WeakenKeeps DEF QueueActionsRolledBack, tables
<1>4. ASSUME NEW old \in 1 .. seq, NEW r \in Request, NEW x \in Explicit, ReplaceAction(old, r, x[1], x[2])
      PROVE  TableInv'
  <2>1. {old} \in SUBSET Id
    BY <1>4 DEF ReplaceAction, CanReplace, Queued
  <2>2. QED
    BY <1>4, <1>t, <2>1, ReplaceActionStores, StoredKeeps
<1>5. ASSUME NEW i \in Id, DeleteAction(i) PROVE TableInv'
  <2>1. {i} \subseteq Queued /\ Remove({i}, "deleted") /\ lock' = LockWithout({i}) /\ UNCHANGED <<seq, exec>>
    BY <1>5 DEF DeleteAction
  <2>2. QED
    BY <1>t, <1>r, <1>g, <1>q, <2>1, RemoveKeeps
<1>6. ASSUME NEW i \in Id, Cancel(i) PROVE TableInv'
  <2>1. CancelSet(i) \subseteq Queued
    BY <1>6, CancelSetFacts DEF Cancel
  <2>2. Remove(CancelSet(i), "cancelled") /\ lock' = LockWithout(CancelSet(i)) /\ UNCHANGED <<seq, exec>>
    BY <1>6 DEF Cancel
  <2>3. QED
    BY <1>t, <1>r, <1>g, <1>q, <2>1, <2>2, RemoveKeeps
<1>7. ASSUME NEW S, S \subseteq Queued, DeleteRows(S) PROVE TableInv'
  <2>1. Remove(S, "deleted") /\ lock' = LockWithout(S) /\ UNCHANGED <<seq, exec>>
    BY <1>7 DEF DeleteRows
  <2>2. QED
    BY <1>7, <1>t, <1>r, <1>g, <1>q, <2>1, RemoveKeeps
<1>9. ASSUME NEW e \in Executor, DecodeFailed(e) PROVE TableInv'
  <2>1. LocksWeaken
    BY <1>9, <1>l DEF DecodeFailed, Released, LocksWeaken, TableInv, TypeOK
  <2>2. UNCHANGED <<life, required, optional, keys, seq>> /\ exec' = [exec EXCEPT ![e] = Idle]
    BY <1>9 DEF DecodeFailed
  <2>3. QED
    BY <1>t, <1>i, <2>1, <2>2, WeakenKeeps
<1>10. ASSUME NEW e \in Executor, KeepAlive(e) PROVE TableInv'
  <2>1. LocksWeaken
    BY <1>10, <1>l DEF KeepAlive, WithFresh, LocksWeaken, TableInv, TypeOK
  <2>2. UNCHANGED <<life, required, optional, keys, seq, exec>>
    BY <1>10 DEF KeepAlive
  <2>3. QED
    BY <1>t, <1>g, <2>1, <2>2, WeakenKeeps
<1>11. ASSUME NEW e \in Executor, GuardExpired(e) PROVE TableInv'
  BY <1>11, <1>t, <1>w, <1>o, WeakenKeeps DEF GuardExpired, tables
<1>12. ASSUME NEW e \in Executor, FinishExecuted(e) PROVE TableInv'
  <2>1. {exec[e].action} \subseteq Queued
    BY <1>12, GuardedIsQueued DEF FinishExecuted
  <2>2. /\ Remove({exec[e].action}, "executed") /\ lock' = LockWithout({exec[e].action})
        /\ Outcome(e, "executed", {}) /\ UNCHANGED seq
    BY <1>12 DEF FinishExecuted
  <2>3. QED
    BY <1>t, <1>r, <1>o, <1>q, <2>1, <2>2, RemoveKeeps
<1>13. ASSUME NEW e \in Executor, FinishRequeued(e) PROVE TableInv'
  <2>1. LocksWeaken
    BY <1>13, <1>l DEF FinishRequeued, Released, LocksWeaken, TableInv, TypeOK
  <2>2. UNCHANGED <<life, required, optional, keys, seq>> /\ Outcome(e, "requeued", {})
    BY <1>13 DEF FinishRequeued
  <2>3. QED
    BY <1>t, <1>o, <2>1, <2>2, WeakenKeeps
<1>14. ASSUME NEW e \in Executor, FinishFailed(e) PROVE TableInv'
  <2> DEFINE S == CancelSet(exec[e].action)
  <2>1. S \subseteq Queued
    BY <1>14, GuardedIsQueued, CancelSetFacts DEF FinishFailed
  <2>2. /\ Remove(S, "cancelled") /\ lock' = LockWithout(S)
        /\ Outcome(e, "error", S \ {exec[e].action}) /\ UNCHANGED seq
    BY <1>14 DEF FinishFailed
  <2> HIDE DEF S
  <2>3. QED
    BY <1>t, <1>r, <1>o, <1>q, <2>1, <2>2, RemoveKeeps
<1>15. ASSUME NEW e \in Executor, FinishFailedPartly(e) PROVE TableInv'
  <2> DEFINE i == exec[e].action
  <2>1. i \in Queued
    BY <1>15, GuardedIsQueued DEF FinishFailedPartly
  <2>2. PICK S \in CancelledSoFar(i) :
          Remove(S, "cancelled") /\ lock' = [LockWithout(S) EXCEPT ![i] = Released(i, exec[e].permit)]
    BY <1>15 DEF FinishFailedPartly
  <2>3. Outcome(e, "error", {}) /\ UNCHANGED seq
    BY <1>15 DEF FinishFailedPartly
  <2> HIDE DEF i
  <2>4. S \subseteq Queued /\ i \notin S
    BY <2>1, <2>2, CancelSetFacts DEF CancelledSoFar
  <2>5. LocksWeaken /\ \A j \in S : lock'[j].permit = 0
    BY <1>q, <2>1, <2>2, <2>4 DEF LocksWeaken, LockWithout, NoLock, Released, TableInv
  <2>6. QED
    BY <1>t, <1>o, <2>2, <2>3, <2>4, <2>5, RemoveKeeps
<1>16. ASSUME NEW e \in Executor, LeaveLocked(e) PROVE TableInv'
  <2>1. UNCHANGED tables /\ (Outcome(e, "error", {}) \/ exec' = [exec EXCEPT ![e] = Idle])
    BY <1>16 DEF LeaveLocked
  <2>2. QED
    BY <1>t, <1>w, <1>o, <1>i, <2>1, WeakenKeeps DEF tables
<1>17. ASSUME NEW e \in Executor, Report(e) PROVE TableInv'
  BY <1>17, <1>t, <1>w, <1>i, WeakenKeeps DEF Report, tables
<1>18. ASSUME NEW e \in Executor, Terminate(e) PROVE TableInv'
  <2>1. LocksWeaken
    BY <1>18, <1>l, ConstantsAssumption DEF Terminate, LocksWeaken, TableInv, TypeOK
  <2>2. UNCHANGED <<life, required, optional, keys, seq>> /\ exec' = [exec EXCEPT ![e] = Idle]
    BY <1>18 DEF Terminate
  <2>3. QED
    BY <1>t, <1>i, <2>1, <2>2, WeakenKeeps
<1>19. ASSUME NEW i \in Id, Expire(i) \/ Suspend(i) PROVE TableInv'
  <2>1. lock' = [lock EXCEPT ![i] = WithFresh(lock[i], FALSE)]
    BY <1>19 DEF Expire, Suspend
  <2>2. LocksWeaken
    BY <1>l, <2>1 DEF WithFresh, LocksWeaken, TableInv, TypeOK
  <2>3. UNCHANGED <<life, required, optional, keys, seq, exec>>
    BY <1>19 DEF Expire, Suspend
  <2>4. QED
    BY <1>t, <1>g, <2>2, <2>3, WeakenKeeps
<1>20. ASSUME NEW i \in Id, BecomeDue(i) PROVE TableInv'
  BY <1>20, <1>t, <1>w, <1>g, WeakenKeeps DEF BecomeDue
<1>21. CASE UNCHANGED vars
  BY <1>21, <1>t, <1>w, <1>g, WeakenKeeps DEF vars
<1>8. ASSUME NEW e \in Executor, Pop(e) PROVE TableInv'
  <2> DEFINE lk == ClearSlate(e)
  <2>1. \A i \in Id : /\ lk[i].permit \in {0, lock[i].permit}
                      /\ lk[i].permit = 0 => lk[i].owner = None
                      /\ lk[i].owner # None => lock[i].owner # None
    BY DEF ClearSlate, NoLock, TableInv
  <2>2. UNCHANGED <<life, info, required, optional, keys, seq>>
    BY <1>8 DEF Pop
  <2>3. CASE lock' = lk /\ UNCHANGED exec
    <3>1. LocksWeaken
      BY <2>1, <2>3 DEF LocksWeaken
    <3>2. QED
      BY <1>t, <1>g, <2>2, <2>3, <3>1, WeakenKeeps
  <2>4. ASSUME NEW i \in First(Ready(GroupOf[e], lk)), NEW pc,
               lock' = [lk EXCEPT ![i] = Acquired(lk[i], e)],
               exec' = [exec EXCEPT ![e] = Guarding(pc, i, Acquired(lk[i], e).permit, info[i].payload)]
        PROVE  TableInv'
    <3>1. i \in Queued /\ \A p \in Edges : p[1] # i
      BY DEF First, Ready
    <3>2. lk \in [Id -> Lock]
      BY <1>l DEF ClearSlate, NoLock, Lock, TypeOK
    <3>3. lk[i].permit \in Nat /\ Acquired(lk[i], e).permit > 0
      BY <1>q, <3>1, <3>2 DEF Acquired, Lock
    <3> HIDE DEF lk
    <3>4. \A j \in Id : j # i => lock'[j] = lk[j]
      BY <2>4, <3>2
    <3>5. lock'[i].permit > 0
      BY <1>q, <2>4, <3>1, <3>2, <3>3
    <3>6. \A j \in Id : lock'[j].permit = 0 => lock'[j].owner = None
      BY <2>1, <3>4, <3>5
    <3>7. \A f \in Executor : exec'[f].pc \in {"undecoded", "remote"} => exec'[f].permit > 0
      BY <1>l, <2>4, <3>3 DEF Guarding, TableInv, TypeOK
    <3>8. Queued' = Queued /\ Edges' = Edges
      BY <2>2 DEF Queued, Edges
    <3>9. NoDanglingRows'
      BY <2>1, <2>2, <3>1, <3>4, <3>8 DEF TableInv, NoDanglingRows
    <3>10. RunningIsUnblocked'
      BY <2>1, <3>1, <3>4, <3>8 DEF TableInv, RunningIsUnblocked
    <3>11. NoCycle(Edges)'
      BY <3>8 DEF TableInv, NoCycle
    <3>12. QED
      BY <1>t, <2>2, <3>6, <3>7, <3>9, <3>10, <3>11 DEF TableInv
  <2>5. QED
    BY <1>8, <2>3, <2>4 DEF Pop
<1>22. QED
  BY <1>1, <1>2, <1>3, <1>4, <1>5, <1>6, <1>7, <1>8, <1>9, <1>10, <1>11, <1>12, <1>13, <1>14,
     <1>15, <1>16, <1>17, <1>18, <1>19, <1>20, <1>21
     DEF Next, Client, Run, Finish, Fault, Time, ReplaceOrQueueAction, DeleteAllInGroup,
         DeleteAllByType

-----------------------------------------------------------------------------
(* The theorems. *)

LEMMA InitTable == Init => TableInv
<1> SUFFICES ASSUME Init PROVE TableInv
  OBVIOUS
<1>1. TypeInv
  BY InitType DEF Init, TypeInv, Idle
<1>2. \A i \in Id : life[i] = "none" /\ keys[i] = {} /\ lock[i] = NoLock
  BY DEF Init
<1>3. Edges = {}
  BY DEF Init, Edges
<1>4. \A e \in Executor : exec[e].pc = "idle"
  BY DEF Init, Idle
<1>5. NoDanglingRows
  BY <1>2, <1>3 DEF NoDanglingRows, NoLock
<1>6. RunningIsUnblocked /\ NoCycle(Edges)
  BY <1>3 DEF RunningIsUnblocked, NoCycle
<1>7. QED
  BY <1>1, <1>2, <1>4, <1>5, <1>6 DEF TableInv, NoLock

LEMMA TableInvariant == Spec => []TableInv
  BY InitTable, NextTable, PTL DEF Spec

\* Whatever clients queue and replace, with any keys and explicit dependencies,
\* no cycle of dependencies is ever stored: the single pop of the sorter in
\* execute_action_local is enough.
THEOREM NeverCyclic == Spec => []Acyclic
<1>1. TableInv => Acyclic
  BY DEF TableInv, NoCycle, Acyclic
<1>2. QED
  BY <1>1, TableInvariant, PTL

\* No dependency, key or lock row outlives its action.
THEOREM NothingDangles == Spec => []NoDanglingRows
<1>1. TableInv => NoDanglingRows
  BY DEF TableInv
<1>2. QED
  BY <1>1, TableInvariant, PTL

\* An action that has an executor waits for nothing, even when guards are lost
\* or left behind.
THEOREM RunningWaitsForNothing == Spec => []RunningIsUnblocked
<1>1. TableInv => RunningIsUnblocked
  BY DEF TableInv
<1>2. QED
  BY <1>1, TableInvariant, PTL
=============================================================================
