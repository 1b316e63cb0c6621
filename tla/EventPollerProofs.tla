------------------------- MODULE EventPollerProofs -------------------------
(***************************************************************************)
(* Delivery of events, for any sources, subscribers and limits, with any   *)
(* number of failures and crashes.                                         *)
(***************************************************************************)
EXTENDS EventPoller, TLAPS

\* Where the iteration is, and what it is about.
Control ==
  /\ pc # "idle" => at \in 1 .. Len(order) /\ mode # "none"
  /\ pc = "fetch" => mode = "poll"
  /\ pc = "deliver" => mode \in {"poll", "refresh"}
  /\ pc = "store" => mode \in {"poll", "init"}
  /\ pc \in {"fetch", "deliver", "store"} => Here \in Registered
  /\ pc \in {"fetch", "deliver", "store"} /\ mode = "poll" => Subs[Here] # << >>
  /\ pc \in {"idle", "source"} => sub = 1
  /\ pc = "deliver" => sub \in 1 .. Len(Subs[Here])

\* The id that the iteration goes on from is the stored one.
Cursor ==
  /\ pc \in {"fetch", "deliver", "store"} /\ mode = "poll" => stored[Here] = prev
  /\ pc \in {"deliver", "store"} /\ mode = "poll" => prev < event
  /\ pc = "store" /\ mode = "init" => stored[Here] = NoId

\* The subscribers that had their turn were brought the event.
Served ==
  /\ pc = "deliver" /\ mode = "poll" =>
       \A k \in 1 .. sub - 1 : prev + 1 .. event \subseteq has[Subs[Here][k]]
  /\ pc = "store" /\ mode = "poll" =>
       \A k \in DOMAIN Subs[Here] : prev + 1 .. event \subseteq has[Subs[Here][k]]

\* A source has an initial id exactly when it has a stored one, and before that
\* none of its subscribers was brought anything.
Initialised ==
  \A s \in Registered :
    /\ stored[s] = NoId <=> start[s] = NoId
    /\ start[s] = NoId => \A k \in DOMAIN Subs[s] : has[Subs[s][k]] = {}

\* The sources before the current one were polled in this iteration, up to where
\* the server was when it began or up to the limit.
Done ==
  /\ \A s \in Source : goal[s] <= latest[s]
  /\ mode = "poll" /\ pc # "idle" =>
       \A j \in 1 .. at - 1 :
         order[j] \in Registered /\ Subs[order[j]] # << >> =>
           stored[order[j]] >= goal[order[j]] \/ count[order[j]] >= MaxEvents

\* The last change that the subscriber at position k of s can have been brought
\* when nothing failed.
Reach(s, k) ==
  IF mode = "poll" /\ Here = s /\ (pc = "store" \/ (pc = "deliver" /\ k < sub))
  THEN event ELSE stored[s]

\* Unless something failed, no subscriber is ahead of where the iteration is.
Fresh ==
  faults = 0 => \A s \in Registered : \A k \in DOMAIN Subs[s] :
                  \A c \in has[Subs[s][k]] : c <= Reach(s, k)

\* The server completes a group when it begins it, and ids are never ahead of it.
Feed ==
  /\ \A s \in Source : \A c \in linked[s] : c < latest[s]
  /\ \A s \in Source : stored[s] <= latest[s]
  /\ pc \in {"deliver", "store"} /\ mode # "refresh" => event <= latest[Here]

\* has_more tells whether the id that the iteration goes on from is in the middle
\* of a group; the initial id never is.
Grouped ==
  /\ pc = "fetch" => (prev \in linked[Here] => more)
  /\ pc \in {"deliver", "store"} /\ mode = "poll" => (event \in linked[Here] => more)
  /\ pc = "store" /\ mode = "init" => event \notin linked[Here]

FeedInv ==
  TypeOK /\ Control /\ Cursor /\ Served /\ Initialised /\ NothingSkipped /\ InOrder /\ Done

-----------------------------------------------------------------------------
\* What the sorter yields is a sequence of sources, each once, each after what
\* it depends on.
LEMMA OrderFacts ==
  ASSUME NEW q \in Pops(Registered)
  PROVE  /\ q \in Seq(Source)
         /\ \A j \in DOMAIN q, k \in DOMAIN q : q[j] = q[k] => j = k
         /\ \A k \in DOMAIN q : q[k] \in Registered =>
              \A d \in Deps[q[k]] : \E j \in DOMAIN q : j < k /\ q[j] = d
<1>1. PICK n \in 0 .. Cardinality(Sorted(Registered)) : q \in [1 .. n -> Sorted(Registered)]
  BY DEF Pops
<1>2. n \in Nat
  BY <1>1
<1>3. Sorted(Registered) \subseteq Source
  BY DepsAssumption, PollerAssumption DEF Sorted
<1>4. q \in [1 .. n -> Source]
  BY <1>1, <1>3
<1>5. q \in Seq(Source)
  BY <1>2, <1>4
<1>6. QED
  BY <1>5 DEF Pops, Before

\* The source at hand while an iteration runs.
LEMMA HereIsSource ==
  ASSUME TypeOK, Control, pc # "idle"
  PROVE  Here \in Source /\ at \in 1 .. Len(order) /\ Len(order) \in Nat
<1>1. order \in Seq(Source)
  BY OrderFacts DEF TypeOK
<1>2. QED
  BY <1>1 DEF Control, Here

LEMMA SubsFacts ==
  ASSUME NEW s \in Source
  PROVE  /\ Subs[s] \in Seq(Subscriber)
         /\ Len(Subs[s]) \in Nat
         /\ DOMAIN Subs[s] = 1 .. Len(Subs[s])
         /\ \A k \in 1 .. Len(Subs[s]) : Subs[s][k] \in Subscriber
BY PollerAssumption

LEMMA InitFeed == Init => FeedInv
<1> SUFFICES ASSUME Init PROVE FeedInv
  OBVIOUS
<1>1. order \in Seq(Source)
  BY OrderFacts DEF Init
<1>2. TypeOK
  <2>1. Len(order) \in Nat /\ 0 \in 0 .. Len(order) /\ 0 \in 0 .. MaxAttempts - 1
    BY <1>1, PollerAssumption
  <2>2. at \in 0 .. Len(order) /\ tries \in 0 .. MaxAttempts - 1
    BY <2>1 DEF Init
  <2>3. /\ stored \in [Source -> Nat \cup {NoId}] /\ start \in [Source -> Nat \cup {NoId}]
        /\ latest \in [Source -> Nat] /\ count \in [Source -> Nat] /\ goal \in [Source -> Nat]
    BY DEF Init
  <2>4. /\ linked \in [Source -> SUBSET Nat] /\ resets \in [Source -> SUBSET Nat]
        /\ has \in [Subscriber -> SUBSET Nat]
    BY DEF Init
  <2>5. /\ order \in Pops(Registered) /\ more \in BOOLEAN
        /\ mode \in {"none", "init", "poll", "refresh"}
        /\ pc \in {"idle", "source", "fetch", "deliver", "store"}
    BY DEF Init
  <2>6. prev \in Nat /\ event \in Nat /\ sub \in Nat \ {0} /\ faults \in Nat
    BY DEF Init
  <2>7. QED
    BY <2>2, <2>3, <2>4, <2>5, <2>6 DEF TypeOK
<1>3. Control /\ Cursor /\ Served
  BY DEF Init, Control, Cursor, Served
<1>4. \A s \in Registered : s \in Source /\ \A k \in DOMAIN Subs[s] : Subs[s][k] \in Subscriber
  BY SubsFacts, PollerAssumption
<1>5. Initialised /\ NothingSkipped /\ InOrder
  BY <1>4 DEF Init, Initialised, NothingSkipped, InOrder
<1>6. Done
  BY DEF Init, Done
<1>7. QED
  BY <1>2, <1>3, <1>5, <1>6 DEF FeedInv

-----------------------------------------------------------------------------
(* Types and control. *)

\* Going on with the next source, or stopping, keeps types and control.
LEMMA MovingOn ==
  ASSUME TypeOK, Control, NextSource \/ Stop, pc # "idle"
  PROVE  /\ mode' \in {"none", "init", "poll", "refresh"}
         /\ at' \in 0 .. Len(order)
         /\ pc' \in {"idle", "source"}
         /\ pc' # "idle" => at' \in 1 .. Len(order) /\ mode' # "none" /\ mode' = mode /\ at' = at + 1
                              /\ UNCHANGED <<count, goal>>
         /\ prev' = 0 /\ event' = 0 /\ more' = FALSE /\ sub' = 1 /\ tries' = 0
         /\ count' \in [Source -> Nat]
         /\ goal' \in [Source -> Nat]
         /\ goal' = goal \/ goal' = [s \in Source |-> 0]
<1>1. Len(order) \in Nat /\ at \in 1 .. Len(order)
  BY HereIsSource
<1>2. CASE Stop
  BY <1>1, <1>2 DEF Stop, Return
<1>3. CASE NextSource
  <2>1. CASE at < Len(order)
    BY <1>1, <1>3, <2>1 DEF NextSource, Proceed, Return, TypeOK, Control
  <2>2. CASE ~(at < Len(order))
    BY <1>2, <1>3, <2>2 DEF NextSource
  <2>3. QED
    BY <2>1, <2>2
<1>4. QED
  BY <1>2, <1>3

LEMMA MovedControl ==
  ASSUME TypeOK, Control, NextSource \/ Stop, pc # "idle", Len(order') = Len(order)
  PROVE  Control'
BY MovingOn DEF Control

LEMMA NextType == TypeOK /\ Control /\ [Next]_vars => TypeOK'
<1> SUFFICES ASSUME TypeOK, Control, [Next]_vars
             PROVE  TypeOK'
  OBVIOUS
<1> USE DEF server, local, history
<1>1. ASSUME NEW s \in Source, NEW n \in 1 .. 2, NEW refresh \in BOOLEAN, Publish(s, n, refresh)
      PROVE  TypeOK'
  <2>1. latest' \in [Source -> Nat]
    BY <1>1 DEF Publish, TypeOK
  <2>2. latest[s] + 1 .. latest[s] + n - 1 \in SUBSET Nat /\ latest[s] + n \in Nat
    BY <1>1 DEF TypeOK
  <2>3. linked' \in [Source -> SUBSET Nat]
    BY <2>2, <1>1 DEF Publish, TypeOK
  <2>4. resets' \in [Source -> SUBSET Nat]
    BY <2>2, <1>1 DEF Publish, TypeOK
  <2>5. QED
    BY <2>1, <2>3, <2>4, <1>1 DEF Publish, TypeOK
<1>2. ASSUME NEW m \in {"init", "poll", "refresh"}, Start(m)
      PROVE  TypeOK'
  <2>1. order \in Seq(Source)
    BY OrderFacts DEF TypeOK
  <2>2. 1 \in 0 .. Len(order)
    BY <2>1, <1>2 DEF Start
  <2>3. QED
    BY <2>2, <1>2 DEF Start, TypeOK
<1>3. ASSUME NextSource \/ Stop, pc # "idle",
             UNCHANGED <<server, order, has>>,
             stored' \in [Source -> Nat \cup {NoId}], start' \in [Source -> Nat \cup {NoId}],
             faults' \in Nat
      PROVE  TypeOK'
  <2>1. 0 \in 0 .. MaxAttempts - 1
    BY PollerAssumption
  <2>2. at' \in 0 .. Len(order') /\ tries' \in 0 .. MaxAttempts - 1
    BY <1>3, <2>1, MovingOn
  <2>3. /\ mode' \in {"none", "init", "poll", "refresh"}
        /\ pc' \in {"idle", "source", "fetch", "deliver", "store"}
        /\ prev' \in Nat /\ event' \in Nat
        /\ count' \in [Source -> Nat] /\ sub' \in Nat \ {0} /\ goal' \in [Source -> Nat]
    <3>1. /\ mode' \in {"none", "init", "poll", "refresh"}
          /\ pc' \in {"idle", "source"}
          /\ prev' = 0 /\ event' = 0 /\ sub' = 1
          /\ count' \in [Source -> Nat] /\ goal' \in [Source -> Nat]
      BY <1>3, MovingOn, Zenon
    <3>2. QED
      BY <3>1
  <2>4. more' \in BOOLEAN
    BY <1>3, MovingOn
  <2>5. QED
    BY <1>3, <2>2, <2>3, <2>4 DEF TypeOK
<1>4. CASE Skip
  BY <1>4, <1>3 DEF Skip, TypeOK
<1>5. CASE RefreshSource
  BY <1>5 DEF RefreshSource, TypeOK
<1>6. CASE GetLatestId
  <2>1. latest[Here] \in Nat
    BY <1>6, HereIsSource DEF GetLatestId, TypeOK
  <2>2. QED
    BY <2>1, <1>6 DEF GetLatestId, TypeOK
<1>7. CASE LoadId
  <2>1. CASE stored[Here] = NoId
    BY <1>7, <2>1, <1>3 DEF LoadId, OnError, TypeOK
  <2>2. CASE stored[Here] # NoId
    <3>1. stored[Here] \in Nat
      BY <1>7, <2>2, HereIsSource DEF LoadId, TypeOK
    <3>2. QED
      BY <3>1, <2>2, <1>7 DEF LoadId, TypeOK
  <2>3. QED
    BY <2>1, <2>2
<1>8. CASE SourceDone
  BY <1>8, <1>3 DEF SourceDone, TypeOK
<1>9. CASE Fetch
  <2>1. latest[Here] \in Nat /\ prev \in Nat
    BY <1>9, HereIsSource DEF Fetch, TypeOK
  <2>2. event' \in Nat
    BY <2>1, <1>9 DEF Fetch
  <2>3. 0 \in 0 .. MaxAttempts - 1
    BY PollerAssumption
  <2>4. more' \in BOOLEAN
    BY <1>9 DEF Fetch
  <2>5. QED
    BY <2>2, <2>3, <2>4, <1>9 DEF Fetch, TypeOK
<1>10. CASE Deliver
  <2>1. Brings \in SUBSET Nat
    BY DEF TypeOK, Brings
  <2>2. has' \in [Subscriber -> SUBSET Nat]
    BY <2>1, <1>10 DEF Deliver, TypeOK
  <2>3. 0 \in 0 .. MaxAttempts - 1
    BY PollerAssumption
  <2>4. CASE ~LastSubscriber
    <3>1. /\ sub' = sub + 1 /\ tries' = 0
          /\ UNCHANGED <<server, stored, order, start, faults, mode, at, pc, prev, event, more, count, goal>>
      BY <2>4, <1>10 DEF Deliver
    <3>2. sub' \in Nat \ {0} /\ tries' \in 0 .. MaxAttempts - 1
      BY <3>1, <2>3 DEF TypeOK
    <3>3. QED
      BY <3>1, <3>2, <2>2 DEF TypeOK
  <2>5. CASE LastSubscriber /\ mode = "poll"
    BY <2>2, <2>5, <1>10 DEF Deliver, TypeOK
  <2>6. CASE LastSubscriber /\ mode = "refresh"
    <3>1. NextSource /\ UNCHANGED has
      BY <2>6, <1>10 DEF Deliver
    <3>2. QED
      BY <3>1, <1>3, <1>10 DEF Deliver, TypeOK
  <2>7. QED
    BY <2>4, <2>5, <2>6, <1>10 DEF Deliver
<1>11. CASE Store
  <2>1. stored' \in [Source -> Nat \cup {NoId}]
    BY <1>11 DEF Store, TypeOK
  <2>2. CASE mode = "init"
    <3>1. start' \in [Source -> Nat \cup {NoId}]
      BY <2>2, <1>11 DEF Store, TypeOK
    <3>2. QED
      BY <2>1, <2>2, <3>1, <1>3, <1>11 DEF Store, TypeOK
  <2>3. CASE mode = "poll"
    <3>1. count' \in [Source -> Nat]
      BY <2>3, <1>11 DEF Store, Advance, TypeOK
    <3>2. QED
      BY <2>1, <2>3, <3>1, <1>11 DEF Store, Advance, TypeOK
  <2>4. QED
    BY <2>2, <2>3, <1>11 DEF Store
<1>12. CASE Retry
  <2>1. tries' \in 0 .. MaxAttempts - 1
    BY <1>12, PollerAssumption DEF Retry, TypeOK
  <2>2. QED
    BY <2>1, <1>12 DEF Retry, TypeOK
<1>13. CASE Fail
  BY <1>13, <1>3 DEF Fail, OnError, TypeOK
<1>14. CASE Crash
  <2>1. order' \in Seq(Source)
    BY <1>14, OrderFacts DEF Crash
  <2>2. 0 \in 0 .. Len(order') /\ 0 \in 0 .. MaxAttempts - 1
    BY <2>1, PollerAssumption
  <2>3. at' \in 0 .. Len(order') /\ tries' \in 0 .. MaxAttempts - 1
    BY <2>2, <1>14 DEF Crash, Stop, Return
  <2>4. count' \in [Source -> Nat] /\ goal' \in [Source -> Nat]
    BY <1>14 DEF Crash, Stop
  <2>5. prev' \in Nat /\ event' \in Nat /\ sub' \in Nat \ {0} /\ faults' \in Nat
    BY <1>14 DEF Crash, Stop, Return, TypeOK
  <2>6. more' \in BOOLEAN
    BY <1>14 DEF Crash, Stop, Return
  <2>7. QED
    BY <2>3, <2>4, <2>5, <2>6, <1>14 DEF Crash, Stop, TypeOK
<1>15. CASE UNCHANGED vars
  BY <1>15 DEF vars, TypeOK
<1>16. QED
  BY <1>1, <1>2, <1>4, <1>5, <1>6, <1>7, <1>8, <1>9, <1>10, <1>11, <1>12, <1>13, <1>14, <1>15
     DEF Next, Server, Starts, Step

LEMMA NextControl == TypeOK /\ Control /\ [Next]_vars => Control'
<1> SUFFICES ASSUME TypeOK, Control, [Next]_vars
             PROVE  Control'
  OBVIOUS
<1> USE DEF server, local, history
<1>1. ASSUME NEW s \in Source, NEW n \in 1 .. 2, NEW refresh \in BOOLEAN, Publish(s, n, refresh)
      PROVE  Control'
  BY <1>1 DEF Publish, Control, Here
<1>2. ASSUME NEW m \in {"init", "poll", "refresh"}, Start(m)
      PROVE  Control'
  <2>1. order \in Seq(Source)
    BY OrderFacts DEF TypeOK
  <2>2. 1 \in 1 .. Len(order)
    BY <2>1, <1>2 DEF Start
  <2>3. QED
    BY <2>2, <1>2 DEF Start, Control
<1>3. CASE Skip
  BY <1>3, MovedControl DEF Skip
<1>4. CASE RefreshSource
  <2>1. Here \in Registered /\ Subs[Here] # << >>
    BY <1>4 DEF RefreshSource, Skipped
  <2>2. Subs[Here] \in Seq(Subscriber)
    BY <1>4, HereIsSource, SubsFacts DEF RefreshSource
  <2>3. sub = 1 /\ 1 \in 1 .. Len(Subs[Here])
    BY <2>1, <2>2, <1>4 DEF RefreshSource, Control
  <2>4. QED
    BY <2>1, <2>3, <1>4 DEF RefreshSource, Control, Here
<1>5. CASE GetLatestId
  BY <1>5 DEF GetLatestId, Control, Here, Skipped
<1>6. CASE LoadId
  <2>1. CASE stored[Here] = NoId
    BY <2>1, <1>6, MovedControl DEF LoadId, OnError
  <2>2. CASE stored[Here] # NoId
    BY <2>2, <1>6 DEF LoadId, Control, Here, Skipped
  <2>3. QED
    BY <2>1, <2>2
<1>7. CASE SourceDone
  BY <1>7, MovedControl DEF SourceDone
<1>8. CASE Fetch
  <2>1. Here \in Source /\ Here \in Registered /\ Subs[Here] # << >>
    BY <1>8, HereIsSource DEF Fetch, Control
  <2>2. Subs[Here] \in Seq(Subscriber)
    BY <2>1, SubsFacts
  <2>3. 1 \in 1 .. Len(Subs[Here])
    BY <2>1, <2>2
  <2>4. QED
    BY <2>1, <2>3, <1>8 DEF Fetch, Control, Here
<1>9. CASE Deliver
  <2>1. CASE ~LastSubscriber
    <3>1. Len(Subs[Here]) \in Nat
      BY <1>9, HereIsSource, SubsFacts DEF Deliver
    <3>2. sub + 1 \in 1 .. Len(Subs[Here])
      BY <3>1, <2>1, <1>9 DEF Deliver, Control, LastSubscriber
    <3>3. QED
      BY <2>1, <3>2, <1>9 DEF Deliver, Control, Here
  <2>2. CASE LastSubscriber /\ mode = "poll"
    BY <2>2, <1>9 DEF Deliver, Control, Here
  <2>3. CASE LastSubscriber /\ mode = "refresh"
    BY <2>3, <1>9, MovedControl DEF Deliver
  <2>4. QED
    BY <2>1, <2>2, <2>3, <1>9 DEF Deliver
<1>10. CASE Store
  <2>1. CASE mode = "init"
    BY <2>1, <1>10, MovedControl DEF Store
  <2>2. CASE mode = "poll"
    BY <2>2, <1>10 DEF Store, Advance, Control, Here
  <2>3. QED
    BY <2>1, <2>2, <1>10 DEF Store
<1>11. CASE Retry
  BY <1>11 DEF Retry, Control, Here
<1>12. CASE Fail
  BY <1>12, MovedControl DEF Fail, OnError, Skipped
<1>13. CASE Crash
  BY <1>13 DEF Crash, Stop, Return, Control
<1>14. CASE UNCHANGED vars
  BY <1>14 DEF vars, Control, Here
<1>15. QED
  BY <1>1, <1>2, <1>3, <1>4, <1>5, <1>6, <1>7, <1>8, <1>9, <1>10, <1>11, <1>12, <1>13, <1>14
     DEF Next, Server, Starts, Step

-----------------------------------------------------------------------------
(* Delivery. *)

Delivery == Cursor /\ Served /\ Initialised /\ NothingSkipped /\ InOrder

\* Steps that touch neither the stored ids nor what subscribers have.
LEMMA Quiet ==
  ASSUME Delivery, UNCHANGED <<stored, start, has>>
  PROVE  Initialised' /\ NothingSkipped' /\ InOrder'
BY DEF Delivery, Initialised, NothingSkipped, InOrder

\* Between two sources there is nothing to remember.
LEMMA Between ==
  ASSUME pc' \in {"idle", "source"}
  PROVE  Cursor' /\ Served'
BY DEF Cursor, Served

\* A subscriber is brought an event.
LEMMA DeliverKeeps ==
  ASSUME TypeOK, Control, Delivery, Deliver, mode = "poll"
  PROVE  Delivery'
<1> DEFINE u == Subs[Here][sub]
<1>1. /\ Here \in Source /\ Here \in Registered /\ sub \in 1 .. Len(Subs[Here])
      /\ at \in 1 .. Len(order)
  BY HereIsSource DEF Deliver, Control
<1>2. Len(Subs[Here]) \in Nat /\ DOMAIN Subs[Here] = 1 .. Len(Subs[Here]) /\ u \in Subscriber
  BY <1>1, SubsFacts
<1>3. \A s \in Registered : s \in Source /\ \A k \in DOMAIN Subs[s] : Subs[s][k] \in Subscriber
  BY SubsFacts, PollerAssumption
<1>4. prev \in Nat /\ event \in Nat /\ prev < event /\ stored[Here] = prev
  BY DEF TypeOK, Cursor, Delivery, Deliver
<1>5. has' = [has EXCEPT ![u] = has[u] \cup Brings] /\ UNCHANGED <<stored, start, order, resets>>
  BY DEF Deliver, server
<1>6. \A v \in Subscriber : v # u => has'[v] = has[v]
  BY <1>5 DEF TypeOK
<1>7. has'[u] = has[u] \cup Brings
  BY <1>2, <1>5 DEF TypeOK
<1>8. \A v \in Subscriber : has[v] \subseteq has'[v]
  BY <1>6, <1>7
<1>9. prev + 1 .. event \subseteq has'[u]
  BY <1>4, <1>7 DEF Brings
<1>10. start[Here] # NoId
  BY <1>1, <1>4 DEF Delivery, Initialised, NoId
<1>11. start[Here] \in Nat
  BY <1>1, <1>10 DEF TypeOK
<1>12. \A s \in Registered : \A k \in DOMAIN Subs[s] : s # Here => Subs[s][k] # u
  BY <1>1, <1>2, <1>3, PollerAssumption
<1>13. Initialised'
  <2>1. SUFFICES ASSUME NEW s \in Registered
                 PROVE  /\ stored[s] = NoId <=> start[s] = NoId
                        /\ start[s] = NoId => \A k \in DOMAIN Subs[s] : has'[Subs[s][k]] = {}
    BY <1>5 DEF Initialised
  <2>2. QED
    BY <1>3, <1>6, <1>10, <1>12 DEF Delivery, Initialised
<1>14. NothingSkipped'
  <2>1. SUFFICES ASSUME NEW s \in Registered, stored[s] # NoId, NEW k \in DOMAIN Subs[s]
                 PROVE  start[s] + 1 .. stored[s] \subseteq has'[Subs[s][k]]
    BY <1>5 DEF NothingSkipped
  <2>2. start[s] + 1 .. stored[s] \subseteq has[Subs[s][k]]
    BY <2>1 DEF Delivery, NothingSkipped
  <2>3. QED
    BY <2>2, <1>3, <1>8
<1>15. InOrder'
  <2>1. SUFFICES ASSUME NEW s \in Registered, NEW k \in DOMAIN Subs[s],
                        NEW c \in has'[Subs[s][k]]
                 PROVE  start[s] + 1 .. c \subseteq has'[Subs[s][k]]
    BY <1>5 DEF InOrder
  <2>2. CASE c \in has[Subs[s][k]]
    <3>1. start[s] + 1 .. c \subseteq has[Subs[s][k]]
      BY <2>2 DEF Delivery, InOrder
    <3>2. QED
      BY <3>1, <1>3, <1>8
  <2>3. CASE c \notin has[Subs[s][k]]
    <3>1. Subs[s][k] = u
      BY <2>3, <1>3, <1>6
    <3>2. s = Here
      BY <3>1, <1>12
    <3>3. c \in Brings
      BY <2>3, <3>1, <1>7
    <3>4. start[Here] + 1 .. prev \subseteq has[u]
      BY <3>1, <3>2, <1>4, <1>1 DEF Delivery, NothingSkipped, NoId
    <3>5. CASE (prev + 1 .. event) \cap resets[Here] # {}
      <4>1. Brings = 1 .. event
        BY <3>5 DEF Brings
      <4>2. start[Here] + 1 .. c \subseteq 1 .. event
        BY <4>1, <3>3, <1>4, <1>11
      <4>3. QED
        BY <4>1, <4>2, <1>7, <3>1, <3>2
    <3>6. CASE (prev + 1 .. event) \cap resets[Here] = {}
      <4>1. Brings = prev + 1 .. event
        BY <3>6 DEF Brings
      <4>2. start[Here] + 1 .. c \subseteq (start[Here] + 1 .. prev) \cup (prev + 1 .. event)
        BY <4>1, <3>3, <1>4, <1>11
      <4>3. QED
        BY <4>1, <4>2, <3>4, <1>7, <3>1, <3>2
    <3>7. QED
      BY <3>5, <3>6
  <2>4. QED
    BY <2>2, <2>3
<1>16. Cursor' /\ Served'
  <2>1. UNCHANGED <<prev, event, mode, at>> /\ Here' = Here
    BY <1>5 DEF Deliver, local, Here
  <2>2. \A k \in 1 .. sub : prev + 1 .. event \subseteq has'[Subs[Here][k]]
    <3>1. SUFFICES ASSUME NEW k \in 1 .. sub
                   PROVE  prev + 1 .. event \subseteq has'[Subs[Here][k]]
      OBVIOUS
    <3>2. CASE k = sub
      BY <3>2, <1>9
    <3>3. CASE k # sub
      <4>1. k \in 1 .. sub - 1 /\ k \in DOMAIN Subs[Here]
        BY <3>3, <1>1, <1>2
      <4>2. prev + 1 .. event \subseteq has[Subs[Here][k]]
        BY <4>1 DEF Delivery, Served, Deliver
      <4>3. QED
        BY <4>1, <4>2, <1>1, <1>3, <1>8
    <3>4. QED
      BY <3>2, <3>3
  <2>3. CASE ~LastSubscriber
    <3>1. pc' = "deliver" /\ sub' = sub + 1
      BY <2>3 DEF Deliver
    <3>2. sub' - 1 = sub
      BY <3>1, <1>1
    <3>3. Cursor'
      BY <2>1, <3>1, <1>4, <1>5 DEF Cursor
    <3>4. Served'
      BY <2>1, <2>2, <3>1, <3>2 DEF Served
    <3>5. QED
      BY <3>3, <3>4
  <2>4. CASE LastSubscriber
    <3>1. pc' = "store"
      BY <2>4 DEF Deliver
    <3>2. Cursor'
      BY <2>1, <3>1, <1>4, <1>5 DEF Cursor
    <3>3. Served'
      BY <2>1, <2>2, <2>4, <3>1, <1>2 DEF Served, LastSubscriber
    <3>4. QED
      BY <3>2, <3>3
  <2>5. QED
    BY <2>3, <2>4
<1>17. QED
  BY <1>13, <1>14, <1>15, <1>16 DEF Delivery

\* The id of an event that every subscriber was brought, or the initial id, is
\* stored.
LEMMA StoreKeeps ==
  ASSUME TypeOK, Control, Delivery, Store
  PROVE  Delivery'
<1>1. Here \in Source /\ Here \in Registered /\ at \in 1 .. Len(order)
  BY HereIsSource DEF Store, Control
<1>2. \A s \in Registered : s \in Source
  BY PollerAssumption
<1>3. stored' = [stored EXCEPT ![Here] = event] /\ UNCHANGED <<has, order>> /\ event \in Nat
  BY DEF Store, TypeOK
<1>4. stored'[Here] = event /\ \A s \in Source : s # Here => stored'[s] = stored[s]
  BY <1>1, <1>3 DEF TypeOK
<1>5. CASE mode = "init"
  <2>1. stored[Here] = NoId
    BY <1>5 DEF Delivery, Cursor, Store
  <2>2. start[Here] = NoId /\ \A k \in DOMAIN Subs[Here] : has[Subs[Here][k]] = {}
    BY <2>1, <1>1 DEF Delivery, Initialised
  <2>3. start' = [start EXCEPT ![Here] = event] /\ NextSource
    BY <1>5, <2>2 DEF Store
  <2>4. start'[Here] = event /\ \A s \in Source : s # Here => start'[s] = start[s]
    BY <2>3, <1>1 DEF TypeOK
  <2>5. Cursor' /\ Served'
    <3>1. pc' \in {"idle", "source"}
      BY <2>3, MovingOn DEF Store
    <3>2. QED
      BY <3>1, Between
  <2>6. Initialised'
    <3>1. SUFFICES ASSUME NEW s \in Registered
                   PROVE  /\ stored'[s] = NoId <=> start'[s] = NoId
                          /\ start'[s] = NoId => \A k \in DOMAIN Subs[s] : has[Subs[s][k]] = {}
      BY <1>3 DEF Initialised
    <3>2. CASE s = Here
      BY <3>2, <1>3, <1>4, <2>4 DEF NoId
    <3>3. CASE s # Here
      BY <3>3, <1>2, <1>4, <2>4 DEF Delivery, Initialised
    <3>4. QED
      BY <3>2, <3>3
  <2>7. NothingSkipped'
    <3>1. SUFFICES ASSUME NEW s \in Registered, stored'[s] # NoId, NEW k \in DOMAIN Subs[s]
                   PROVE  start'[s] + 1 .. stored'[s] \subseteq has[Subs[s][k]]
      BY <1>3 DEF NothingSkipped
    <3>2. CASE s = Here
      <4>1. start'[s] + 1 .. stored'[s] = {}
        BY <3>2, <1>3, <1>4, <2>4
      <4>2. QED
        BY <4>1
    <3>3. CASE s # Here
      <4>1. stored'[s] = stored[s] /\ start'[s] = start[s]
        BY <3>3, <1>2, <1>4, <2>4
      <4>2. QED
        BY <4>1, <3>1 DEF Delivery, NothingSkipped
    <3>4. QED
      BY <3>2, <3>3
  <2>8. InOrder'
    <3>1. SUFFICES ASSUME NEW s \in Registered, NEW k \in DOMAIN Subs[s], NEW c \in has[Subs[s][k]]
                   PROVE  start'[s] + 1 .. c \subseteq has[Subs[s][k]]
      BY <1>3 DEF InOrder
    <3>2. s # Here
      BY <2>2
    <3>3. start'[s] = start[s]
      BY <3>2, <1>2, <2>4
    <3>4. QED
      BY <3>3 DEF Delivery, InOrder
  <2>9. QED
    BY <2>5, <2>6, <2>7, <2>8 DEF Delivery
<1>6. CASE mode = "poll"
  <2>1. stored[Here] = prev /\ prev \in Nat
    BY <1>6 DEF Delivery, Cursor, Store, TypeOK
  <2>2. start[Here] # NoId
    BY <2>1, <1>1 DEF Delivery, Initialised, NoId
  <2>3. start[Here] \in Nat
    BY <2>2, <1>1 DEF TypeOK
  <2>4. UNCHANGED <<start, at, mode>> /\ prev' = event /\ pc' = "fetch"
    BY <1>6 DEF Store, Advance
  <2>5. Cursor' /\ Served'
    BY <2>4, <1>3, <1>4 DEF Cursor, Served, Here
  <2>6. Initialised'
    <3>1. SUFFICES ASSUME NEW s \in Registered
                   PROVE  /\ stored'[s] = NoId <=> start[s] = NoId
                          /\ start[s] = NoId => \A k \in DOMAIN Subs[s] : has[Subs[s][k]] = {}
      BY <1>3, <2>4 DEF Initialised
    <3>2. CASE s = Here
      BY <3>2, <1>3, <1>4, <2>2 DEF NoId
    <3>3. CASE s # Here
      BY <3>3, <1>2, <1>4 DEF Delivery, Initialised
    <3>4. QED
      BY <3>2, <3>3
  <2>7. NothingSkipped'
    <3>1. SUFFICES ASSUME NEW s \in Registered, stored'[s] # NoId, NEW k \in DOMAIN Subs[s]
                   PROVE  start[s] + 1 .. stored'[s] \subseteq has[Subs[s][k]]
      BY <1>3, <2>4 DEF NothingSkipped
    <3>2. CASE s = Here
      <4>1. start[Here] + 1 .. prev \subseteq has[Subs[s][k]]
        BY <3>2, <2>1, <1>1 DEF Delivery, NothingSkipped, NoId
      <4>2. prev + 1 .. event \subseteq has[Subs[s][k]]
        BY <3>2, <1>6 DEF Delivery, Served, Store
      <4>3. start[Here] + 1 .. event \subseteq (start[Here] + 1 .. prev) \cup (prev + 1 .. event)
        BY <2>1, <2>3, <1>3
      <4>4. QED
        BY <4>1, <4>2, <4>3, <3>2, <1>4
    <3>3. CASE s # Here
      <4>1. stored'[s] = stored[s]
        BY <3>3, <1>2, <1>4
      <4>2. QED
        BY <4>1, <3>1 DEF Delivery, NothingSkipped
    <3>4. QED
      BY <3>2, <3>3
  <2>8. InOrder'
    BY <2>4, <1>3 DEF Delivery, InOrder
  <2>9. QED
    BY <2>5, <2>6, <2>7, <2>8 DEF Delivery
<1>7. QED
  BY <1>5, <1>6 DEF Store

LEMMA NextDelivery == TypeOK /\ Control /\ Delivery /\ [Next]_vars => Delivery'
<1> SUFFICES ASSUME TypeOK, Control, Delivery, [Next]_vars
             PROVE  Delivery'
  OBVIOUS
<1> USE DEF server, local, history
<1>1. ASSUME UNCHANGED <<stored, start, has>>, Cursor', Served'
      PROVE  Delivery'
  BY <1>1, Quiet DEF Delivery
<1>2. ASSUME UNCHANGED <<stored, start, has>>, NextSource \/ Stop, pc # "idle"
      PROVE  Delivery'
  <2>1. pc' \in {"idle", "source"}
    BY <1>2, MovingOn
  <2>2. QED
    BY <2>1, <1>1, <1>2, Between
<1>3. ASSUME NEW s \in Source, NEW n \in 1 .. 2, NEW refresh \in BOOLEAN, Publish(s, n, refresh)
      PROVE  Delivery'
  BY <1>3, <1>1 DEF Publish, Delivery, Cursor, Served, Here
<1>4. ASSUME NEW m \in {"init", "poll", "refresh"}, Start(m)
      PROVE  Delivery'
  BY <1>4, <1>1, Between DEF Start
<1>5. CASE Skip
  BY <1>5, <1>2 DEF Skip
<1>6. CASE RefreshSource
  BY <1>6, <1>1 DEF RefreshSource, Cursor, Served
<1>7. CASE GetLatestId
  <2>1. stored[Here] = NoId
    BY <1>7 DEF GetLatestId, Skipped
  <2>2. Cursor' /\ Served'
    BY <2>1, <1>7 DEF GetLatestId, Cursor, Served, Here
  <2>3. QED
    BY <2>2, <1>7, <1>1 DEF GetLatestId
<1>8. CASE LoadId
  <2>1. CASE stored[Here] = NoId
    BY <2>1, <1>8, <1>2 DEF LoadId, OnError
  <2>2. CASE stored[Here] # NoId
    BY <2>2, <1>8, <1>1 DEF LoadId, Cursor, Served, Here
  <2>3. QED
    BY <2>1, <2>2
<1>9. CASE SourceDone
  BY <1>9, <1>2 DEF SourceDone
<1>10. CASE Fetch
  <2>1. latest[Here] \in Nat /\ prev \in Nat
    BY <1>10, HereIsSource DEF Fetch, TypeOK
  <2>2. prev < event' /\ prev' = prev
    BY <2>1, <1>10 DEF Fetch
  <2>3. mode = "poll" /\ stored[Here] = prev
    BY <1>10 DEF Fetch, Control, Delivery, Cursor
  <2>4. Cursor'
    BY <2>2, <2>3, <1>10 DEF Fetch, Cursor, Here
  <2>5. Served'
    <3>1. pc' = "deliver" /\ 1 .. sub' - 1 = {}
      BY <1>10 DEF Fetch
    <3>2. QED
      BY <3>1 DEF Served
  <2>6. QED
    BY <2>4, <2>5, <1>10, <1>1 DEF Fetch
<1>11. CASE Deliver
  <2>1. CASE mode = "poll"
    BY <2>1, <1>11, DeliverKeeps
  <2>2. CASE mode = "refresh"
    <3>1. CASE LastSubscriber
      BY <2>2, <3>1, <1>11, <1>2 DEF Deliver
    <3>2. CASE ~LastSubscriber
      BY <2>2, <3>2, <1>11, <1>1 DEF Deliver, Cursor, Served
    <3>3. QED
      BY <3>1, <3>2
  <2>3. QED
    BY <2>1, <2>2, <1>11 DEF Deliver, Control
<1>12. CASE Store
  BY <1>12, StoreKeeps
<1>13. CASE Retry
  BY <1>13, <1>1 DEF Retry, Delivery, Cursor, Served, Here
<1>14. CASE Fail
  BY <1>14, <1>2 DEF Fail, OnError
<1>15. CASE Crash
  BY <1>15, <1>1, Between DEF Crash, Stop
<1>16. CASE UNCHANGED vars
  BY <1>16, <1>1 DEF vars, Delivery, Cursor, Served, Here
<1>17. QED
  BY <1>3, <1>4, <1>5, <1>6, <1>7, <1>8, <1>9, <1>10, <1>11, <1>12, <1>13, <1>14, <1>15, <1>16
     DEF Next, Server, Starts, Step

-----------------------------------------------------------------------------
(* Sources that were polled in the iteration. *)

\* The source at position j needs no more events in this iteration.
Settled(j) ==
  order[j] \in Registered /\ Subs[order[j]] # << >> =>
    stored[order[j]] >= goal[order[j]] \/ count[order[j]] >= MaxEvents

\* Going on from a source that is settled.
LEMMA DoneMoves ==
  ASSUME TypeOK, Control, Done, NextSource \/ Stop, pc # "idle",
         UNCHANGED <<latest, order, stored>>, mode = "poll" => Settled(at) \/ Stop
  PROVE  Done'
<1>1. at \in Nat
  BY HereIsSource
<1>2. \A s \in Source : goal'[s] <= latest'[s]
  <2>1. goal' = goal \/ goal' = [s \in Source |-> 0]
    BY MovingOn
  <2>2. QED
    BY <2>1 DEF Done, TypeOK
<1>3. ASSUME mode' = "poll", pc' # "idle", NEW j \in 1 .. at' - 1
      PROVE  Settled(j)'
  <2>1. mode' = mode /\ at' = at + 1 /\ UNCHANGED <<count, goal>>
    BY <1>3, MovingOn
  <2>2. Settled(at)
    BY <1>3, <2>1 DEF Stop
  <2>3. Settled(j)
    <3>1. CASE j = at
      BY <3>1, <2>2
    <3>2. CASE j # at
      <4>1. j \in 1 .. at - 1
        BY <3>2, <2>1, <1>1, <1>3
      <4>2. QED
        BY <4>1, <2>1, <1>3 DEF Done, Settled
    <3>3. QED
      BY <3>1, <3>2
  <2>4. QED
    BY <2>1, <2>3 DEF Settled
<1>4. QED
  BY <1>2, <1>3 DEF Done, Settled

LEMMA NextDone == TypeOK /\ Control /\ Delivery /\ Done /\ [Next]_vars => Done'
<1> SUFFICES ASSUME TypeOK, Control, Delivery, Done, [Next]_vars
             PROVE  Done'
  OBVIOUS
<1> USE DEF server, local, history
<1>1. ASSUME UNCHANGED <<latest, order, stored, mode, at, count, goal>>, pc # "idle"
      PROVE  Done'
  BY <1>1 DEF Done
<1>2. ASSUME NEW s \in Source, NEW n \in 1 .. 2, NEW refresh \in BOOLEAN, Publish(s, n, refresh)
      PROVE  Done'
  <2>1. \A t \in Source : latest'[t] >= latest[t] /\ latest[t] \in Nat /\ latest'[t] \in Nat
    BY <1>2 DEF Publish, TypeOK
  <2>2. \A t \in Source : goal'[t] <= latest'[t]
    BY <2>1, <1>2 DEF Publish, Done, TypeOK
  <2>3. QED
    BY <2>2, <1>2 DEF Publish, Done
<1>3. ASSUME NEW m \in {"init", "poll", "refresh"}, Start(m)
      PROVE  Done'
  <2>1. \A t \in Source : goal'[t] <= latest'[t]
    BY <1>3 DEF Start, TypeOK
  <2>2. 1 .. at' - 1 = {}
    BY <1>3 DEF Start
  <2>3. QED
    BY <2>1, <2>2 DEF Done
<1>4. CASE Skip
  <2>1. mode = "poll" => Settled(at)
    BY <1>4 DEF Skip, Skipped, Settled, Here
  <2>2. QED
    BY <2>1, <1>4, DoneMoves DEF Skip
<1>5. CASE RefreshSource
  BY <1>5, <1>1 DEF RefreshSource
<1>6. CASE GetLatestId
  BY <1>6, <1>1 DEF GetLatestId
<1>7. CASE LoadId
  <2>1. CASE stored[Here] = NoId
    BY <2>1, <1>7, DoneMoves DEF LoadId, OnError
  <2>2. CASE stored[Here] # NoId
    BY <2>2, <1>7, <1>1 DEF LoadId
  <2>3. QED
    BY <2>1, <2>2
<1>8. CASE SourceDone
  <2>1. Here \in Source
    BY <1>8, HereIsSource DEF SourceDone
  <2>2. mode = "poll" /\ stored[Here] = prev
    BY <1>8 DEF SourceDone, Control, Delivery, Cursor
  <2>3. CASE ~MayFetch
    <3>1. count[Here] >= MaxEvents
      BY <2>1, <2>3, PollerAssumption DEF MayFetch, TypeOK
    <3>2. Settled(at)
      BY <3>1 DEF Settled, Here
    <3>3. QED
      BY <3>2, <1>8, DoneMoves DEF SourceDone
  <2>4. CASE latest[Here] = prev
    <3>1. stored[Here] >= goal[Here]
      BY <2>1, <2>2, <2>4 DEF Done, TypeOK
    <3>2. Settled(at)
      BY <3>1 DEF Settled, Here
    <3>3. QED
      BY <3>2, <1>8, DoneMoves DEF SourceDone
  <2>5. QED
    BY <2>3, <2>4, <1>8 DEF SourceDone
<1>9. CASE Fetch
  BY <1>9, <1>1 DEF Fetch
<1>10. CASE Deliver
  <2>1. CASE ~LastSubscriber
    BY <2>1, <1>10, <1>1 DEF Deliver
  <2>2. CASE LastSubscriber /\ mode = "poll"
    BY <2>2, <1>10, <1>1 DEF Deliver
  <2>3. CASE LastSubscriber /\ mode = "refresh"
    BY <2>3, <1>10, DoneMoves DEF Deliver
  <2>4. QED
    BY <2>1, <2>2, <2>3, <1>10 DEF Deliver
<1>11. CASE Store
  <2>1. Here \in Source /\ at \in 1 .. Len(order) /\ Len(order) \in Nat
    BY <1>11, HereIsSource DEF Store
  <2>2. CASE mode = "init"
    <3>1. UNCHANGED <<latest, order>> /\ NextSource /\ pc # "idle"
      BY <2>2, <1>11 DEF Store
    <3>2. \A s \in Source : goal'[s] <= latest'[s]
      <4>1. goal' = goal \/ goal' = [s \in Source |-> 0]
        BY <3>1, MovingOn
      <4>2. QED
        BY <3>1, <4>1 DEF Done, TypeOK
    <3>3. ~(mode' = "poll" /\ pc' # "idle")
      BY <2>2, <3>1, MovingOn
    <3>4. QED
      BY <3>2, <3>3 DEF Done
  <2>3. CASE mode = "poll"
    <3>1. UNCHANGED <<latest, order, mode, at, goal>> /\ pc # "idle"
      BY <2>3, <1>11 DEF Store, Advance
    <3>2. \A s \in Source : s # Here => stored'[s] = stored[s] /\ count'[s] = count[s]
      BY <2>3, <1>11 DEF Store, Advance, TypeOK
    <3>3. order \in Seq(Source) /\ \A j \in DOMAIN order, k \in DOMAIN order : order[j] = order[k] => j = k
      BY OrderFacts DEF TypeOK
    <3>4. \A j \in 1 .. at - 1 : order[j] \in Source /\ order[j] # Here
      BY <2>1, <3>3 DEF Here
    <3>5. QED
      BY <2>3, <3>1, <3>2, <3>4 DEF Done
  <2>4. QED
    BY <2>2, <2>3, <1>11 DEF Store
<1>12. CASE Retry
  BY <1>12, <1>1 DEF Retry
<1>13. CASE Fail
  BY <1>13, DoneMoves DEF Fail, OnError
<1>14. CASE Crash
  BY <1>14 DEF Crash, Stop, Done, TypeOK
<1>15. CASE UNCHANGED vars
  BY <1>15 DEF vars, Done
<1>16. QED
  BY <1>2, <1>3, <1>4, <1>5, <1>6, <1>7, <1>8, <1>9, <1>10, <1>11, <1>12, <1>13, <1>14, <1>15
     DEF Next, Server, Starts, Step

-----------------------------------------------------------------------------
(* Nothing twice. *)

\* Where no event is at hand, the stored id is as far as a subscriber can be.
LEMMA ReachStored ==
  ASSUME pc' \in {"idle", "source", "fetch"} \/ mode' # "poll"
  PROVE  \A s \in Registered : \A k \in DOMAIN Subs[s] : Reach(s, k)' = stored'[s]
BY DEF Reach

LEMMA FreshMoves ==
  ASSUME TypeOK, Control, Fresh, NextSource \/ Stop, pc # "idle",
         pc \in {"source", "fetch"} \/ mode # "poll",
         UNCHANGED <<stored, has, faults>>
  PROVE  Fresh'
<1>1. pc' \in {"idle", "source"}
  BY MovingOn
<1>2. \A s \in Registered : \A k \in DOMAIN Subs[s] : Reach(s, k)' = stored'[s]
  BY <1>1, ReachStored
<1>3. \A s \in Registered : \A k \in DOMAIN Subs[s] : Reach(s, k) = stored[s]
  BY DEF Reach
<1>4. QED
  BY <1>2, <1>3 DEF Fresh

LEMMA DeliverFresh ==
  ASSUME TypeOK, Control, Delivery, Fresh, Deliver, mode = "poll"
  PROVE  Fresh'
<1> SUFFICES ASSUME faults = 0, NEW s \in Registered, NEW k \in DOMAIN Subs[s],
                    NEW c \in has'[Subs[s][k]]
             PROVE  c <= Reach(s, k)'
  BY DEF Fresh, Deliver
<1> DEFINE u == Subs[Here][sub]
<1>1. /\ Here \in Source /\ Here \in Registered /\ sub \in 1 .. Len(Subs[Here])
      /\ at \in 1 .. Len(order)
  BY HereIsSource DEF Deliver, Control
<1>2. Len(Subs[Here]) \in Nat /\ DOMAIN Subs[Here] = 1 .. Len(Subs[Here]) /\ u \in Subscriber
  BY <1>1, SubsFacts
<1>3. s \in Source /\ Subs[s][k] \in Subscriber
  BY SubsFacts, PollerAssumption
<1>4. prev \in Nat /\ event \in Nat /\ prev < event /\ stored[Here] = prev /\ pc = "deliver"
  BY DEF TypeOK, Cursor, Delivery, Deliver
<1>5. has' = [has EXCEPT ![u] = has[u] \cup Brings] /\ UNCHANGED <<stored, order, event, mode, at>>
  BY DEF Deliver, local
<1>6. Here' = Here
  BY <1>5 DEF Here
<1>7. pc' = "store" \/ (pc' = "deliver" /\ sub' = sub + 1)
  BY DEF Deliver
<1>8. CASE c \in has[Subs[s][k]]
  <2>1. c <= Reach(s, k)
    BY <1>8 DEF Fresh
  <2>2. CASE s # Here
    <3>1. Reach(s, k)' = Reach(s, k)
      BY <2>2, <1>5, <1>6 DEF Reach
    <3>2. QED
      BY <2>1, <3>1
  <2>3. CASE s = Here /\ k < sub
    <3>1. Reach(s, k) = event /\ Reach(s, k)' = event
      <4>1. pc' = "store" \/ (pc' = "deliver" /\ k < sub')
        BY <1>1, <1>2, <1>7, <2>3
      <4>2. QED
        BY <4>1, <2>3, <1>4, <1>5, <1>6 DEF Reach
    <3>2. QED
      BY <2>1, <3>1
  <2>4. CASE s = Here /\ ~(k < sub)
    <3>1. Reach(s, k) = prev
      BY <2>4, <1>4 DEF Reach
    <3>2. Reach(s, k)' = event \/ Reach(s, k)' = prev
      BY <2>4, <1>4, <1>5, <1>6 DEF Reach
    <3>3. c \in Nat
      BY <1>3, <1>8 DEF TypeOK
    <3>4. QED
      BY <2>1, <3>1, <3>2, <3>3, <1>4
  <2>5. QED
    BY <2>2, <2>3, <2>4
<1>9. CASE c \notin has[Subs[s][k]]
  <2>1. Subs[s][k] = u /\ c \in Brings
    <3>1. CASE Subs[s][k] = u
      BY <3>1, <1>2, <1>5, <1>9 DEF TypeOK
    <3>2. CASE Subs[s][k] # u
      BY <3>2, <1>3, <1>5, <1>9 DEF TypeOK
    <3>3. QED
      BY <3>1, <3>2
  <2>2. s = Here
    BY <2>1, <1>1, <1>2, <1>3, PollerAssumption
  <2>3. k = sub
    BY <2>1, <2>2, <1>1, <1>2, PollerAssumption
  <2>4. Reach(s, k)' = event
    <3>1. pc' = "store" \/ (pc' = "deliver" /\ k < sub')
      BY <1>1, <1>7, <2>3
    <3>2. QED
      BY <3>1, <2>2, <1>5, <1>6 DEF Reach
  <2>5. c <= event
    BY <2>1, <1>4 DEF Brings
  <2>6. QED
    BY <2>4, <2>5
<1>10. QED
  BY <1>8, <1>9

LEMMA NextFresh == TypeOK /\ Control /\ Delivery /\ Fresh /\ [Next]_vars => Fresh'
<1> SUFFICES ASSUME TypeOK, Control, Delivery, Fresh, [Next]_vars, faults' = 0
             PROVE  Fresh'
  BY DEF Fresh
<1> USE DEF server, local, history
<1>1. ASSUME UNCHANGED <<stored, has, faults, event, mode, order, at, pc, sub>>
      PROVE  Fresh'
  BY <1>1 DEF Fresh, Reach, Here
<1>2. ASSUME UNCHANGED <<stored, has, faults>>,
             pc \in {"idle", "source", "fetch"} \/ mode # "poll",
             pc' \in {"idle", "source", "fetch"} \/ mode' # "poll"
      PROVE  Fresh'
  <2>1. \A s \in Registered : \A k \in DOMAIN Subs[s] : Reach(s, k) = stored[s]
    BY <1>2 DEF Reach
  <2>2. \A s \in Registered : \A k \in DOMAIN Subs[s] : Reach(s, k)' = stored'[s]
    BY <1>2, ReachStored
  <2>3. QED
    BY <1>2, <2>1, <2>2 DEF Fresh
<1>3. ASSUME NEW s \in Source, NEW n \in 1 .. 2, NEW refresh \in BOOLEAN, Publish(s, n, refresh)
      PROVE  Fresh'
  BY <1>3, <1>1 DEF Publish
<1>4. ASSUME NEW m \in {"init", "poll", "refresh"}, Start(m)
      PROVE  Fresh'
  BY <1>4, <1>2 DEF Start
<1>5. CASE Skip
  BY <1>5, FreshMoves DEF Skip
<1>6. CASE RefreshSource
  BY <1>6, <1>2 DEF RefreshSource
<1>7. CASE GetLatestId
  BY <1>7, <1>2 DEF GetLatestId
<1>8. CASE LoadId
  <2>1. CASE stored[Here] = NoId
    BY <2>1, <1>8, FreshMoves DEF LoadId, OnError
  <2>2. CASE stored[Here] # NoId
    BY <2>2, <1>8, <1>2 DEF LoadId
  <2>3. QED
    BY <2>1, <2>2
<1>9. CASE SourceDone
  BY <1>9, FreshMoves DEF SourceDone
<1>10. CASE Fetch
  <2>1. sub' = 1 /\ pc' = "deliver" /\ pc = "fetch" /\ UNCHANGED <<stored, has, faults>>
    BY <1>10 DEF Fetch
  <2>2. \A s \in Registered : \A k \in DOMAIN Subs[s] : ~(k < sub')
    BY <2>1, SubsFacts, PollerAssumption
  <2>3. \A s \in Registered : \A k \in DOMAIN Subs[s] : Reach(s, k) = stored[s] /\ Reach(s, k)' = stored'[s]
    BY <2>1, <2>2 DEF Reach
  <2>4. QED
    BY <2>1, <2>3 DEF Fresh
<1>11. CASE Deliver
  <2>1. CASE mode = "poll"
    BY <2>1, <1>11, DeliverFresh
  <2>2. CASE mode = "refresh"
    <3>1. CASE LastSubscriber
      BY <2>2, <3>1, <1>11, FreshMoves DEF Deliver
    <3>2. CASE ~LastSubscriber
      BY <2>2, <3>2, <1>11, <1>2 DEF Deliver
    <3>3. QED
      BY <3>1, <3>2
  <2>3. QED
    BY <2>1, <2>2, <1>11 DEF Deliver, Control
<1>12. CASE Store
  <2>1. Here \in Source /\ Here \in Registered /\ \A s \in Registered : s \in Source
    BY <1>12, HereIsSource, PollerAssumption DEF Store, Control
  <2>2. stored'[Here] = event /\ \A s \in Source : s # Here => stored'[s] = stored[s]
    BY <2>1, <1>12 DEF Store, TypeOK
  <2>3. pc' \in {"idle", "source", "fetch"}
    <3>1. CASE mode = "init"
      BY <3>1, <1>12, MovingOn DEF Store
    <3>2. CASE mode = "poll"
      BY <3>2, <1>12 DEF Store
    <3>3. QED
      BY <3>1, <3>2, <1>12 DEF Store
  <2>4. SUFFICES ASSUME NEW s \in Registered, NEW k \in DOMAIN Subs[s], NEW c \in has[Subs[s][k]]
                 PROVE  c <= stored'[s]
    BY <2>3, <1>12, ReachStored DEF Fresh, Store
  <2>5. c <= Reach(s, k)
    BY <1>12 DEF Fresh, Store
  <2>6. CASE s # Here
    BY <2>1, <2>2, <2>5, <2>6 DEF Reach
  <2>7. CASE s = Here /\ mode = "poll"
    BY <2>2, <2>5, <2>7, <1>12 DEF Reach, Store
  <2>8. CASE s = Here /\ mode = "init"
    <3>1. stored[Here] = NoId
      BY <2>8, <1>12 DEF Delivery, Cursor, Store
    <3>2. has[Subs[s][k]] = {}
      BY <3>1, <2>8 DEF Delivery, Initialised
    <3>3. QED
      BY <3>2
  <2>9. QED
    BY <2>6, <2>7, <2>8, <1>12 DEF Store
<1>13. faults \in Nat
  BY DEF TypeOK
<1>14. CASE Retry
  BY <1>13, <1>14 DEF Retry
<1>15. CASE Fail
  BY <1>13, <1>15 DEF Fail
<1>16. CASE Crash
  BY <1>13, <1>16 DEF Crash
<1>17. CASE UNCHANGED vars
  BY <1>17, <1>1 DEF vars
<1>18. QED
  BY <1>3, <1>4, <1>5, <1>6, <1>7, <1>8, <1>9, <1>10, <1>11, <1>12, <1>14, <1>15, <1>16, <1>17
     DEF Next, Server, Starts, Step

-----------------------------------------------------------------------------
(* Groups of events. *)

LEMMA NextFeed == TypeOK /\ Control /\ Delivery /\ Feed /\ [Next]_vars => Feed'
<1> SUFFICES ASSUME TypeOK, Control, Delivery, Feed, [Next]_vars
             PROVE  Feed'
  OBVIOUS
<1> USE DEF server, local, history
<1>1. ASSUME UNCHANGED <<latest, linked, stored>>,
             pc' \in {"deliver", "store"} /\ mode' # "refresh" => event' <= latest'[Here']
      PROVE  Feed'
  BY <1>1 DEF Feed, Here
<1>2. ASSUME UNCHANGED <<latest, linked, stored>>, NextSource \/ Stop, pc # "idle"
      PROVE  Feed'
  BY <1>1, <1>2, MovingOn
<1>3. ASSUME NEW s \in Source, NEW n \in 1 .. 2, NEW refresh \in BOOLEAN, Publish(s, n, refresh)
      PROVE  Feed'
  <2>1. latest' = [latest EXCEPT ![s] = latest[s] + n] /\ n \in Nat /\ n > 0
    BY <1>3 DEF Publish
  <2>2. \A t \in Source : latest[t] \in Nat /\ latest'[t] \in Nat /\ latest'[t] >= latest[t]
    BY <2>1 DEF TypeOK
  <2>3. latest'[s] = latest[s] + n
    BY <2>1 DEF TypeOK
  <2>4. ASSUME NEW t \in Source, NEW c \in linked'[t]
        PROVE  c < latest'[t]
    <3>1. CASE c \in linked[t]
      <4>1. c \in Nat /\ c < latest[t]
        BY <3>1 DEF Feed, TypeOK
      <4>2. QED
        BY <4>1, <2>2
    <3>2. CASE c \notin linked[t]
      <4>1. t = s /\ c \in latest[s] + 1 .. latest[s] + n - 1
        BY <3>2, <2>4, <1>3 DEF Publish, TypeOK
      <4>2. QED
        BY <4>1, <2>1, <2>2, <2>3
    <3>3. QED
      BY <3>1, <3>2
  <2>5. \A t \in Source : stored'[t] <= latest'[t]
    <3>1. SUFFICES ASSUME NEW t \in Source PROVE stored[t] <= latest'[t]
      BY <1>3 DEF Publish
    <3>2. stored[t] \in Int /\ stored[t] <= latest[t]
      BY DEF Feed, TypeOK, NoId
    <3>3. QED
      BY <3>2, <2>2
  <2>6. pc' \in {"deliver", "store"} /\ mode' # "refresh" => event' <= latest'[Here']
    <3>1. UNCHANGED <<pc, mode, event>> /\ Here' = Here
      BY <1>3 DEF Publish, Here
    <3>2. pc # "idle" => Here \in Source
      BY HereIsSource
    <3>3. QED
      BY <3>1, <3>2, <2>2 DEF Feed, TypeOK
  <2>7. QED
    BY <2>4, <2>5, <2>6 DEF Feed, Here
<1>4. ASSUME NEW m \in {"init", "poll", "refresh"}, Start(m)
      PROVE  Feed'
  BY <1>4, <1>1 DEF Start
<1>5. CASE Skip
  BY <1>5, <1>2 DEF Skip
<1>6. CASE RefreshSource
  BY <1>6, <1>1 DEF RefreshSource
<1>7. CASE GetLatestId
  <2>1. latest[Here] \in Nat /\ Here' = Here
    BY <1>7, HereIsSource DEF GetLatestId, TypeOK, Here
  <2>2. QED
    BY <2>1, <1>7, <1>1 DEF GetLatestId
<1>8. CASE LoadId
  <2>1. CASE stored[Here] = NoId
    BY <2>1, <1>8, <1>2 DEF LoadId, OnError
  <2>2. CASE stored[Here] # NoId
    BY <2>2, <1>8, <1>1 DEF LoadId
  <2>3. QED
    BY <2>1, <2>2
<1>9. CASE SourceDone
  BY <1>9, <1>2 DEF SourceDone
<1>10. CASE Fetch
  <2>1. latest[Here] \in Nat /\ prev \in Nat /\ Here' = Here
    BY <1>10, HereIsSource DEF Fetch, TypeOK, Here
  <2>2. event' <= latest[Here]
    BY <2>1, <1>10 DEF Fetch
  <2>3. QED
    BY <2>1, <2>2, <1>10, <1>1 DEF Fetch
<1>11. CASE Deliver
  <2>1. CASE LastSubscriber /\ mode = "refresh"
    BY <2>1, <1>11, <1>2 DEF Deliver
  <2>2. CASE ~(LastSubscriber /\ mode = "refresh")
    <3>1. UNCHANGED <<latest, linked, stored, event, mode>> /\ Here' = Here
      BY <2>2, <1>11 DEF Deliver, Here
    <3>2. QED
      BY <3>1, <1>11, <1>1 DEF Deliver, Feed
  <2>3. QED
    BY <2>1, <2>2
<1>12. CASE Store
  <2>1. Here \in Source /\ event <= latest[Here]
    BY <1>12, HereIsSource DEF Store, Control, Feed
  <2>2. \A s \in Source : stored'[s] <= latest'[s]
    BY <2>1, <1>12 DEF Store, Feed, TypeOK
  <2>3. pc' \notin {"deliver", "store"}
    <3>1. CASE mode = "init"
      BY <3>1, <1>12, MovingOn DEF Store
    <3>2. CASE mode = "poll"
      BY <3>2, <1>12 DEF Store
    <3>3. QED
      BY <3>1, <3>2, <1>12 DEF Store
  <2>4. QED
    BY <2>2, <2>3, <1>12 DEF Store, Feed
<1>13. CASE Retry
  BY <1>13, <1>1 DEF Retry, Feed, Here
<1>14. CASE Fail
  BY <1>14, <1>2 DEF Fail, OnError
<1>15. CASE Crash
  BY <1>15, <1>1 DEF Crash, Stop
<1>16. CASE UNCHANGED vars
  BY <1>16 DEF vars, Feed, Here
<1>17. QED
  BY <1>3, <1>4, <1>5, <1>6, <1>7, <1>8, <1>9, <1>10, <1>11, <1>12, <1>13, <1>14, <1>15, <1>16
     DEF Next, Server, Starts, Step

\* Leaving a source whose stored id is not in the middle of a group.
LEMMA WholeMoves ==
  ASSUME TypeOK, Control, Grouped, GroupsStayWhole, NextSource \/ Stop, pc # "idle",
         UNCHANGED <<linked, stored>>, faults' = faults,
         \A s \in Registered : faults = 0 /\ Polling(s) => stored[s] \notin linked[s]
  PROVE  Grouped' /\ GroupsStayWhole'
<1>1. pc' \in {"idle", "source"}
  BY MovingOn
<1>2. Grouped'
  BY <1>1 DEF Grouped
<1>3. GroupsStayWhole'
  BY DEF GroupsStayWhole
<1>4. QED
  BY <1>2, <1>3

LEMMA NextWhole ==
  TypeOK /\ Control /\ Delivery /\ Feed /\ Grouped /\ GroupsStayWhole /\ [Next]_vars
    => Grouped' /\ GroupsStayWhole'
<1> SUFFICES ASSUME TypeOK, Control, Delivery, Feed, Grouped, GroupsStayWhole, [Next]_vars
             PROVE  Grouped' /\ GroupsStayWhole'
  OBVIOUS
<1> USE DEF server, local, history
<1>1. faults \in Nat /\ \A s \in Registered : s \in Source
  BY PollerAssumption DEF TypeOK
<1>2. ASSUME UNCHANGED <<linked, stored, faults>>,
             \A s \in Registered : Polling(s)' \/ ~Polling(s)
      PROVE  GroupsStayWhole'
  BY <1>2 DEF GroupsStayWhole
<1>3. ASSUME NEW s \in Source, NEW n \in 1 .. 2, NEW refresh \in BOOLEAN, Publish(s, n, refresh)
      PROVE  Grouped' /\ GroupsStayWhole'
  <2>1. ASSUME NEW t \in Source, NEW c \in Int, c <= latest[t], c \in linked'[t]
        PROVE  c \in linked[t]
    <3>1. CASE t = s
      <4>1. linked'[s] = linked[s] \cup (latest[s] + 1 .. latest[s] + n - 1) /\ latest[s] \in Nat
        BY <1>3 DEF Publish, TypeOK
      <4>2. QED
        BY <3>1, <4>1, <2>1
    <3>2. CASE t # s
      BY <3>2, <2>1, <1>3 DEF Publish, TypeOK
    <3>3. QED
      BY <3>1, <3>2
  <2>2. UNCHANGED <<pc, mode, event, prev, more, stored, faults, order, at>> /\ Here' = Here
    BY <1>3 DEF Publish, Here
  <2>3. pc # "idle" => Here \in Source
    BY HereIsSource
  <2>4. Grouped'
    <3>1. pc = "fetch" => prev \in Int /\ prev <= latest[Here]
      <4>1. pc = "fetch" => stored[Here] = prev
        BY DEF Control, Delivery, Cursor
      <4>2. QED
        BY <4>1, <2>3 DEF Feed, TypeOK
    <3>2. pc = "fetch" => (prev \in linked'[Here] => more)
      BY <3>1, <2>1, <2>3 DEF Grouped
    <3>3. pc \in {"deliver", "store"} /\ mode # "refresh" => event \in Int /\ event <= latest[Here]
      BY DEF Feed, TypeOK
    <3>4. pc \in {"deliver", "store"} /\ mode = "poll" => (event \in linked'[Here] => more)
      BY <3>3, <2>1, <2>3 DEF Grouped
    <3>5. pc = "store" /\ mode = "init" => event \notin linked'[Here]
      BY <3>3, <2>1, <2>3 DEF Grouped
    <3>6. QED
      BY <3>2, <3>4, <3>5, <2>2 DEF Grouped
  <2>5. GroupsStayWhole'
    <3>1. SUFFICES ASSUME NEW t \in Registered, faults = 0, ~Polling(t)
                   PROVE  stored[t] \notin linked'[t]
      BY <2>2 DEF GroupsStayWhole, Polling
    <3>2. stored[t] \in Int /\ stored[t] <= latest[t] /\ stored[t] \notin linked[t]
      BY <3>1, <1>1 DEF Feed, TypeOK, NoId, GroupsStayWhole
    <3>3. QED
      BY <3>2, <2>1, <1>1
  <2>6. QED
    BY <2>4, <2>5
<1>4. ASSUME NEW m \in {"init", "poll", "refresh"}, Start(m)
      PROVE  Grouped' /\ GroupsStayWhole'
  BY <1>4, <1>2 DEF Start, Grouped, Polling
<1>5. CASE Skip
  <2>1. \A s \in Registered : ~Polling(s)
    BY <1>5 DEF Skip, Polling
  <2>2. QED
    BY <2>1, <1>5, WholeMoves DEF Skip
<1>6. CASE RefreshSource
  BY <1>6, <1>2 DEF RefreshSource, Grouped, Polling
<1>7. CASE GetLatestId
  <2>1. Here \in Source /\ Here' = Here
    BY <1>7, HereIsSource DEF GetLatestId, Here
  <2>2. latest[Here] \notin linked[Here]
    BY <2>1 DEF Feed, TypeOK
  <2>3. Grouped'
    BY <2>1, <2>2, <1>7 DEF GetLatestId, Grouped
  <2>4. QED
    BY <2>3, <1>7, <1>2 DEF GetLatestId, Polling
<1>8. CASE LoadId
  <2>1. CASE stored[Here] = NoId
    <3>1. \A s \in Registered : ~Polling(s)
      BY <1>8 DEF LoadId, Polling
    <3>2. QED
      BY <2>1, <3>1, <1>8, WholeMoves DEF LoadId, OnError
  <2>2. CASE stored[Here] # NoId
    <3>1. Grouped'
      BY <2>2, <1>8 DEF LoadId, Grouped
    <3>2. QED
      BY <2>2, <3>1, <1>8, <1>2 DEF LoadId, Polling
  <2>3. QED
    BY <2>1, <2>2
<1>9. CASE SourceDone
  <2>1. Here \in Source /\ stored[Here] = prev /\ pc = "fetch"
    BY <1>9, HereIsSource DEF SourceDone, Control, Delivery, Cursor
  <2>2. prev \notin linked[Here]
    <3>1. CASE ~MayFetch
      BY <3>1, <2>1 DEF MayFetch, Grouped
    <3>2. CASE latest[Here] = prev
      BY <3>2, <2>1 DEF Feed, TypeOK
    <3>3. QED
      BY <3>1, <3>2, <1>9 DEF SourceDone
  <2>3. \A s \in Registered : Polling(s) => stored[s] \notin linked[s]
    BY <2>1, <2>2 DEF Polling
  <2>4. QED
    BY <2>3, <1>9, WholeMoves DEF SourceDone
<1>10. CASE Fetch
  <2>1. Grouped'
    BY <1>10 DEF Fetch, Grouped, Here, Control
  <2>2. QED
    BY <2>1, <1>10, <1>2 DEF Fetch, Polling, Here
<1>11. CASE Deliver
  <2>1. CASE LastSubscriber /\ mode = "refresh"
    <3>1. \A s \in Registered : ~Polling(s)
      BY <2>1 DEF Polling
    <3>2. QED
      BY <2>1, <3>1, <1>11, WholeMoves DEF Deliver
  <2>2. CASE ~(LastSubscriber /\ mode = "refresh")
    <3>1. /\ UNCHANGED <<latest, linked, stored, event, mode, more, faults>> /\ Here' = Here
          /\ pc' = "deliver" \/ (pc' = "store" /\ mode = "poll")
      BY <2>2, <1>11 DEF Deliver, Here
    <3>2. Grouped'
      BY <3>1, <1>11 DEF Deliver, Grouped
    <3>3. QED
      BY <3>1, <3>2, <1>11, <1>2 DEF Deliver, Polling
  <2>3. QED
    BY <2>1, <2>2
<1>12. CASE Store
  <2>1. Here \in Source /\ Here \in Registered /\ event \in Nat /\ pc = "store"
    BY <1>12, HereIsSource DEF Store, Control, TypeOK
  <2>2. stored'[Here] = event /\ \A s \in Source : s # Here => stored'[s] = stored[s]
    BY <2>1, <1>12 DEF Store, TypeOK
  <2>3. UNCHANGED <<linked, faults>>
    BY <1>12 DEF Store
  <2>4. CASE mode = "init"
    <3>1. pc' \in {"idle", "source"}
      BY <2>4, <1>12, MovingOn DEF Store
    <3>2. Grouped'
      BY <3>1 DEF Grouped
    <3>3. event \notin linked[Here]
      BY <2>1, <2>4 DEF Grouped
    <3>4. \A s \in Registered : ~Polling(s)
      BY <2>4 DEF Polling
    <3>5. GroupsStayWhole'
      BY <3>3, <3>4, <2>2, <2>3, <1>1 DEF GroupsStayWhole
    <3>6. QED
      BY <3>2, <3>5
  <2>5. CASE mode = "poll"
    <3>1. UNCHANGED <<mode, more, event>> /\ Here' = Here /\ pc' = "fetch" /\ prev' = event
      BY <2>5, <1>12 DEF Store, Advance, Here
    <3>2. Grouped'
      BY <2>1, <2>3, <2>5, <3>1 DEF Grouped
    <3>3. Polling(Here)' /\ \A s \in Registered : s # Here => ~Polling(s)
      BY <2>5, <3>1 DEF Polling
    <3>4. GroupsStayWhole'
      <4>1. SUFFICES ASSUME NEW s \in Registered, faults = 0, ~Polling(s)'
                     PROVE  stored'[s] \notin linked[s]
        BY <2>3 DEF GroupsStayWhole
      <4>2. s # Here
        BY <2>5, <3>1, <4>1 DEF Polling
      <4>3. QED
        BY <4>1, <4>2, <3>3, <2>2, <1>1 DEF GroupsStayWhole
    <3>5. QED
      BY <3>2, <3>4
  <2>6. QED
    BY <2>4, <2>5, <1>12 DEF Store
<1>13. CASE Retry
  BY <1>1, <1>13 DEF Retry, Grouped, GroupsStayWhole, Here
<1>14. CASE Fail
  <2>1. faults' # 0
    BY <1>1, <1>14 DEF Fail
  <2>2. pc' = "idle"
    BY <1>14 DEF Fail, OnError, Stop
  <2>3. QED
    BY <2>1, <2>2 DEF Grouped, GroupsStayWhole
<1>15. CASE Crash
  <2>1. faults' # 0 /\ pc' = "idle"
    BY <1>1, <1>15 DEF Crash, Stop
  <2>2. QED
    BY <2>1 DEF Grouped, GroupsStayWhole
<1>16. CASE UNCHANGED vars
  BY <1>16 DEF vars, Grouped, GroupsStayWhole, Polling, Here
<1>17. QED
  BY <1>3, <1>4, <1>5, <1>6, <1>7, <1>8, <1>9, <1>10, <1>11, <1>12, <1>13, <1>14, <1>15, <1>16
     DEF Next, Server, Starts, Step

-----------------------------------------------------------------------------
(* Theorems. *)

LEMMA FeedInvariant == Spec => []FeedInv
<1>1. Init => FeedInv
  BY InitFeed
<1>2. FeedInv /\ [Next]_vars => FeedInv'
  BY NextType, NextControl, NextDelivery, NextDone DEF FeedInv, Delivery
<1>3. QED
  BY <1>1, <1>2, PTL DEF Spec

\* What holds as long as nothing failed, on top of FeedInv.
SmoothInv == Fresh /\ Feed /\ Grouped /\ GroupsStayWhole

LEMMA SmoothInvariant == Spec => []SmoothInv
<1>1. Init => SmoothInv
  <2>1. \A s \in Registered : s \in Source /\ \A k \in DOMAIN Subs[s] : Subs[s][k] \in Subscriber
    BY SubsFacts, PollerAssumption
  <2>2. Init => Fresh
    BY <2>1 DEF Init, Fresh
  <2>3. Init => Feed /\ Grouped
    BY DEF Init, Feed, Grouped, NoId
  <2>4. Init => GroupsStayWhole
    BY <2>1 DEF Init, GroupsStayWhole
  <2>5. QED
    BY <2>2, <2>3, <2>4 DEF SmoothInv
<1>2. FeedInv /\ SmoothInv /\ [Next]_vars => SmoothInv'
  BY NextFresh, NextFeed, NextWhole DEF SmoothInv, FeedInv, Delivery
<1>3. QED
  BY <1>1, <1>2, FeedInvariant, PTL DEF Spec

\* The variables of the event loop keep their types.
THEOREM TypeCorrect == Spec => []TypeOK
<1>1. FeedInv => TypeOK
  BY DEF FeedInv
<1>2. QED
  BY <1>1, FeedInvariant, PTL

\* Whatever fails, and wherever the process ends, the stored event id never runs
\* ahead of a subscriber: EventPoller::poll stores it after the last subscriber.
THEOREM StoredIdNeverAhead == Spec => []NothingSkipped
<1>1. FeedInv => NothingSkipped
  BY DEF FeedInv
<1>2. QED
  BY <1>1, FeedInvariant, PTL

\* A subscriber is brought the changes of its source without gaps, although
\* events are applied again after a failure.
THEOREM FeedHasNoGaps == Spec => []InOrder
<1>1. FeedInv => InOrder
  BY DEF FeedInv
<1>2. QED
  BY <1>1, FeedInvariant, PTL

\* EventManager::poll gets to a source only when the sources that it depends on
\* have caught up, or have used up the limit of the iteration.
THEOREM DependenciesFirstCaughtUp == Spec => []DependenciesCaughtUp
<1>1. FeedInv => DependenciesCaughtUp
  <2> SUFFICES ASSUME FeedInv, NEW s \in Registered, Polling(s),
                      NEW d \in Deps[s] \cap Registered, Subs[d] # << >>
               PROVE  stored[d] >= goal[d] \/ count[d] >= MaxEvents
    BY DEF DependenciesCaughtUp
  <2>1. TypeOK /\ Control /\ Done /\ mode = "poll" /\ pc # "idle" /\ order[at] = s
    BY DEF FeedInv, Polling, Here
  <2>2. at \in 1 .. Len(order) /\ Len(order) \in Nat
    BY <2>1, HereIsSource
  <2>3. order \in Pops(Registered)
    BY <2>1 DEF TypeOK
  <2>4. DOMAIN order = 1 .. Len(order)
    BY <2>3, OrderFacts
  <2>5. PICK j \in DOMAIN order : j < at /\ order[j] = d
    BY <2>1, <2>2, <2>3, <2>4, OrderFacts
  <2>6. j \in 1 .. at - 1
    BY <2>2, <2>4, <2>5
  <2>7. QED
    BY <2>1, <2>5, <2>6 DEF Done
<1>2. QED
  BY <1>1, FeedInvariant, PTL

\* Unless a call failed, the process ended or the feed asked for a refresh, no
\* subscriber is brought a change twice: EventPoller::poll goes on from the id of
\* the event that it has just handed to all of them.
THEOREM NothingTwice == Spec => []NoReplay
<1>1. FeedInv /\ SmoothInv => NoReplay
  <2> SUFFICES ASSUME FeedInv, Fresh, faults = 0, mode = "poll", pc = "deliver",
                      NEW k \in sub .. Len(Subs[Here]),
                      NEW c \in (prev + 1 .. event) \cap has[Subs[Here][k]]
               PROVE  FALSE
    BY DEF NoReplay, SmoothInv
  <2>1. /\ TypeOK /\ Control /\ Here \in Registered /\ Here \in Source
        /\ stored[Here] = prev /\ prev \in Nat /\ event \in Nat /\ sub \in Nat \ {0}
    BY PollerAssumption DEF FeedInv, Control, Cursor, TypeOK
  <2>2. Len(Subs[Here]) \in Nat /\ DOMAIN Subs[Here] = 1 .. Len(Subs[Here])
    BY <2>1, SubsFacts
  <2>3. k \in DOMAIN Subs[Here] /\ ~(k < sub)
    BY <2>1, <2>2
  <2>4. Reach(Here, k) = prev
    BY <2>1, <2>3 DEF Reach
  <2>5. c <= prev
    BY <2>1, <2>3, <2>4 DEF Fresh
  <2>6. QED
    BY <2>1, <2>5
<1>2. QED
  BY <1>1, FeedInvariant, SmoothInvariant, PTL

\* Unless a call failed or the process ended, EventPoller::poll leaves a source
\* only at the end of a group of related events: has_more overrules
\* MAX_EVENTS_PER_POLL, and the initial id is never inside a group.
THEOREM PollsKeepGroupsWhole == Spec => []GroupsStayWhole
<1>1. SmoothInv => GroupsStayWhole
  BY DEF SmoothInv
<1>2. QED
  BY <1>1, SmoothInvariant, PTL
=============================================================================
