---------------------------- MODULE EventPoller ----------------------------
(***************************************************************************)
(* One iteration of the event loop: EventManager::poll, initialize_all and *)
(* refresh run the sources in their order, and EventPoller and the         *)
(* subscriber list (core-event-loop/src/v6/poller.rs, subscriber.rs) fetch *)
(* the events of a source one by one, hand each to every subscriber and    *)
(* then store its id.  Every await is a step: the server goes on, calls    *)
(* fail, and the process may end, between any two of them.  The actor that *)
(* owns the manager runs one iteration at a time.                          *)
(*                                                                         *)
(* The server keeps a feed of changes 1, 2, ... per source; the id of an   *)
(* event is the last change that it stands for.                            *)
(*                                                                         *)
(* A definition that no action uses and that stands before the one it      *)
(* resembles is a faulty variant of it: the mutants of PROJECT.json put it *)
(* in its place to show that a property notices.                           *)
(***************************************************************************)
EXTENDS EventSchedule, Sequences

CONSTANTS
  Registered,   \* the registered sources
  Subscriber,   \* all subscribers
  Subs,         \* Subs[s]: the subscribers of source s, in slot order
  MaxEvents,    \* MAX_EVENTS_PER_POLL
  MaxAttempts,  \* MAX_ERROR_RETRIES
  MaxChange,    \* bound: MaxChange[s]: changes that the server makes of source s
  MaxFaults     \* bound: failed calls and crashes

ASSUME PollerAssumption ==
  /\ Registered \subseteq Source
  /\ Subs \in [Source -> Seq(Subscriber)]
  /\ \A s \in Source : \A j, k \in DOMAIN Subs[s] : Subs[s][j] = Subs[s][k] => j = k
  /\ \A s, t \in Source : \A j \in DOMAIN Subs[s], k \in DOMAIN Subs[t] :
       Subs[s][j] = Subs[t][k] => s = t
  /\ MaxEvents \in Nat \ {0} /\ MaxAttempts \in Nat \ {0}
  /\ MaxChange \in [Source -> Nat] /\ MaxFaults \in Nat

VARIABLES
  \* The server.
  latest,   \* latest[s]: the last change of source s
  linked,   \* linked[s]: changes that come with a related one after them
  resets,   \* resets[s]: changes that clients can only learn by a refresh
  \* The database.
  stored,   \* stored[s]: the stored event id of s, NoId when there is none
  \* The iteration.
  order,    \* exec_order
  mode,     \* what runs: "none", "init", "poll" or "refresh"
  at,       \* position in order
  pc,       \* where the iteration is in the source at that position
  prev,     \* previous_event_id
  event,    \* the id of the fetched event
  more,     \* has_more
  count,    \* count[s]: processed_event_count of s in this iteration
  sub,      \* position in Subs of the subscriber whose turn it is
  tries,    \* num_attempts
  \* History and budget.
  start,    \* start[s]: the id that initialize stored first
  has,      \* has[u]: changes that events brought to subscriber u
  goal,     \* goal[s]: latest[s] when the iteration began
  faults

server == <<latest, linked, resets>>
local == <<prev, event, more, sub, tries>>
history == <<start, has, goal>>
vars == <<server, stored, order, mode, at, pc, local, count, history, faults>>

NoId == -1
Here == order[at]

\* Types of the server, the database and the iteration.
TypeOK ==
  /\ latest \in [Source -> Nat]
  /\ linked \in [Source -> SUBSET Nat]
  /\ resets \in [Source -> SUBSET Nat]
  /\ stored \in [Source -> Nat \cup {NoId}]
  /\ order \in Pops(Registered)
  /\ mode \in {"none", "init", "poll", "refresh"}
  /\ at \in 0 .. Len(order)
  /\ pc \in {"idle", "source", "fetch", "deliver", "store"}
  /\ prev \in Nat
  /\ event \in Nat
  /\ more \in BOOLEAN
  /\ count \in [Source -> Nat]
  /\ sub \in Nat \ {0}
  /\ tries \in 0 .. MaxAttempts - 1
  /\ start \in [Source -> Nat \cup {NoId}]
  /\ has \in [Subscriber -> SUBSET Nat]
  /\ goal \in [Source -> Nat]
  /\ faults \in Nat

Init ==
  /\ latest = [s \in Source |-> 0]
  /\ linked = [s \in Source |-> {}]
  /\ resets = [s \in Source |-> {}]
  /\ stored = [s \in Source |-> NoId]
  /\ order \in Pops(Registered)
  /\ mode = "none"
  /\ at = 0
  /\ pc = "idle"
  /\ prev = 0
  /\ event = 0
  /\ more = FALSE
  /\ count = [s \in Source |-> 0]
  /\ sub = 1
  /\ tries = 0
  /\ start = [s \in Source |-> NoId]
  /\ has = [u \in Subscriber |-> {}]
  /\ goal = [s \in Source |-> 0]
  /\ faults = 0

-----------------------------------------------------------------------------
(* The server. *)

\* One change, or two related ones at once; the last one may need a refresh.
Publish(s, n, refresh) ==
  /\ latest[s] + n <= MaxChange[s]
  /\ latest' = [latest EXCEPT ![s] = @ + n]
  /\ linked' = [linked EXCEPT ![s] = @ \cup (latest[s] + 1 .. latest[s] + n - 1)]
  /\ resets' = [resets EXCEPT ![s] = @ \cup (IF refresh THEN {latest[s] + n} ELSE {})]
  /\ UNCHANGED <<stored, order, mode, at, pc, local, count, history, faults>>

-----------------------------------------------------------------------------
(* The manager. *)

\* The actor takes the next message: run all sources, in order.
Start(m) ==
  /\ pc = "idle"
  /\ order # << >>
  /\ mode' = m
  /\ at' = 1
  /\ pc' = "source"
  /\ goal' = latest
  /\ UNCHANGED <<server, stored, order, local, count, start, has, faults>>

\* A call of the poller returns: its variables are gone.
Return == prev' = 0 /\ event' = 0 /\ more' = FALSE /\ sub' = 1 /\ tries' = 0

\* The iteration ends.
Stop ==
  /\ mode' = "none" /\ at' = 0 /\ pc' = "idle"
  /\ count' = [s \in Source |-> 0]
  /\ goal' = [s \in Source |-> 0]
  /\ Return

Proceed == at' = at + 1 /\ pc' = "source" /\ Return /\ UNCHANGED <<mode, count, goal>>

NextSourceUnlessPolling == IF at < Len(order) /\ mode # "poll" THEN Proceed ELSE Stop

NextSourcePastEnd == IF at <= Len(order) THEN Proceed ELSE Stop

\* The source at this position is done: go on with the next one.
NextSource == IF at < Len(order) THEN Proceed ELSE Stop

OnErrorGoOn == NextSource

\* An error of a source ends the whole iteration.
OnError == Stop

SkippedInitAgain(s) ==
  \/ s \notin Registered
  \/ mode # "init" /\ Subs[s] = << >>

\* A source that is not registered, or that there is nothing to do for.
Skipped(s) ==
  \/ s \notin Registered
  \/ mode # "init" /\ Subs[s] = << >>
  \/ mode = "init" /\ stored[s] # NoId

Skip ==
  /\ pc = "source"
  /\ Skipped(Here)
  /\ NextSource
  /\ UNCHANGED <<server, stored, order, start, has, faults>>

\* refresh_source: every subscriber gets a refresh; no event is involved.
RefreshSource ==
  /\ pc = "source" /\ mode = "refresh"
  /\ ~Skipped(Here)
  /\ pc' = "deliver"
  /\ UNCHANGED <<server, stored, order, mode, at, local, count, history, faults>>

-----------------------------------------------------------------------------
(* The poller. *)

\* initialize, when no id is stored: get_latest_event_id.
GetLatestId ==
  /\ pc = "source" /\ mode = "init"
  /\ ~Skipped(Here)
  /\ event' = latest[Here]
  /\ pc' = "store"
  /\ UNCHANGED <<server, stored, order, mode, at, prev, more, sub, tries, count, history, faults>>

\* poll: load the stored id; without one the poll fails.
LoadId ==
  /\ pc = "source" /\ mode = "poll"
  /\ ~Skipped(Here)
  /\ IF stored[Here] = NoId
     THEN OnError
     ELSE /\ prev' = stored[Here]
          /\ more' = TRUE
          /\ pc' = "fetch"
          /\ UNCHANGED <<mode, at, event, sub, tries, count, goal>>
  /\ UNCHANGED <<server, stored, order, start, has, faults>>

MayFetchCapped == count[Here] < MaxEvents

\* The condition of the loop: the limit does not split a group of events.
MayFetch == count[Here] < MaxEvents \/ more

\* The limit is reached, or the server answers with the id it was asked for.
SourceDone ==
  /\ pc = "fetch"
  /\ ~MayFetch \/ latest[Here] = prev
  /\ NextSource
  /\ UNCHANGED <<server, stored, order, start, has, faults>>

\* get_event answers with an event that stands for the changes after prev up to
\* its id.
Fetch ==
  /\ pc = "fetch"
  /\ MayFetch
  /\ event' \in prev + 1 .. latest[Here]
  /\ more' = (event' \in linked[Here])
  /\ sub' = 1
  /\ tries' = 0
  /\ pc' = "deliver"
  /\ UNCHANGED <<server, stored, order, mode, at, prev, count, history, faults>>

\* A refresh stands for everything before it too.
Brings == IF (prev + 1 .. event) \cap resets[Here] # {} THEN 1 .. event ELSE prev + 1 .. event

FirstSubscriber == sub = 1

\* All subscribers have been served.
LastSubscriber == sub = Len(Subs[Here])

\* on_event or on_refresh succeeds for the subscriber whose turn it is.
Deliver ==
  /\ pc = "deliver"
  /\ has' = IF mode = "refresh" THEN has ELSE [has EXCEPT ![Subs[Here][sub]] = @ \cup Brings]
  /\ \/ /\ ~LastSubscriber
        /\ sub' = sub + 1
        /\ tries' = 0
        /\ UNCHANGED <<mode, at, pc, prev, event, more, count, goal>>
     \/ /\ LastSubscriber /\ mode = "poll"
        /\ pc' = "store"
        /\ UNCHANGED <<mode, at, local, count, goal>>
     \/ /\ LastSubscriber /\ mode = "refresh"
        /\ NextSource
  /\ UNCHANGED <<server, stored, order, start, faults>>

\* It fails with an error that can be retried, and may be tried again.
Retry ==
  /\ pc = "deliver"
  /\ faults < MaxFaults
  /\ tries + 1 < MaxAttempts
  /\ tries' = tries + 1
  /\ faults' = faults + 1
  /\ UNCHANGED <<server, stored, order, mode, at, pc, prev, event, more, sub, count, history>>

AdvanceForgotten == UNCHANGED prev /\ count' = [count EXCEPT ![Here] = @ + 1]

\* previous_event_id and processed_event_count after an event is stored.
Advance == prev' = event /\ count' = [count EXCEPT ![Here] = @ + 1]

Store ==
  /\ pc = "store"
  /\ stored' = [stored EXCEPT ![Here] = event]
  /\ \/ /\ mode = "init"
        /\ start' = [start EXCEPT ![Here] = IF @ = NoId THEN event ELSE @]
        /\ NextSource
     \/ /\ mode = "poll"
        /\ Advance
        /\ pc' = "fetch"
        /\ UNCHANGED <<mode, at, event, more, sub, tries, start, goal>>
  /\ UNCHANGED <<server, order, has, faults>>

\* A call fails for good: loading or storing an id, fetching or decoding an
\* event, or a subscriber (at the last attempt, or with a lasting error).
Fail ==
  /\ faults < MaxFaults
  /\ \/ pc \in {"fetch", "deliver", "store"}
     \/ pc = "source" /\ mode # "refresh" /\ ~Skipped(Here)
  /\ OnError
  /\ faults' = faults + 1
  /\ UNCHANGED <<server, stored, order, start, has>>

\* The process ends and starts again: only the database is left, and the
\* sources are registered anew, in some order.
Crash ==
  /\ faults < MaxFaults
  /\ pc # "idle"
  /\ Stop
  /\ order' \in Pops(Registered)
  /\ faults' = faults + 1
  /\ UNCHANGED <<server, stored, start, has>>

-----------------------------------------------------------------------------
Server == \E s \in Source, n \in 1 .. 2, refresh \in BOOLEAN : Publish(s, n, refresh)

Step == Skip \/ RefreshSource \/ GetLatestId \/ LoadId \/ SourceDone \/ Fetch \/ Deliver \/ Store

Starts == \E m \in {"init", "poll", "refresh"} : Start(m)

Next == Server \/ Starts \/ Step \/ Retry \/ Fail \/ Crash

Spec == Init /\ [][Next]_vars

\* An iteration that has begun goes on, and the loop is initialised and polled
\* again and again, whatever else its actor is asked to do.
Fairness == WF_vars(Step) /\ SF_vars(Start("init")) /\ SF_vars(Start("poll"))

FairSpec == Spec /\ Fairness

-----------------------------------------------------------------------------
(* Properties. *)

Polling(s) == mode = "poll" /\ pc \in {"fetch", "deliver", "store"} /\ Here = s

\* The stored id never runs ahead of a subscriber: whatever fails, and wherever
\* the process ends, every change up to it was brought to every subscriber of
\* the source, so that the next poll need not look back.
NothingSkipped ==
  \A s \in Registered : stored[s] # NoId =>
    \A k \in DOMAIN Subs[s] : start[s] + 1 .. stored[s] \subseteq has[Subs[s][k]]

\* A subscriber gets changes in the order of the feed: it is never brought a
\* change before it was brought the ones between the initial id and it.
InOrder ==
  \A s \in Registered : \A k \in DOMAIN Subs[s] :
    \A c \in has[Subs[s][k]] : start[s] + 1 .. c \subseteq has[Subs[s][k]]

\* Without failures and refreshes nothing is brought to a subscriber twice.
NoReplay ==
  faults = 0 /\ mode = "poll" /\ pc = "deliver" /\ resets[Here] = {} =>
    \A k \in sub .. Len(Subs[Here]) : (prev + 1 .. event) \cap has[Subs[Here][k]] = {}

\* While a source is polled, the sources that it depends on have been polled in
\* the same iteration, up to where the server was when the iteration began or
\* up to the limit: an iteration does not go past a source that failed.
DependenciesCaughtUp ==
  \A s \in Registered : Polling(s) =>
    \A d \in Deps[s] \cap Registered :
      Subs[d] # << >> => stored[d] >= goal[d] \/ count[d] >= MaxEvents

\* Unless something failed, a source whose turn it is not is never left in the
\* middle of a group of related events, although polls are limited.
GroupsStayWhole ==
  \A s \in Registered : faults = 0 /\ ~Polling(s) => stored[s] \notin linked[s]

\* Every change that the server makes after the first initialisation reaches
\* every subscriber in the end.
EventuallyDelivered ==
  \A s \in Registered : \A k \in DOMAIN Subs[s] : \A c \in 1 .. MaxChange[s] :
    (stored[s] # NoId /\ c > start[s] /\ latest[s] >= c) ~> c \in has[Subs[s][k]]
=============================================================================
