----------------------------- MODULE RedisEvents -----------------------------
(***************************************************************************)
(* PublishEvent and SubscribeEvents of the redis host (redis.go), for one  *)
(* topic: a stream that every subscriber reads with XREAD, from "$" (only  *)
(* what is added while the call blocks) until it has received an event,    *)
(* from the last event it received afterwards.                             *)
(***************************************************************************)
EXTENDS Integers, Sequences, FiniteSets

CONSTANTS
    Readers,      \* SubscribeEvents calls
    MaxEvents,    \* bound: events published
    TopicMaxLen   \* entries the topic certainly keeps (1000 in the code)

ASSUME RedisEventsAssumption == MaxEvents \in Nat /\ TopicMaxLen \in Nat \ {0}

VARIABLES
    added,      \* events added to the topic's stream so far
    kept,       \* the oldest of them that was not trimmed
    loop,       \* the goroutine of each subscription
    lastID,     \* its lastID, 0 for "$"
    from,       \* where the XREAD under way starts
    todo,       \* the events of its last reply it has not handled yet
    got,        \* history: events handled, in order
    armed,      \* history: events published when SubscribeEvents returned
    gap         \* history: events published while the subscription had had no
                \* event yet and no XREAD under way, or during an XREAD that failed

eventVars == <<added, kept, loop, lastID, from, todo, got, armed, gap>>

EventInit ==
    /\ added = 0 /\ kept = 1
    /\ loop = [r \in Readers |-> "new"]
    /\ lastID = [r \in Readers |-> 0]
    /\ from = [r \in Readers |-> 0]
    /\ todo = [r \in Readers |-> <<>>]
    /\ got = [r \in Readers |-> <<>>]
    /\ armed = [r \in Readers |-> 0]
    /\ gap = [r \in Readers |-> {}]

\* XADD MAXLEN ~ 1000: entries beyond that may be trimmed.
PublishEvent ==
    /\ added < MaxEvents
    /\ added' = added + 1
    /\ \E k \in kept..added' :
          /\ k > kept => added' - k + 1 >= TopicMaxLen
          /\ kept' = k
    /\ gap' = [r \in Readers |-> IF loop[r] = "loop" /\ lastID[r] = 0
                                 THEN gap[r] \cup {added'} ELSE gap[r]]
    /\ UNCHANGED <<loop, lastID, from, todo, got, armed>>

\* The goroutine starts and signals "just before issuing the first blocking
\* read"; SubscribeEvents returns.
SubscribeEvents(r) ==
    /\ loop[r] = "new"
    /\ loop' = [loop EXCEPT ![r] = "loop"]
    /\ armed' = [armed EXCEPT ![r] = added]
    /\ UNCHANGED <<added, kept, lastID, from, todo, got, gap>>

\* Fault: every read starts at "$".
ReadFromNow(r) ==
    /\ loop[r] = "loop"
    /\ loop' = [loop EXCEPT ![r] = "reading"]
    /\ from' = [from EXCEPT ![r] = added]
    /\ UNCHANGED <<added, kept, lastID, todo, got, armed, gap>>

\* Fault: the first read starts at "0", the beginning of the topic.
ReadFromStart(r) ==
    /\ loop[r] = "loop"
    /\ loop' = [loop EXCEPT ![r] = "reading"]
    /\ from' = [from EXCEPT ![r] = lastID[r]]
    /\ UNCHANGED <<added, kept, lastID, todo, got, armed, gap>>

\* XREAD reaches redis: "$" is the last entry at that moment.
XRead(r) ==
    /\ loop[r] = "loop"
    /\ loop' = [loop EXCEPT ![r] = "reading"]
    /\ from' = [from EXCEPT ![r] = IF lastID[r] = 0 THEN added ELSE lastID[r]]
    /\ UNCHANGED <<added, kept, lastID, todo, got, armed, gap>>

MaxOf(a, b) == IF a > b THEN a ELSE b

\* It returns everything after that which is still there ...
ReadReturns(r) ==
    LET first == MaxOf(from[r] + 1, kept)
    IN /\ loop[r] = "reading"
       /\ first <= added
       /\ loop' = [loop EXCEPT ![r] = "handling"]
       /\ todo' = [todo EXCEPT ![r] = [i \in 1..(added - first + 1) |-> first + i - 1]]
       /\ UNCHANGED <<added, kept, lastID, from, got, armed, gap>>

\* ... or nothing: the block times out ...
ReadEmpty(r) ==
    /\ loop[r] = "reading"
    /\ from[r] >= added
    /\ loop' = [loop EXCEPT ![r] = "loop"]
    /\ UNCHANGED <<added, kept, lastID, from, todo, got, armed, gap>>

\* ... or an error, whatever was added meanwhile, and a pause of 100 ms.
ReadFailed(r) ==
    /\ loop[r] = "reading"
    /\ loop' = [loop EXCEPT ![r] = "loop"]
    /\ gap' = [gap EXCEPT ![r] = IF lastID[r] = 0 THEN @ \cup ((from[r] + 1)..added) ELSE @]
    /\ UNCHANGED <<added, kept, lastID, from, todo, got, armed>>

\* lastID moves before the handler runs; an error ends the subscription.
HandleEvent(r) ==
    /\ loop[r] = "handling"
    /\ lastID' = [lastID EXCEPT ![r] = Head(todo[r])]
    /\ got' = [got EXCEPT ![r] = Append(@, Head(todo[r]))]
    /\ todo' = [todo EXCEPT ![r] = Tail(@)]
    /\ \/ loop' = [loop EXCEPT ![r] = IF Tail(todo[r]) = <<>> THEN "loop" ELSE "handling"]
       \/ loop' = [loop EXCEPT ![r] = "ended"]
    /\ UNCHANGED <<added, kept, from, armed, gap>>

EndReader(r) ==
    /\ loop[r] = "loop"
    /\ loop' = [loop EXCEPT ![r] = "ended"]
    /\ UNCHANGED <<added, kept, lastID, from, todo, got, armed, gap>>

EventNext ==
    \/ PublishEvent
    \/ \E r \in Readers : \/ SubscribeEvents(r) \/ XRead(r) \/ ReadReturns(r)
                          \/ ReadEmpty(r) \/ ReadFailed(r) \/ HandleEvent(r)
                          \/ EndReader(r)

EventSpec == EventInit /\ [][EventNext]_eventVars

-----------------------------------------------------------------------------
\* From its first event on, a subscriber handles every event, once and in the
\* order of publication, unless the topic was trimmed under it.
NoGapAfterFirst ==
    \A r \in Readers : \A i \in 1..(Len(got[r]) - 1) :
        /\ got[r][i] < got[r][i + 1]
        /\ got[r][i + 1] # got[r][i] + 1 => got[r][i] + 1 < kept

\* Nothing that was published before SubscribeEvents returned is handled.
OnlyFutureEvents ==
    \A r \in Readers : \A i \in 1..Len(got[r]) : got[r][i] > armed[r]

\* Before its first event, a subscriber misses an event published after it
\* subscribed only if that fell into a gap between two XREADs from "$" or
\* into one that failed, or was trimmed.
MissedOnlyInGaps ==
    \A r \in Readers : \A e \in (armed[r] + 1)..added :
        got[r] # <<>> /\ e < got[r][1] => e \in gap[r] \/ e < kept

\* What a subscriber of a topic can rely on: events published after it
\* subscribed, in order, none twice and none missing after the first; what is
\* missing before the first was published in a gap of its reads.
FutureEventsInOrder == NoGapAfterFirst /\ OnlyFutureEvents /\ MissedOnlyInGaps

=============================================================================
