---------------------------- MODULE SessionQueue ----------------------------
(***************************************************************************)
(* What a session host promises of its message streams, whatever keeps     *)
(* them: append-only logs whose messages are handed to competing           *)
(* consumers.  A message is held by at most one consumer at a time, a      *)
(* finished message is never handed out again, and every consumer moves    *)
(* forward only.  sessions/host.go, SessionHost.PublishSession and         *)
(* SubscribeSession.                                                       *)
(***************************************************************************)
EXTENDS Integers

CONSTANTS Logs, Consumers, MaxPublished

VARIABLES
    published,   \* number of messages in each log
    finished,    \* the messages of each log that some consumer accepted
    source,      \* the log each consumer reads, 0 before it has one
    held,        \* the message each consumer is working on, 0 for none
    position     \* the last message each consumer has left behind

vars == <<published, finished, source, held, position>>

Nothing == 0

Init ==
    /\ published = [l \in Logs |-> 0]
    /\ finished = [l \in Logs |-> {}]
    /\ source = [c \in Consumers |-> Nothing]
    /\ held = [c \in Consumers |-> Nothing]
    /\ position = [c \in Consumers |-> 0]

Publish(l) ==
    /\ published[l] < MaxPublished
    /\ published' = [published EXCEPT ![l] = @ + 1]
    /\ UNCHANGED <<finished, source, held, position>>

\* A consumer picks its log once, and then where in the log it starts.
Open(c) ==
    /\ source[c] = Nothing
    /\ \E l \in Logs : source' = [source EXCEPT ![c] = l]
    /\ UNCHANGED <<published, finished, held, position>>

Seek(c) ==
    /\ source[c] # Nothing
    /\ held[c] = Nothing
    /\ position[c] = 0
    /\ \E k \in 0..published[source[c]] : position' = [position EXCEPT ![c] = k]
    /\ UNCHANGED <<published, finished, source, held>>

Take(c) ==
    /\ source[c] # Nothing
    /\ held[c] = Nothing
    /\ \E m \in 1..published[source[c]] :
         /\ m > position[c]
         /\ m \notin finished[source[c]]
         /\ \A d \in Consumers : source[d] = source[c] => held[d] # m
         /\ held' = [held EXCEPT ![c] = m]
    /\ UNCHANGED <<published, finished, source, position>>

Finish(c) ==
    /\ held[c] # Nothing
    /\ finished' = [finished EXCEPT ![source[c]] = @ \cup {held[c]}]
    /\ position' = [position EXCEPT ![c] = held[c]]
    /\ held' = [held EXCEPT ![c] = Nothing]
    /\ UNCHANGED <<published, source>>

GiveBack(c) ==
    /\ held[c] # Nothing
    /\ held' = [held EXCEPT ![c] = Nothing]
    /\ UNCHANGED <<published, finished, source, position>>

Next ==
    \/ \E l \in Logs : Publish(l)
    \/ \E c \in Consumers :
         Open(c) \/ Seek(c) \/ Take(c) \/ Finish(c) \/ GiveBack(c)

Spec == Init /\ [][Next]_vars
=============================================================================
