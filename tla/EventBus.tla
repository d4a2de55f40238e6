------------------------------ MODULE EventBus ------------------------------
(***************************************************************************)
(* The server-internal event fan-out of the in-memory host                 *)
(* (memory.go, PublishEvent and SubscribeEvents), for one topic.           *)
(*                                                                         *)
(* PublishEvent copies the subscribers' channels under es.mu and sends to  *)
(* them afterwards, in the arbitrary order of a Go map, without blocking:  *)
(* a full channel loses the event.  Each subscription has a goroutine that *)
(* receives and runs the handler until its context is done or the handler  *)
(* fails, and only then removes its channel.                               *)
(*                                                                         *)
(* A publisher goroutine publishes one event after another; its n-th event *)
(* is <<p, n>>.                                                            *)
(***************************************************************************)
EXTENDS Integers, FiniteSets, Sequences, SequencesExt

CONSTANTS
    EventPublishers,   \* goroutines calling PublishEvent
    Subscribers,  \* SubscribeEvents calls
    ChanCap,      \* capacity of a subscriber's channel (32 in the code)
    MaxPerPub     \* bound: events each publisher publishes

ASSUME BusAssumption == ChanCap \in Nat \ {0} /\ MaxPerPub \in Nat

Events == EventPublishers \X (1..MaxPerPub)

VARIABLES
    subs,       \* eventStream.subs
    chan,       \* the buffered channel of each subscription
    state,      \* the subscription's goroutine
    ctxDone,    \* its context
    count,      \* events each publisher has begun
    sending,    \* whether its last PublishEvent is still running
    targets,    \* channels a running PublishEvent has still to send to
    \* history: events handled by each subscription, events dropped at it,
    \* the subscribers each event was published to
    seen, dropped, audience

subVars  == <<subs, chan, state, ctxDone>>
sendVars  == <<count, sending, targets>>
busHistVars == <<seen, dropped, audience>>
busVars == <<subVars, sendVars, busHistVars>>

Publishing(p) == <<p, count[p]>>

\* Every variable has its type, and no channel holds more than its capacity.
BusTypeOK ==
    /\ subs \subseteq Subscribers
    /\ chan \in [Subscribers -> Seq(Events)]
    /\ \A s \in Subscribers : Len(chan[s]) <= ChanCap
    /\ state \in [Subscribers -> {"new", "receiving", "handling", "leaving", "gone"}]
    /\ ctxDone \in [Subscribers -> BOOLEAN]
    /\ count \in [EventPublishers -> 0..MaxPerPub]
    /\ sending \in [EventPublishers -> BOOLEAN]
    /\ targets \in [EventPublishers -> SUBSET Subscribers]
    /\ seen \in [Subscribers -> Seq(Events)]
    /\ dropped \in [Subscribers -> SUBSET Events]
    /\ audience \in [Events -> SUBSET Subscribers]

BusInit ==
    /\ subs = {}
    /\ chan = [s \in Subscribers |-> <<>>]
    /\ state = [s \in Subscribers |-> "new"]
    /\ ctxDone = [s \in Subscribers |-> FALSE]
    /\ count = [p \in EventPublishers |-> 0]
    /\ sending = [p \in EventPublishers |-> FALSE]
    /\ targets = [p \in EventPublishers |-> {}]
    /\ seen = [s \in Subscribers |-> <<>>]
    /\ dropped = [s \in Subscribers |-> {}]
    /\ audience = [e \in Events |-> {}]

\* PublishEvent under es.mu: copy the subscribers' channels.
PublishEvent(p) ==
    /\ ~sending[p]
    /\ count[p] < MaxPerPub
    /\ sending' = [sending EXCEPT ![p] = TRUE]
    /\ count' = [count EXCEPT ![p] = @ + 1]
    /\ targets' = [targets EXCEPT ![p] = subs]
    /\ audience' = [audience EXCEPT ![<<p, count'[p]>>] = subs]
    /\ UNCHANGED <<subVars, seen, dropped>>

\* Fault: an event that was sent may be sent again.
SendRetries(p, s) ==
    /\ s \in targets[p]
    /\ targets' \in {targets, [targets EXCEPT ![p] = @ \ {s}]}
    /\ Len(chan[s]) < ChanCap
    /\ chan' = [chan EXCEPT ![s] = Append(@, Publishing(p))]
    /\ UNCHANGED <<subs, state, ctxDone, count, sending, busHistVars>>

\* One non-blocking send of the loop that follows.  Nobody closes or drains
\* the channel of a subscription that has ended; it just fills up.
SendEvent(p, s) ==
    /\ s \in targets[p]
    /\ targets' = [targets EXCEPT ![p] = @ \ {s}]
    /\ \/ /\ Len(chan[s]) < ChanCap
          /\ chan' = [chan EXCEPT ![s] = Append(@, Publishing(p))]
          /\ UNCHANGED dropped
       \/ /\ Len(chan[s]) = ChanCap
          /\ dropped' = [dropped EXCEPT ![s] = @ \cup {Publishing(p)}]
          /\ UNCHANGED chan
    /\ UNCHANGED <<subs, state, ctxDone, count, sending, seen, audience>>

\* Fault: PublishEvent hands the sends to a goroutine and returns.
PublishReturnsEarly(p) ==
    /\ sending[p]
    /\ sending' = [sending EXCEPT ![p] = FALSE]
    /\ UNCHANGED <<subVars, count, targets, busHistVars>>

PublishReturns(p) ==
    /\ sending[p]
    /\ targets[p] = {}
    /\ sending' = [sending EXCEPT ![p] = FALSE]
    /\ UNCHANGED <<subVars, count, targets, busHistVars>>

-----------------------------------------------------------------------------
\* SubscribeEvents: register a channel and start the goroutine.
SubscribeEvents(s) ==
    /\ state[s] = "new"
    /\ subs' = subs \cup {s}
    /\ state' = [state EXCEPT ![s] = "receiving"]
    /\ UNCHANGED <<chan, ctxDone, sendVars, busHistVars>>

\* The select takes an event and runs the handler on it ...
Receive(s) ==
    /\ state[s] = "receiving"
    /\ chan[s] # <<>>
    /\ chan' = [chan EXCEPT ![s] = Tail(@)]
    /\ seen' = [seen EXCEPT ![s] = Append(@, Head(chan[s]))]
    /\ state' = [state EXCEPT ![s] = "handling"]
    /\ UNCHANGED <<subs, ctxDone, sendVars, dropped, audience>>

\* ... which returns nil or an error.
HandlerReturns(s) ==
    /\ state[s] = "handling"
    /\ state' = [state EXCEPT ![s] = "receiving"]
    /\ UNCHANGED <<subs, chan, ctxDone, sendVars, busHistVars>>

EventHandlerFails(s) ==
    /\ state[s] = "handling"
    /\ state' = [state EXCEPT ![s] = "leaving"]
    /\ UNCHANGED <<subs, chan, ctxDone, sendVars, busHistVars>>

\* The select sees ctx.Done(), even if events are waiting.
Stop(s) ==
    /\ state[s] = "receiving"
    /\ ctxDone[s]
    /\ state' = [state EXCEPT ![s] = "leaving"]
    /\ UNCHANGED <<subs, chan, ctxDone, sendVars, busHistVars>>

\* The deferred delete(es.subs, id).
Leave(s) ==
    /\ state[s] = "leaving"
    /\ subs' = subs \ {s}
    /\ state' = [state EXCEPT ![s] = "gone"]
    /\ UNCHANGED <<chan, ctxDone, sendVars, busHistVars>>

\* External: the subscriber's context ends.
CancelCtx(s) ==
    /\ state[s] # "new"
    /\ ~ctxDone[s]
    /\ ctxDone' = [ctxDone EXCEPT ![s] = TRUE]
    /\ UNCHANGED <<subs, chan, state, sendVars, busHistVars>>

-----------------------------------------------------------------------------
BusNext ==
    \/ \E p \in EventPublishers :
         \/ PublishEvent(p) \/ PublishReturns(p)
         \/ \E s \in Subscribers : SendEvent(p, s)
    \/ \E s \in Subscribers :
         \/ SubscribeEvents(s) \/ Receive(s) \/ HandlerReturns(s)
         \/ EventHandlerFails(s) \/ Stop(s) \/ Leave(s) \/ CancelCtx(s)

BusSpec == BusInit /\ [][BusNext]_busVars

-----------------------------------------------------------------------------
Saw(s, e) == Contains(seen[s], e)
Returned(e) == \/ e[2] < count[e[1]]
               \/ e[2] = count[e[1]] /\ ~sending[e[1]]

\* A subscriber sees the events of one publisher in the order they were
\* published, each at most once, and none whose PublishEvent copied the
\* channels before it subscribed.
PublisherOrder ==
    \A s \in Subscribers : \A i, j \in DOMAIN seen[s] :
        /\ s \in audience[seen[s][i]]
        /\ i < j /\ seen[s][i][1] = seen[s][j][1] => seen[s][i][2] < seen[s][j][2]

\* A subscriber at which something was dropped has got ChanCap events before.
LossNeedsBacklog ==
    \A s \in Subscribers :
        dropped[s] # {} => Len(seen[s]) + Len(chan[s]) >= ChanCap

\* What is lost is lost at a full channel: when PublishEvent has returned, each
\* subscriber it published to has seen the event, has it waiting in its
\* channel, or was ChanCap events behind; so none of the first ChanCap events
\* published to a subscriber is ever lost.  See AtLeastOnce for what is.
AccountedFor ==
    /\ \A e \in Events : Returned(e) => \A s \in audience[e] :
          Saw(s, e) \/ Contains(chan[s], e) \/ e \in dropped[s]
    /\ LossNeedsBacklog

\* What sessions/host.go says of PublishEvent, "Delivery: At-least-once to every
\* active subscriber": when PublishEvent has returned, every subscriber it was
\* for and that still runs has seen the event or has it waiting.
AtLeastOnce ==
    \A e \in Events : Returned(e) => \A s \in audience[e] :
        state[s] \in {"receiving", "handling"} =>
            Saw(s, e) \/ Contains(chan[s], e)
=============================================================================
