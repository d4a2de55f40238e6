--------------------------- MODULE ChangeNotifier ---------------------------
(* The ChangeNotifier of the service containers with the goroutines around   *)
(* it: a container changes its list and spawns a Notify, a listener that was *)
(* registered for listChanged waits on its channel and has the client list   *)
(* again, and Close may come at any time.                                    *)
(*                                                                           *)
(* Notify holds the read lock from its entry to its last send; Subscriber    *)
(* and the first half of Close need the write lock, hence no Notify inside.  *)
EXTENDS Naturals, Sequences, SequencesExt

CONSTANTS
    Listeners,     \* the goroutines Register starts, one channel each
    Notifies,      \* the Notify goroutines the containers may spawn
    ChanSlots      \* capacity of a subscriber's channel

\* 1 in the code; without a slot a signal to a busy listener would be lost.
ASSUME ChanSlotsAssumption == ChanSlots \in Nat \ {0}

VARIABLES
    version,       \* the list, as the number of changes made to it
    subscribers,   \* the channels registered, in order
    closed,        \* ChangeNotifier.closed
    closing,       \* the channels Close has still to close
    shut,          \* the channels that are closed
    buffered,      \* listener -> signals in its channel
    notify,        \* Notify goroutine -> [at, left: channels still to signal]
    listener,      \* listener -> where its goroutine is
    seen,          \* listener -> the version its client listed last
    panicked       \* somebody sent on a closed channel

closeVars == <<subscribers, closed, closing, shut>>
notifierVars == <<version, closeVars, buffered, notify, listener, seen, panicked>>

NotifierInit ==
    /\ version = 0
    /\ subscribers = <<>>
    /\ closed = FALSE
    /\ closing = <<>>
    /\ shut = {}
    /\ buffered = [l \in Listeners |-> 0]
    /\ notify = [n \in Notifies |-> [at |-> "idle", left |-> <<>>]]
    /\ listener = [l \in Listeners |-> "absent"]
    /\ seen = [l \in Listeners |-> 0]
    /\ panicked = FALSE

ReadLocked == \E n \in Notifies : notify[n].at = "sending"

\* A container method changed the list and runs `go notifier.Notify(...)`.
ChangeList(n) ==
    /\ notify[n].at = "idle"
    /\ version' = version + 1
    /\ notify' = [notify EXCEPT ![n].at = "start"]
    /\ UNCHANGED <<closeVars, buffered, listener, seen, panicked>>

\* Notify takes the read lock; a closed notifier returns at once.
NotifyEnter(n) ==
    /\ notify[n].at = "start"
    /\ notify' = [notify EXCEPT ![n] =
                    IF closed THEN [at |-> "done", left |-> <<>>]
                              ELSE [at |-> "sending", left |-> subscribers]]
    /\ UNCHANGED <<version, closeVars, buffered, listener, seen, panicked>>

\* Fault: a channel without a buffer takes a signal only from a waiting reader.
SendUnbuffered(l) ==
    IF buffered[l] = 0 /\ listener[l] = "waiting" THEN 1 ELSE buffered[l]

\* The signals in the channel of l after the non-blocking send.
Send(l) == IF buffered[l] < ChanSlots THEN buffered[l] + 1 ELSE buffered[l]

NotifySend(n) ==
    /\ notify[n].at = "sending"
    /\ notify[n].left # <<>>
    /\ LET l == Head(notify[n].left)
       IN  /\ buffered' = [buffered EXCEPT ![l] = Send(l)]
           /\ panicked' = (panicked \/ l \in shut)
    /\ notify' = [notify EXCEPT ![n].left = Tail(@)]
    /\ UNCHANGED <<version, closeVars, listener, seen>>

NotifyLeave(n) ==
    /\ notify[n].at = "sending"
    /\ notify[n].left = <<>>
    /\ notify' = [notify EXCEPT ![n].at = "done"]
    /\ UNCHANGED <<version, closeVars, buffered, listener, seen, panicked>>

\* Fault: Subscriber does not look at closed.
RegisterAnyway(l) ==
    /\ listener[l] = "absent"
    /\ ~ReadLocked
    /\ listener' = [listener EXCEPT ![l] = "waiting"]
    /\ seen' = [seen EXCEPT ![l] = version]
    /\ subscribers' = Append(subscribers, l)
    /\ UNCHANGED <<version, closed, closing, shut, buffered, notify, panicked>>

\* Register: Subscriber makes the channel under the write lock, closed already
\* if the notifier is; then the listening goroutine starts.
Register(l) ==
    /\ listener[l] = "absent"
    /\ ~ReadLocked
    /\ listener' = [listener EXCEPT ![l] = "waiting"]
    /\ seen' = [seen EXCEPT ![l] = version]
    /\ IF closed
       THEN shut' = shut \cup {l} /\ UNCHANGED subscribers
       ELSE subscribers' = Append(subscribers, l) /\ UNCHANGED shut
    /\ UNCHANGED <<version, closed, closing, buffered, notify, panicked>>

\* Fault: Close takes the read lock only.
CloseBeginShared ==
    /\ ~closed
    /\ closed' = TRUE
    /\ closing' = subscribers
    /\ subscribers' = <<>>
    /\ UNCHANGED <<version, shut, buffered, notify, listener, seen, panicked>>

\* Close, under the write lock: mark and take the subscribers.
CloseBegin ==
    /\ ~closed
    /\ ~ReadLocked
    /\ closed' = TRUE
    /\ closing' = subscribers
    /\ subscribers' = <<>>
    /\ UNCHANGED <<version, shut, buffered, notify, listener, seen, panicked>>

\* Close, after the unlock: close the channels one by one.
CloseChannel ==
    /\ closing # <<>>
    /\ shut' = shut \cup {Head(closing)}
    /\ closing' = Tail(closing)
    /\ UNCHANGED <<version, subscribers, closed, buffered, notify, listener,
                   seen, panicked>>

\* The listening goroutine receives a signal and calls its function ...
Receive(l) ==
    /\ listener[l] = "waiting"
    /\ buffered[l] > 0
    /\ buffered' = [buffered EXCEPT ![l] = @ - 1]
    /\ listener' = [listener EXCEPT ![l] = "calling"]
    /\ UNCHANGED <<version, closeVars, notify, seen, panicked>>

\* ... which makes the client list again ...
ClientLists(l) ==
    /\ listener[l] = "calling"
    /\ seen' = [seen EXCEPT ![l] = version]
    /\ listener' = [listener EXCEPT ![l] = "returning"]
    /\ UNCHANGED <<version, closeVars, buffered, notify, panicked>>

\* ... and the goroutine waits again.
WaitAgain(l) ==
    /\ listener[l] = "returning"
    /\ listener' = [listener EXCEPT ![l] = "waiting"]
    /\ UNCHANGED <<version, closeVars, buffered, notify, seen, panicked>>

\* The channel is closed and drained (a closed channel still yields what it
\* buffers), or the listener's context is done.
ListenerEnds(l) ==
    /\ listener[l] = "waiting"
    /\ l \in shut /\ buffered[l] = 0
    /\ listener' = [listener EXCEPT ![l] = "ended"]
    /\ UNCHANGED <<version, closeVars, buffered, notify, seen, panicked>>

ContextDone(l) ==
    /\ listener[l] = "waiting"
    /\ listener' = [listener EXCEPT ![l] = "ended"]
    /\ UNCHANGED <<version, closeVars, buffered, notify, seen, panicked>>

NotifierNext ==
    \/ \E n \in Notifies :
          ChangeList(n) \/ NotifyEnter(n) \/ NotifySend(n) \/ NotifyLeave(n)
    \/ CloseBegin
    \/ CloseChannel
    \/ \E l \in Listeners :
          \/ Register(l) \/ Receive(l) \/ ClientLists(l) \/ WaitAgain(l)
          \/ ListenerEnds(l) \/ ContextDone(l)

NotifierSpec == NotifierInit /\ [][NotifierNext]_notifierVars

-----------------------------------------------------------------------------

(* Nobody sends on a closed channel: no Notify is between its lock and its   *)
(* unlock when Close takes the subscribers away.                             *)
NoSendOnClosed == ~panicked

(* A change is never missed although signals are dropped: a waiting listener *)
(* whose client has an old list has a signal in its channel, or is one that  *)
(* a Notify will still reach, unless the notifier was closed.                *)
NoMissedChange ==
    \A l \in Listeners :
        (listener[l] = "waiting" /\ seen[l] < version /\ ~closed) =>
            \/ buffered[l] > 0
            \/ \E n \in Notifies :
                  \/ notify[n].at = "start"
                  \/ Contains(notify[n].left, l)

(* Close reaches everybody: once its loop is done no listener waits on a     *)
(* channel that is open, the ones that registered meanwhile included, so no  *)
(* listening goroutine outlives its container.                               *)
CloseReachesAll ==
    (closed /\ closing = <<>>) =>
        \A l \in Listeners : listener[l] # "absent" => l \in shut

(* What Notify, Subscriber and Close promise each other, whatever their order. *)
NotifierPromise == NoSendOnClosed /\ NoMissedChange /\ CloseReachesAll
=============================================================================
