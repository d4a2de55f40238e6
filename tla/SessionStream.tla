---------------------------- MODULE SessionStream ----------------------------
(***************************************************************************)
(* The per-session message stream of the in-memory session host            *)
(* (sessions/memoryhost/memory.go): concurrent PublishSession,             *)
(* SubscribeSession and DeleteSession calls on ONE session ID, split where *)
(* the code releases h.mu or s.mu.                                         *)
(*                                                                         *)
(* Streams are pointers: DeleteSession unlinks the stream from the map and *)
(* the next getOrCreateStream allocates a new one, while calls that looked *)
(* the old one up still hold it.  A stream is named by the order of its    *)
(* allocation (1, 2, ...), and 0 is the absent map entry.                  *)
(*                                                                         *)
(* The i-th message appended to a stream has id i (strconv of nextID), so  *)
(* a message is named by its id, a stream's messages are 1..len[st], and   *)
(* the code's zero-based lastIdx is cursor - 1.  Payloads are left out:    *)
(* no operation looks at them.                                             *)
(*                                                                         *)
(* A member of Calls is one SubscribeSession call, which ends for good     *)
(* when it returns; a client that reconnects makes another call.           *)
(* The session metadata and key/value data that DeleteSession also drops   *)
(* are not read by these operations and are not part of this module.       *)
(***************************************************************************)
EXTENDS Integers, FiniteSets, Sequences

CONSTANTS
    Calls,        \* SubscribeSession calls
    Publishers,   \* goroutines calling PublishSession
    Deleters,     \* goroutines calling DeleteSession
    MaxMessages,  \* bound: messages appended to one stream
    MaxStreams    \* bound: streams allocated for the session

ASSUME BoundsAssumption == MaxMessages \in Nat /\ MaxStreams \in Nat

Streams == 1..MaxStreams
MsgIDs  == 1..MaxMessages
None    == 0

VARIABLES
    \* Host.streams[sessionID], and how many streams were ever allocated
    cur, allocated,
    \* sessionStream fields, one entry per allocated stream
    len, closed, delivered, inflight, waiters,
    \* locals of each SubscribeSession call
    pc, strm, lastID, cursor, claim, signaled, cancelled,
    \* locals of PublishSession (stream held) and DeleteSession
    pstrm, dpc, dstrm, snap,
    \* history: how long the stream was when a call began, what the call's
    \* handler accepted, in order, and what failing handlers gave back
    lenAtStart, received, released

hostVars   == <<cur, allocated>>
streamVars == <<len, closed, delivered, inflight, waiters>>
callVars   == <<pc, strm, lastID, cursor, claim, cancelled>>
pubVars    == <<pstrm>>
delVars    == <<dpc, dstrm, snap>>
histVars   == <<lenAtStart, received, released>>
vars == <<hostVars, streamVars, callVars, signaled, pubVars, delVars, histVars>>

\* Every variable stays in its range; a cursor never points past the longest
\* stream, so no SubscribeSession call skips messages still to be published.
TypeOK ==
    /\ cur \in Streams \cup {None}
    /\ allocated \in 0..MaxStreams
    /\ len \in [Streams -> 0..MaxMessages]
    /\ closed \in [Streams -> BOOLEAN]
    /\ delivered \in [Streams -> SUBSET MsgIDs]
    /\ inflight \in [Streams -> SUBSET MsgIDs]
    /\ waiters \in [Streams -> SUBSET Calls]
    /\ pc \in [Calls -> {"idle", "start", "loop", "waiting",
                         "handling", "ack", "release", "returned"}]
    /\ strm \in [Calls -> Streams \cup {None}]
    /\ lastID \in [Calls -> 0..MaxMessages]
    /\ cursor \in [Calls -> 0..MaxMessages]
    /\ claim \in [Calls -> MsgIDs \cup {None}]
    /\ signaled \in [Calls -> BOOLEAN]
    /\ cancelled \in [Calls -> BOOLEAN]
    /\ pstrm \in [Publishers -> Streams \cup {None}]
    /\ dpc \in [Deleters -> {"idle", "close", "signal"}]
    /\ dstrm \in [Deleters -> Streams \cup {None}]
    /\ snap \in [Deleters -> SUBSET Calls]
    /\ lenAtStart \in [Calls -> 0..MaxMessages]
    /\ received \in [Calls -> Seq(MsgIDs)]
    /\ released \in [Streams -> SUBSET MsgIDs]

Init ==
    /\ cur = None
    /\ allocated = 0
    /\ len = [st \in Streams |-> 0]
    /\ closed = [st \in Streams |-> FALSE]
    /\ delivered = [st \in Streams |-> {}]
    /\ inflight = [st \in Streams |-> {}]
    /\ waiters = [st \in Streams |-> {}]
    /\ pc = [c \in Calls |-> "idle"]
    /\ strm = [c \in Calls |-> None]
    /\ lastID = [c \in Calls |-> 0]
    /\ cursor = [c \in Calls |-> 0]
    /\ claim = [c \in Calls |-> None]
    /\ signaled = [c \in Calls |-> FALSE]
    /\ cancelled = [c \in Calls |-> FALSE]
    /\ pstrm = [p \in Publishers |-> None]
    /\ dpc = [d \in Deleters |-> "idle"]
    /\ dstrm = [d \in Deleters |-> None]
    /\ snap = [d \in Deleters |-> {}]
    /\ lenAtStart = [c \in Calls |-> 0]
    /\ received = [c \in Calls |-> <<>>]
    /\ released = [st \in Streams |-> {}]

-----------------------------------------------------------------------------
\* getOrCreateStream, atomic under h.mu: st is the stream it returns.
getOrCreateStream(st) ==
    \/ /\ cur # None
       /\ st = cur
       /\ UNCHANGED hostVars
    \/ /\ cur = None
       /\ allocated < MaxStreams
       /\ allocated' = allocated + 1
       /\ st = allocated'
       /\ cur' = st

\* The non-blocking send of PublishSession and DeleteSession on a waiter
\* channel of capacity one.
Signal(cs) == signaled' = [c \in Calls |-> signaled[c] \/ c \in cs]

\* PublishSession up to the return of getOrCreateStream.  A call whose ctx is
\* already cancelled returns at once and changes nothing.
PublishSession(p) ==
    /\ pstrm[p] = None
    /\ \E st \in Streams :
         /\ getOrCreateStream(st)
         /\ len[st] + Cardinality({q \in Publishers : pstrm[q] = st}) < MaxMessages
         /\ pstrm' = [pstrm EXCEPT ![p] = st]
    /\ UNCHANGED <<streamVars, callVars, signaled, delVars, histVars>>

\* Fault: the waiters are dropped without a send on their channels.
PublishAppendQuiet(p) ==
    LET st == pstrm[p] IN
    /\ st # None
    /\ len[st] < MaxMessages
    /\ len' = [len EXCEPT ![st] = @ + 1]
    /\ waiters' = [waiters EXCEPT ![st] = {}]
    /\ pstrm' = [pstrm EXCEPT ![p] = None]
    /\ UNCHANGED <<hostVars, closed, delivered, inflight, callVars, signaled,
                   delVars, histVars>>

\* The s.mu section of PublishSession: append to the stream it looked up,
\* which may have been unlinked and closed since, and wake every waiter.
PublishAppend(p) ==
    LET st == pstrm[p] IN
    /\ st # None
    /\ len[st] < MaxMessages
    /\ len' = [len EXCEPT ![st] = @ + 1]
    /\ Signal(waiters[st])
    /\ waiters' = [waiters EXCEPT ![st] = {}]
    /\ pstrm' = [pstrm EXCEPT ![p] = None]
    /\ UNCHANGED <<hostVars, closed, delivered, inflight, callVars, delVars,
                   histVars>>

-----------------------------------------------------------------------------
\* SubscribeSession(lastEventID) up to the return of getOrCreateStream.
\* lastID = 0 stands for the empty string; an id past the end is unknown.
SubscribeSession(c) ==
    /\ pc[c] = "idle"
    /\ \E st \in Streams, id \in 0..MaxMessages :
         /\ getOrCreateStream(st)
         /\ strm' = [strm EXCEPT ![c] = st]
         /\ lastID' = [lastID EXCEPT ![c] = id]
    /\ pc' = [pc EXCEPT ![c] = "start"]
    /\ UNCHANGED <<streamVars, cursor, claim, cancelled, signaled, pubVars,
                   delVars, histVars>>

\* Fault: the index of the message named by lastEventID is taken as already
\* one too low, so the message is sent again.
StartCursorInclusive(st, id) == IF id \in 1..len[st] THEN id - 1 ELSE len[st]

\* Fault: len(messages) where the code has len(messages) - 1.
StartCursorPastEnd(st, id) == IF id \in 1..len[st] THEN id ELSE len[st] + 1

\* The cursor of a new subscription: just after the message lastEventID
\* names, or at the end of the stream if it is empty or unknown.
StartCursor(st, id) == IF id \in 1..len[st] THEN id ELSE len[st]

InitCursor(c) ==
    /\ pc[c] = "start"
    /\ cursor' = [cursor EXCEPT ![c] = StartCursor(strm[c], lastID[c])]
    /\ lenAtStart' = [lenAtStart EXCEPT ![c] = len[strm[c]]]
    /\ pc' = [pc EXCEPT ![c] = "loop"]
    /\ UNCHANGED <<hostVars, streamVars, strm, lastID, claim, cancelled,
                   signaled, pubVars, delVars, received, released>>

\* Fault: the scan does not look at inflight.
AvailableIgnoresInflight(st, k) ==
    {m \in MsgIDs : m > k /\ m <= len[st] /\ m \notin delivered[st]}

\* Fault: the scan does not look at delivered.
AvailableIgnoresDelivered(st, k) ==
    {m \in MsgIDs : m > k /\ m <= len[st] /\ m \notin inflight[st]}

\* The messages of st after position k that nobody holds or has finished.
Available(st, k) == {m \in MsgIDs : /\ m > k
                                    /\ m <= len[st]
                                    /\ m \notin delivered[st]
                                    /\ m \notin inflight[st]}

\* Head of the loop, ctx not cancelled: claim the first available message.
Claim(c) ==
    LET st == strm[c] IN
    /\ pc[c] = "loop"
    /\ ~cancelled[c]
    /\ ~closed[st]
    /\ \E m \in Available(st, cursor[c]) :
         /\ \A x \in Available(st, cursor[c]) : m <= x
         /\ inflight' = [inflight EXCEPT ![st] = @ \cup {m}]
         /\ claim' = [claim EXCEPT ![c] = m]
    /\ pc' = [pc EXCEPT ![c] = "handling"]
    /\ UNCHANGED <<hostVars, len, closed, delivered, waiters, strm, lastID,
                   cursor, cancelled, signaled, pubVars, delVars, histVars>>

\* Nothing to claim: register a fresh waiter channel and block on it.
Wait(c) ==
    LET st == strm[c] IN
    /\ pc[c] = "loop"
    /\ ~cancelled[c]
    /\ ~closed[st]
    /\ Available(st, cursor[c]) = {}
    /\ waiters' = [waiters EXCEPT ![st] = @ \cup {c}]
    /\ signaled' = [signaled EXCEPT ![c] = FALSE]
    /\ pc' = [pc EXCEPT ![c] = "waiting"]
    /\ UNCHANGED <<hostVars, len, closed, delivered, inflight, strm, lastID,
                   cursor, claim, cancelled, pubVars, delVars, histVars>>

\* The waiter channel delivers: consume the signal and loop.
Wake(c) ==
    /\ pc[c] = "waiting"
    /\ signaled[c]
    /\ signaled' = [signaled EXCEPT ![c] = FALSE]
    /\ pc' = [pc EXCEPT ![c] = "loop"]
    /\ UNCHANGED <<hostVars, streamVars, strm, lastID, cursor, claim,
                   cancelled, pubVars, delVars, histVars>>

\* Fault: the loop does not look at closed.
ReturnIgnoresClosed(c) ==
    /\ pc[c] \in {"loop", "waiting"} /\ cancelled[c]
    /\ pc' = [pc EXCEPT ![c] = "returned"]
    /\ UNCHANGED <<hostVars, streamVars, strm, lastID, cursor, claim,
                   cancelled, signaled, pubVars, delVars, histVars>>

\* Return without a claim: the ctx check at the head of the loop, the ctx
\* case of the select (the waiter stays registered), or "session closed".
Return(c) ==
    /\ \/ pc[c] \in {"loop", "waiting"} /\ cancelled[c]
       \/ pc[c] = "loop" /\ closed[strm[c]]
    /\ pc' = [pc EXCEPT ![c] = "returned"]
    /\ UNCHANGED <<hostVars, streamVars, strm, lastID, cursor, claim,
                   cancelled, signaled, pubVars, delVars, histVars>>

\* handler(ctx, msgID, data), outside the lock, accepts the message...
HandlerAccepts(c) ==
    /\ pc[c] = "handling"
    /\ received' = [received EXCEPT ![c] = Append(@, claim[c])]
    /\ pc' = [pc EXCEPT ![c] = "ack"]
    /\ UNCHANGED <<hostVars, streamVars, strm, lastID, cursor, claim,
                   cancelled, signaled, pubVars, delVars, lenAtStart, released>>

\* ... or fails, for instance because the client is gone.
HandlerFails(c) ==
    /\ pc[c] = "handling"
    /\ pc' = [pc EXCEPT ![c] = "release"]
    /\ UNCHANGED <<hostVars, streamVars, strm, lastID, cursor, claim,
                   cancelled, signaled, pubVars, delVars, histVars>>

\* Fault: delivered is not updated.
AckForgets(c) ==
    LET st == strm[c] IN
    /\ pc[c] = "ack"
    /\ inflight' = [inflight EXCEPT ![st] = @ \ {claim[c]}]
    /\ cursor' = [cursor EXCEPT ![c] = claim[c]]
    /\ claim' = [claim EXCEPT ![c] = None]
    /\ pc' = [pc EXCEPT ![c] = "loop"]
    /\ UNCHANGED <<hostVars, len, closed, delivered, waiters, strm, lastID,
                   cancelled, signaled, pubVars, delVars, histVars>>

\* Second s.mu section after a nil error: mark delivered, advance lastIdx.
Ack(c) ==
    LET st == strm[c] IN
    /\ pc[c] = "ack"
    /\ inflight' = [inflight EXCEPT ![st] = @ \ {claim[c]}]
    /\ delivered' = [delivered EXCEPT ![st] = @ \cup {claim[c]}]
    /\ cursor' = [cursor EXCEPT ![c] = claim[c]]
    /\ claim' = [claim EXCEPT ![c] = None]
    /\ pc' = [pc EXCEPT ![c] = "loop"]
    /\ UNCHANGED <<hostVars, len, closed, waiters, strm, lastID, cancelled,
                   signaled, pubVars, delVars, histVars>>

\* Second s.mu section after an error: give the message back and return.
\* Nobody is woken.
Release(c) ==
    LET st == strm[c] IN
    /\ pc[c] = "release"
    /\ inflight' = [inflight EXCEPT ![st] = @ \ {claim[c]}]
    /\ released' = [released EXCEPT ![st] = @ \cup {claim[c]}]
    /\ claim' = [claim EXCEPT ![c] = None]
    /\ pc' = [pc EXCEPT ![c] = "returned"]
    /\ UNCHANGED <<hostVars, len, closed, delivered, waiters, strm, lastID,
                   cursor, cancelled, signaled, pubVars, delVars, lenAtStart,
                   received>>

\* The caller's context is cancelled (external: the HTTP request ends).
Cancel(c) ==
    /\ pc[c] # "returned"
    /\ ~cancelled[c]
    /\ cancelled' = [cancelled EXCEPT ![c] = TRUE]
    /\ UNCHANGED <<hostVars, streamVars, pc, strm, lastID, cursor, claim,
                   signaled, pubVars, delVars, histVars>>

-----------------------------------------------------------------------------
\* DeleteSession, h.mu section: capture the stream pointer and unlink it.
\* Without a stream there is nothing more to do.
DeleteSession(d) ==
    /\ dpc[d] = "idle"
    /\ cur # None
    /\ cur' = None
    /\ dstrm' = [dstrm EXCEPT ![d] = cur]
    /\ dpc' = [dpc EXCEPT ![d] = "close"]
    /\ UNCHANGED <<allocated, streamVars, callVars, signaled, pubVars, snap,
                   histVars>>

\* Fault: the waiters are cleared before they are captured.
DeleteCloseForgets(d) ==
    LET st == dstrm[d] IN
    /\ dpc[d] = "close"
    /\ closed' = [closed EXCEPT ![st] = TRUE]
    /\ waiters' = [waiters EXCEPT ![st] = {}]
    /\ snap' = [snap EXCEPT ![d] = {}]
    /\ dpc' = [dpc EXCEPT ![d] = "signal"]
    /\ UNCHANGED <<hostVars, len, delivered, inflight, callVars, signaled,
                   pubVars, dstrm, histVars>>

\* DeleteSession, s.mu section: close, take the waiters, clear the list.
DeleteClose(d) ==
    LET st == dstrm[d] IN
    /\ dpc[d] = "close"
    /\ closed' = [closed EXCEPT ![st] = TRUE]
    /\ snap' = [snap EXCEPT ![d] = waiters[st]]
    /\ waiters' = [waiters EXCEPT ![st] = {}]
    /\ dpc' = [dpc EXCEPT ![d] = "signal"]
    /\ UNCHANGED <<hostVars, len, delivered, inflight, callVars, signaled,
                   pubVars, dstrm, histVars>>

\* DeleteSession, outside the locks: signal the captured waiters one by one.
DeleteSignal(d) ==
    /\ dpc[d] = "signal"
    /\ \E c \in snap[d] :
         /\ Signal({c})
         /\ snap' = [snap EXCEPT ![d] = @ \ {c}]
    /\ UNCHANGED <<hostVars, streamVars, callVars, pubVars, dpc, dstrm,
                   histVars>>

DeleteReturn(d) ==
    /\ dpc[d] = "signal"
    /\ snap[d] = {}
    /\ dpc' = [dpc EXCEPT ![d] = "idle"]
    /\ dstrm' = [dstrm EXCEPT ![d] = None]
    /\ UNCHANGED <<hostVars, streamVars, callVars, signaled, pubVars, snap,
                   histVars>>

-----------------------------------------------------------------------------
CallStep(c) ==
    \/ InitCursor(c) \/ Claim(c) \/ Wait(c) \/ Wake(c) \/ Return(c)
    \/ Ack(c) \/ Release(c)

DeleteStep(d) == DeleteClose(d) \/ DeleteSignal(d) \/ DeleteReturn(d)

Next ==
    \/ \E p \in Publishers : PublishSession(p) \/ PublishAppend(p)
    \/ \E c \in Calls : \/ SubscribeSession(c) \/ CallStep(c)
                        \/ HandlerAccepts(c) \/ HandlerFails(c) \/ Cancel(c)
    \/ \E d \in Deleters : DeleteSession(d) \/ DeleteStep(d)

Spec == Init /\ [][Next]_vars

\* Goroutines that can run do run, and a handler eventually returns.  Nobody
\* has to publish, subscribe, cancel or delete, and no handler has to fail.
Fairness ==
    /\ \A p \in Publishers : WF_vars(PublishAppend(p))
    /\ \A c \in Calls : /\ WF_vars(CallStep(c))
                        /\ WF_vars(HandlerAccepts(c) \/ HandlerFails(c))
    /\ \A d \in Deleters : WF_vars(DeleteStep(d))

FairSpec == Spec /\ Fairness

-----------------------------------------------------------------------------
Holding == {"handling", "ack", "release"}
Holders(st) == {c \in Calls : strm[c] = st /\ pc[c] \in Holding}
Accepted(c) == {received[c][i] : i \in DOMAIN received[c]}

\* The inflight map is exactly what running handlers hold: no message is held
\* by two competing SubscribeSession calls, none stays marked in flight after
\* its call has returned, and none is in flight once delivered.
ClaimsExact ==
    \A st \in Streams :
        /\ inflight[st] = {claim[c] : c \in Holders(st)}
        /\ \A c, d \in Holders(st) : claim[c] = claim[d] => c = d
        /\ inflight[st] \cap delivered[st] = {}

\* However calls on a stream interleave, fail and give messages back, no
\* message is accepted by the handlers of two calls, and a message counts as
\* delivered only if some handler accepted it.
DeliveredOnce ==
    /\ \A c, d \in Calls :
          c # d /\ strm[c] = strm[d] => Accepted(c) \cap Accepted(d) = {}
    /\ \A st \in Streams : \A m \in delivered[st] :
          \E c \in Calls : strm[c] = st /\ m \in Accepted(c)

\* Each SubscribeSession call sees its messages in the order they were
\* published, and none up to the one lastEventID names if the stream held that
\* message when the call began.  Where a call with an empty or unknown
\* lastEventID begins is not said here: see StartsAtBeginning.
InOrder ==
    \A c \in Calls : \A i \in DOMAIN received[c] :
        /\ \A j \in 1..(i - 1) : received[c][j] < received[c][i]
        /\ lastID[c] \in 1..lenAtStart[c] => received[c][i] > lastID[c]

\* A client that resumes gets each message once, in order, after its last one.
OnceInOrder == DeliveredOnce /\ InOrder

\* No wakeup is lost: a call that blocks and has no signal pending is still
\* registered on an open stream with nothing to take, except what a failing
\* handler gave back, or a DeleteSession is about to signal it.
NoLostWakeup ==
    \A c \in Calls : pc[c] = "waiting" /\ ~signaled[c] =>
        \/ /\ c \in waiters[strm[c]]
           /\ ~closed[strm[c]]
           /\ Available(strm[c], cursor[c]) \subseteq released[strm[c]]
        \/ \E d \in Deleters : c \in snap[d]

\* The facts about single calls and deleters that make the invariants above
\* inductive: a call holds a message exactly while it handles it, that message
\* is in its stream, marked in flight and ahead of its cursor, and a deleter
\* has waiters to signal only after it closed the stream.
LocalsInv ==
    /\ \A c \in Calls :
          /\ pc[c] = "idle" <=> strm[c] = None
          /\ pc[c] \in {"idle", "start"} => cursor[c] = 0 /\ received[c] = <<>>
          /\ IF pc[c] \in Holding
               THEN /\ claim[c] \in inflight[strm[c]]
                    /\ claim[c] \in (cursor[c] + 1)..len[strm[c]]
               ELSE claim[c] = None
    /\ \A d \in Deleters : /\ dpc[d] = "idle" <=> dstrm[d] = None
                           /\ dpc[d] # "signal" => snap[d] = {}

\* The inductive invariant behind ClaimsExact and NoLostWakeup.
StreamInv == TypeOK /\ LocalsInv /\ ClaimsExact /\ NoLostWakeup

\* DeleteSession ends every subscription of the stream it closes.
DeleteEndsSubscriptions ==
    \A c \in Calls :
        (strm[c] # None /\ closed[strm[c]]) ~> pc[c] = "returned"

Live(c) == pc[c] \in {"loop", "waiting"}

\* A message that a live call could take and that no handler has refused is
\* delivered, unless the call ends or the message's handler fails.
PublishedIsDelivered ==
    \A c \in Calls, m \in MsgIDs, st \in Streams :
        (/\ Live(c) /\ strm[c] = st
         /\ m \in Available(st, cursor[c]) \ released[st])
        ~> (m \in delivered[st] \cup released[st] \/ pc[c] = "returned")

\* What sessions/host.go says of SubscribeSession, "starting after lastEventID
\* (empty string means from the beginning)": a call with an empty lastEventID
\* does not sleep while its stream holds a message, old or new, that no handler
\* has, has accepted or has given back.
StartsAtBeginning ==
    \A c \in Calls : pc[c] = "waiting" /\ lastID[c] = 0 /\ ~signaled[c] =>
        Available(strm[c], 0) \subseteq released[strm[c]]

\* The host's streams as the logs of SessionQueue.
Queue == INSTANCE SessionQueue WITH
    Logs         <- Streams,
    Consumers    <- Calls,
    MaxPublished <- MaxMessages,
    published    <- len,
    finished     <- delivered,
    source       <- strm,
    held         <- claim,
    position     <- cursor

\* The host implements SessionQueue: publishing, claiming, acknowledging and
\* releasing a message are its operations, and waiting, waking, cancelling and
\* deleting never change what a consumer holds or may still be handed.
ImplementsQueue == Queue!Spec
=============================================================================
