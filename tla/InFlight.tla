------------------------------ MODULE InFlight ------------------------------
(***************************************************************************)
(* Requests in flight on one engine instance (internal/engine): tools/call *)
(* handlers, the request each may make of the client (roots/list,          *)
(* sampling, elicitation all follow the same rendez-vous protocol), and    *)
(* the single goroutine that consumes the fanout topic and delivers client *)
(* responses and notifications/cancelled to them.                          *)
(*                                                                         *)
(* handleToolCall registers the cancel function of the call's context in   *)
(* toolCtxCancels under the JSON-RPC id the CLIENT chose.  createRendezVous*)
(* registers a channel of capacity one and its closer under a fresh uuid;  *)
(* here that uuid is the tool call that asks.  Steps are split where the   *)
(* code releases toolCtxMu or rdvMu.                                       *)
(*                                                                         *)
(* The fanout queue is the bounded channel of memoryhost.SubscribeEvents.  *)
(* Sessions stay alive here: handleSessionEvent's LoadSession succeeds.    *)
(***************************************************************************)
EXTENDS Integers, FiniteSets, Sequences

CONSTANTS
    Calls,      \* tools/call requests, each handled by its own goroutine
    Sessions,   \* client sessions on this instance
    ReqIDs,     \* JSON-RPC request ids clients pick
    NoCall,     \* absent entry of toolCtxCancels
    QueueCap,   \* capacity of the fanout subscription channel
    MaxEvents   \* bound: fanout messages clients cause

ASSUME InFlightAssumption == /\ NoCall \notin Calls
                             /\ QueueCap \in Nat \ {0} /\ MaxEvents \in Nat

VARIABLES
    \* handleToolCall and the client request it makes
    pc, sess, id, cause, outcome,
    \* Engine.toolCtxCancels
    cancels,
    \* Engine.rdvChans, Engine.rdvClosers, and the channels
    rdvChans, rdvClosers, buf, chanClosed,
    \* the fanout subscription: queued events, and the event being handled
    queue, handling,
    \* a send on a closed channel has brought the process down
    crashed,
    \* environment and history: requests written to clients, cancellations
    \* clients asked for, responses found without a rendez-vous, event count
    written, asked, unmatched, events

toolVars == <<pc, sess, id, cause, outcome>>
rdvVars  == <<rdvChans, rdvClosers, buf, chanClosed>>
busVars  == <<queue, handling>>
histVars == <<written, asked, unmatched, events>>
vars == <<toolVars, cancels, rdvVars, busVars, crashed, histVars>>

Response(c)  == [op |-> "response", call |-> c]
CancelRdv(c) == [op |-> "cancelRdv", call |-> c]
CancelID(i)  == [op |-> "cancel", id |-> i]
Events == {Response(c) : c \in Calls} \cup {CancelRdv(c) : c \in Calls}
             \cup {CancelID(i) : i \in ReqIDs}

\* What the consumer goroutine does next, after it released the mutex under
\* which it looked a channel or a cancel function up.
Idle      == [op |-> "idle"]
Send(c)   == [op |-> "send", call |-> c]
Cancel(c) == [op |-> "cancelCtx", call |-> c]
Handling == {Idle} \cup {Send(c) : c \in Calls} \cup {Cancel(c) : c \in Calls}

\* Every variable has its type, and the fan-out queue never holds more than the
\* channel of the subscription does.
TypeOK ==
    /\ pc \in [Calls -> {"idle", "running", "created", "waiting", "closing",
                         "finishing", "done", "rejected"}]
    /\ sess \in [Calls -> Sessions]
    /\ id \in [Calls -> ReqIDs]
    /\ cause \in [Calls -> {"none", "client", "parent", "returned"}]
    /\ outcome \in [Calls -> {"none", "reply", "closed", "ctx", "writeErr"}]
    /\ cancels \in [ReqIDs -> Calls \cup {NoCall}]
    /\ rdvChans \in SUBSET Calls /\ rdvClosers \in SUBSET Calls
    /\ buf \in [Calls -> BOOLEAN] /\ chanClosed \in [Calls -> BOOLEAN]
    /\ queue \in Seq(Events) /\ Len(queue) <= QueueCap
    /\ handling \in Handling
    /\ crashed \in BOOLEAN
    /\ written \in SUBSET Calls /\ unmatched \in SUBSET Calls
    /\ asked \in SUBSET (Sessions \X ReqIDs)
    /\ events \in 0..MaxEvents

\* Which session and id each request has is up to the clients; a client does
\* not use an id twice in one session.
Init ==
    /\ pc = [c \in Calls |-> "idle"]
    /\ sess \in [Calls -> Sessions]
    /\ id \in [Calls -> ReqIDs]
    /\ \A c, d \in Calls : c # d => <<sess[c], id[c]>> # <<sess[d], id[d]>>
    /\ cause = [c \in Calls |-> "none"]
    /\ outcome = [c \in Calls |-> "none"]
    /\ cancels = [i \in ReqIDs |-> NoCall]
    /\ rdvChans = {} /\ rdvClosers = {}
    /\ buf = [c \in Calls |-> FALSE]
    /\ chanClosed = [c \in Calls |-> FALSE]
    /\ queue = <<>>
    /\ handling = Idle
    /\ crashed = FALSE
    /\ written = {} /\ asked = {} /\ unmatched = {} /\ events = 0

\* Once the process is down nothing moves.
Up == ~crashed /\ UNCHANGED crashed

Goto(c, from, to) == Up /\ pc[c] = from /\ pc' = [pc EXCEPT ![c] = to]

\* context.WithCancelCause keeps the first cause.
Cancelled(c, why) ==
    cause' = [cause EXCEPT ![c] = IF @ = "none" THEN why ELSE @]

-----------------------------------------------------------------------------
\* handleToolCall: register the cancel function under the request id ...
RegisterToolCall(c) ==
    /\ Goto(c, "idle", "running")
    /\ cancels[id[c]] = NoCall
    /\ cancels' = [cancels EXCEPT ![id[c]] = c]
    /\ UNCHANGED <<sess, id, cause, outcome, rdvVars, busVars, histVars>>

\* Fault: the deferred delete is set up before the test for a duplicate.
RejectUnregisters(c) ==
    /\ Goto(c, "idle", "rejected")
    /\ cancels[id[c]] # NoCall
    /\ cancels' = [cancels EXCEPT ![id[c]] = NoCall]
    /\ Cancelled(c, "returned")
    /\ UNCHANGED <<sess, id, outcome, rdvVars, busVars, histVars>>

\* ... or answer "internal error" because the id is taken.
RejectToolCall(c) ==
    /\ Goto(c, "idle", "rejected")
    /\ cancels[id[c]] # NoCall
    /\ Cancelled(c, "returned")
    /\ UNCHANGED <<sess, id, outcome, cancels, rdvVars, busVars, histVars>>

\* The tool asks the client something, once in this model: register the
\* rendez-vous first ...
createRendezVous(c) ==
    /\ Goto(c, "running", "created")
    /\ outcome[c] = "none"
    /\ rdvChans' = rdvChans \cup {c}
    /\ rdvClosers' = rdvClosers \cup {c}
    /\ UNCHANGED <<sess, id, cause, outcome, cancels, buf, chanClosed, busVars,
                   histVars>>

\* ... then write the request, which may fail.
WriteRequest(c) ==
    /\ Goto(c, "created", "waiting")
    /\ written' = written \cup {c}
    /\ UNCHANGED <<sess, id, cause, outcome, cancels, rdvVars, busVars, asked,
                   unmatched, events>>

WriteFails(c) ==
    /\ Goto(c, "created", "closing")
    /\ outcome' = [outcome EXCEPT ![c] = "writeErr"]
    /\ UNCHANGED <<sess, id, cause, cancels, rdvVars, busVars, histVars>>

\* Fault: the select only looks at the request's own context, not at toolCtx.
ReceiveParentDone(c) ==
    /\ Goto(c, "waiting", "closing")
    /\ cause[c] = "parent"
    /\ outcome' = [outcome EXCEPT ![c] = "ctx"]
    /\ UNCHANGED <<sess, id, cause, cancels, rdvVars, busVars, histVars>>

\* The three ways out of the select: a response, the channel closed by a
\* cancellation of this request, the tool's context done.
ReceiveReply(c) ==
    /\ Goto(c, "waiting", "closing")
    /\ buf[c]
    /\ buf' = [buf EXCEPT ![c] = FALSE]
    /\ outcome' = [outcome EXCEPT ![c] = "reply"]
    /\ UNCHANGED <<sess, id, cause, cancels, rdvChans, rdvClosers, chanClosed,
                   busVars, histVars>>

ReceiveClosed(c) ==
    /\ Goto(c, "waiting", "closing")
    /\ ~buf[c] /\ chanClosed[c]
    /\ outcome' = [outcome EXCEPT ![c] = "closed"]
    /\ UNCHANGED <<sess, id, cause, cancels, rdvVars, busVars, histVars>>

ReceiveCtxDone(c) ==
    /\ Goto(c, "waiting", "closing")
    /\ cause[c] # "none"
    /\ outcome' = [outcome EXCEPT ![c] = "ctx"]
    /\ UNCHANGED <<sess, id, cause, cancels, rdvVars, busVars, histVars>>

\* Fault: the channel stays in rdvChans.
DropCloserOnly(c) ==
    /\ chanClosed' = [chanClosed EXCEPT ![c] = @ \/ c \in rdvClosers]
    /\ rdvClosers' = rdvClosers \ {c}
    /\ UNCHANGED <<rdvChans, buf>>

\* Under rdvMu: close the channel if its closer is still registered, and drop
\* both entries.  Shared by the deferred close and by cancelInFlightRequest.
DropRendezVous(c) ==
    /\ chanClosed' = [chanClosed EXCEPT ![c] = @ \/ c \in rdvClosers]
    /\ rdvClosers' = rdvClosers \ {c}
    /\ rdvChans' = rdvChans \ {c}
    /\ UNCHANGED buf

\* The deferred close of the client request.
CloseRendezVous(c) ==
    /\ Goto(c, "closing", "running")
    /\ DropRendezVous(c)
    /\ UNCHANGED <<sess, id, cause, outcome, cancels, busVars, histVars>>

\* cap.CallTool returns.
ToolReturns(c) ==
    /\ Goto(c, "running", "finishing")
    /\ UNCHANGED <<sess, id, cause, outcome, cancels, rdvVars, busVars, histVars>>

\* The deferred functions of handleToolCall: unregister, then release toolCtx.
FinishToolCall(c) ==
    /\ Goto(c, "finishing", "done")
    /\ cancels' = [cancels EXCEPT ![id[c]] = NoCall]
    /\ Cancelled(c, "returned")
    /\ UNCHANGED <<sess, id, outcome, rdvVars, busVars, histVars>>

\* External: the transport cancels the context the call inherited.
ParentCancelled(c) ==
    /\ Up
    /\ pc[c] \notin {"idle", "done", "rejected"}
    /\ cause[c] = "none"
    /\ Cancelled(c, "parent")
    /\ UNCHANGED <<pc, sess, id, outcome, cancels, rdvVars, busVars, histVars>>

-----------------------------------------------------------------------------
\* memoryhost.PublishEvent to this instance: dropped when the channel is full.
PublishEvent(e) ==
    /\ Up
    /\ events < MaxEvents
    /\ events' = events + 1
    /\ queue' = IF Len(queue) < QueueCap THEN Append(queue, e) ELSE queue
    /\ UNCHANGED <<toolVars, cancels, rdvVars, handling, written, unmatched>>

\* HandleClientResponse: a client answers, perhaps twice, a request it got.
HandleClientResponse(c) ==
    /\ c \in written
    /\ PublishEvent(Response(c))
    /\ UNCHANGED asked

\* HandleNotification(notifications/cancelled) for a request of the server ...
CancelServerRequest(c) ==
    /\ c \in written
    /\ PublishEvent(CancelRdv(c))
    /\ UNCHANGED asked

\* ... and for a tools/call the client itself sent.  Notification and call travel
\* in requests of their own: the first may come before the second is registered.
CancelToolCall(c) ==
    /\ PublishEvent(CancelID(id[c]))
    /\ asked' = asked \cup {<<sess[c], id[c]>>}

-----------------------------------------------------------------------------
\* Fault: the response id is not spelled as createRendezVous spelled it, so no
\* entry is found.
TakeResponseWrongKey(c) ==
    /\ Up
    /\ handling = Idle /\ queue # <<>> /\ Head(queue) = Response(c)
    /\ queue' = Tail(queue)
    /\ unmatched' = unmatched \cup {c}
    /\ UNCHANGED <<toolVars, cancels, rdvVars, handling, written, asked, events>>

\* handleSessionEvent takes a response: look the rendez-vous up under rdvMu.
TakeResponse(c) ==
    /\ Up
    /\ handling = Idle /\ queue # <<>> /\ Head(queue) = Response(c)
    /\ queue' = Tail(queue)
    /\ handling' = IF c \in rdvChans THEN Send(c) ELSE Idle
    /\ unmatched' = IF c \in rdvChans THEN unmatched ELSE unmatched \cup {c}
    /\ UNCHANGED <<toolVars, cancels, rdvVars, written, asked, events>>

\* The send that follows, with the mutex released: it fills the buffer, is
\* dropped if the buffer is full, and panics if the channel was closed.
SendResponse(c) ==
    /\ ~crashed
    /\ handling = Send(c)
    /\ handling' = Idle
    /\ IF chanClosed[c]
         THEN crashed' = TRUE /\ UNCHANGED buf
         ELSE buf' = [buf EXCEPT ![c] = TRUE] /\ UNCHANGED crashed
    /\ UNCHANGED <<toolVars, cancels, rdvChans, rdvClosers, chanClosed, queue,
                   histVars>>

\* Fault: cancelling a request to the client also cancels the asking tool.
TakeCancelRdvCancelsTool(c) ==
    /\ Up
    /\ handling = Idle /\ queue # <<>> /\ Head(queue) = CancelRdv(c)
    /\ queue' = Tail(queue)
    /\ DropRendezVous(c)
    /\ Cancelled(c, "client")
    /\ UNCHANGED <<pc, sess, id, outcome, cancels, handling, histVars>>

\* cancelInFlightRequest with a server-issued id: no tool call has it.
TakeCancelRdv(c) ==
    /\ Up
    /\ handling = Idle /\ queue # <<>> /\ Head(queue) = CancelRdv(c)
    /\ queue' = Tail(queue)
    /\ DropRendezVous(c)
    /\ UNCHANGED <<toolVars, cancels, handling, histVars>>

\* cancelInFlightRequest with a client id: look the cancel function up under
\* toolCtxMu ...
TakeCancel(i) ==
    /\ Up
    /\ handling = Idle /\ queue # <<>> /\ Head(queue) = CancelID(i)
    /\ queue' = Tail(queue)
    /\ handling' = IF cancels[i] = NoCall THEN Idle ELSE Cancel(cancels[i])
    /\ UNCHANGED <<toolVars, cancels, rdvVars, histVars>>

\* ... call it after the unlock, and find no rendez-vous under that id.
CallCancel(c) ==
    /\ Up
    /\ handling = Cancel(c)
    /\ handling' = Idle
    /\ Cancelled(c, "client")
    /\ UNCHANGED <<pc, sess, id, outcome, cancels, rdvVars, queue,
                   histVars>>

-----------------------------------------------------------------------------
\* Steps of a call's goroutine that need nothing from the tool or a client.
CallStep(c) ==
    \/ RegisterToolCall(c) \/ RejectToolCall(c)
    \/ WriteRequest(c) \/ WriteFails(c)
    \/ ReceiveReply(c) \/ ReceiveClosed(c) \/ ReceiveCtxDone(c)
    \/ CloseRendezVous(c) \/ FinishToolCall(c)

ToolStep(c) == createRendezVous(c) \/ ToolReturns(c)

ClientStep(c) ==
    HandleClientResponse(c) \/ CancelServerRequest(c) \/ CancelToolCall(c)

ConsumerStep ==
    \/ \E c \in Calls : \/ TakeResponse(c) \/ SendResponse(c)
                        \/ TakeCancelRdv(c) \/ CallCancel(c)
    \/ \E i \in ReqIDs : TakeCancel(i)

Next ==
    \/ \E c \in Calls : \/ CallStep(c) \/ ToolStep(c) \/ ClientStep(c)
                        \/ ParentCancelled(c)
    \/ ConsumerStep

Spec == Init /\ [][Next]_vars

\* Runnable goroutines run; tools and clients owe nothing.
Fairness ==
    /\ \A c \in Calls : WF_vars(CallStep(c))
    /\ WF_vars(ConsumerStep)

FairSpec == Spec /\ Fairness

-----------------------------------------------------------------------------
Active == {"running", "created", "waiting", "closing", "finishing"}

\* toolCtxCancels is exact: every tools/call that was accepted and has not
\* finished can be found under its id, and every entry is of such a call.  A
\* rejected duplicate leaves the entry of the call it collided with alone.
RegistryExact ==
    /\ \A c \in Calls : pc[c] \in Active => cancels[id[c]] = c
    /\ \A i \in ReqIDs : cancels[i] # NoCall =>
          pc[cancels[i]] \in Active /\ id[cancels[i]] = i

\* The deferred close and a cancellation race to close one channel: it is
\* closed once (a registered closer's channel is open), both maps lose the
\* entry together, and nothing stays registered once the request is over.
RendezVousExact ==
    /\ rdvChans = rdvClosers
    /\ \A c \in rdvClosers : /\ ~chanClosed[c]
                             /\ pc[c] \in {"created", "waiting", "closing"}
    /\ \A c \in Calls : pc[c] \in {"created", "waiting"} =>
          c \in rdvClosers \/ chanClosed[c]

\* A response is dropped for want of a rendez-vous only when its caller gave
\* up or the request was cancelled, never because it came too early.
ResponseFindsCaller ==
    \A c \in unmatched : pc[c] \notin {"created", "waiting"} \/ chanClosed[c]

\* A tool call's context is cancelled on behalf of a client, however long after
\* the cancel function was looked up, only if the client of its own session
\* sent notifications/cancelled with its id; this is so for calls whose id no
\* call of another session has (CancelStaysInSession is about the others).
CancelWasAsked ==
    \A c \in Calls :
        /\ cause[c] = "client" \/ handling = Cancel(c)
        /\ \A d \in Calls : id[d] = id[c] => d = c
        => <<sess[c], id[c]>> \in asked

\* mcpservice/capabilities.go:191 says of tool calls "Calls MUST be isolated per
\* session.": only the session of a call can cancel it.  toolCtxCancels has one
\* entry per request id for all sessions, so the code does not keep this.
CancelStaysInSession ==
    \A c \in Calls : cause[c] = "client" => <<sess[c], id[c]>> \in asked

\* Whoever waits for the client is woken: a response to its request or a
\* cancellation of its tool call that is queued while it waits ends the wait,
\* unless a late send has crashed the process.
QueuedEventEndsWait ==
    \A c \in Calls :
        (pc[c] = "waiting" /\ \E i \in DOMAIN queue : queue[i] \in {Response(c), CancelID(id[c])})
        ~> (pc[c] # "waiting" \/ crashed)
=============================================================================
