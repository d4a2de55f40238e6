--------------------------- MODULE StdioTransport ---------------------------
(***************************************************************************)
(* The stdio transport (stdio/handler.go): one reader of stdin, a goroutine *)
(* per request, at most one session, a pump that copies the session's      *)
(* stream to stdout, and the mutex under which they all write lines.       *)
(*                                                                         *)
(* A request may ask the client something and wait for the answer, which   *)
(* is one of the next lines the reader reads.  The reader passes it on as   *)
(* an event of the host, which reaches the request if engine.Run has       *)
(* subscribed and its channel has room; so do cancellations.               *)
(***************************************************************************)
EXTENDS Integers, Sequences, FiniteSets

CONSTANTS
    Requests,    \* requests other than initialize
    Pumps,       \* bound: 1..n, pumps started
    MaxLines,    \* bound: initialize, initialized and invalid lines read
    MaxMessages, \* bound: messages published to the session
    InboxSize,   \* capacity of the channel of engine.Run (32 in the host)
    Reader,      \* the goroutine that reads stdin, as a writer of stdout
    Nobody

Actors == Requests \cup Pumps \cup {Reader}

ASSUME StdioAssumption ==
    /\ IsFiniteSet(Pumps) /\ Pumps = 1..Cardinality(Pumps)
    /\ MaxLines \in Nat /\ MaxMessages \in Nat /\ InboxSize \in Nat
    /\ Requests \cap Pumps = {} /\ Reader \notin Requests \cup Pumps
    /\ Nobody \notin Actors

NoLine == <<"none">>

VARIABLES
    reader,       \* "reading" | "initialize" | "ended" | "exited"
    initialized,  \* h.initialized, h.sessID
    req,          \* the goroutine of each request
    pump,         \* the goroutine of each pump
    current,      \* the pump h.sessionCancel belongs to, 0 if none
    position,     \* the host's cursor of each pump
    published, taken,  \* the session's stream, and what a pump has claimed
    line,         \* what each actor is about to write
    mu,           \* writeMu
    out,          \* stdout
    lines,        \* lines read
    listening,    \* whether engine.Run has subscribed to the fan-out topic
    inbox,        \* its channel
    told,         \* answers and cancellations the client has sent
    lost          \* history: requests whose client answer was dropped

fanVars   == <<listening, inbox, told, lost>>
actorVars == <<req, pump, current, position>>
outVars   == <<line, mu, out>>
stdioVars == <<reader, initialized, actorVars, published, taken, outVars, lines, fanVars>>

StdioInit ==
    /\ reader = "reading" /\ initialized = FALSE
    /\ req = [r \in Requests |-> "none"]
    /\ pump = [p \in Pumps |-> "none"] /\ current = 0
    /\ position = [p \in Pumps |-> 0]
    /\ published = 0 /\ taken = {}
    /\ line = [a \in Actors |-> NoLine] /\ mu = Nobody /\ out = <<>>
    /\ lines = 0
    /\ listening = FALSE /\ inbox = <<>> /\ told = {} /\ lost = {}

-----------------------------------------------------------------------------
\* Fault: lines are written without the mutex.
WriteBodyUnlocked(a) ==
    /\ line[a] # NoLine /\ <<line[a], "body">> \notin {out[i] : i \in 1..Len(out)}
    /\ mu' = a
    /\ out' = Append(out, <<line[a], "body">>)
    /\ UNCHANGED <<reader, initialized, actorVars, published, taken, line, lines, fanVars>>

\* writeMessageBytes: the message, then a newline, under writeMu.
WriteBody(a) ==
    /\ line[a] # NoLine /\ mu = Nobody
    /\ mu' = a
    /\ out' = Append(out, <<line[a], "body">>)
    /\ UNCHANGED <<reader, initialized, actorVars, published, taken, line, lines, fanVars>>

\* Fault: the mutex is not unlocked.
WriteNewlineLocked(a) ==
    /\ mu = a /\ line[a] # NoLine /\ out[Len(out)] = <<line[a], "body">>
    /\ out' = Append(out, <<line[a], "newline">>)
    /\ line' = [line EXCEPT ![a] = NoLine]
    /\ UNCHANGED <<reader, initialized, actorVars, published, taken, mu, lines, fanVars>>

WriteNewline(a) ==
    /\ mu = a
    /\ out' = Append(out, <<line[a], "newline">>)
    /\ mu' = Nobody
    /\ line' = [line EXCEPT ![a] = NoLine]
    /\ UNCHANGED <<reader, initialized, actorVars, published, taken, lines, fanVars>>

\* An actor goes on when its line is out.
Ready(a) == line[a] = NoLine
Says(a, l) == line' = [line EXCEPT ![a] = l]

-----------------------------------------------------------------------------
Reads == reader = "reading" /\ Ready(Reader)
ReadsOne == Reads /\ lines < MaxLines /\ lines' = lines + 1

\* A batch, an invalid message: an error line, nothing else.
ReadInvalid ==
    /\ ReadsOne
    /\ Says(Reader, <<"error", lines'>>)
    /\ UNCHANGED <<reader, initialized, actorVars, published, taken, mu, out, fanVars>>

\* initialize is handled by the reader itself.
ReadInitialize ==
    /\ ReadsOne
    /\ IF initialized THEN Says(Reader, <<"error", lines'>>) /\ UNCHANGED reader
                      ELSE reader' = "initialize" /\ UNCHANGED line
    /\ UNCHANGED <<initialized, actorVars, published, taken, mu, out, fanVars>>

InitializeSession ==
    /\ reader = "initialize"
    /\ reader' = "reading"
    /\ initialized' \in {TRUE, initialized}      \* FALSE: bad params, engine error
    /\ Says(Reader, <<"initialize", lines>>)
    /\ UNCHANGED <<actorVars, published, taken, mu, out, lines, fanVars>>

\* Fault: the new pump is started beside the old one.
PumpsAfterStartBoth(p) == [pump EXCEPT ![p] = "starting"]

\* startSessionPump cancels the pump it replaces.
PumpsAfterStart(p) ==
    [q \in Pumps |-> IF q = p THEN "starting"
                     ELSE IF q = current /\ pump[q] # "gone" THEN "cancelled" ELSE pump[q]]

\* notifications/initialized; before initialize it is only logged.
ReadInitialized ==
    /\ ReadsOne
    /\ IF initialized
       THEN \E p \in Pumps : /\ pump[p] = "none" /\ \A q \in Pumps : q < p => pump[q] # "none"
                             /\ pump' = PumpsAfterStart(p)
                             /\ current' = p
       ELSE UNCHANGED <<pump, current>>
    /\ UNCHANGED <<reader, initialized, req, position, published, taken, outVars, fanVars>>

\* Any other request gets a goroutine.
ReadRequest(r) ==
    /\ Reads /\ req[r] = "none"
    /\ req' = [req EXCEPT ![r] = "spawned"]
    /\ UNCHANGED <<reader, initialized, pump, current, position, published, taken,
                   outVars, lines, fanVars>>

\* PublishEvent to the topic of engine.Run: dropped if nobody has subscribed
\* yet, or if the channel is full.
HasRoom == listening /\ Len(inbox) < InboxSize
FanOut(event) ==
    /\ event \notin told
    /\ told' = told \cup {event}
    /\ inbox' = IF HasRoom THEN Append(inbox, event) ELSE inbox

\* The client answers what a request has asked it.
ReadResponse(r) ==
    /\ Reads /\ req[r] = "waiting" /\ Ready(r)
    /\ FanOut(<<"answer", r>>)
    /\ lost' = IF HasRoom THEN lost ELSE lost \cup {r}
    /\ UNCHANGED <<reader, initialized, actorVars, published, taken, outVars, lines, listening>>

\* notifications/cancelled for a request it has sent.
ReadCancelled(r) ==
    /\ Reads /\ req[r] # "none" /\ initialized
    /\ FanOut(<<"cancel", r>>)
    /\ UNCHANGED <<reader, initialized, actorVars, published, taken, outVars, lines, listening,
                   lost>>

\* engine.Run, in a goroutine of its own, subscribes some time after Serve began.
EngineSubscribes ==
    /\ ~listening
    /\ listening' = TRUE
    /\ UNCHANGED <<reader, initialized, actorVars, published, taken, outVars, lines, inbox, told,
                   lost>>

\* Fault: an answer is dropped by the consumer.
DeliverEventDropped ==
    /\ inbox # <<>>
    /\ inbox' = Tail(inbox)
    /\ UNCHANGED <<reader, initialized, actorVars, published, taken, outVars, lines, listening,
                   told, lost>>

\* The engine takes an event: an answer ends the wait of its request, a
\* cancellation also that of a request that has not asked yet; one that comes
\* before its request is registered does nothing.
DeliverEvent ==
    /\ inbox # <<>>
    /\ LET event == Head(inbox)
           r     == event[2]
       IN req' = [req EXCEPT ![r] = IF @ = "waiting" THEN "resumed"
                                    ELSE IF @ = "handling" /\ event[1] = "cancel" THEN "cancelled"
                                    ELSE @]
    /\ inbox' = Tail(inbox)
    /\ UNCHANGED <<reader, initialized, pump, current, position, published, taken, outVars, lines,
                   listening, told, lost>>

\* End of input, a line beyond the scanner's limit, or the end of ctx: the pump
\* is stopped, the context of the requests ends and Serve returns without
\* waiting for them ...
ReadEnd ==
    /\ Reads
    /\ reader' = "ended"
    /\ pump' = [q \in Pumps |-> IF q = current /\ pump[q] # "gone" THEN "cancelled" ELSE pump[q]]
    /\ current' = 0
    /\ UNCHANGED <<initialized, req, position, published, taken, outVars, lines, fanVars>>

\* ... and its caller may end the process, whatever they are doing.
ProcessExits ==
    /\ reader = "ended"
    /\ reader' = "exited"
    /\ UNCHANGED <<initialized, actorVars, published, taken, outVars, lines, fanVars>>

-----------------------------------------------------------------------------
\* handleRequest: before initialize an error; else the engine handles it.
StartRequest(r) ==
    /\ req[r] = "spawned"
    /\ IF initialized THEN req' = [req EXCEPT ![r] = "handling"] /\ UNCHANGED line
       ELSE req' = [req EXCEPT ![r] = "done"] /\ Says(r, <<"response", r>>)
    /\ UNCHANGED <<reader, initialized, pump, current, position, published, taken,
                   mu, out, lines, fanVars>>

\* Its tool asks the client something (a sampling, roots or elicitation call);
\* if it has been cancelled it does not wait.
AskClient(r) ==
    /\ req[r] \in {"handling", "cancelled"}
    /\ req' = [req EXCEPT ![r] = IF @ = "handling" THEN "waiting" ELSE "resumed"]
    /\ Says(r, <<"ask", r>>)
    /\ UNCHANGED <<reader, initialized, pump, current, position, published, taken,
                   mu, out, lines, fanVars>>

\* Fault: after the error of a failed request the result is written as well.
RespondTwice(r) ==
    /\ req[r] \in {"handling", "cancelled", "resumed"} /\ Ready(r)
    /\ req' = [req EXCEPT ![r] = IF req[r] = "handling" THEN "resumed" ELSE "done"]
    /\ Says(r, <<"response", r>>)
    /\ UNCHANGED <<reader, initialized, pump, current, position, published, taken,
                   mu, out, lines, fanVars>>

\* The result, or an error response; also when the wait for the client ended
\* with Serve.
Respond(r) ==
    /\ \/ req[r] \in {"handling", "cancelled", "resumed"}
       \/ req[r] = "waiting" /\ reader = "ended"
    /\ Ready(r)
    /\ req' = [req EXCEPT ![r] = "done"]
    /\ Says(r, <<"response", r>>)
    /\ UNCHANGED <<reader, initialized, pump, current, position, published, taken,
                   mu, out, lines, fanVars>>

-----------------------------------------------------------------------------
PublishMessage ==
    /\ initialized /\ published < MaxMessages
    /\ published' = published + 1
    /\ UNCHANGED <<reader, initialized, actorVars, taken, outVars, lines, fanVars>>

\* SubscribeSession with no Last-Event-ID: only what comes after it.
PumpSubscribes(p) ==
    /\ pump[p] = "starting"
    /\ pump' = [pump EXCEPT ![p] = "running"]
    /\ position' = [position EXCEPT ![p] = published]
    /\ UNCHANGED <<reader, initialized, req, current, published, taken, outVars, lines, fanVars>>

PumpDelivers(p) ==
    /\ pump[p] = "running" /\ Ready(p)
    /\ \E m \in (position[p] + 1)..published :
          /\ m \notin taken /\ \A n \in (position[p] + 1)..(m - 1) : n \in taken
          /\ taken' = taken \cup {m}
          /\ position' = [position EXCEPT ![p] = m]
          /\ Says(p, <<"message", m>>)
    /\ UNCHANGED <<reader, initialized, req, pump, current, published, mu, out, lines, fanVars>>

PumpEnds(p) ==
    /\ pump[p] = "cancelled" /\ Ready(p)
    /\ pump' = [pump EXCEPT ![p] = "gone"]
    /\ UNCHANGED <<reader, initialized, req, current, position, published, taken,
                   outVars, lines, fanVars>>

-----------------------------------------------------------------------------
RequestStep(r) == StartRequest(r) \/ Respond(r)

StdioNext ==
    \/ ProcessExits
    \/ /\ reader # "exited"
       /\ \/ ReadInvalid \/ ReadInitialize \/ InitializeSession \/ ReadInitialized \/ ReadEnd
          \/ \E r \in Requests : \/ ReadRequest(r) \/ ReadResponse(r) \/ ReadCancelled(r)
                                 \/ RequestStep(r) \/ AskClient(r)
          \/ EngineSubscribes \/ DeliverEvent
          \/ PublishMessage
          \/ \E p \in Pumps : PumpSubscribes(p) \/ PumpDelivers(p) \/ PumpEnds(p)
          \/ \E a \in Actors : WriteBody(a) \/ WriteNewline(a)

StdioSpec == StdioInit /\ [][StdioNext]_stdioVars

\* Serve has not returned.
Serving == reader \in {"reading", "initialize"}

\* While Serve runs: goroutines run, tools end, a Go mutex starves nobody,
\* stdout takes what is written and the client answers what it is asked.
StdioFairness ==
    /\ WF_stdioVars(Serving /\ InitializeSession)
    /\ WF_stdioVars(Serving /\ DeliverEvent)
    /\ \A r \in Requests : /\ WF_stdioVars(Serving /\ RequestStep(r))
                            /\ WF_stdioVars(Serving /\ ReadResponse(r))
    /\ \A a \in Requests \cup {Reader} : SF_stdioVars(Serving /\ WriteBody(a))
    /\ WF_stdioVars(Serving /\ \E a \in Actors : WriteNewline(a))

-----------------------------------------------------------------------------
\* Every line of stdout is one whole message.
WholeLines ==
    \A i \in 1..Len(out) :
        IF i % 2 = 1 THEN out[i][2] = "body"
        ELSE out[i] = <<out[i - 1][1], "newline">>

\* No request is answered twice and no message is copied twice.
LineWrittenOnce ==
    \A i, j \in 1..Len(out) :
        out[i] = out[j] /\ out[i][1][1] \in {"response", "message"} => i = j

\* A message that a pump has claimed is on stdout or about to be written there,
\* also if the pump was cancelled meanwhile.
TakenIsWritten ==
    \A m \in taken : \/ \E i \in 1..Len(out) : out[i] = <<<<"message", m>>, "body">>
                     \/ \E p \in Pumps : line[p] = <<"message", m>>

\* One pump at most has not been cancelled, and none once Serve has returned.
OnePump ==
    Cardinality({p \in Pumps : pump[p] \in {"starting", "running"}})
        <= (IF reader \in {"ended", "exited"} THEN 0 ELSE 1)

\* stdout is whole lines, carries no answer and no message twice and loses no
\* message that a pump has claimed, which one pump at a time does, however often
\* "initialized" is sent.  (What is published before a pump subscribes is not
\* for that pump, so a message may be copied not at all.)
StdoutExact == WholeLines /\ LineWrittenOnce /\ TakenIsWritten /\ OnePump

Answered(r) == \E i \in 1..Len(out) : out[i] = <<<<"response", r>>, "newline">>

\* A request that was read is answered in the end, also if it waits for the
\* client or is cancelled at any moment, since the reader stays free to read on;
\* unless Serve returns first, which does not wait for it, or the answer of the
\* client that it waits for was dropped on its way.
EveryRequestAnswered ==
    \A r \in Requests : req[r] = "spawned" ~> Answered(r) \/ r \in lost \/ ~Serving
=============================================================================
