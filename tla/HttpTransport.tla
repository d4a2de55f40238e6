---------------------------- MODULE HttpTransport ----------------------------
(***************************************************************************)
(* How messages reach a client over streaming HTTP (handler.go): the SSE   *)
(* answer of one POST request, on which several goroutines write, and the  *)
(* GET connections on which the client reads the session's stream.         *)
(*                                                                         *)
(* A goroutine of the POST (the handler with its response, a nested        *)
(* request to the client, a progress report) writes one frame, in pieces,  *)
(* under lockedSSEWriter.mu.  If that fails the message, unless it is a    *)
(* progress report, is published to the session's stream instead.          *)
(*                                                                         *)
(* The stream is the host's: messages, and those acknowledged.  A GET is   *)
(* one connection after another; a frame that was written is on its way to *)
(* the client and lost if the connection breaks first.                     *)
(***************************************************************************)
EXTENDS Integers, Sequences, FiniteSets

CONSTANTS
    Writers,     \* goroutines that write to the POST, one message each
    Reporters,   \* those that report progress
    NoWriter,
    MaxGets,     \* bound: GET connections
    MaxNotes     \* bound: messages the server publishes by itself

ASSUME HttpAssumption ==
    /\ Reporters \subseteq Writers /\ NoWriter \notin Writers
    /\ MaxGets \in Nat /\ MaxNotes \in Nat

Pieces == <<"prefix", "payload", "end">>

VARIABLES
    \* the POST request
    write,      \* what each goroutine does
    holder,     \* lockedSSEWriter.mu
    wire,       \* the pieces written to the response
    connUp,     \* whether the client is still there
    writeErr,   \* whether a write has failed (net/http then fails all of them)
    ctxEnded,   \* whether the request's context has ended
    refused,    \* history: goroutines whose fallback the host refused
    \* the session
    sessionUp,  \* whether its record is there
    stream,     \* messages published
    done,       \* those the host counts as delivered
    notes,
    \* the GET
    getState,   \* "off" | "idle" | "writing"
    gets,       \* connections so far
    getPos,     \* position the host gave this connection
    flying,     \* frames written to it and not read yet
    read        \* history: frames the client has read, over all connections

postVars == <<write, holder, wire, connUp, writeErr, ctxEnded, refused>>
sessVars == <<sessionUp, stream, done, notes>>
getVars  == <<getState, gets, getPos, flying, read>>
httpVars == <<postVars, sessVars, getVars>>

HttpInit ==
    /\ write = [w \in Writers |-> "idle"]
    /\ holder = NoWriter /\ wire = <<>>
    /\ connUp = TRUE /\ writeErr = FALSE /\ ctxEnded = FALSE /\ refused = {}
    /\ sessionUp = TRUE /\ stream = <<>> /\ done = {} /\ notes = 0
    /\ getState = "off" /\ gets = 0 /\ getPos = 0
    /\ flying = <<>> /\ read = <<>>

To(w, place) == write' = [write EXCEPT ![w] = place]

\* The client goes away; net/http ends the request's context some time later.
PostBreaks ==
    /\ connUp
    /\ connUp' = FALSE
    /\ UNCHANGED <<write, holder, wire, writeErr, ctxEnded, refused, sessVars, getVars>>

PostContextEnds ==
    /\ ~connUp /\ ~ctxEnded
    /\ ctxEnded' = TRUE
    /\ UNCHANGED <<write, holder, wire, connUp, writeErr, refused, sessVars, getVars>>

-----------------------------------------------------------------------------
\* WriteMessageID looks at the context, then takes the lock and looks again.
WriteMessageID(w) ==
    /\ write[w] = "idle"
    /\ To(w, IF ctxEnded THEN "failed" ELSE "waiting")
    /\ UNCHANGED <<holder, wire, connUp, writeErr, ctxEnded, refused, sessVars, getVars>>

\* Fault: no mutex.
LockFree(w) ==
    /\ write[w] = "waiting"
    /\ IF ctxEnded THEN To(w, "failed") ELSE To(w, "prefix")
    /\ UNCHANGED <<holder, wire, connUp, writeErr, ctxEnded, refused, sessVars, getVars>>

Lock(w) ==
    /\ write[w] = "waiting" /\ holder = NoWriter
    /\ IF ctxEnded THEN To(w, "failed") /\ UNCHANGED holder
                   ELSE To(w, "prefix") /\ holder' = w
    /\ UNCHANGED <<wire, connUp, writeErr, ctxEnded, refused, sessVars, getVars>>

\* Fault: a failing Flush is an error, though the frame was written.
AfterPieceFlushFails(w) ==
    CASE write[w] = "prefix"  -> "payload"
      [] write[w] = "payload" -> "end"
      [] write[w] = "end"     -> IF connUp THEN "written" ELSE "failed"

\* Flush reports nothing.
AfterPiece(w) ==
    CASE write[w] = "prefix"  -> "payload"
      [] write[w] = "payload" -> "end"
      [] write[w] = "end"     -> "written"

\* One Write of the frame; the last one is followed by Flush and Unlock.  A
\* write to a connection the client has left may still succeed.
WritePiece(w) ==
    /\ write[w] \in {"prefix", "payload", "end"}
    /\ ~writeErr
    /\ wire' = Append(wire, <<w, write[w]>>)
    /\ To(w, AfterPiece(w))
    /\ holder' = IF write[w] = "end" THEN NoWriter ELSE holder
    /\ UNCHANGED <<connUp, writeErr, ctxEnded, refused, sessVars, getVars>>

WriteFails(w) ==
    /\ write[w] \in {"prefix", "payload", "end"}
    /\ ~connUp
    /\ writeErr' = TRUE
    /\ To(w, "failed")
    /\ holder' = NoWriter
    /\ UNCHANGED <<wire, connUp, ctxEnded, refused, sessVars, getVars>>

\* Fault: a message that could not be written is given up.
FallBackNever(w) ==
    /\ write[w] = "failed"
    /\ To(w, "lost")
    /\ UNCHANGED <<holder, wire, connUp, writeErr, ctxEnded, refused, sessVars, getVars>>

\* The fallback: PublishToSession reads the record under the same context,
\* which the host refuses if it has ended ...
FallBack(w) ==
    /\ write[w] = "failed"
    /\ To(w, IF w \in Reporters \/ ctxEnded \/ ~sessionUp THEN "lost" ELSE "publish")
    /\ UNCHANGED <<holder, wire, connUp, writeErr, ctxEnded, refused, sessVars, getVars>>

\* What PublishToSession makes of a message: its type is jsonrpc.Message, which
\* the []byte case of the switch does not match, so json.Marshal turns the
\* encoded message into a base64 string.
Published(w) == [of |-> w, as |-> "base64"]

\* ... and then publishes.
PublishToSession(w) ==
    /\ write[w] = "publish"
    /\ IF ctxEnded THEN To(w, "lost") /\ UNCHANGED stream
                   ELSE To(w, "published") /\ stream' = Append(stream, Published(w))
    /\ UNCHANGED <<holder, wire, connUp, writeErr, ctxEnded, refused, sessionUp, done, notes, getVars>>

\* The host fails, or refuses a nested request whose tool call was cancelled:
\* the fallback runs under the context of the call.
FallBackRefused(w) ==
    /\ write[w] \in {"failed", "publish"} /\ w \notin Reporters
    /\ To(w, "lost")
    /\ refused' = refused \cup {w}
    /\ UNCHANGED <<holder, wire, connUp, writeErr, ctxEnded, sessVars, getVars>>

-----------------------------------------------------------------------------
\* The engine publishes a notification of its own.
PublishNote ==
    /\ notes < MaxNotes /\ sessionUp
    /\ notes' = notes + 1
    /\ stream' = Append(stream, [of |-> NoWriter, as |-> "json"])
    /\ UNCHANGED <<postVars, sessionUp, done, getVars>>

\* DELETE: the record goes, and the stream with it.
DeleteMCP ==
    /\ sessionUp
    /\ sessionUp' = FALSE
    /\ getState' = "off" /\ flying' = <<>>
    /\ UNCHANGED <<postVars, stream, done, notes, gets, getPos, read>>

LastEventID == IF read = <<>> THEN 0 ELSE read[Len(read)]

\* GET with the Last-Event-ID of the last frame read; without one the host
\* starts at the end of the stream.
GetMCP ==
    /\ getState = "off" /\ gets < MaxGets /\ sessionUp
    /\ getState' = "idle"
    /\ gets' = gets + 1
    /\ getPos' = IF LastEventID = 0 THEN Len(stream) ELSE LastEventID
    /\ UNCHANGED <<postVars, sessVars, flying, read>>

\* StreamSession's callback is called with the first message after the
\* connection's position that was not delivered yet ...
GetClaims ==
    /\ getState = "idle"
    /\ \E m \in (getPos + 1)..Len(stream) :
          /\ m \notin done /\ (getPos + 1)..(m - 1) \subseteq done
          /\ getPos' = m - 1
    /\ getState' = "writing"
    /\ UNCHANGED <<postVars, sessVars, gets, flying, read>>

\* ... and returns nil once the frame is written: the host acknowledges it.
GetWrites ==
    /\ getState = "writing"
    /\ flying' = Append(flying, getPos + 1)
    /\ done' = done \cup {getPos + 1}
    /\ getPos' = getPos + 1
    /\ getState' = "idle"
    /\ UNCHANGED <<postVars, sessionUp, stream, notes, gets, read>>

\* Fault: the callback logs a failed write and returns nil.
GetWriteFailsQuietly ==
    /\ getState = "writing"
    /\ done' = done \cup {getPos + 1}
    /\ getState' = "off" /\ flying' = <<>>
    /\ UNCHANGED <<postVars, sessionUp, stream, notes, gets, getPos, read>>

\* A failed write is returned: the host releases the message, the stream ends.
GetWriteFails ==
    /\ getState = "writing"
    /\ getState' = "off" /\ flying' = <<>>
    /\ UNCHANGED <<postVars, sessVars, gets, getPos, read>>

GetBreaks ==
    /\ getState = "idle"
    /\ getState' = "off" /\ flying' = <<>>
    /\ UNCHANGED <<postVars, sessVars, gets, getPos, read>>

ClientReads ==
    /\ flying # <<>>
    /\ read' = Append(read, Head(flying))
    /\ flying' = Tail(flying)
    /\ UNCHANGED <<postVars, sessVars, getState, gets, getPos>>

HttpNext ==
    \/ PostBreaks \/ PostContextEnds
    \/ \E w \in Writers : \/ WriteMessageID(w) \/ Lock(w) \/ WritePiece(w) \/ WriteFails(w)
                          \/ FallBack(w) \/ PublishToSession(w) \/ FallBackRefused(w)
    \/ PublishNote \/ DeleteMCP
    \/ GetMCP \/ GetClaims \/ GetWrites \/ GetWriteFails \/ GetBreaks \/ ClientReads

HttpSpec == HttpInit /\ [][HttpNext]_httpVars
-----------------------------------------------------------------------------
\* The response is a sequence of whole frames, with at most the last one cut
\* off: no goroutine writes into the frame of another.
WholeFrames ==
    \A i \in 1..Len(wire) :
        LET first == 3 * ((i - 1) \div 3) + 1
        IN wire[i] = <<wire[first][1], Pieces[i - first + 1]>>

\* A message the client may have received on the POST, because its frame was
\* completed, is not published a second time to the session's stream.
NotSentTwice ==
    \A w \in Writers : ~(/\ \E i \in 1..Len(wire) : wire[i] = <<w, "end">>
                         /\ \E i \in 1..Len(stream) : stream[i].of = w)

\* A message is given up only for a reason: a progress report, a request whose
\* client has gone for good, a session that was deleted, or a refusal of the
\* host.
LostForAReason ==
    \A w \in Writers :
        write[w] = "lost" => w \in Reporters \/ ctxEnded \/ ~sessionUp \/ w \in refused

\* What the host counts as delivered was written whole to some GET.
AcknowledgedWasWritten ==
    [][\A m \in done' \ done : flying' = Append(flying, m)]_httpVars

\* A message has one fate: on the POST, on the stream and then, written whole,
\* on a GET, or lost for a reason.
OneFate == [](NotSentTwice /\ LostForAReason) /\ AcknowledgedWasWritten

\* "Accept either already-encoded []byte or a struct implementing Message": a
\* message that falls back to the session's stream arrives there as the JSON
\* text the handler encoded, like the ones the engine publishes itself.
FallbackIsJSON ==
    \A i \in 1..Len(stream) : stream[i].as = "json"
=============================================================================
