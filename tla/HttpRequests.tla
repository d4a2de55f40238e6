---------------------------- MODULE HttpRequests -----------------------------
(***************************************************************************)
(* The handlers of the streaming HTTP endpoint (streaminghttp/handler.go), *)
(* up to the answer: what each looks at, in which order, what it refuses   *)
(* and which engine call it makes.  Two requests run at once around one    *)
(* session of Owner.  An attribute of a request is chosen where the        *)
(* handler reads it.  HttpTransport models the writing of answers,         *)
(* Handshake the inside of initialize, SessionLifecycle the records;       *)
(* headers of the answers, logging and the well-known documents are left   *)
(* out.                                                                    *)
(***************************************************************************)
EXTENDS Naturals, JsonRpc

CONSTANTS
    Conns,         \* requests in progress
    ClientObjects, \* JSON objects that clients may send
    Owner,         \* the user the session belongs to
    Stranger       \* another user

ASSUME HttpRequestsAssumption == Owner # Stranger /\ ClientObjects \subseteq Objects

NoMessage == [rpc |-> "", method |-> "", params |-> "", result |-> FALSE,
              error |-> FALSE, id |-> NoID]
NoAnswer == [status |-> 0, reply |-> "none", id |-> NoID]

VARIABLES
    session,  \* "none", "pending", "open" or "gone"
    verb,     \* the handler of each request
    place,    \* how far it has got
    user,     \* whom checkAuthentication found, or "nobody"
    header,   \* the Mcp-Session-Id it read: "none", "s" or "unknown"
    sent,     \* the object in the body
    message,  \* the message it became
    called,   \* the engine call that took effect, or "none"
    failed,   \* whether the host refused something on the way
    answer    \* the status and the JSON-RPC answer of a finished request

askVars == <<verb, user, header, sent, message>>
requestVars == <<session, askVars, place, called, failed, answer>>

HttpRequestsInit ==
    /\ session \in {"none", "pending"}
    /\ verb = [c \in Conns |-> "none"]
    /\ place = [c \in Conns |-> "idle"]
    /\ user = [c \in Conns |-> "nobody"]
    /\ header = [c \in Conns |-> "none"]
    /\ sent = [c \in Conns |-> NoMessage] /\ message = sent
    /\ called = [c \in Conns |-> "none"]
    /\ failed = [c \in Conns |-> FALSE]
    /\ answer = [c \in Conns |-> NoAnswer]

Advance(c, from, to) == place[c] = from /\ place' = [place EXCEPT ![c] = to]
Answer(c, a) == answer' = [answer EXCEPT ![c] = a]
Status(n) == [NoAnswer EXCEPT !.status = n]

\* The handler returns with a status and has done nothing.
Refuse(c, from, status) ==
    /\ Advance(c, from, "done")
    /\ Answer(c, Status(status))
    /\ UNCHANGED <<session, askVars, called, failed>>

\* A host call fails: 500, whatever it was for.
HostFails(c, from) ==
    /\ Advance(c, from, "done")
    /\ Answer(c, Status(500))
    /\ failed' = [failed EXCEPT ![c] = TRUE]
    /\ UNCHANGED <<session, askVars, called>>

\* The call takes effect and is answered.
Perform(c, from, what, a) ==
    /\ Advance(c, from, "done")
    /\ Answer(c, a)
    /\ called' = [called EXCEPT ![c] = what]
    /\ UNCHANGED <<askVars, failed>>

Proceed(c, from, to) ==
    /\ Advance(c, from, to)
    /\ UNCHANGED <<session, askVars, called, failed, answer>>

-----------------------------------------------------------------------------
\* The mux; POST looks at the content type first, GET at Accept, and both
\* need a writer that can flush.  DELETE begins with the authentication.
Route(c, v) ==
    /\ Advance(c, "idle", IF v = "DELETE" THEN "auth" ELSE "negotiate")
    /\ verb' = [verb EXCEPT ![c] = v]
    /\ UNCHANGED <<session, user, header, sent, message, called, failed, answer>>

Negotiate(c) ==
    \/ Refuse(c, "negotiate", 415)
    \/ Refuse(c, "negotiate", 500)
    \/ Proceed(c, "negotiate", "auth")

\* checkAuthentication: no header or a bad token 401, a malformed header or a
\* blank token 400, too little scope 403, an authenticator that fails 500.
AuthenticationFails(c) == \E status \in {400, 401, 403, 500} : Refuse(c, "auth", status)

Authenticated(c, u) ==
    /\ Advance(c, "auth", IF verb[c] = "POST" THEN "body" ELSE "header")
    /\ user' = [user EXCEPT ![c] = u]
    /\ UNCHANGED <<session, verb, header, sent, message, called, failed, answer>>

\* Not JSON, an array, or no message of JSON-RPC.
BodyRefused(c) == Refuse(c, "body", 400)

DecodeBody(c, o) ==
    /\ Valid(o)
    /\ Advance(c, "body", "header")
    /\ sent' = [sent EXCEPT ![c] = o]
    /\ message' = [message EXCEPT ![c] = Unmarshal(o)]
    /\ UNCHANGED <<session, verb, user, header, called, failed, answer>>

\* GET and DELETE need a session; POST without one can only initialize.
ReadHeader(c, h) ==
    /\ Advance(c, "header", IF h # "none" THEN "load"
                         ELSE IF verb[c] = "POST" THEN "initialize" ELSE "refuse")
    /\ header' = [header EXCEPT ![c] = h]
    /\ UNCHANGED <<session, verb, user, sent, message, called, failed, answer>>

SessionMissing(c) == Refuse(c, "refuse", 400)

-----------------------------------------------------------------------------
InitializeRefused(c) ==
    LET m == message[c]
    IN \/ m.method # "initialize" /\ Refuse(c, "initialize", 404)
       \/ m.method = "initialize" /\ Refuse(c, "initialize", 400)

\* An initialize without an id is answered like one with an id.
PostInitialize(c) ==
    LET m == message[c]
    IN /\ m.method = "initialize" /\ m.params = "good"
       /\ \/ /\ Perform(c, "initialize", "initialize",
                        [status |-> 200, reply |-> "result", id |-> m.id])
             /\ session' = IF session = "none" /\ user[c] = Owner THEN "pending" ELSE session
          \/ HostFails(c, "initialize")

\* Fault: the owner of the record is not compared.
MayLoadAny(c) == header[c] = "s" /\ session \in {"pending", "open"}

MayLoad(c) == header[c] = "s" /\ session \in {"pending", "open"} /\ user[c] = Owner

LoadSession(c) ==
    \/ MayLoad(c) /\ Proceed(c, "load", "loaded")
    \/ ~MayLoad(c) /\ Refuse(c, "load", 404)
    \/ HostFails(c, "load")

\* A second initialize is a conflict; then the version header, if there is one
\* and it is not the session's; then the kind of message decides.
CheckLoaded(c) ==
    LET m == message[c]
    IN \/ verb[c] = "POST" /\ m.method = "initialize" /\ Refuse(c, "loaded", 409)
       \/ /\ verb[c] # "POST" \/ m.method # "initialize"
          /\ \/ Refuse(c, "loaded", 400)
             \/ Proceed(c, "loaded",
                  IF verb[c] = "GET" THEN "stream"
                  ELSE IF verb[c] = "DELETE" THEN "delete"
                  ELSE IF AsResponse(m) THEN "response"
                  ELSE IF IsNil(m.id) THEN "notification" ELSE "accept")

-----------------------------------------------------------------------------
\* Fault: initialized is passed on to the other nodes like the rest.
OpensNothing(s) == s

\* The mutation finds an open session open, and none that is gone.
Opens(s) == IF s = "pending" THEN "open" ELSE s

\* "initialized" opens the session; an error of that is logged and the client
\* is told 202.  Any other notification is published to the nodes.
PostNotification(c) ==
    IF message[c].method = "initialized"
    THEN \/ /\ Perform(c, "notification", "open", Status(202))
            /\ session' = Opens(session)
         \/ /\ Advance(c, "notification", "done") /\ Answer(c, Status(202))
            /\ failed' = [failed EXCEPT ![c] = TRUE]
            /\ UNCHANGED <<session, askVars, called>>
    ELSE \/ Perform(c, "notification", "publish", Status(202)) /\ UNCHANGED session
         \/ HostFails(c, "notification")

AcceptRefused(c) == Refuse(c, "accept", 415)

\* The stream is open; an error of the engine becomes an error response.
PostRequest(c) ==
    /\ \E r \in {"result", "error"} :
          Perform(c, "accept", "request", [status |-> 200, reply |-> r, id |-> message[c].id])
    /\ UNCHANGED session

PostResponse(c) ==
    IF IsNil(message[c].id) THEN Refuse(c, "response", 500)
    ELSE \/ Perform(c, "response", "publish", Status(202)) /\ UNCHANGED session
         \/ HostFails(c, "response")

StreamSession(c) == Perform(c, "stream", "stream", Status(200)) /\ UNCHANGED session

\* Fault: as the comment of Engine.DeleteSession has it, a session that is gone
\* already is an error.
DeleteReportsMissing(c) ==
    \/ /\ Perform(c, "delete", "delete", Status(IF session = "gone" THEN 404 ELSE 204))
       /\ session' = "gone"
    \/ HostFails(c, "delete")

\* The nodes are told, then the host deletes; it does not mind a session that
\* is gone already.
DeleteSession(c) ==
    \/ Perform(c, "delete", "delete", Status(204)) /\ session' = "gone"
    \/ HostFails(c, "delete")

RequestHandler(c) ==
    \/ \E v \in {"POST", "GET", "DELETE"} : Route(c, v)
    \/ Negotiate(c) \/ AuthenticationFails(c)
    \/ \E u \in {Owner, Stranger} : Authenticated(c, u)
    \/ BodyRefused(c) \/ \E o \in ClientObjects : DecodeBody(c, o)
    \/ \E h \in {"none", "s", "unknown"} : ReadHeader(c, h)
    \/ SessionMissing(c) \/ InitializeRefused(c) \/ PostInitialize(c)
    \/ LoadSession(c) \/ CheckLoaded(c)
    \/ PostNotification(c) \/ AcceptRefused(c) \/ PostRequest(c)
    \/ PostResponse(c) \/ StreamSession(c) \/ DeleteSession(c)

HttpRequestsNext == \E c \in Conns : RequestHandler(c)

HttpRequestsSpec == HttpRequestsInit /\ [][HttpRequestsNext]_requestVars

-----------------------------------------------------------------------------
Finished(c) == place[c] = "done"

\* A stranger cannot tell somebody else's session from one that does not
\* exist: beyond the authentication the answer is 404 (or 500 when the host
\* fails) for both, and nothing was done.
StrangerLearnsNothing ==
    \A c \in Conns : Finished(c) /\ user[c] = Stranger /\ header[c] # "none" =>
        answer[c].status \in {404, 500} /\ called[c] = "none"

\* A client that is told 4xx can count on nothing having happened, and every
\* engine call but initialize was made for the owner of the session.
RefusedDoesNothing ==
    \A c \in Conns :
        /\ Finished(c) /\ answer[c].status \in 400..499 => called[c] = "none"
        /\ called[c] \notin {"none", "initialize"} => user[c] = Owner /\ header[c] = "s"

\* Every message that is accepted is answered the way its kind asks for: a
\* request by one response with the id the client sent, a notification or a
\* response by 202 and no message.  Numeric ids beyond float64's integers are
\* the exception: their answer may carry a neighbour.
AnsweredInKind ==
    \A c \in Conns : Finished(c) =>
        LET o == sent[c]
            a == answer[c]
        IN /\ a.status # 0
           /\ a.reply # "none" =>
                 /\ o.method # ""
                 /\ a.id = o.id \/ (o.id.type = "number" /\ o.id.value > Exact)
           /\ verb[c] = "POST" /\ a.status = 202 => o.method = "" \/ o.id = NoID

\* A client whose "initialized" was answered 202 has an open session, unless
\* it was deleted meanwhile or the host failed at that very request: the
\* engine logs such a failure and the client is told 202 all the same.
InitializedOpens ==
    \A c \in Conns :
        Finished(c) /\ answer[c].status = 202 /\ sent[c].method = "initialized" =>
            session \in {"open", "gone"} \/ failed[c]

\* The status tells what happened: a refusal that nothing did, to a stranger
\* not even whether there is a session, and a 202 to "initialized" that the
\* session is open, as long as the host did not fail.
StatusIsTrue == StrangerLearnsNothing /\ RefusedDoesNothing /\ InitializedOpens
=============================================================================
