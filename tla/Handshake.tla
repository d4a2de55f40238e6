----------------------------- MODULE Handshake ------------------------------
(***************************************************************************)
(* What a server offers and what it serves (internal/engine, mcpservice):  *)
(* Engine.InitializeSession negotiates the version, creates the record and *)
(* asks the providers one by one for what it will advertise;               *)
(* Engine.HandleRequest asks them again for every request.                 *)
(*                                                                         *)
(* offer says what each provider answers: no capability ("absent"), a nil  *)
(* one with ok = true ("nil"), or one ("present"); later it may answer     *)
(* differently.  Any answer may also be an error.  "subscription" is the   *)
(* resources' subscription capability or, in its place, their event        *)
(* source.  Results and pages are left out.                                *)
(***************************************************************************)
EXTENDS Naturals, Sequences

CONSTANTS
    Supported,     \* protocol versions the library speaks
    Latest,        \* the one it prefers
    Unknown        \* versions it does not speak

ASSUME VersionAssumption == Latest \in Supported /\ Supported \cap Unknown = {}

Versions == Supported \cup Unknown
NoVersion == "none"

\* The order in which initialize asks; the last five give capabilities.
Asked == <<"info", "instructions", "resources", "tools", "prompts", "logging", "completions">>
Offered == {Asked[i] : i \in 3..7} \cup {"subscription"}

Methods ==
    {"tools/list", "tools/call", "resources/list", "resources/read",
     "resources/templates/list", "resources/subscribe", "resources/unsubscribe",
     "prompts/list", "prompts/get", "logging/setLevel", "completion/complete"}

\* The capability a method needs.
CapabilityOf ==
    [m \in Methods |->
        CASE m \in {"tools/list", "tools/call"}   -> "tools"
          [] m \in {"prompts/list", "prompts/get"} -> "prompts"
          [] m \in {"resources/subscribe", "resources/unsubscribe"} -> "subscribe"
          [] m = "logging/setLevel"                -> "logging"
          [] m = "completion/complete"             -> "completions"
          [] OTHER                                 -> "resources"]

\* The providers that decide whether a method is served.
ProvidersOf(m) ==
    IF CapabilityOf[m] = "subscribe" THEN {"resources", "subscription"} ELSE {CapabilityOf[m]}

VARIABLES
    offer,      \* what each provider answers
    offered,    \* history: what each answered initialize
    preferred,  \* what GetPreferredProtocolVersion answers
    step,       \* where InitializeSession is
    asked,      \* how many providers it has asked
    client,     \* the version the client sent
    ctxDone,    \* whether the request's context has ended
    stored,     \* the version in the session's record, or NoVersion
    advertised, \* the capabilities in the result so far
    reply       \* the answer to the last request

hsVars == <<offer, offered, preferred, step, asked, client, ctxDone, stored, advertised, reply>>
NoReply == [method |-> "", params |-> "", code |-> ""]

HandshakeInit ==
    /\ offer \in [Offered -> {"absent", "nil", "present"}] /\ offered = offer
    /\ preferred \in Versions \cup {NoVersion}
    /\ client \in Versions
    /\ step = "version" /\ asked = 0 /\ ctxDone = FALSE
    /\ stored = NoVersion /\ advertised = {} /\ reply = NoReply

HandshakeContextEnds ==
    /\ ~ctxDone /\ step \notin {"done", "failed"}
    /\ ctxDone' = TRUE
    /\ UNCHANGED <<offer, offered, preferred, step, asked, client, stored, advertised, reply>>

-----------------------------------------------------------------------------
\* Fault: the server's preference comes before the client's version.
NegotiatedFirst(c) == IF preferred # NoVersion THEN preferred ELSE Latest

\* The version of the session, or NoVersion if the provider wants one the
\* library does not speak.
Negotiated(c) ==
    IF c \in Supported THEN c
    ELSE IF preferred = NoVersion THEN Latest
    ELSE IF preferred \in Supported THEN preferred ELSE NoVersion

NegotiateVersion ==
    /\ step = "version"
    /\ step' \in {IF Negotiated(client) = NoVersion THEN "failed" ELSE "create"}
                 \cup (IF client \in Supported THEN {} ELSE {"failed"})
    /\ UNCHANGED <<offer, offered, preferred, asked, client, ctxDone, stored, advertised, reply>>

\* createSession; a host refuses it once the context has ended.
CreateRecord ==
    /\ step = "create"
    /\ IF ctxDone THEN step' = "failed" /\ UNCHANGED stored
                  ELSE step' = "ask" /\ stored' = Negotiated(client)
    /\ UNCHANGED <<offer, offered, preferred, asked, client, ctxDone, advertised, reply>>

\* Fault: resources are advertised as subscribable whatever they say.
AdvertisedByResources(c, o) ==
    IF c \in {"logging", "completions"} THEN (IF o[c] # "absent" THEN {c} ELSE {})
    ELSE IF o[c] # "present" THEN {}
    ELSE IF c = "resources" THEN {c, "subscribe"} ELSE {c}

\* What an answer adds to the result, of the answers o: resources also say whether they can be
\* subscribed to; logging and completions are not looked at.
AdvertisedBy(c, o) ==
    IF c \in {"logging", "completions"} THEN (IF o[c] # "absent" THEN {c} ELSE {})
    ELSE IF o[c] # "present" THEN {}
    ELSE IF c = "resources" /\ o["subscription"] = "present" THEN {c, "subscribe"}
    ELSE {c}

AskProvider ==
    /\ step = "ask"
    /\ asked' = asked + 1
    /\ advertised' = IF asked' <= 2 THEN advertised
                     ELSE advertised \cup AdvertisedBy(Asked[asked'], offer)
    /\ step' = IF asked' = Len(Asked) THEN "done" ELSE "ask"
    /\ UNCHANGED <<offer, offered, preferred, client, ctxDone, stored, reply>>

\* A provider, or its list-changed or subscription part, fails ...
ProviderFails ==
    /\ step = "ask"
    /\ step' = "cleanup"
    /\ UNCHANGED <<offer, offered, preferred, asked, client, ctxDone, stored, advertised, reply>>

\* Fault: initialize returns its error and forgets the record.
CleanUpNever ==
    /\ step = "cleanup"
    /\ step' = "failed" /\ UNCHANGED stored
    /\ UNCHANGED <<offer, offered, preferred, asked, client, ctxDone, advertised, reply>>

\* ... and the deferred DeleteSession runs under the request's own context,
\* which the in-memory host refuses when it has ended.
CleanUp ==
    /\ step = "cleanup"
    /\ step' = "failed"
    /\ stored' = IF ctxDone THEN stored ELSE NoVersion
    /\ UNCHANGED <<offer, offered, preferred, asked, client, ctxDone, advertised, reply>>

\* A provider comes to answer differently from what it answered initialize,
\* or the same again.  (Bound: one at a time differs.  Before initialize is
\* done, a change is another initial offer, or as good as one right after.)
ProviderChanges(c) ==
    /\ step = "done"
    /\ \E a \in {"absent", "nil", "present"} : offer' = [offered EXCEPT ![c] = a]
    /\ offer' # offer
    /\ reply' = NoReply
    /\ UNCHANGED <<offered, preferred, step, asked, client, ctxDone, stored, advertised>>

-----------------------------------------------------------------------------
\* The handlers, as the set of codes they may answer with.  They unmarshal
\* the params p first: "bad" ones never fit, lists do without ("missing"), and
\* some need a name or a URI ("empty" has none).  Then they ask the provider,
\* which may fail, as may the capability's own call.
Serve(c) == {"InternalError", IF offer[c] = "present" THEN "result" ELSE "MethodNotFound"}

handleToolsList(p) == IF p = "bad" THEN {"InvalidParams"} ELSE Serve("tools")
handleResourcesList(p) == IF p = "bad" THEN {"InvalidParams"} ELSE Serve("resources")
handleResourcesTemplatesList(p) == IF p = "bad" THEN {"InvalidParams"} ELSE Serve("resources")
handlePromptsList(p) == IF p = "bad" THEN {"InvalidParams"} ELSE Serve("prompts")
handleResourcesRead(p) == IF p # "good" THEN {"InvalidParams"} ELSE Serve("resources")
handlePromptsGet(p) == IF p # "good" THEN {"InvalidParams"} ELSE Serve("prompts")
handleCompletionsComplete(p) ==
    IF p \in {"bad", "missing"} THEN {"InvalidParams"} ELSE Serve("completions")

\* These two tell a nil capability from none, and blame the server.  A call
\* also needs an id that is not "" (InFlight has the rest of a call).
handleToolCall(p) ==
    IF p # "good" THEN {"InvalidParams"}
    ELSE CASE offer["tools"] = "present" -> {"result", "InternalError", "InvalidRequest"}
           [] offer["tools"] = "nil"     -> {"InternalError"}
           [] OTHER                      -> {"InternalError", "MethodNotFound"}
handleSetLoggingLevel(p) ==
    IF p \in {"bad", "missing"} THEN {"InvalidParams"}
    ELSE CASE offer["logging"] = "present" -> {"result", "InternalError", "InvalidParams"}
           [] offer["logging"] = "nil"     -> {"InternalError"}
           [] OTHER                        -> {"InternalError", "MethodNotFound"}

\* Any error of the provider's Subscribe is the client's fault (Subscriptions
\* has the rest).
handleResourcesSubscribe(p) ==
    IF p # "good" THEN {"InvalidParams"}
    ELSE IF offer["resources"] # "present" THEN Serve("resources")
    ELSE Serve("subscription")
         \cup (IF offer["subscription"] = "present" THEN {"InvalidParams"} ELSE {})

\* An unsubscribe is broadcast and answered; nobody is asked for a capability.
handleResourcesUnsubscribe(p) == IF p # "good" THEN {"InvalidParams"} ELSE {"result"}

\* A method nobody handles is an internal error.
Codes(m, p) ==
    CASE m = "tools/list"               -> handleToolsList(p)
      [] m = "tools/call"               -> handleToolCall(p)
      [] m = "resources/list"           -> handleResourcesList(p)
      [] m = "resources/templates/list" -> handleResourcesTemplatesList(p)
      [] m = "resources/read"           -> handleResourcesRead(p)
      [] m = "resources/subscribe"      -> handleResourcesSubscribe(p)
      [] m = "resources/unsubscribe"    -> handleResourcesUnsubscribe(p)
      [] m = "prompts/list"             -> handlePromptsList(p)
      [] m = "prompts/get"              -> handlePromptsGet(p)
      [] m = "logging/setLevel"         -> handleSetLoggingLevel(p)
      [] m = "completion/complete"      -> handleCompletionsComplete(p)
      [] OTHER                          -> {"InternalError"}

\* Bound: one request between two changes of a provider.  It changes nothing
\* but its reply, so the next one would find what this one found.
HandleRequest(m, p) ==
    /\ step = "done" /\ reply = NoReply
    /\ \E code \in Codes(m, p) : reply' = [method |-> m, params |-> p, code |-> code]
    /\ UNCHANGED <<offer, offered, preferred, step, asked, client, ctxDone, stored, advertised>>

HandshakeNext ==
    \/ HandshakeContextEnds \/ NegotiateVersion \/ CreateRecord
    \/ AskProvider \/ ProviderFails \/ CleanUp
    \/ \E c \in Offered : ProviderChanges(c)
    \/ \E m \in Methods \cup {"ping"}, p \in {"good", "empty", "missing", "bad"} :
          HandleRequest(m, p)

HandshakeSpec == HandshakeInit /\ [][HandshakeNext]_hsVars

-----------------------------------------------------------------------------
\* The capabilities in the answer to initialize are the ones HandleRequest
\* serves, as long as their providers answer what they answered then: a method
\* is "not found" only if its capability was not advertised (or is the nil
\* completions capability, which is advertised), and gives a result only if it
\* was (resources/unsubscribe gives one whatever was advertised).  A provider
\* that changed its answer is served by the new one, and the client, which
\* goes by the result of initialize, is not told.
AdvertisedIsServed ==
    (reply.method \in Methods /\ \A c \in ProvidersOf(reply.method) : offer[c] = offered[c]) =>
        /\ reply.code = "MethodNotFound" =>
              \/ CapabilityOf[reply.method] \notin advertised
              \/ reply.method = "completion/complete" /\ offer["completions"] = "nil"
        /\ reply.code = "result" =>
              \/ CapabilityOf[reply.method] \in advertised
              \/ reply.method = "resources/unsubscribe"

\* An initialize that failed leaves no record behind, but for the one case in
\* which its context ended while it ran: DeleteSession runs under that context
\* and is refused, and the pending record stays until its TTL.  One that
\* succeeded has its record.
FailedInitializeCleansUp ==
    /\ step = "failed" /\ ~ctxDone => stored = NoVersion
    /\ step = "done" => stored # NoVersion

\* Both sides can speak the version of a session: it is the client's if the
\* library knows that, and one the library knows in any case.
VersionAgreed ==
    stored # NoVersion => stored \in Supported /\ (client \in Supported => stored = client)

\* initialize leaves nothing behind, unless its context ended, or a session in
\* a version both sides speak, whose later requests find what was advertised
\* while the providers stay with it.
InitializeKeepsItsWord == FailedInitializeCleansUp /\ VersionAgreed /\ AdvertisedIsServed
=============================================================================
