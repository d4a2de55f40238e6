----------------------------- MODULE MCService ------------------------------
(* What a server does for one client, part by part, in one run: a behaviour  *)
(* is one of the handshake, of the HTTP endpoint, of an authenticator, of an *)
(* elicitation or of one of the service containers.  The parts share no      *)
(* variable.                                                                 *)
EXTENDS ChangeNotifier, ToolsContainer, ResourcesContainer, FsResources,
        ToolWriter, Handshake, HttpRequests, Authentication, Elicitation, TLC

VARIABLE part   \* the part this behaviour is about

containers == <<notifierVars, containerVars, resourceVars, fsVars, writerVars>>
endpoint == <<hsVars, requestVars, authVars, elicitVars>>
mcVars == <<part, containers, endpoint>>

-----------------------------------------------------------------------------
MCDefinitions ==
    {[name |-> "a", handler |-> "h1"], [name |-> "a", handler |-> "h2"],
     [name |-> "b", handler |-> "none"], [name |-> "", handler |-> "h1"]}

Res(u, b) == [uri |-> u, meta |-> "m1", body |-> b]

\* A duplicate URI, and a URI that is refused.
MCReplacements ==
    {<<>>, <<Res("u1", "b1"), Res("u1", "none")>>,
     <<Res("u2", "b1"), Res("", "b1")>>,
     <<Res("u2", "b1"), Res("u1", "b1"), Res("u1", "none")>>}

\* One file in the root, one in a directory made inside one made later.
MCDirOf == ("f1" :> "root") @@ ("f2" :> "d2")
MCParent == ("d1" :> "root") @@ ("d2" :> "d1")
MCMaxWrites == ("f1" :> 3) @@ ("f2" :> 1)

\* The first file is changed twice, or the directories are made, but not both:
\* what watches a directory and what folds changes of a file do not meet.
MCFewChanges == Version("f1") = 3 => dirs = {Root}

\* With two bits of mantissa 5 is the first integer that is lost.
Number(n) == [type |-> "number", value |-> n]
Text(s) == [type |-> "string", value |-> s]
Request(method, params, id) ==
    [rpc |-> "2.0", method |-> method, params |-> params,
     result |-> FALSE, error |-> FALSE, id |-> id]
MCClientObjects ==
    {Request("initialize", "good", Number(1)), Request("initialize", "bad", Text("")),
     Request("initialized", "good", NoID), Request("other", "good", NoID),
     Request("other", "good", Text("")), Request("other", "good", Number(4)),
     Request("other", "good", Number(5))}
    \cup {o \in Objects : /\ o.method = "" /\ o.rpc = "2.0" /\ o.params = "good"
                          /\ o.id \in {NoID, BadID, Number(4)}}

\* A token that passes, and all that differ from it in one or two ways.
Good == [genuine |-> TRUE, iss |-> TRUE, sub |-> TRUE, alg |-> "RS256", typ |-> "at+jwt",
         aud |-> {"a"}, exp |-> 1, nbf |-> 0, iat |-> 0, scope |-> {"r"}]
Variants(t) ==
    {t, [t EXCEPT !.genuine = FALSE], [t EXCEPT !.iss = FALSE], [t EXCEPT !.sub = FALSE],
     [t EXCEPT !.alg = "ES256"], [t EXCEPT !.typ = "JWT"], [t EXCEPT !.iat = 3],
     [t EXCEPT !.nbf = 1], [t EXCEPT !.nbf = 2]}
    \cup {[t EXCEPT !.aud = a] : a \in {{}, {"b"}, {"a", "b"}}}
    \cup {[t EXCEPT !.exp = e] : e \in {NoExp, -1, 0}}
    \cup {[t EXCEPT !.scope = s] : s \in {{}, {"w"}, {"r", "w"}}}
MCTokens == UNION {Variants(t) : t \in Variants(Good)}

MCTypes == ("a" :> {"string", "number", "integer", "boolean"}) @@ ("b" :> {"number"})
Field(k, p) == [kind |-> k, ptr |-> p]
MCStructs ==
    {("a" :> Field("int", TRUE)) @@ ("b" :> Field("float", FALSE)),
     ("a" :> Field("string", TRUE)) @@ ("b" :> NoField),
     ("a" :> Field("bool", FALSE)) @@ ("b" :> Field("uint", TRUE))}
Value(t, v) == [type |-> t, v |-> v]
AValues == {Null, Value("string", 2), Value("number", 2), Value("number", 3),
            Value("boolean", 2)}
BValues == {Value("number", -2), Value("number", 10)}
MCContents ==
    {[n \in {} |-> NoValue]} \cup [{"a"} -> AValues] \cup [{"b"} -> BValues]
    \cup {("a" :> x) @@ ("b" :> y) : x \in AValues, y \in BValues}

-----------------------------------------------------------------------------
\* Parts that are not looked at start in one state.
MCInit ==
    /\ part \in {"notifier", "tools", "resources", "files", "writer",
                 "handshake", "http", "auth", "elicit"}
    /\ NotifierInit /\ ResourceInit /\ WriterInit
    /\ ContainerInit /\ (part # "tools" => listed = <<>> /\ kind = "tools")
    /\ FsInit /\ (part # "files" => mode = "poll" /\ debounced)
    /\ HttpRequestsInit /\ (part # "http" => session = "none")
    /\ ElicitationInit /\ (part # "elicit" => maker = "builder" /\ IsMap)
    /\ AuthInit /\ (part # "auth" => config.by = "discovery" /\ Head(config.auds) = "")
    /\ HandshakeInit
    /\ \A c \in {"prompts", "logging", "completions"} : offer[c] = offer["tools"]
    /\ LET full == \A c \in Offered : offer[c] = "present"
           plain == preferred = NoVersion /\ client = Latest
       IN IF part = "handshake" THEN full \/ plain ELSE full /\ plain

MCNext ==
    /\ UNCHANGED part
    /\ \/ /\ UNCHANGED endpoint
          /\ \/ /\ part = "notifier" /\ NotifierNext
                /\ UNCHANGED <<containerVars, resourceVars, fsVars, writerVars>>
             \/ /\ part = "tools" /\ ContainerNext
                /\ UNCHANGED <<notifierVars, resourceVars, fsVars, writerVars>>
             \/ /\ part = "resources" /\ ResourceNext
                /\ UNCHANGED <<notifierVars, containerVars, fsVars, writerVars>>
             \/ /\ part = "files" /\ FsNext /\ MCFewChanges'
                /\ UNCHANGED <<notifierVars, containerVars, resourceVars, writerVars>>
             \/ /\ part = "writer" /\ WriterNext
                /\ UNCHANGED <<notifierVars, containerVars, resourceVars, fsVars>>
       \/ /\ UNCHANGED containers
          /\ \/ /\ part = "handshake" /\ HandshakeNext
                /\ UNCHANGED <<requestVars, authVars, elicitVars>>
             \/ /\ part = "http" /\ HttpRequestsNext
                /\ UNCHANGED <<hsVars, authVars, elicitVars>>
             \/ /\ part = "auth" /\ AuthNext
                /\ UNCHANGED <<hsVars, requestVars, elicitVars>>
             \/ /\ part = "elicit" /\ ElicitationNext
                /\ UNCHANGED <<hsVars, requestVars, authVars>>

MCSpec == MCInit /\ [][MCNext]_mcVars
=============================================================================
