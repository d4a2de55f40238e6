--------------------------- MODULE Authentication ----------------------------
(***************************************************************************)
(* Access tokens (auth, internal/jwtauth): how an authenticator is put     *)
(* together from its options, by OIDC discovery or by hand, and what it    *)
(* says to a token.  Parsing, signatures and keys are the JWT library's:   *)
(* a token is a record of what the checks look at.  Times are relative to  *)
(* the moment of the check.                                                *)
(***************************************************************************)
EXTENDS Integers, FiniteSets, Sequences, SequencesExt

CONSTANTS
    Tokens,       \* the tokens to be checked
    Auds,         \* audiences; "" is the empty one
    Algs,         \* signature algorithms
    DefaultAlg,   \* RS256
    Leeways,      \* clock tolerances
    DefaultLeeway,\* 60 seconds in the code
    FutureIat,    \* how far iat may lie ahead (5 minutes in the code)
    Scopes,       \* names of scopes
    MaxOptions    \* bound: options applied

NoExp == -1000    \* a token without exp
NoToken == [genuine |-> FALSE]

ASSUME AuthenticationAssumption ==
    /\ DefaultAlg \in Algs /\ "" \in Auds
    /\ Leeways \subseteq Nat /\ {DefaultLeeway, FutureIat, MaxOptions} \subseteq Nat
    /\ Tokens \subseteq [genuine : BOOLEAN, iss : BOOLEAN, sub : BOOLEAN, alg : Algs,
                         typ : {"at+jwt", "JWT"}, aud : SUBSET Auds, exp : Int, nbf : Int,
                         iat : Int, scope : SUBSET Scopes]

VARIABLES
    config,     \* the configuration being built, then enforced
    described,  \* what SecurityConfig() reports
    stage,      \* "configure", "ready", "failed" or "checked"
    options,    \* how many options were applied
    token,      \* the token that was checked
    verdict     \* "user", "unauthorized" or "scope"

authVars == <<config, described, stage, options, token, verdict>>

\* Discovery starts from DefaultConfig and one audience; by hand the caller
\* fills a SecurityConfig, whose EnforceExp and EnforceNbf only discovery sets.
AuthInit ==
    /\ config \in [by : {"discovery"}, auds : {<<a>> : a \in Auds}, algs : {{DefaultAlg}},
                   leeway : {DefaultLeeway}, enforceExp : {TRUE}, enforceNbf : {TRUE},
                   scopes : {{}}, any : {FALSE}]
                  \cup [by : {"hand"}, auds : BoundedSeq(Auds, 2), algs : SUBSET Algs,
                        leeway : Leeways, enforceExp : BOOLEAN, enforceNbf : BOOLEAN,
                        scopes : {{}}, any : {FALSE}]
    /\ described = config
    /\ stage = "configure" /\ options = 0
    /\ token = NoToken /\ verdict = "none"

Option(new) ==
    /\ stage = "configure" /\ config.by = "discovery" /\ options < MaxOptions
    /\ options' = options + 1
    /\ config' = new
    /\ UNCHANGED <<described, stage, token, verdict>>

\* The two scope options overwrite each other.
WithRequiredScopes(s) == Option([config EXCEPT !.scopes = s, !.any = FALSE])
WithAnyRequiredScope(s) == Option([config EXCEPT !.scopes = s, !.any = TRUE])
WithAllowedAlgs(as) == Option([config EXCEPT !.algs = as])
WithLeeway(d) == Option([config EXCEPT !.leeway = d])
WithExtraAudience(a) ==
    Option(IF a = "" \/ Contains(config.auds, a) THEN config
           ELSE [config EXCEPT !.auds = Append(@, a)])

-----------------------------------------------------------------------------
Normalize(c) ==
    [c EXCEPT !.algs = IF @ = {} THEN {DefaultAlg} ELSE @,
              !.leeway = IF @ = 0 THEN DefaultLeeway ELSE @]

\* Fault: only the first audience makes it into the description.
DescribesFirst(c) == [Normalize(c) EXCEPT !.auds = <<Head(c.auds)>>]

\* buildSecurityConfig, or the copy a manual authenticator keeps.
Describes(c) == Normalize(c)

Validated(c) ==
    IF c.by = "discovery" THEN Head(c.auds) # ""
    ELSE c.auds # <<>> /\ ~Contains(c.auds, "")

\* Discovery enforces the options as they are, by hand their defaults are
\* filled in first.
NewAuthenticator ==
    /\ stage = "configure" /\ Validated(config)
    /\ stage' = "ready"
    /\ config' = IF config.by = "hand" THEN Normalize(config) ELSE config
    /\ described' = Describes(config)
    /\ UNCHANGED <<options, token, verdict>>

\* A bad configuration, incomplete discovery metadata, or no key set.
NewFails ==
    /\ stage = "configure"
    /\ stage' = "failed"
    /\ UNCHANGED <<config, described, options, token, verdict>>

-----------------------------------------------------------------------------
\* What the JWT parser refuses: the signature, an algorithm that is not
\* allowed (its own check is off without a list, the key function's is not),
\* the issuer, no exp, exp passed or nbf (0 for none) ahead.  EnforceExp and
\* EnforceNbf do not reach it.
ParserAccepts(t) ==
    /\ t.genuine /\ t.alg \in config.algs /\ t.iss
    /\ t.exp # NoExp /\ t.exp + config.leeway > 0
    /\ t.nbf <= config.leeway

audContains(aud, want) == want \in aud
audIntersects(aud, wants) == \E w \in wants : w \in aud

\* Fault: with several audiences the check is left to the parser.
AudienceOkParser(t) == Len(config.auds) > 1 \/ audContains(t.aud, Head(config.auds))

AudienceOk(t) ==
    IF config.by = "discovery" /\ Len(config.auds) = 1
    THEN audContains(t.aud, Head(config.auds))
    ELSE audIntersects(t.aud, ToSet(config.auds))

IatOk(t) == t.iat <= config.leeway + FutureIat

ScopesOk(t) ==
    \/ config.scopes = {}
    \/ IF config.any THEN config.scopes \cap t.scope # {} ELSE config.scopes \subseteq t.scope

\* Fault: the scopes are looked at before the audience.
DiscoveryScopeFirst(t) ==
    IF ~ParserAccepts(t) \/ t.typ # "at+jwt" THEN "unauthorized"
    ELSE IF ~ScopesOk(t) THEN "scope"
    ELSE IF ~AudienceOk(t) \/ ~IatOk(t) \/ ~t.sub THEN "unauthorized"
    ELSE "user"

\* discoveryAuthenticator.CheckAuthentication, in its order: the scopes come
\* before the subject.
DiscoveryVerdict(t) ==
    IF ~ParserAccepts(t) \/ t.typ # "at+jwt" \/ ~AudienceOk(t) \/ ~IatOk(t)
    THEN "unauthorized"
    ELSE IF ~ScopesOk(t) THEN "scope"
    ELSE IF ~t.sub THEN "unauthorized"
    ELSE "user"

\* staticAuthenticator.CheckAuthentication looks at neither typ nor scopes.
StaticVerdict(t) ==
    IF ParserAccepts(t) /\ AudienceOk(t) /\ t.sub THEN "user" ELSE "unauthorized"

\* The adapter: every error but missing scope is "unauthorized".
CheckAuthentication(t) ==
    /\ stage = "ready"
    /\ stage' = "checked"
    /\ token' = t
    /\ verdict' = IF config.by = "discovery" THEN DiscoveryVerdict(t) ELSE StaticVerdict(t)
    /\ UNCHANGED <<config, described, options>>

AuthNext ==
    \/ \E s \in SUBSET Scopes : WithRequiredScopes(s) \/ WithAnyRequiredScope(s)
    \/ \E as \in SUBSET Algs : WithAllowedAlgs(as)
    \/ \E d \in Leeways : WithLeeway(d)
    \/ \E a \in Auds : WithExtraAudience(a)
    \/ NewAuthenticator \/ NewFails
    \/ \E t \in Tokens : CheckAuthentication(t)

AuthSpec == AuthInit /\ [][AuthNext]_authVars

-----------------------------------------------------------------------------
\* Who is let in according to SecurityConfig(), which is what the transport
\* and the operator see of an authenticator.
ByDescription(t) ==
    /\ t.genuine /\ t.iss /\ t.sub
    /\ t.alg \in described.algs
    /\ t.aud \cap ToSet(described.auds) # {}
    /\ described.enforceExp => t.exp # NoExp /\ t.exp > -described.leeway
    /\ described.enforceNbf => t.nbf <= described.leeway

\* CheckAuthentication lets nobody in whom the description keeps out, however
\* the authenticator was put together.
LetsInTheDescribed == stage = "checked" /\ verdict = "user" => ByDescription(token)

\* Where the code is stricter than its description: a tolerance or a list of
\* algorithms emptied by an option is described as the default, and exp and
\* nbf are checked by hand too whatever EnforceExp and EnforceNbf say (false,
\* unless set, against "default true").
Understated ==
    \/ config.by = "discovery" /\ (config.leeway = 0 \/ config.algs = {})
    \/ config.by = "hand" /\ ~(described.enforceExp /\ described.enforceNbf)

\* Whom the description lets in, CheckAuthentication refuses for what discovery
\* asks besides (an access token, issued by now, with the scopes) or because
\* the description is one of those cases.
RefusalIsDescribed ==
    stage = "checked" /\ verdict # "user" =>
        \/ ~ByDescription(token)
        \/ /\ config.by = "discovery"
           /\ token.typ # "at+jwt" \/ token.iat - config.leeway > FutureIat \/ verdict = "scope"
        \/ Understated

\* 403 tells a client to ask for more scope.  It is true: the description lets
\* the token in, and with the required scopes it would pass, but for a missing
\* subject.
ForbiddenIsAboutScope ==
    verdict = "scope" =>
        LET more == [token EXCEPT !.scope = config.scopes, !.sub = TRUE]
        IN  ByDescription(more) /\ DiscoveryVerdict(more) = "user"

\* The authenticator lets in whom it says it lets in, and tells the others why.
VerdictAsDescribed ==
    LetsInTheDescribed /\ RefusalIsDescribed /\ ForbiddenIsAboutScope
=============================================================================
