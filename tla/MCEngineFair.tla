---------------------------- MODULE MCEngineFair ----------------------------
(* What the goroutines of one engine owe each other, in one run: the calls  *)
(* in flight with the consumer of the fan-out topic, and the subscriptions  *)
(* with the same consumer.  A behaviour of the run is one of either.        *)
EXTENDS InFlight, Subscriptions

CONSTANTS c1, s1, i1, e1, u1, u2

\* Two concurrent requests for one resource and one for another.
MCRequests ==
    {[node |-> e1, uri |-> u1, copy |-> 1], [node |-> e1, uri |-> u1, copy |-> 2],
     [node |-> e1, uri |-> u2, copy |-> 1]}

VARIABLE part   \* what this behaviour is about

mcVars == <<part, vars, subVars>>

\* Sessions and request ids are interchangeable, so the first call may be given
\* the first session and the first id without losing a behaviour up to
\* renaming; the second call then shares its session, its id, or neither.  (A
\* SYMMETRY set would be unsound for the liveness properties.)
MCInit ==
    /\ part \in {"inflight", "subscriptions"}
    /\ Init /\ sess[c1] = s1 /\ id[c1] = i1
    /\ part = "subscriptions" => \A c \in Calls \ {c1} : sess[c] # s1 /\ id[c] # i1
    /\ SubInit

MCNext ==
    /\ UNCHANGED part
    /\ \/ part = "inflight" /\ Next /\ UNCHANGED subVars
       \/ part = "subscriptions" /\ SubNext /\ UNCHANGED vars

\* Fairness and SubFairness, each in its own part.
MCFairness ==
    /\ \A c \in Calls : WF_vars(part = "inflight" /\ CallStep(c))
    /\ WF_vars(part = "inflight" /\ ConsumerStep)
    /\ \A r \in SubRequests : WF_subVars(part = "subscriptions" /\ SubscribeStep(r))
    /\ \A n \in Engines : WF_subVars(part = "subscriptions" /\ SubConsumerStep(n))
    /\ WF_subVars(part = "subscriptions" /\ DeleteStep)

MCFairSpec == MCInit /\ [][MCNext]_mcVars /\ MCFairness
=============================================================================
