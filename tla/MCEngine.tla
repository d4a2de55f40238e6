------------------------------ MODULE MCEngine ------------------------------
(* Two views of the engines that share a host, in one run: the life of a    *)
(* session, and its resource subscriptions.  Each has the part of the       *)
(* engine's state it needs; a behaviour of the run is one of either view.   *)
(*                                                                          *)
(* Subscriptions are on two engines and two resources: two concurrent       *)
(* requests for the same resource on one engine, one for another resource   *)
(* there, and one on the other engine.                                      *)
EXTENDS SessionLifecycle, Subscriptions, TLC

CONSTANTS alice, e1, e2, u1, u2, k1, k2, k3

Request(n, u, k) == [node |-> n, uri |-> u, copy |-> k]

MCRequests ==
    {Request(e1, u1, k1), Request(e1, u1, k2), Request(e1, u2, k3),
     Request(e2, u1, k3)}

VARIABLE part   \* the view of this behaviour

mcVars == <<part, vars, subVars>>

\* Users are interchangeable: let alice own the session.
MCInit ==
    /\ part \in {"lifecycle", "subscriptions"}
    /\ Init /\ owners = [s \in SessionIDs |-> alice]
    /\ SubInit

MCNext ==
    /\ UNCHANGED part
    /\ \/ part = "lifecycle" /\ Next /\ UNCHANGED subVars
       \/ part = "subscriptions" /\ SubNext /\ UNCHANGED vars

MCSpec == MCInit /\ [][MCNext]_mcVars

\* So are the nodes and the request goroutines of the first view, and the two
\* requests for the same resource of the second.
Symmetry ==
    Permutations(Nodes) \cup Permutations(Requests) \cup Permutations({k1, k2})
=============================================================================
