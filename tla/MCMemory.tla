------------------------------ MODULE MCMemory ------------------------------
(* The two halves of the in-memory host in one run, a session's stream and  *)
(* the fan-out of a topic.  They share no lock and no map, so a behaviour   *)
(* of the run is one of either half.                                        *)
EXTENDS SessionStream, EventBus, TLC

VARIABLE part   \* the half this behaviour is about

mcVars == <<part, vars, busVars>>

MCInit == part \in {"stream", "bus"} /\ Init /\ BusInit

MCNext ==
    /\ UNCHANGED part
    /\ \/ part = "stream" /\ Next /\ UNCHANGED busVars
       \/ part = "bus" /\ BusNext /\ UNCHANGED vars

MCSpec == MCInit /\ [][MCNext]_mcVars

\* Calls are interchangeable.  Subscribers are too, and independent of each
\* other, so the run has one of them.
Symmetry == Permutations(Calls)
=============================================================================
