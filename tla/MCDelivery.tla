----------------------------- MODULE MCDelivery -----------------------------
(* The redis host and the two transports in one run.  The parts share no    *)
(* state, so a behaviour of the run is a behaviour of one of them.          *)
EXTENDS RedisStream, RedisRecords, RedisEvents, HttpTransport, StdioTransport

VARIABLE part   \* the part this behaviour is about

redisVars     == <<streamVars, recordVars, eventVars>>
transportVars == <<httpVars, stdioVars>>
mcVars        == <<part, redisVars, transportVars>>

MCInit ==
    /\ part \in {"stream", "records", "events", "http", "stdio"}
    /\ StreamInit /\ RecordInit /\ EventInit /\ HttpInit /\ StdioInit

MCNext ==
    /\ UNCHANGED part
    /\ \/ part = "stream" /\ StreamNext /\ UNCHANGED <<recordVars, eventVars, transportVars>>
       \/ part = "records" /\ RecordNext /\ UNCHANGED <<streamVars, eventVars, transportVars>>
       \/ part = "events" /\ EventNext /\ UNCHANGED <<streamVars, recordVars, transportVars>>
       \/ part = "http" /\ HttpNext /\ UNCHANGED <<redisVars, stdioVars>>
       \/ part = "stdio" /\ StdioNext /\ UNCHANGED <<redisVars, httpVars>>

\* The fairness of each part, where the behaviour is about it.
MCFairSpec == MCInit /\ [][MCNext]_mcVars /\ StreamFairness /\ StdioFairness
=============================================================================
