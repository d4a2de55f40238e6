----------------------------- MODULE RedisStream -----------------------------
(***************************************************************************)
(* PublishSession and SubscribeSession of the redis host (redis.go), for   *)
(* one session.                                                            *)
(*                                                                         *)
(* The messages of a session are the entries of a redis stream; all the    *)
(* SubscribeSession calls, of all processes, are consumers of one consumer *)
(* group.  XREADGROUP hands an entry to one consumer and remembers it as   *)
(* pending until XACK; XAUTOCLAIM lets a consumer take over the entries    *)
(* that have been pending for claimMinIdle.  A consumer may crash, its     *)
(* context may end with a reply under way, and the stream may be trimmed,  *)
(* deleted or expire under it.                                             *)
(*                                                                         *)
(* An entry is its position in the order of the XADDs.                     *)
(***************************************************************************)
EXTENDS Integers, FiniteSets, Sequences, SequencesExt, FiniteSetsExt

CONSTANTS
    Consumers,     \* SubscribeSession calls
    MaxEntries,    \* bound: entries ever added
    MaxDrops,      \* bound: times the stream is deleted or expires
    StreamMaxLen,  \* streamMaxLen, 0 for unbounded (10000 in the code)
    ClaimCount,    \* entries per XAUTOCLAIM (16 in the code)
    NoConsumer

ASSUME RedisStreamAssumption ==
    /\ MaxEntries \in Nat /\ MaxDrops \in Nat
    /\ StreamMaxLen \in Nat /\ ClaimCount \in Nat \ {0}
    /\ NoConsumer \notin Consumers

Entries == 1..MaxEntries

VARIABLES
    entries,   \* what the stream holds
    lastId,    \* the last XADD
    group,     \* whether the consumer group exists
    cursor,    \* its last-delivered id
    owner,     \* its pending entries: who has each of them
    aged,      \* pending entries idle for claimMinIdle
    pc,        \* what each SubscribeSession call does
    batch,     \* the entries it is processing
    scan,      \* where its XAUTOCLAIM loop goes on; -1 outside that loop
    ended,     \* whether its context has ended
    drops,
    \* history: where the group began, entries some handler accepted,
    \* acknowledged entries, entries that were ever idle that long
    origin, handled, acked, everAged

serverVars  == <<entries, lastId, group, cursor, owner, aged, drops, origin>>
clientVars  == <<pc, batch, scan, ended>>
streamHist  == <<handled, acked, everAged>>
streamVars == <<serverVars, clientVars, streamHist>>

Pending == {e \in Entries : owner[e] # NoConsumer}

StreamInit ==
    /\ entries = {} /\ lastId = 0 /\ drops = 0
    /\ group = FALSE /\ cursor = 0 /\ origin = 0
    /\ owner = [e \in Entries |-> NoConsumer] /\ aged = {}
    /\ pc = [c \in Consumers |-> "new"]
    /\ batch = [c \in Consumers |-> <<>>]
    /\ scan = [c \in Consumers |-> -1]
    /\ ended = [c \in Consumers |-> FALSE]
    /\ handled = {} /\ acked = {} /\ everAged = {}

\* MAXLEN ~ n: redis may keep more than n entries, and never fewer.
Trimmed(s) ==
    {s} \cup {t \in SUBSET s : /\ StreamMaxLen > 0
                               /\ Cardinality(t) >= StreamMaxLen
                               /\ \A e \in s \ t, f \in t : e < f}

\* XADD creates the stream if there is none.
PublishSession ==
    /\ lastId < MaxEntries
    /\ lastId' = lastId + 1
    /\ entries' \in Trimmed(entries \cup {lastId'})
    /\ UNCHANGED <<group, cursor, owner, aged, drops, origin, clientVars, streamHist>>

\* DeleteSession's DEL of the stream, or its expiry: the group goes with it.
DropStream ==
    /\ drops < MaxDrops
    /\ drops' = drops + 1
    /\ entries' = {} /\ group' = FALSE /\ cursor' = 0 /\ origin' = 0
    /\ owner' = [e \in Entries |-> NoConsumer] /\ aged' = {}
    /\ UNCHANGED <<lastId, clientVars, streamHist>>

\* Time passes: a pending entry has been idle for claimMinIdle.
Age(e) ==
    /\ e \in Pending \ aged
    /\ aged' = aged \cup {e}
    /\ everAged' = everAged \cup {e}
    /\ UNCHANGED <<entries, lastId, group, cursor, owner, drops, origin, clientVars,
                   handled, acked>>

-----------------------------------------------------------------------------
\* Fault: resuming moves the existing group to the client's Last-Event-ID.
SubscribeRewinds(c, last) ==
    /\ pc[c] = "new"
    /\ pc' = [pc EXCEPT ![c] = "loop"]
    /\ group' = TRUE
    /\ cursor' = IF last > 0 \/ ~group THEN (IF last = 0 THEN lastId ELSE last) ELSE cursor
    /\ origin' = IF group THEN origin ELSE cursor'
    /\ UNCHANGED <<entries, lastId, owner, aged, drops, batch, scan, ended, streamHist>>

\* XGROUP CREATE MKSTREAM: a group that exists keeps its position (BUSYGROUP),
\* a new one starts after lastEventID, or at "$" if that is empty (0 here).
SubscribeSession(c, last) ==
    /\ pc[c] = "new"
    /\ pc' = [pc EXCEPT ![c] = "loop"]
    /\ group' = TRUE
    /\ cursor' = IF group THEN cursor ELSE IF last = 0 THEN lastId ELSE last
    /\ origin' = IF group THEN origin ELSE cursor'
    /\ UNCHANGED <<entries, lastId, owner, aged, drops, batch, scan, ended, streamHist>>

\* A batch arrives and is processed from its first message; or the context
\* ends meanwhile and the reply is lost, though redis has done its part.
Arrives(c, msgs, next) ==
    \/ /\ pc' = [pc EXCEPT ![c] = "handle"]
       /\ batch' = [batch EXCEPT ![c] = msgs]
       /\ scan' = [scan EXCEPT ![c] = next]
       /\ UNCHANGED ended
    \/ /\ ended' = [ended EXCEPT ![c] = TRUE]
       /\ scan' = [scan EXCEPT ![c] = -1]
       /\ UNCHANGED <<pc, batch>>

\* Fault: NOACK, the entry is not remembered as pending.
ReadNoAck(c) ==
    /\ pc[c] = "loop" /\ scan[c] = -1 /\ group /\ ~ended[c]
    /\ \E e \in entries :
          /\ e > cursor /\ \A f \in entries : f > cursor => e <= f
          /\ cursor' = e
          /\ Arrives(c, <<e>>, -1)
    /\ UNCHANGED <<entries, lastId, group, owner, aged, drops, origin, streamHist>>

\* XREADGROUP ">" COUNT 1: the first entry after the group's position.  When
\* there is none the call times out and the loop goes on.
ReadGroup(c) ==
    /\ pc[c] = "loop" /\ scan[c] = -1 /\ group /\ ~ended[c]
    /\ \E e \in entries :
          /\ e > cursor /\ \A f \in entries : f > cursor => e <= f
          /\ cursor' = e
          /\ owner' = [owner EXCEPT ![e] = c]
          /\ Arrives(c, <<e>>, -1)
    /\ UNCHANGED <<entries, lastId, group, aged, drops, origin, streamHist>>

\* NOGROUP after the stream was dropped, or any other error of the read,
\* ends the call; so does the end of its context.
ReadFails(c) ==
    /\ pc[c] = "loop" /\ scan[c] = -1
    /\ ~group \/ ended[c]
    /\ pc' = [pc EXCEPT ![c] = "returned"]
    /\ UNCHANGED <<serverVars, batch, scan, ended, streamHist>>

\* Fault: claims are not limited to idle entries.
ClaimableFresh(start) ==
    {e \in Pending : /\ e >= start
                     /\ Cardinality({f \in Pending : start <= f /\ f < e}) < ClaimCount}

\* The idle entries XAUTOCLAIM takes: the first COUNT of them from start on.
Claimable(start) ==
    {e \in aged : /\ e >= start
                  /\ Cardinality({f \in aged : start <= f /\ f < e}) < ClaimCount}

\* The elements of S in the order of the stream (the only sequence there is).
InStreamOrder(S) ==
    {q \in [1..Cardinality(S) -> S] : \A i, j \in 1..Cardinality(S) : i < j => q[i] < q[j]}

\* Fault: the claim loop never finds anything to take over.
ClaimNothing(c) == FALSE /\ UNCHANGED streamVars

\* XAUTOCLAIM: the entries change owner and are no longer idle; those that
\* were trimmed meanwhile leave the pending list and are not returned.  The
\* loop begins when claimInterval has passed and ends at an empty answer.
Claim(c) ==
    /\ pc[c] = "loop" /\ group /\ ~ended[c]
    /\ LET taken    == Claimable(IF scan[c] = -1 THEN 0 ELSE scan[c])
           returned == taken \cap entries
           rest     == {e \in Pending : \A f \in taken : f < e}
           next     == IF rest = {} THEN 0 ELSE Min(rest)
       IN /\ owner' = [e \in Entries |-> IF e \notin taken THEN owner[e]
                                         ELSE IF e \in entries THEN c ELSE NoConsumer]
          /\ aged' = aged \ taken
          /\ \/ /\ returned # {}
                /\ \E msgs \in InStreamOrder(returned) : Arrives(c, msgs, next)
             \/ /\ returned = {}
                /\ taken # {} \/ scan[c] # -1
                /\ scan' = [scan EXCEPT ![c] = -1]
                /\ UNCHANGED <<pc, batch, ended>>
    /\ UNCHANGED <<entries, lastId, group, cursor, drops, origin, streamHist>>

\* A claim on a dropped stream or after the context's end fails; that only
\* ends the claim loop.
ClaimFails(c) ==
    /\ pc[c] = "loop" /\ scan[c] # -1
    /\ ~group \/ ended[c]
    /\ scan' = [scan EXCEPT ![c] = -1]
    /\ UNCHANGED <<serverVars, pc, batch, ended, streamHist>>

-----------------------------------------------------------------------------
HandlerAccepts(c) ==
    /\ pc[c] = "handle"
    /\ handled' = handled \cup {Head(batch[c])}
    /\ pc' = [pc EXCEPT ![c] = "ack"]
    /\ UNCHANGED <<serverVars, batch, scan, ended, acked, everAged>>

\* The rest of the batch stays pending, for another subscriber to claim.
HandlerFails(c) ==
    /\ pc[c] = "handle"
    /\ pc' = [pc EXCEPT ![c] = "returned"]
    /\ UNCHANGED <<serverVars, batch, scan, ended, streamHist>>

\* XACK takes the entry off the pending list whoever owns it by now; it fails
\* if the context has ended, and nobody looks.
Ack(c) ==
    LET e == Head(batch[c])
    IN /\ pc[c] = "ack"
       /\ \/ /\ owner' = [owner EXCEPT ![e] = NoConsumer]
             /\ aged' = aged \ {e}
             /\ acked' = IF e \in Pending THEN acked \cup {e} ELSE acked
          \/ /\ ended[c]
             /\ UNCHANGED <<owner, aged, acked>>
       /\ batch' = [batch EXCEPT ![c] = Tail(@)]
       /\ pc' = [pc EXCEPT ![c] = IF Tail(batch[c]) = <<>> THEN "loop" ELSE "handle"]
       /\ UNCHANGED <<entries, lastId, group, cursor, drops, origin, scan, ended,
                      handled, everAged>>

EndContext(c) ==
    /\ pc[c] \in {"loop", "handle", "ack"} /\ ~ended[c]
    /\ ended' = [ended EXCEPT ![c] = TRUE]
    /\ UNCHANGED <<serverVars, pc, batch, scan, streamHist>>

\* The process of a consumer dies; what it had stays pending.
Crash(c) ==
    /\ pc[c] \in {"loop", "handle", "ack"}
    /\ pc' = [pc EXCEPT ![c] = "crashed"]
    /\ UNCHANGED <<serverVars, batch, scan, ended, streamHist>>

-----------------------------------------------------------------------------
ConsumerStep(c) ==
    \/ ReadGroup(c) \/ ReadFails(c) \/ ClaimFails(c)
    \/ HandlerAccepts(c) \/ HandlerFails(c) \/ Ack(c)

StreamNext ==
    \/ PublishSession \/ DropStream
    \/ \E e \in Entries : Age(e)
    \/ \E c \in Consumers :
          \/ \E last \in 0..lastId : SubscribeSession(c, last)
          \/ Claim(c) \/ ConsumerStep(c) \/ EndContext(c) \/ Crash(c)

\* A call keeps turning, claims every claimInterval, and time passes.  Nothing
\* makes a client publish, resume or disconnect.
StreamFairness ==
    /\ \A c \in Consumers : WF_streamVars(ConsumerStep(c)) /\ WF_streamVars(Claim(c))
    /\ \A e \in Entries : WF_streamVars(Age(e))

StreamSpec == StreamInit /\ [][StreamNext]_streamVars

-----------------------------------------------------------------------------
\* At least once: what the group has handed out is pending until a handler
\* has accepted it, across crashes, failing handlers, lost replies and
\* claims.  Only trimming or the end of the stream loses a message.
HandedOutIsKept ==
    group => \A e \in entries : origin < e /\ e <= cursor => e \in Pending \cup handled

Handling(c) == IF pc[c] = "handle" THEN {Head(batch[c])} ELSE {}

\* Two handlers run for one message at the same time only if it had been idle
\* for claimMinIdle: a subscriber that is quick enough is alone with it.
OverlapOnlyWhenIdle ==
    \A c, d \in Consumers : c # d => Handling(c) \cap Handling(d) \subseteq everAged

\* What the group hands out stays accounted for, and as a rule to one consumer.
PendingIsOwned == HandedOutIsKept /\ OverlapOnlyWhenIdle

\* An acknowledged message is never handed out again, not even to a client
\* that resumes with an older Last-Event-ID.
AckIsFinal ==
    [][\A c \in Consumers : batch[c] = <<>> => ToSet(batch'[c]) \cap acked = {}]_streamVars

Waiting(e) == group /\ e \in entries /\ origin < e /\ e \notin handled

\* A message the group should see is accepted by a handler in the end, as long
\* as the stream keeps it and some subscriber remains.
EventuallyHandled ==
    \A e \in Entries :
        Waiting(e) ~> (~Waiting(e) \/ \A c \in Consumers : pc[c] \in {"new", "returned", "crashed"})

\* What a redis session stream promises: a message is handled in the end, and
\* is never handed out again once it was acknowledged.
HandledThenFinal == EventuallyHandled /\ AckIsFinal
=============================================================================
