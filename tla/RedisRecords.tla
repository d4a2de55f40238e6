---------------------------- MODULE RedisRecords ----------------------------
(***************************************************************************)
(* The keys of one session at the redis host (redis.go): its record, its   *)
(* stream and one item of its data, and how their expiries move.           *)
(*                                                                         *)
(* MutateSession and TouchSession read the record under WATCH, change it   *)
(* and write it with MULTI/EXEC, which redis refuses if the key changed.   *)
(* Everything else is several commands with nothing between them.          *)
(*                                                                         *)
(* The record's change counts the mutations applied to it; rev is redis'   *)
(* own notion of the key having changed.                                   *)
(***************************************************************************)
EXTENDS Integers, FiniteSets

CONSTANTS
    Callers,       \* goroutines calling the host
    HandshakeTTL,  \* TTL of a record that is not open yet
    SessionTTL,    \* TTL of an open one
    MaxLifetime,   \* its MaxLifetime, 0 for none
    FallbackTTL,   \* TTL of data without a record (an hour in the code)
    MutateTries,   \* tries of MutateSession (5 in the code)
    MaxTime,       \* bound: clock
    MaxCalls       \* bound: calls

ASSUME RedisRecordsAssumption ==
    /\ {HandshakeTTL, SessionTTL, FallbackTTL, MutateTries} \subseteq Nat \ {0}
    /\ {MaxLifetime, MaxTime, MaxCalls} \subseteq Nat

NoKey == -1                      \* the expiry of a key that does not exist
Never == MaxTime + SessionTTL + HandshakeTTL + FallbackTTL  \* of one without TTL
NoRecord == [change |-> 0, ttl |-> 0]

VARIABLES
    now,
    record,     \* the record's value
    recordExp,  \* when each of the three keys expires
    streamExp, dataExp,
    rev,        \* changes of the record's key
    at,         \* what each caller is about to do
    saw,        \* the record and revision a caller read, its tries left, the
                \* TTL it will set and when it computed that
    ttlRead,    \* the TTL a caller read
    calls,
    \* history: when the record was created, mutations that succeeded, whether
    \* DeleteSession has removed the record, whether its TTL was refreshed,
    \* and how long before its EXEC the last refreshed TTL was computed
    created, applied, deleted, refreshed, lag

keyVars    == <<record, recordExp, streamExp, dataExp, rev>>
callVars   == <<at, saw, ttlRead, calls>>
recordHist == <<created, applied, deleted, refreshed, lag>>
recordVars == <<now, keyVars, callVars, recordHist>>

NothingSeen == [value |-> NoRecord, rev |-> 0, tries |-> 0,
                left |-> 0, since |-> 0]

RecordInit ==
    /\ now = 0
    /\ record = NoRecord
    /\ recordExp = NoKey /\ streamExp = NoKey /\ dataExp = NoKey
    /\ rev = 0
    /\ at = [p \in Callers |-> "idle"]
    /\ saw = [p \in Callers |-> NothingSeen]
    /\ ttlRead = [p \in Callers |-> NoKey]
    /\ calls = 0
    /\ created = 0 /\ applied = 0 /\ deleted = FALSE /\ refreshed = FALSE /\ lag = 0

Live(exp) == exp # NoKey

\* A call begins at a caller that has none; Goto says where it goes on.
Begin(p) == at[p] = "idle" /\ calls < MaxCalls /\ calls' = calls + 1
Goto(p, place) == at' = [at EXCEPT ![p] = place]

\* The clock moves, and redis drops the keys that expire.
TickRecords ==
    /\ now < MaxTime
    /\ now' = now + 1
    /\ recordExp' = IF recordExp = now' THEN NoKey ELSE recordExp
    /\ streamExp' = IF streamExp = now' THEN NoKey ELSE streamExp
    /\ dataExp' = IF dataExp = now' THEN NoKey ELSE dataExp
    /\ record' = IF recordExp = now' THEN NoRecord ELSE record
    /\ rev' = IF recordExp = now' THEN rev + 1 ELSE rev
    /\ UNCHANGED <<callVars, recordHist>>

\* SET NX with the record's own TTL.  Session ids are never used again.
CreateSession(p) ==
    /\ Begin(p)
    /\ rev = 0
    /\ record' = [change |-> 0, ttl |-> HandshakeTTL]
    /\ recordExp' = now + HandshakeTTL
    /\ rev' = 1
    /\ created' = now
    /\ UNCHANGED <<now, streamExp, dataExp, at, saw, ttlRead, applied, deleted, refreshed,
                   lag>>

-----------------------------------------------------------------------------
Look(p, place, tries) ==
    /\ Goto(p, place)
    /\ saw' = [saw EXCEPT ![p] = [value |-> record, rev |-> rev, tries |-> tries,
                                  left |-> 0, since |-> 0]]

\* WATCH and GET; no record is ErrSessionNotFound.
MutateSession(p) ==
    /\ Begin(p)
    /\ IF Live(recordExp) THEN Look(p, "mutate", MutateTries) ELSE UNCHANGED <<at, saw>>
    /\ UNCHANGED <<now, keyVars, ttlRead, recordHist>>

TouchSession(p) ==
    /\ Begin(p)
    /\ IF Live(recordExp) THEN Look(p, "touch", 1) ELSE UNCHANGED <<at, saw>>
    /\ UNCHANGED <<now, keyVars, ttlRead, recordHist>>

\* Fault: the sliding window ignores the absolute lifetime.
Unclamped(ttl) == ttl

\* The refreshed TTL: m.TTL, but not past the record's absolute lifetime.
Clamped(ttl) ==
    IF MaxLifetime > 0 /\ created + MaxLifetime - now < ttl
    THEN created + MaxLifetime - now ELSE ttl

TooOld == MaxLifetime > 0 /\ now - created >= MaxLifetime

\* Between GET and MULTI: compute the TTL to set.
PlanTTL(p) ==
    /\ at[p] \in {"mutate", "touch"} /\ ~TooOld
    /\ LET ttl == IF at[p] = "mutate" THEN SessionTTL ELSE saw[p].value.ttl
       IN saw' = [saw EXCEPT ![p].left = Clamped(ttl), ![p].since = now]
    /\ Goto(p, IF at[p] = "mutate" THEN "mutateExec" ELSE "touchExec")
    /\ UNCHANGED <<now, keyVars, ttlRead, calls, recordHist>>

\* SET and EXPIRE in one transaction; EXPIRE does nothing without a stream.
Write(p, value) ==
    /\ record' = value
    /\ recordExp' = now + saw[p].left
    /\ streamExp' = IF Live(streamExp) THEN recordExp' ELSE streamExp
    /\ rev' = rev + 1
    /\ refreshed' = TRUE
    /\ lag' = now - saw[p].since
    /\ Goto(p, "idle")

\* Fault: the transaction is sent without WATCH.
Unwatched(p) == TRUE

\* What EXEC checks: the key is as it was at WATCH.
NotChanged(p) == saw[p].rev = rev

\* The mutation opens the session: one change more, and the longer TTL.
MutateExec(p) ==
    /\ at[p] = "mutateExec" /\ NotChanged(p)
    /\ Write(p, [change |-> saw[p].value.change + 1, ttl |-> SessionTTL])
    /\ applied' = applied + 1
    /\ UNCHANGED <<now, dataExp, saw, ttlRead, calls, created, deleted>>

\* TouchSession writes the record back with a later LastAccess.
TouchExec(p) ==
    /\ at[p] = "touchExec" /\ NotChanged(p)
    /\ Write(p, saw[p].value)
    /\ UNCHANGED <<now, dataExp, saw, ttlRead, calls, created, applied, deleted>>

\* A record past its lifetime is reported as not found; a touch gives up on
\* the first conflict.
CallRefused(p) ==
    /\ \/ at[p] \in {"mutate", "touch"} /\ TooOld
       \/ at[p] = "touchExec" /\ ~NotChanged(p)
    /\ Goto(p, "idle")
    /\ UNCHANGED <<now, keyVars, saw, ttlRead, calls, recordHist>>

\* TxFailedErr: read again, until the tries are used up or the record is gone.
MutateRetry(p) ==
    /\ at[p] = "mutateExec" /\ ~NotChanged(p)
    /\ IF saw[p].tries > 1 /\ Live(recordExp)
       THEN Look(p, "mutate", saw[p].tries - 1)
       ELSE Goto(p, "idle") /\ UNCHANGED saw
    /\ UNCHANGED <<now, keyVars, ttlRead, calls, recordHist>>

-----------------------------------------------------------------------------
\* XADD; a stream it creates has no TTL.
PublishAdd(p) ==
    /\ Begin(p)
    /\ streamExp' = IF Live(streamExp) THEN streamExp ELSE Never
    /\ Goto(p, "publish")
    /\ UNCHANGED <<now, record, recordExp, dataExp, rev, saw, ttlRead, recordHist>>

\* PublishSession and PutSessionData read the record's TTL ...
ReadTTL(p) ==
    /\ \/ at[p] = "publish" /\ calls' = calls /\ Goto(p, "expire")
       \/ Begin(p) /\ Goto(p, "put")
    /\ ttlRead' = [ttlRead EXCEPT ![p] = IF Live(recordExp) THEN recordExp - now ELSE NoKey]
    /\ UNCHANGED <<now, keyVars, saw, recordHist>>

\* ... and apply it in another command, the stream's only if there was one.
PublishExpire(p) ==
    /\ at[p] = "expire"
    /\ streamExp' = IF ttlRead[p] # NoKey /\ Live(streamExp) THEN now + ttlRead[p] ELSE streamExp
    /\ Goto(p, "idle")
    /\ UNCHANGED <<now, record, recordExp, dataExp, rev, saw, ttlRead, calls, recordHist>>

PutSessionData(p) ==
    /\ at[p] = "put"
    /\ dataExp' = now + (IF ttlRead[p] = NoKey THEN FallbackTTL ELSE ttlRead[p])
    /\ Goto(p, "idle")
    /\ UNCHANGED <<now, record, recordExp, streamExp, rev, saw, ttlRead, calls, recordHist>>

DeleteSessionData(p) ==
    /\ Begin(p)
    /\ dataExp' = NoKey
    /\ UNCHANGED <<now, record, recordExp, streamExp, rev, at, saw, ttlRead, recordHist>>

-----------------------------------------------------------------------------
\* DeleteSession: DEL of the record, of the stream, then of what a SCAN finds.
\* Errors are ignored, so each may have done nothing.
DeleteMeta(p) ==
    /\ Begin(p)
    /\ \/ /\ record' = NoRecord /\ recordExp' = NoKey
          /\ rev' = IF Live(recordExp) THEN rev + 1 ELSE rev
          /\ deleted' = (deleted \/ rev > 0)
       \/ UNCHANGED <<record, recordExp, rev, deleted>>
    /\ Goto(p, "delStream")
    /\ UNCHANGED <<now, streamExp, dataExp, saw, ttlRead, created, applied, refreshed, lag>>

DeleteStream(p) ==
    /\ at[p] = "delStream"
    /\ streamExp' \in {streamExp, NoKey}
    /\ Goto(p, "delData")
    /\ UNCHANGED <<now, record, recordExp, dataExp, rev, saw, ttlRead, calls, recordHist>>

DeleteData(p) ==
    /\ at[p] = "delData"
    /\ dataExp' \in {dataExp, NoKey}
    /\ Goto(p, "idle")
    /\ UNCHANGED <<now, record, recordExp, streamExp, rev, saw, ttlRead, calls, recordHist>>

-----------------------------------------------------------------------------
RecordStep(p) ==
    \/ CreateSession(p) \/ MutateSession(p) \/ TouchSession(p)
    \/ PlanTTL(p) \/ MutateExec(p) \/ TouchExec(p) \/ CallRefused(p) \/ MutateRetry(p)
    \/ PublishAdd(p) \/ ReadTTL(p) \/ PublishExpire(p)
    \/ PutSessionData(p) \/ DeleteSessionData(p)
    \/ DeleteMeta(p) \/ DeleteStream(p) \/ DeleteData(p)

RecordNext == TickRecords \/ \E p \in Callers : RecordStep(p)

RecordSpec == RecordInit /\ [][RecordNext]_recordVars

-----------------------------------------------------------------------------
\* No mutation is lost: a live record contains every MutateSession that
\* reported success, whatever touched or mutated it at the same time.
NoLostUpdate == Live(recordExp) => record.change = applied

\* A record that DeleteSession removed or that expired does not come back: a
\* touch or a mutation that read it before must not write it again.
NoResurrection ==
    [][rev > 0 /\ ~Live(recordExp) => ~Live(recordExp')]_recordVars

\* "Clamp refreshed TTL so we never extend past absolute max lifetime.": a
\* refreshed record outlives that by no more than the time its EXEC took to
\* reach redis after the clamp was computed.
WithinLifetime ==
    Live(recordExp) /\ refreshed /\ MaxLifetime > 0 =>
        recordExp <= created + MaxLifetime + lag

\* What competing WATCH/MULTI updates, touches, deletes and the clock may do to
\* a record: no success is lost, no refresh outruns the clamp, none comes back.
RecordsSerial == [](NoLostUpdate /\ WithinLifetime) /\ NoResurrection
=============================================================================
