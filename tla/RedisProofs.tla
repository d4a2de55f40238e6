---------------------------- MODULE RedisProofs ----------------------------
(***************************************************************************)
(* Proofs about the redis host: the updates of a session's record are      *)
(* serialised (RedisRecords), a topic's subscribers read a run of future   *)
(* events (RedisEvents), and the consumer group of a session stream keeps  *)
(* what it hands out and never hands out what was acknowledged             *)
(* (RedisStream).                                                          *)
(***************************************************************************)
EXTENDS RedisStream, RedisRecords, RedisEvents, FiniteSetTheorems, SequenceTheorems, TLAPS

-----------------------------------------------------------------------------
(* The record of a session *)

Places == {"idle", "mutate", "touch", "mutateExec", "touchExec", "publish", "expire", "put", "delStream", "delData"}

Record == [change : Nat, ttl : Nat]

Sight == [value : Record, rev : Nat, tries : Nat, left : Nat, since : Nat]

RecordTypes ==
    /\ now \in Nat /\ rev \in Nat /\ applied \in Nat /\ created \in Nat /\ lag \in Nat
    /\ record \in Record
    /\ recordExp \in Int
    /\ refreshed \in BOOLEAN
    /\ at \in [Callers -> Places]
    /\ saw \in [Callers -> Sight]

\* The key's revision tells its history: 0 until the record is created, and a
\* record is only there, or refreshed, after that.
History ==
    /\ created <= now
    /\ Live(recordExp) => rev > 0
    /\ rev = 0 => applied = 0 /\ ~refreshed

\* What makes EXEC's check enough: a caller between its read and its write saw
\* some revision so far, and if that is still the current one, the record is
\* there and has the value the caller saw.
SightsAreTrue ==
    \A p \in Callers : at[p] \in {"mutate", "touch", "mutateExec", "touchExec"} =>
        /\ saw[p].rev <= rev /\ rev > 0
        /\ saw[p].rev = rev => Live(recordExp) /\ saw[p].value = record

\* A TTL on its way to redis was computed from the record's creation, at a time
\* that has passed.
PlansAreClamped ==
    \A p \in Callers : at[p] \in {"mutateExec", "touchExec"} =>
        /\ saw[p].since <= now
        /\ MaxLifetime > 0 => saw[p].left <= created + MaxLifetime - saw[p].since

RecordInv ==
    RecordTypes /\ History /\ SightsAreTrue /\ PlansAreClamped /\ NoLostUpdate /\ WithinLifetime

\* The invariant holds before the first call.
LEMMA RecordStart == RecordInit => RecordInv
  <1> SUFFICES ASSUME RecordInit PROVE RecordInv
    OBVIOUS
  <1>1. NoRecord \in Record
    BY DEF NoRecord, Record
  <1>2. NothingSeen \in Sight
    BY <1>1 DEF NothingSeen, Sight
  <1>3. saw \in [Callers -> Sight]
    BY <1>2 DEF RecordInit
  <1>4. at \in [Callers -> Places]
    BY DEF RecordInit, Places
  <1>5. RecordTypes
    <2>1. recordExp \in Int
      BY DEF RecordInit, NoKey
    <2>2. /\ now \in Nat /\ rev \in Nat /\ applied \in Nat /\ created \in Nat /\ lag \in Nat
          /\ record \in Record
      BY <1>1 DEF RecordInit
    <2>3. refreshed \in BOOLEAN
      BY DEF RecordInit
    <2> QED
      BY <2>1, <2>2, <2>3, <1>3, <1>4 DEF RecordTypes
  <1> QED
    BY <1>4, <1>5 DEF RecordInit, RecordInv, History, SightsAreTrue, PlansAreClamped,
       NoLostUpdate, WithinLifetime, Live

\* Every command of every caller, and the clock, keep it.
LEMMA RecordStepKeeps == RecordInv /\ [RecordNext]_recordVars => RecordInv'
  <1> SUFFICES ASSUME RecordInv, [RecordNext]_recordVars PROVE RecordInv'
    OBVIOUS
  <1> USE RedisRecordsAssumption DEF RecordInv, RecordTypes, Places, History, SightsAreTrue,
        PlansAreClamped, NoLostUpdate, WithinLifetime, Record, Sight, NoKey, Live, keyVars,
        callVars, recordHist
  <1>1. CASE TickRecords
    BY <1>1 DEF TickRecords, NoRecord
  <1>2. ASSUME NEW p \in Callers, CreateSession(p) PROVE RecordInv'
    BY <1>2 DEF CreateSession, Begin
  <1>3. ASSUME NEW p \in Callers, MutateSession(p) \/ TouchSession(p) PROVE RecordInv'
    <2>1. UNCHANGED <<now, keyVars, recordHist>>
      BY <1>3 DEF MutateSession, TouchSession
    <2>2. CASE UNCHANGED <<at, saw>>
      BY <2>1, <2>2
    <2>3. ASSUME NEW place \in {"mutate", "touch"}, NEW n \in Nat, Live(recordExp), Look(p, place, n)
          PROVE  RecordInv'
      <3>1. /\ at' = [at EXCEPT ![p] = place]
            /\ saw' = [saw EXCEPT ![p] = [value |-> record, rev |-> rev, tries |-> n,
                                          left |-> 0, since |-> 0]]
        BY <2>3 DEF Look, Goto
      <3>2. saw' \in [Callers -> Sight] /\ at' \in [Callers -> Places]
        BY <3>1
      <3>3. SightsAreTrue' /\ PlansAreClamped'
        BY <3>1, <2>1, <2>3
      <3> QED
        BY <2>1, <3>2, <3>3
    <2>4. \/ UNCHANGED <<at, saw>>
          \/ Live(recordExp) /\ Look(p, "mutate", MutateTries)
          \/ Live(recordExp) /\ Look(p, "touch", 1)
      BY <1>3 DEF MutateSession, TouchSession
    <2> QED
      BY <2>2, <2>3, <2>4
  <1>4. ASSUME NEW p \in Callers, MutateExec(p) PROVE RecordInv'
    <2>1. /\ at[p] = "mutateExec"
          /\ rev' = rev + 1 /\ applied' = applied + 1 /\ refreshed' = TRUE
          /\ now' = now /\ created' = created /\ saw' = saw /\ lag' = now - saw[p].since
          /\ at' = [at EXCEPT ![p] = "idle"]
          /\ recordExp' = now + saw[p].left
          /\ record' = [change |-> saw[p].value.change + 1, ttl |-> SessionTTL]
      BY <1>4 DEF MutateExec, Write, Goto
    <2>2. saw[p].rev = rev /\ saw[p].value = record /\ record.change = applied
      BY <1>4, <2>1 DEF MutateExec, NotChanged
    <2>3. record' \in Record /\ record'.change = applied'
      BY <2>1, <2>2
    <2>4. /\ saw[p].left \in Nat /\ saw[p].since \in Nat /\ saw[p].since <= now
          /\ MaxLifetime > 0 => saw[p].left <= created + MaxLifetime - saw[p].since
      BY <2>1
    <2>5. recordExp' \in Int /\ lag' \in Nat
      BY <2>1, <2>4
    <2>6. WithinLifetime'
      BY <2>1, <2>4
    <2> QED
      BY <2>1, <2>2, <2>3, <2>5, <2>6
  <1>5. ASSUME NEW p \in Callers, TouchExec(p) PROVE RecordInv'
    <2>1. /\ at[p] = "touchExec"
          /\ rev' = rev + 1 /\ applied' = applied /\ refreshed' = TRUE
          /\ now' = now /\ created' = created /\ saw' = saw /\ lag' = now - saw[p].since
          /\ at' = [at EXCEPT ![p] = "idle"]
          /\ recordExp' = now + saw[p].left
          /\ record' = saw[p].value
      BY <1>5 DEF TouchExec, Write, Goto
    <2>2. saw[p].rev = rev /\ saw[p].value = record /\ record.change = applied
      BY <1>5, <2>1 DEF TouchExec, NotChanged
    <2>4. /\ saw[p].left \in Nat /\ saw[p].since \in Nat /\ saw[p].since <= now
          /\ MaxLifetime > 0 => saw[p].left <= created + MaxLifetime - saw[p].since
      BY <2>1
    <2>5. recordExp' \in Int /\ lag' \in Nat
      BY <2>1, <2>4
    <2>6. WithinLifetime'
      BY <2>1, <2>4
    <2> QED
      BY <2>1, <2>2, <2>5, <2>6
  <1>6. ASSUME NEW p \in Callers, CallRefused(p) PROVE RecordInv'
    BY <1>6 DEF CallRefused, Goto
  <1>7. ASSUME NEW p \in Callers, MutateRetry(p) PROVE RecordInv'
    <2>1. CASE saw[p].tries > 1 /\ Live(recordExp)
      <3>1. /\ UNCHANGED <<now, keyVars, recordHist>> /\ at' = [at EXCEPT ![p] = "mutate"]
            /\ saw' = [saw EXCEPT ![p] =
                          [value |-> record, rev |-> rev, tries |-> saw[p].tries - 1,
                           left |-> 0, since |-> 0]]
        BY <1>7, <2>1 DEF MutateRetry, Look, Goto
      <3>2. saw' \in [Callers -> Sight]
        BY <3>1, <2>1
      <3> QED
        BY <3>1, <3>2, <2>1
    <2>2. CASE ~(saw[p].tries > 1 /\ Live(recordExp))
      <3>1. UNCHANGED <<now, keyVars, saw, recordHist>> /\ at' = [at EXCEPT ![p] = "idle"]
        BY <1>7, <2>2 DEF MutateRetry, Goto
      <3> QED
        BY <3>1
    <2> QED
      BY <2>1, <2>2
  <1>8. ASSUME NEW p \in Callers,
               PublishAdd(p) \/ ReadTTL(p) \/ PublishExpire(p) \/ PutSessionData(p)
               \/ DeleteSessionData(p) \/ DeleteStream(p) \/ DeleteData(p)
        PROVE  RecordInv'
    BY <1>8 DEF PublishAdd, ReadTTL, PublishExpire, PutSessionData, DeleteSessionData,
       DeleteStream, DeleteData, Begin, Goto
  <1>9. ASSUME NEW p \in Callers, DeleteMeta(p) PROVE RecordInv'
    BY <1>9 DEF DeleteMeta, Begin, Goto, NoRecord
  <1>10. CASE UNCHANGED recordVars
    BY <1>10 DEF recordVars
  <1>11. ASSUME NEW p \in Callers, PlanTTL(p) PROVE RecordInv'
    <2> DEFINE ttl == IF at[p] = "mutate" THEN SessionTTL ELSE saw[p].value.ttl
               place == IF at[p] = "mutate" THEN "mutateExec" ELSE "touchExec"
    <2>1. /\ at[p] \in {"mutate", "touch"} /\ ~TooOld
          /\ saw' = [saw EXCEPT ![p].left = Clamped(ttl), ![p].since = now]
          /\ at' = [at EXCEPT ![p] = place]
          /\ UNCHANGED <<now, keyVars, recordHist>>
      BY <1>11 DEF PlanTTL, Goto
    <2>2. ttl \in Nat
      OBVIOUS
    <2>3. place \in {"mutateExec", "touchExec"}
      OBVIOUS
    <2> HIDE DEF ttl, place
    <2>4. Clamped(ttl) \in Nat
      BY <2>1, <2>2 DEF TooOld, Clamped
    <2>5. MaxLifetime > 0 => Clamped(ttl) <= created + MaxLifetime - now
      BY <2>2 DEF Clamped
    <2> DEFINE left == Clamped(ttl)
    <2> HIDE DEF left
    <2>6. /\ saw' \in [Callers -> Sight]
          /\ \A q \in Callers : saw'[q].rev = saw[q].rev /\ saw'[q].value = saw[q].value
          /\ \A q \in Callers : q # p => saw'[q] = saw[q]
          /\ saw'[p].left = left /\ saw'[p].since = now
      <3>1. saw' = [saw EXCEPT ![p].left = left, ![p].since = now] /\ left \in Nat /\ now \in Nat
            /\ saw \in [Callers -> Sight]
        BY <2>1, <2>4 DEF left
      <3> QED
        BY <3>1
    <2>7. SightsAreTrue' /\ PlansAreClamped'
      BY <2>1, <2>3, <2>5, <2>6 DEF left
    <2> QED
      BY <2>1, <2>3, <2>6, <2>7
  <1> QED
    BY <1>1, <1>2, <1>3, <1>4, <1>5, <1>6, <1>7, <1>8, <1>9, <1>10, <1>11 DEF RecordNext, RecordStep

\* From a state of the invariant, no step brings a removed record back: a
\* write needs the revision it saw, and then the record is still there.
LEMMA StaysRemoved ==
  ASSUME RecordInv, [RecordNext]_recordVars, rev > 0, ~Live(recordExp)
  PROVE  ~Live(recordExp')
  <1> USE DEF RecordInv, RecordTypes, Places, History, SightsAreTrue, NoKey, Live, keyVars
  <1>1. CASE TickRecords
    BY <1>1 DEF TickRecords
  <1>2. ASSUME NEW p \in Callers, RecordStep(p) PROVE ~Live(recordExp')
    BY <1>2 DEF RecordStep, CreateSession, MutateSession, TouchSession, PlanTTL,
       MutateExec, TouchExec, NotChanged, CallRefused, MutateRetry, PublishAdd, ReadTTL, PublishExpire,
       PutSessionData, DeleteSessionData, DeleteMeta, DeleteStream, DeleteData
  <1>3. CASE UNCHANGED recordVars
    BY <1>3 DEF recordVars
  <1> QED
    BY <1>1, <1>2, <1>3 DEF RecordNext

\* Competing MutateSession, TouchSession and DeleteSession calls and the clock
\* lose no successful mutation, bring no removed record back, and keep a
\* refreshed one beyond its absolute lifetime by no more than the time between
\* computing its TTL and its EXEC; for any number of callers and any TTLs.
THEOREM RecordsAreSerial == RecordSpec => RecordsSerial
  <1>1. RecordInit => RecordInv
    BY RecordStart
  <1>2. RecordInv /\ [RecordNext]_recordVars => RecordInv'
    BY RecordStepKeeps
  <1>3. RecordInv => NoLostUpdate /\ WithinLifetime
    BY DEF RecordInv
  <1>4. RecordInv /\ [RecordNext]_recordVars
        => [rev > 0 /\ ~Live(recordExp) => ~Live(recordExp')]_recordVars
    BY StaysRemoved
  <1> QED
    BY <1>1, <1>2, <1>3, <1>4, PTL DEF RecordSpec, RecordsSerial, NoResurrection

-----------------------------------------------------------------------------
(* The subscribers of a topic *)

EventTypes ==
    /\ added \in Nat /\ kept \in Nat
    /\ loop \in [Readers -> {"new", "loop", "reading", "handling", "ended"}]
    /\ lastID \in [Readers -> Nat] /\ from \in [Readers -> Nat] /\ armed \in [Readers -> Nat]
    /\ todo \in [Readers -> Seq(Nat)] /\ got \in [Readers -> Seq(Nat)]
    /\ gap \in [Readers -> SUBSET Nat]

\* lastID is where the events handled so far end.
Position(r) ==
    /\ armed[r] <= added /\ lastID[r] <= added
    /\ got[r] = <<>> => lastID[r] = 0
    /\ got[r] # <<>> => lastID[r] = got[r][Len(got[r])] /\ lastID[r] > 0
    /\ loop[r] = "new" => got[r] = <<>>

\* A read under way starts there, or at some "$" after the subscription.
Start(r) ==
    loop[r] = "reading" =>
        IF lastID[r] = 0 THEN armed[r] <= from[r] /\ from[r] <= added ELSE from[r] = lastID[r]

\* A reply being handled is a run of events that goes on from there, except
\* for what was trimmed before the read.
Run(r) ==
    loop[r] = "handling" =>
        /\ todo[r] # <<>>
        /\ armed[r] < todo[r][1] /\ lastID[r] < todo[r][1]
        /\ lastID[r] # 0 /\ todo[r][1] # lastID[r] + 1 => lastID[r] + 1 < kept
        /\ \A i \in 1..Len(todo[r]) : todo[r][i] = todo[r][1] + i - 1 /\ todo[r][i] <= added

\* The two halves of the property, for one subscriber.
GotInv(r) ==
    /\ \A i \in 1..(Len(got[r]) - 1) :
          /\ got[r][i] < got[r][i + 1]
          /\ got[r][i + 1] # got[r][i] + 1 => got[r][i] + 1 < kept
    /\ \A i \in 1..Len(got[r]) : got[r][i] > armed[r]

EventInv == EventTypes /\ \A r \in Readers : Position(r) /\ Start(r) /\ Run(r) /\ GotInv(r)

\* The invariant holds before anyone subscribes.
LEMMA EventStart == EventInit => EventInv
  BY DEF EventInit, EventInv, EventTypes, Position, Start, Run, GotInv

\* A reader that a step leaves alone keeps its part while events are added
\* and trimmed.
LEMMA ReaderLeftAlone ==
  ASSUME EventInv, NEW r \in Readers,
         added' \in Nat, kept' \in Nat, added <= added', kept <= kept',
         loop'[r] = loop[r], lastID'[r] = lastID[r], from'[r] = from[r],
         todo'[r] = todo[r], got'[r] = got[r], armed'[r] = armed[r]
  PROVE  Position(r)' /\ Start(r)' /\ Run(r)' /\ GotInv(r)'
  <1>1. /\ added \in Nat /\ kept \in Nat /\ lastID[r] \in Nat /\ from[r] \in Nat
        /\ armed[r] \in Nat /\ todo[r] \in Seq(Nat) /\ got[r] \in Seq(Nat)
    BY DEF EventInv, EventTypes
  <1>2. Position(r) /\ Start(r) /\ Run(r) /\ GotInv(r)
    BY DEF EventInv
  <1>3. Position(r)'
    BY <1>1, <1>2 DEF Position
  <1>4. Start(r)'
    BY <1>1, <1>2 DEF Start
  <1>5. Run(r)'
    BY <1>1, <1>2, EmptySeq, SMTT(40) DEF Run
  <1>6. GotInv(r)'
    <2>1. Len(got[r]) \in Nat /\ \A i \in 1..Len(got[r]) : got[r][i] \in Nat
      BY <1>1, SMTT(40)
    <2>2. ASSUME NEW i \in 1..(Len(got[r]) - 1)
          PROVE  /\ got[r][i] < got[r][i + 1]
                 /\ got[r][i + 1] # got[r][i] + 1 => got[r][i] + 1 < kept'
      <3>1. got[r][i] \in Nat
        BY <2>1
      <3>2. /\ got[r][i] < got[r][i + 1]
            /\ got[r][i + 1] # got[r][i] + 1 => got[r][i] + 1 < kept
        BY <1>2 DEF GotInv
      <3>3. got[r][i] + 1 < kept => got[r][i] + 1 < kept'
        <4>1. \A a, b, c \in Nat : a + 1 < b /\ b <= c => a + 1 < c
          OBVIOUS
        <4>2. kept \in Nat
          BY <1>1
        <4> QED
          BY <3>1, <4>1, <4>2
      <3> QED
        BY <3>2, <3>3
    <2> QED
      BY <2>2, <1>2 DEF GotInv
  <1> QED
    BY <1>3, <1>4, <1>5, <1>6

\* A handled event goes on from the ones before it, and the rest of the reply
\* goes on from it.
LEMMA HandleKeeps ==
  ASSUME EventInv, NEW r \in Readers, HandleEvent(r)
  PROVE  EventTypes' /\ Position(r)' /\ Start(r)' /\ Run(r)' /\ GotInv(r)'
  <1> DEFINE e == Head(todo[r])
  <1> USE DEF EventInv, EventTypes
  <1>1. /\ todo[r] # <<>> /\ todo[r] \in Seq(Nat) /\ e = todo[r][1] /\ e \in Nat
        /\ Tail(todo[r]) \in Seq(Nat) /\ Len(Tail(todo[r])) = Len(todo[r]) - 1
        /\ \A i \in 1..(Len(todo[r]) - 1) : Tail(todo[r])[i] = todo[r][i + 1]
        /\ Len(todo[r]) \in Nat \ {0}
    BY HeadTailProperties, EmptySeq DEF Run, HandleEvent
  <1>2. /\ got[r] \in Seq(Nat) /\ got'[r] = Append(got[r], e) /\ got'[r] \in Seq(Nat)
        /\ Len(got'[r]) = Len(got[r]) + 1 /\ got'[r][Len(got[r]) + 1] = e
        /\ \A i \in 1..Len(got[r]) : got'[r][i] = got[r][i]
        /\ Len(got[r]) \in Nat /\ (got[r] # <<>> => Len(got[r]) > 0)
    BY <1>1, AppendProperties, EmptySeq DEF HandleEvent
  <1>3. /\ lastID'[r] = e /\ todo'[r] = Tail(todo[r]) /\ armed'[r] = armed[r]
        /\ added' = added /\ kept' = kept
        /\ loop'[r] # "new" /\ loop'[r] # "reading"
        /\ loop'[r] = "handling" => Tail(todo[r]) # <<>>
    BY DEF HandleEvent
  <1>4. EventTypes'
    <2>1. lastID' \in [Readers -> Nat] /\ got' \in [Readers -> Seq(Nat)]
          /\ todo' \in [Readers -> Seq(Nat)]
      BY <1>1, <1>2 DEF HandleEvent
    <2> QED
      BY <2>1 DEF HandleEvent
  <1>5. /\ armed[r] < e /\ lastID[r] < e /\ e <= added
        /\ lastID[r] # 0 /\ e # lastID[r] + 1 => lastID[r] + 1 < kept
        /\ \A i \in 1..Len(todo[r]) : todo[r][i] = e + i - 1 /\ todo[r][i] <= added
    <2>1. loop[r] = "handling"
      BY DEF HandleEvent
    <2>2. /\ armed[r] < todo[r][1] /\ lastID[r] < todo[r][1]
          /\ lastID[r] # 0 /\ todo[r][1] # lastID[r] + 1 => lastID[r] + 1 < kept
          /\ \A i \in 1..Len(todo[r]) : todo[r][i] = todo[r][1] + i - 1 /\ todo[r][i] <= added
      BY <2>1 DEF Run
    <2>3. 1 \in 1..Len(todo[r])
      BY <1>1
    <2> QED
      BY <1>1, <2>2, <2>3, SMTT(40)
  <1>6. Position(r)'
    <2>1. armed[r] \in Nat /\ lastID[r] \in Nat /\ added \in Nat /\ armed[r] <= added
      BY DEF Position
    <2>2. got'[r] # <<>> /\ lastID'[r] = got'[r][Len(got'[r])]
      <3>1. Len(got'[r]) = Len(got[r]) + 1 /\ Len(got[r]) \in Nat /\ got'[r] \in Seq(Nat)
        BY <1>2
      <3>2. got'[r] # <<>>
        BY <3>1, EmptySeq
      <3>3. got'[r][Len(got'[r])] = e
        BY <3>1, <1>2
      <3> QED
        BY <3>2, <3>3, <1>3
    <2>3. lastID'[r] > 0 /\ lastID'[r] <= added' /\ armed'[r] <= added'
      BY <1>1, <1>3, <1>5, <2>1
    <2> QED
      BY <1>3, <2>2, <2>3 DEF Position
  <1>7. Start(r)'
    BY <1>3 DEF Start
  <1>8. Run(r)'
    <2> SUFFICES ASSUME loop'[r] = "handling" PROVE Run(r)'
      BY DEF Run
    <2>1. Tail(todo[r]) # <<>> /\ Len(Tail(todo[r])) > 0
      BY <1>1, <1>3, EmptySeq, SMTT(40)
    <2>2. \A i \in 1..Len(Tail(todo[r])) :
             Tail(todo[r])[i] = e + i /\ Tail(todo[r])[i] <= added
      BY <1>1, <1>5
    <2>3. armed[r] \in Nat /\ Len(Tail(todo[r])) \in Nat
      BY <1>1
    <2>4. Tail(todo[r])[1] = e + 1
      BY <2>1, <2>2, <2>3
    <2> HIDE DEF e
    <2>5. ASSUME NEW i \in 1..Len(Tail(todo[r]))
          PROVE  Tail(todo[r])[i] = Tail(todo[r])[1] + i - 1 /\ Tail(todo[r])[i] <= added
      <3>1. e \in Nat /\ i \in Nat
        BY <1>1, <2>3
      <3>2. Tail(todo[r])[i] = e + i /\ Tail(todo[r])[i] <= added
        BY <2>2
      <3> QED
        BY <3>1, <3>2, <2>4
    <2>6. e \in Nat /\ e + 1 > armed[r] /\ e + 1 > e
      BY <1>1, <1>5, <2>3
    <2> QED
      BY <1>3, <2>1, <2>4, <2>5, <2>6 DEF Run
  <1>9. GotInv(r)'
    <2>1. got[r] # <<>> => lastID[r] = got[r][Len(got[r])] /\ lastID[r] > 0
      BY DEF Position
    <2>2. ASSUME NEW i \in 1..Len(got'[r]) PROVE got'[r][i] > armed'[r]
      BY <1>2, <1>3, <1>5, SMTT(40) DEF GotInv
    <2>3. ASSUME NEW i \in 1..(Len(got'[r]) - 1)
          PROVE  /\ got'[r][i] < got'[r][i + 1]
                 /\ got'[r][i + 1] # got'[r][i] + 1 => got'[r][i] + 1 < kept'
      <3>1. CASE i = Len(got[r])
        BY <3>1, <2>1, <1>2, <1>3, <1>5, EmptySeq
      <3>2. CASE i < Len(got[r])
        <4>1. i \in 1..(Len(got[r]) - 1) /\ i \in 1..Len(got[r]) /\ i + 1 \in 1..Len(got[r])
          BY <3>2, <1>2
        <4> QED
          BY <4>1, <1>2, <1>3 DEF GotInv
      <3>3. i \in 1..Len(got[r])
        BY <1>2
      <3> QED
        <4>1. i = Len(got[r]) \/ i < Len(got[r])
          BY <3>3, <1>2
        <4> QED
          BY <4>1, <3>1, <3>2
    <2> QED
      BY <2>2, <2>3 DEF GotInv
  <1> QED
    BY <1>4, <1>6, <1>7, <1>8, <1>9

\* Every step keeps the invariant.
LEMMA EventStepKeeps == EventInv /\ [EventNext]_eventVars => EventInv'
  <1> SUFFICES ASSUME EventInv, [EventNext]_eventVars PROVE EventInv'
    OBVIOUS
  <1>1. CASE PublishEvent
    <2>1. added' \in Nat /\ kept' \in Nat /\ added <= added' /\ kept <= kept'
      BY <1>1 DEF PublishEvent, EventInv, EventTypes
    <2>2. ASSUME NEW r \in Readers PROVE Position(r)' /\ Start(r)' /\ Run(r)' /\ GotInv(r)'
      BY <2>1, <1>1, ReaderLeftAlone DEF PublishEvent
    <2>3. gap' \in [Readers -> SUBSET Nat]
      BY <2>1, <1>1 DEF PublishEvent, EventInv, EventTypes
    <2> QED
      BY <2>1, <2>2, <2>3, <1>1 DEF PublishEvent, EventInv, EventTypes
  <1>2. ASSUME NEW r \in Readers,
               SubscribeEvents(r) \/ XRead(r) \/ ReadReturns(r) \/ ReadEmpty(r)
               \/ ReadFailed(r) \/ HandleEvent(r) \/ EndReader(r)
        PROVE  EventInv'
    <2>1. EventTypes' /\ Position(r)' /\ Start(r)' /\ Run(r)' /\ GotInv(r)'
      <3> USE DEF EventInv, EventTypes, Position, Start, Run, GotInv
      <3>1. CASE SubscribeEvents(r)
        BY <3>1, EmptySeq DEF SubscribeEvents
      <3>2. CASE XRead(r)
        BY <3>2 DEF XRead
      <3>3. CASE ReadReturns(r)
        <4> DEFINE first == MaxOf(from[r] + 1, kept)
                   reply == [i \in 1..(added - first + 1) |-> first + i - 1]
        <4>1. /\ loop[r] = "reading" /\ first <= added
              /\ loop' = [loop EXCEPT ![r] = "handling"]
              /\ todo' = [todo EXCEPT ![r] = reply]
              /\ UNCHANGED <<added, kept, lastID, from, got, armed, gap>>
          BY <3>3 DEF ReadReturns
        <4>2. /\ first \in Nat /\ first > from[r]
              /\ first # from[r] + 1 => from[r] + 1 < kept
          BY DEF MaxOf
        <4>3. added - first + 1 \in Nat \ {0}
          BY <4>1, <4>2
        <4>4. /\ reply \in Seq(Nat) /\ Len(reply) = added - first + 1
              /\ \A i \in 1..(added - first + 1) : reply[i] = first + i - 1
          <5> HIDE DEF first
          <5> DEFINE n == added - first + 1
          <5>1. \A i \in 1..n : first + i - 1 \in Nat
            BY <4>2, <4>3
          <5>2. n \in Nat
            BY <4>3
          <5>3. reply = [i \in 1..n |-> first + i - 1]
            OBVIOUS
          <5> HIDE DEF n, reply
          <5>4. reply \in [1..n -> Nat] /\ \A i \in 1..n : reply[i] = first + i - 1
            BY <5>1, <5>3
          <5>5. reply \in Seq(Nat) /\ Len(reply) = n
            BY <5>2, <5>4
          <5> QED
            BY <5>4, <5>5 DEF n
        <4>5. reply # <<>> /\ reply[1] = first
          BY <4>2, <4>3, <4>4, EmptySeq, SMTT(40)
        <4> HIDE DEF first, reply
        <4>6. EventTypes'
          BY <4>1, <4>4
        <4>7. Run(r)'
          <5>1. /\ added \in Nat /\ kept \in Nat /\ lastID[r] \in Nat /\ from[r] \in Nat
                /\ armed[r] \in Nat /\ todo'[r] = reply
            BY <4>1
          <5>2. IF lastID[r] = 0 THEN armed[r] <= from[r] ELSE from[r] = lastID[r]
            BY <4>1
          <5>3. armed[r] < first /\ lastID[r] < first
            <6>1. CASE lastID[r] = 0
              BY <6>1, <4>2, <5>1, <5>2
            <6>2. CASE lastID[r] # 0
              <7>1. from[r] = lastID[r]
                BY <5>2, <6>2
              <7>2. armed[r] < lastID[r]
                <8>1. got[r] \in Seq(Nat) /\ got[r] # <<>>
                  BY <6>2
                <8>2. Len(got[r]) \in 1..Len(got[r])
                  BY <8>1, EmptySeq
                <8>3. got[r][Len(got[r])] > armed[r] /\ lastID[r] = got[r][Len(got[r])]
                  BY <8>1, <8>2
                <8> QED
                  BY <8>3, <5>1
              <7> QED
                BY <7>1, <7>2, <4>2, <5>1
            <6> QED
              BY <6>1, <6>2
          <5>4. lastID[r] # 0 /\ first # lastID[r] + 1 => lastID[r] + 1 < kept
            BY <4>2, <5>1, <5>2
          <5>5. \A i \in 1..Len(reply) : reply[i] = reply[1] + i - 1 /\ reply[i] <= added
            BY <4>2, <4>3, <4>4, <4>5, <5>1
          <5> QED
            BY <4>1, <4>5, <5>1, <5>3, <5>4, <5>5
        <4> QED
          BY <4>1, <4>6, <4>7
      <3>4. CASE ReadEmpty(r)
        BY <3>4 DEF ReadEmpty
      <3>5. CASE HandleEvent(r)
        BY <3>5, HandleKeeps
      <3>6. CASE EndReader(r)
        BY <3>6 DEF EndReader
      <3>7. CASE ReadFailed(r)
        <4>1. gap' \in [Readers -> SUBSET Nat]
          <5>1. ((from[r] + 1)..added) \in SUBSET Nat
            OBVIOUS
          <5> QED
            BY <3>7, <5>1 DEF ReadFailed
        <4> QED
          BY <3>7, <4>1 DEF ReadFailed
      <3> QED
        BY <1>2, <3>1, <3>2, <3>3, <3>4, <3>5, <3>6, <3>7
    <2>2. ASSUME NEW s \in Readers, s # r
          PROVE  Position(s)' /\ Start(s)' /\ Run(s)' /\ GotInv(s)'
      <3>1. /\ added' = added /\ kept' = kept
            /\ loop'[s] = loop[s] /\ lastID'[s] = lastID[s] /\ from'[s] = from[s]
            /\ todo'[s] = todo[s] /\ got'[s] = got[s] /\ armed'[s] = armed[s]
        BY <1>2, <2>2 DEF EventInv, EventTypes, SubscribeEvents, XRead, ReadReturns, ReadEmpty,
           ReadFailed, HandleEvent, EndReader
      <3> QED
        <4>1. added' \in Nat /\ kept' \in Nat /\ added <= added' /\ kept <= kept'
          BY <3>1 DEF EventInv, EventTypes
        <4> QED
          BY <3>1, <4>1, ReaderLeftAlone
    <2> QED
      BY <2>1, <2>2 DEF EventInv
  <1>3. CASE UNCHANGED eventVars
    BY <1>3 DEF eventVars, EventInv, EventTypes, Position, Start, Run, GotInv
  <1> QED
    BY <1>1, <1>2, <1>3 DEF EventNext

\* Every event up to n since the subscription fell into a gap or was trimmed.
Missable(r, n) == \A e \in (armed[r] + 1)..n : e \in gap[r] \/ e < kept

\* Until its first event, what a reader has passed over is missable.
GapInv(r) ==
    /\ lastID[r] = 0 /\ loop[r] = "loop" => Missable(r, added)
    /\ lastID[r] = 0 /\ loop[r] = "reading" => Missable(r, from[r])
    /\ lastID[r] = 0 /\ loop[r] = "handling" => Missable(r, todo[r][1] - 1)
    /\ got[r] # <<>> => Missable(r, got[r][1] - 1)

\* Every step keeps that.
LEMMA GapStepKeeps ==
  ASSUME EventInv, EventInv', [EventNext]_eventVars, \A r \in Readers : GapInv(r)
  PROVE  \A r \in Readers : GapInv(r)'
  <1> SUFFICES ASSUME NEW s \in Readers PROVE GapInv(s)'
    OBVIOUS
  <1>1. /\ added \in Nat /\ kept \in Nat /\ lastID[s] \in Nat /\ from[s] \in Nat
        /\ armed[s] \in Nat /\ todo[s] \in Seq(Nat) /\ got[s] \in Seq(Nat)
        /\ gap \in [Readers -> SUBSET Nat] /\ kept' \in Nat /\ added' \in Nat
    BY DEF EventInv, EventTypes
  <1>2. GapInv(s) /\ Position(s) /\ Start(s) /\ Run(s)
    BY DEF EventInv
  <1>3. ASSUME kept <= kept', gap[s] \subseteq gap'[s], armed'[s] = armed[s], NEW n, Missable(s, n),
               NEW m, m = n
        PROVE  Missable(s, m)'
    BY <1>1, <1>3 DEF Missable
  <1>4. CASE PublishEvent
    <2>1. /\ kept <= kept' /\ gap[s] \subseteq gap'[s] /\ added' = added + 1
          /\ UNCHANGED <<loop, lastID, from, todo, got, armed>>
          /\ lastID[s] = 0 /\ loop[s] = "loop" => added' \in gap'[s]
      BY <1>4, <1>1 DEF PublishEvent
    <2>2. lastID[s] = 0 /\ loop[s] = "loop" => Missable(s, added)'
      BY <2>1, <1>1, <1>2 DEF GapInv, Missable
    <2> QED
      BY <2>1, <2>2, <1>2, <1>3 DEF GapInv
  <1>5. ASSUME NEW r \in Readers, r # s,
               SubscribeEvents(r) \/ XRead(r) \/ ReadReturns(r) \/ ReadEmpty(r)
               \/ ReadFailed(r) \/ HandleEvent(r) \/ EndReader(r)
        PROVE  GapInv(s)'
    <2>1. /\ added' = added /\ kept' = kept
          /\ loop'[s] = loop[s] /\ lastID'[s] = lastID[s] /\ from'[s] = from[s]
          /\ todo'[s] = todo[s] /\ got'[s] = got[s] /\ armed'[s] = armed[s] /\ gap'[s] = gap[s]
      BY <1>5 DEF EventInv, EventTypes, SubscribeEvents, XRead, ReadReturns, ReadEmpty,
         ReadFailed, HandleEvent, EndReader
    <2> QED
      BY <2>1, <1>2 DEF GapInv, Missable
  <1>6. CASE SubscribeEvents(s)
    <2>1. armed'[s] = added /\ added' = added /\ got'[s] = <<>> /\ loop'[s] = "loop"
      BY <1>6, <1>2 DEF SubscribeEvents, EventInv, EventTypes, Position
    <2>2. Missable(s, added)'
      BY <2>1, <1>1 DEF Missable
    <2> QED
      BY <2>1, <2>2 DEF GapInv
  <1>7. CASE XRead(s)
    <2>1. /\ loop[s] = "loop" /\ loop'[s] = "reading" /\ UNCHANGED <<added, kept, lastID, got, armed, gap>>
          /\ lastID[s] = 0 => from'[s] = added
      BY <1>7 DEF XRead, EventInv, EventTypes
    <2> QED
      BY <2>1, <1>2, <1>3 DEF GapInv, Missable
  <1>8. CASE ReadReturns(s)
    <2>1. /\ loop[s] = "reading" /\ loop'[s] = "handling"
          /\ UNCHANGED <<added, kept, lastID, from, got, armed, gap>>
      BY <1>8 DEF ReadReturns, EventInv, EventTypes
    <2>2. todo'[s][1] = MaxOf(from[s] + 1, kept)
      <3> DEFINE first == MaxOf(from[s] + 1, kept)
      <3>1. first \in Nat /\ first <= added
        BY <1>1, <1>8 DEF ReadReturns, MaxOf
      <3>2. todo'[s] = [i \in 1..(added - first + 1) |-> first + i - 1]
        BY <1>8 DEF ReadReturns, EventInv, EventTypes
      <3> HIDE DEF first
      <3>3. 1 \in 1..(added - first + 1) /\ first + 1 - 1 = first
        BY <3>1, <1>1
      <3>4. todo'[s][1] = first
        BY <3>2, <3>3
      <3> QED
        BY <3>4 DEF first
    <2>3. lastID[s] = 0 => \A e \in (armed[s] + 1)..(MaxOf(from[s] + 1, kept) - 1) :
                                 e \in gap[s] \/ e < kept
      BY <2>1, <1>1, <1>2 DEF GapInv, Missable, MaxOf
    <2>4. lastID[s] = 0 => Missable(s, todo[s][1] - 1)'
      BY <2>1, <2>2, <2>3 DEF Missable
    <2> QED
      BY <2>1, <2>4, <1>2 DEF GapInv, Missable
  <1>9. CASE ReadEmpty(s)
    <2>1. /\ loop[s] = "reading" /\ loop'[s] = "loop" /\ from[s] >= added
          /\ UNCHANGED <<added, kept, lastID, from, got, armed, gap>>
      BY <1>9 DEF ReadEmpty, EventInv, EventTypes
    <2>2. lastID[s] = 0 => Missable(s, added)'
      BY <2>1, <1>1, <1>2 DEF GapInv, Missable
    <2> QED
      BY <2>1, <2>2, <1>2 DEF GapInv, Missable
  <1>10. CASE ReadFailed(s)
    <2>1. /\ loop[s] = "reading" /\ loop'[s] = "loop"
          /\ UNCHANGED <<added, kept, lastID, from, got, armed>>
      BY <1>10 DEF ReadFailed, EventInv, EventTypes
    <2>2. gap[s] \subseteq gap'[s] /\ (lastID[s] = 0 => gap'[s] = gap[s] \cup ((from[s] + 1)..added))
      BY <1>10, <1>1 DEF ReadFailed
    <2>3. lastID[s] = 0 => Missable(s, added)'
      <3> SUFFICES ASSUME lastID[s] = 0, NEW e \in (armed[s] + 1)..added, e \notin gap'[s]
                   PROVE  e < kept
        BY <2>1 DEF Missable
      <3>1. e \in Int /\ armed[s] + 1 <= e /\ e <= added
        BY <1>1
      <3>4. e \notin gap[s] /\ e \notin (from[s] + 1)..added
        BY <2>2
      <3>2. e <= from[s]
        BY <3>1, <3>4, <1>1
      <3>3. Missable(s, from[s])
        BY <2>1, <1>2 DEF GapInv
      <3> QED
        BY <3>1, <3>4, <3>2, <3>3, <1>1 DEF Missable
    <2> QED
      BY <2>1, <2>2, <2>3, <1>2 DEF GapInv, Missable
  <1>11. CASE HandleEvent(s)
    <2>1. /\ loop[s] = "handling" /\ lastID'[s] = Head(todo[s])
          /\ got'[s] = Append(got[s], Head(todo[s]))
          /\ UNCHANGED <<added, kept, armed, gap>>
      BY <1>11 DEF HandleEvent, EventInv, EventTypes
    <2>2. todo[s] # <<>> /\ Head(todo[s]) = todo[s][1] /\ todo[s][1] > 0
      BY <2>1, <1>1, <1>2, HeadTailProperties, EmptySeq DEF Run
    <2>3. got'[s][1] = IF got[s] = <<>> THEN todo[s][1] ELSE got[s][1]
      <3>1. Head(todo[s]) \in Nat
        BY <2>2, <1>1, HeadTailProperties
      <3>2. /\ \A i \in 1..Len(got[s]) : got'[s][i] = got[s][i]
            /\ got'[s][Len(got[s]) + 1] = Head(todo[s])
        BY <3>1, <2>1, <1>1, AppendProperties
      <3>3. CASE got[s] = <<>>
        BY <3>2, <3>3, <2>2
      <3>4. CASE got[s] # <<>>
        <4>1. 1 \in 1..Len(got[s])
          BY <3>4, <1>1, EmptySeq
        <4> QED
          BY <3>2, <3>4, <4>1
      <3> QED
        BY <3>3, <3>4
    <2>4. Missable(s, got'[s][1] - 1)
      <3>1. CASE got[s] = <<>>
        BY <3>1, <2>1, <2>3, <1>2 DEF GapInv, Position
      <3>2. CASE got[s] # <<>>
        BY <3>2, <2>3, <1>2 DEF GapInv
      <3> QED
        BY <3>1, <3>2
    <2>5. lastID'[s] # 0
      BY <2>1, <2>2, <1>1
    <2> QED
      BY <2>1, <2>4, <2>5 DEF GapInv, Missable
  <1>12. CASE EndReader(s)
    <2>1. loop'[s] = "ended" /\ UNCHANGED <<added, kept, lastID, from, got, armed, gap>>
      BY <1>12 DEF EndReader, EventInv, EventTypes
    <2> QED
      BY <2>1, <1>2 DEF GapInv, Missable
  <1>13. CASE UNCHANGED eventVars
    BY <1>13, <1>2 DEF eventVars, GapInv, Missable
  <1> QED
    BY <1>4, <1>5, <1>6, <1>7, <1>8, <1>9, <1>10, <1>11, <1>12, <1>13 DEF EventNext

\* A subscriber of a topic handles a run of the events published after
\* SubscribeEvents returned, each once and in order, with gaps only where the
\* topic was trimmed under it; of the events before its first one, it misses
\* those that were trimmed or published in a gap of its reads from "$", and no
\* other.  For any number of readers and events.
THEOREM SubscribersReadARun == EventSpec => []FutureEventsInOrder
  <1> DEFINE Inv == EventInv /\ \A r \in Readers : GapInv(r)
  <1>1. EventInit => Inv
    <2>1. EventInit => EventInv
      BY EventStart
    <2>2. EventInit => \A r \in Readers : GapInv(r)
      BY DEF EventInit, GapInv
    <2> QED
      BY <2>1, <2>2
  <1>2. Inv /\ [EventNext]_eventVars => Inv'
    BY EventStepKeeps, GapStepKeeps
  <1>3. Inv => FutureEventsInOrder
    <2> SUFFICES ASSUME Inv PROVE FutureEventsInOrder
      OBVIOUS
    <2>1. NoGapAfterFirst /\ OnlyFutureEvents
      BY DEF EventInv, GotInv, NoGapAfterFirst, OnlyFutureEvents
    <2>2. MissedOnlyInGaps
      <3> SUFFICES ASSUME NEW r \in Readers, NEW e \in (armed[r] + 1)..added,
                          got[r] # <<>>, e < got[r][1]
                   PROVE  e \in gap[r] \/ e < kept
        BY DEF MissedOnlyInGaps
      <3>1. got[r] \in Seq(Nat) /\ armed[r] \in Nat /\ added \in Nat
        BY DEF EventInv, EventTypes
      <3>2. got[r][1] \in Nat
        <4>1. 1 \in 1..Len(got[r])
          BY <3>1, EmptySeq
        <4> QED
          BY <3>1, <4>1
      <3>3. Missable(r, got[r][1] - 1)
        BY DEF GapInv
      <3> QED
        BY <3>1, <3>2, <3>3 DEF Missable
    <2> QED
      BY <2>1, <2>2 DEF FutureEventsInOrder
  <1> QED
    BY <1>1, <1>2, <1>3, PTL DEF EventSpec

-----------------------------------------------------------------------------
(* The consumer group of a session stream *)

Phases == {"new", "loop", "handle", "ack", "returned", "crashed"}

StreamTypes ==
    /\ lastId \in Nat /\ lastId <= MaxEntries
    /\ cursor \in Nat /\ cursor <= lastId
    /\ entries \subseteq 1..lastId
    /\ group \in BOOLEAN
    /\ owner \in [Entries -> Consumers \cup {NoConsumer}]
    /\ pc \in [Consumers -> Phases]
    /\ batch \in [Consumers -> Seq(1..lastId)]

\* Only what the present group has handed out is pending or idle, and only
\* what exists can be acknowledged, once it has left the pending list.
PendingInv ==
    /\ \A e \in Pending : group /\ e <= cursor
    /\ aged \subseteq Pending /\ aged \subseteq everAged
    /\ acked \subseteq 1..lastId /\ acked \cap Pending = {}

\* A call in its handler has a message, and acknowledges a handled one.
HandlerInv ==
    \A c \in Consumers : pc[c] \in {"handle", "ack"} =>
        batch[c] # <<>> /\ (pc[c] = "ack" => Head(batch[c]) \in handled)

\* What the group has still to hand out, now or when there is one.
Fresh == {e \in entries : group => e > cursor}

\* Nobody has had a fresh entry, so a read gives an entry to one consumer.
FreshInv ==
    /\ acked \cap Fresh = {}
    /\ \A c \in Consumers : ToSet(batch[c]) \cap Fresh = {}

\* An entry gets into a second batch through a claim only.
SharedInv ==
    \A c, d \in Consumers : c # d => ToSet(batch[c]) \cap ToSet(batch[d]) \subseteq everAged

StreamInv ==
    /\ StreamTypes /\ PendingInv /\ HandlerInv /\ FreshInv /\ SharedInv /\ HandedOutIsKept

\* What a batch contains, when it is empty and when it is a single entry.
LEMMA SmallBatch == ToSet(<<>>) = {} /\ \A e : ToSet(<<e>>) = {e} /\ <<e>> # <<>>
  BY DEF ToSet

\* What is left of it when one entry is done.
LEMMA BatchRest ==
  ASSUME NEW S, NEW s \in Seq(S), s # <<>>
  PROVE  /\ Head(s) \in ToSet(s) /\ ToSet(s) \subseteq S
         /\ Tail(s) \in Seq(S) /\ ToSet(Tail(s)) \subseteq ToSet(s)
  <1>1. /\ Len(s) \in Nat \ {0} /\ Head(s) = s[1] /\ Tail(s) \in Seq(S)
        /\ Len(Tail(s)) = Len(s) - 1
        /\ \A i \in 1..Len(Tail(s)) : Tail(s)[i] = s[i + 1]
    BY EmptySeq, HeadTailProperties
  <1>2. DOMAIN s = 1..Len(s) /\ DOMAIN Tail(s) = 1..Len(Tail(s))
    BY <1>1
  <1>3. \A i \in 1..Len(s) : s[i] \in S
    OBVIOUS
  <1>4. \A i \in 1..Len(Tail(s)) : i + 1 \in 1..Len(s)
    BY <1>1
  <1>5. Head(s) \in ToSet(s)
    BY <1>1, <1>2 DEF ToSet
  <1>6. ToSet(s) \subseteq S
    BY <1>2, <1>3 DEF ToSet
  <1>7. ToSet(Tail(s)) \subseteq ToSet(s)
    BY <1>1, <1>2, <1>4 DEF ToSet
  <1> QED
    BY <1>1, <1>5, <1>6, <1>7

\* XAUTOCLAIM's answer: a nonempty batch of the entries it was asked for.
LEMMA ClaimedBatch ==
  ASSUME NEW m \in Nat, NEW S \in SUBSET (1..m), S # {}, NEW q \in InStreamOrder(S)
  PROVE  q \in Seq(1..m) /\ q # <<>> /\ ToSet(q) \subseteq S
  <1>1. IsFiniteSet(S)
    <2>1. IsFiniteSet(1..m)
      BY FS_Interval
    <2> QED
      BY <2>1, FS_Subset
  <1>2. Cardinality(S) \in Nat /\ Cardinality(S) # 0
    BY <1>1, FS_CardinalityType, FS_EmptySet
  <1>3. q \in [1..Cardinality(S) -> S]
    BY DEF InStreamOrder
  <1>4. q \in Seq(S) /\ Len(q) = Cardinality(S)
    BY <1>2, <1>3
  <1>5. DOMAIN q = 1..Cardinality(S)
    BY <1>3
  <1>6. q \in Seq(1..m)
    <2>1. q \in [1..Cardinality(S) -> 1..m]
      BY <1>3
    <2> QED
      BY <1>2, <2>1
  <1> QED
    BY <1>2, <1>3, <1>4, <1>5, <1>6, EmptySeq DEF ToSet

\* The invariant holds before the first message.
LEMMA StreamStart == StreamInit => StreamInv
  <1> SUFFICES ASSUME StreamInit PROVE StreamInv
    OBVIOUS
  <1>1. StreamTypes
    <2>1. group \in BOOLEAN
      BY DEF StreamInit
    <2>2. /\ lastId \in Nat /\ lastId <= MaxEntries /\ cursor \in Nat /\ cursor <= lastId
          /\ entries \subseteq 1..lastId
      BY RedisStreamAssumption DEF StreamInit
    <2>3. owner \in [Entries -> Consumers \cup {NoConsumer}] /\ pc \in [Consumers -> Phases]
      BY DEF StreamInit, Phases
    <2>4. batch \in [Consumers -> Seq(1..lastId)]
      BY EmptySeq DEF StreamInit
    <2> QED
      BY <2>1, <2>2, <2>3, <2>4 DEF StreamTypes
  <1>2. Pending = {}
    BY DEF StreamInit, Pending
  <1>3. \A c \in Consumers : batch[c] = <<>> /\ pc[c] = "new"
    BY DEF StreamInit
  <1> QED
    BY <1>1, <1>2, <1>3, SmallBatch DEF StreamInit, StreamInv, PendingInv, HandlerInv, FreshInv,
       Fresh, SharedInv, HandedOutIsKept

\* A batch of entries is one of more entries.
LEMMA SequencesMonotone ==
  ASSUME NEW S, NEW T, S \subseteq T, NEW s \in Seq(S) PROVE s \in Seq(T)
  <1>1. s \in [1..Len(s) -> S] /\ Len(s) \in Nat
    OBVIOUS
  <1>2. s \in [1..Len(s) -> T]
    BY <1>1
  <1> QED
    BY <1>1, <1>2

\* A new entry is fresh, and trimming only takes entries away.
LEMMA PublishKeeps == ASSUME StreamInv, PublishSession PROVE StreamInv'
  <1> USE DEF StreamInv
  <1>1. /\ lastId' = lastId + 1 /\ lastId' <= MaxEntries /\ lastId \in Nat
        /\ UNCHANGED <<group, cursor, owner, aged, pc, batch, handled, acked, everAged, origin>>
    BY RedisStreamAssumption DEF PublishSession, StreamTypes, clientVars, streamHist
  <1>2. entries' \subseteq entries \cup {lastId'}
    BY DEF PublishSession, Trimmed
  <1>3. Pending' = Pending
    BY <1>1 DEF Pending
  <1>4. 1..lastId \subseteq 1..lastId' /\ lastId' \in 1..lastId' /\ lastId' \notin 1..lastId
    BY <1>1
  <1>5. \A c \in Consumers : batch[c] \in Seq(1..lastId) /\ ToSet(batch[c]) \subseteq 1..lastId
    <2> SUFFICES ASSUME NEW c \in Consumers
                 PROVE  batch[c] \in Seq(1..lastId) /\ ToSet(batch[c]) \subseteq 1..lastId
      OBVIOUS
    <2>1. batch[c] \in Seq(1..lastId)
      BY DEF StreamTypes
    <2> QED
      BY <2>1, BatchRest, SmallBatch
  <1>6. batch' \in [Consumers -> Seq(1..lastId')]
    <2>1. ASSUME NEW c \in Consumers PROVE batch[c] \in Seq(1..lastId')
      <3>1. batch[c] \in Seq(1..lastId)
        BY <1>5
      <3> QED
        BY <3>1, <1>4, SequencesMonotone
    <2> QED
      BY <1>1, <2>1 DEF StreamTypes
  <1>7. StreamTypes'
    BY <1>1, <1>2, <1>4, <1>6 DEF StreamTypes
  <1>8. PendingInv' /\ HandlerInv' /\ SharedInv'
    BY <1>1, <1>3, <1>4 DEF PendingInv, HandlerInv, SharedInv
  <1>9. Fresh' \subseteq Fresh \cup {lastId'}
    BY <1>1, <1>2 DEF Fresh
  <1>10. FreshInv'
    BY <1>1, <1>4, <1>5, <1>9 DEF FreshInv, PendingInv
  <1>11. HandedOutIsKept'
    <2>1. ASSUME NEW e \in entries', e <= cursor PROVE e \in entries
      BY <1>1, <1>2, <2>1 DEF StreamTypes
    <2> QED
      BY <1>1, <1>3, <2>1 DEF HandedOutIsKept
  <1> QED
    BY <1>7, <1>8, <1>10, <1>11

\* With the stream its group, its pending list and its entries are gone.
LEMMA DropKeeps == ASSUME StreamInv, DropStream PROVE StreamInv'
  <1>1. /\ Pending' = {} /\ entries' = {} /\ aged' = {} /\ cursor' = 0 /\ group' = FALSE
        /\ UNCHANGED <<lastId, pc, batch, handled, acked, everAged>>
    BY DEF DropStream, Pending, clientVars, streamHist
  <1>2. StreamTypes'
    <2>1. group' \in BOOLEAN
      BY <1>1
    <2>2. owner' \in [Entries -> Consumers \cup {NoConsumer}]
      BY DEF DropStream
    <2> QED
      BY <1>1, <2>1, <2>2 DEF StreamInv, StreamTypes
  <1>3. Fresh' = {}
    BY <1>1 DEF Fresh
  <1> QED
    BY <1>1, <1>2, <1>3 DEF StreamInv, PendingInv, HandlerInv, FreshInv, SharedInv, HandedOutIsKept

\* Idle time is remembered.
LEMMA AgeKeeps == ASSUME StreamInv, NEW e \in Entries, Age(e) PROVE StreamInv'
  <1>1. /\ e \in Pending /\ aged' = aged \cup {e} /\ everAged' = everAged \cup {e}
        /\ UNCHANGED <<entries, lastId, group, cursor, owner, origin, pc, batch, handled, acked>>
        /\ Pending' = Pending /\ Fresh' = Fresh
    BY DEF Age, Pending, Fresh, clientVars
  <1> QED
    BY <1>1 DEF StreamInv, StreamTypes, PendingInv, HandlerInv, FreshInv, SharedInv, HandedOutIsKept

\* A new group has handed out nothing, and its position only makes fewer of
\* the entries fresh.
LEMMA SubscribeKeeps ==
  ASSUME StreamInv, NEW c \in Consumers, NEW last \in 0..lastId, SubscribeSession(c, last)
  PROVE  StreamInv'
  <1> USE DEF StreamInv
  <1>1. /\ UNCHANGED <<entries, lastId, owner, aged, batch, handled, acked, everAged>>
        /\ pc' = [pc EXCEPT ![c] = "loop"] /\ group' = TRUE
        /\ Pending' = Pending
    BY DEF SubscribeSession, Pending, streamHist
  <1>2. cursor' \in Nat /\ cursor' <= lastId /\ (group => cursor' = cursor /\ origin' = origin)
    BY DEF SubscribeSession, StreamTypes
  <1>3. StreamTypes'
    BY <1>1, <1>2 DEF StreamTypes, Phases
  <1>4. Fresh' \subseteq Fresh
    BY <1>1, <1>2 DEF Fresh
  <1>5. PendingInv' /\ HandlerInv' /\ FreshInv' /\ SharedInv'
    BY <1>1, <1>2, <1>4 DEF PendingInv, HandlerInv, FreshInv, SharedInv, StreamTypes
  <1>6. HandedOutIsKept'
    <2>1. CASE group
      BY <2>1, <1>1, <1>2 DEF HandedOutIsKept
    <2>2. CASE ~group
      <3>1. origin' = cursor'
        BY <2>2 DEF SubscribeSession
      <3>2. \A e \in entries' : ~(origin' < e /\ e <= cursor')
        BY <3>1, <1>1, <1>2 DEF StreamTypes
      <3> QED
        BY <3>2 DEF HandedOutIsKept
    <2> QED
      BY <2>1, <2>2
  <1> QED
    BY <1>3, <1>5, <1>6

\* XREADGROUP takes the first fresh entry: it becomes pending, and whoever
\* gets it is alone with it.
LEMMA ReadKeeps == ASSUME StreamInv, NEW c \in Consumers, ReadGroup(c) PROVE StreamInv'
  <1> USE DEF StreamInv
  <1>1. PICK e \in entries :
          /\ e > cursor /\ \A f \in entries : f > cursor => e <= f
          /\ cursor' = e
          /\ owner' = [owner EXCEPT ![e] = c]
          /\ Arrives(c, <<e>>, -1)
    BY DEF ReadGroup
  <1>2. group /\ UNCHANGED <<entries, lastId, group, aged, origin, handled, acked, everAged>>
    BY DEF ReadGroup, streamHist
  <1>3. /\ e \in 1..lastId /\ e \in Nat /\ e <= lastId /\ e \in Entries /\ c # NoConsumer
        /\ cursor \in Nat
    BY RedisStreamAssumption DEF StreamTypes, Entries
  <1>4. Pending' = Pending \cup {e}
    BY <1>1, <1>3 DEF Pending, StreamTypes
  <1>5. e \in Fresh /\ Fresh' \subseteq Fresh \ {e}
    <2>1. Fresh = {f \in entries : f > cursor} /\ Fresh' = {f \in entries : f > e}
      BY <1>1, <1>2 DEF Fresh
    <2>2. \A f \in entries : f \in Nat
      BY DEF StreamTypes
    <2>3. \A f \in entries : f > e => f > cursor /\ f # e
      BY <1>1, <1>3, <2>2
    <2> QED
      BY <1>1, <2>1, <2>3
  <1>6. /\ \A d \in Consumers : d # c => batch'[d] = batch[d] /\ pc'[d] = pc[d]
        /\ \/ batch'[c] = <<e>> /\ pc'[c] = "handle"
           \/ batch'[c] = batch[c] /\ pc'[c] = pc[c]
        /\ pc' \in [Consumers -> Phases]
        /\ batch' \in [Consumers -> Seq(1..lastId)]
    <2>1. <<e>> \in Seq(1..lastId)
      BY <1>3
    <2> QED
      BY <2>1, <1>1 DEF Arrives, StreamTypes, Phases
  <1>7. StreamTypes'
    BY <1>1, <1>2, <1>3, <1>6 DEF StreamTypes
  <1>8. PendingInv'
    <2>1. \A f \in Pending : f \in Nat
      BY DEF Pending, Entries
    <2>2. \A f \in Pending' : group' /\ f <= cursor'
      BY <1>1, <1>2, <1>3, <1>4, <2>1 DEF PendingInv
    <2>3. acked \subseteq 1..lastId /\ acked' \cap Pending' = {}
      BY <1>2, <1>4, <1>5 DEF PendingInv, FreshInv
    <2>4. aged \subseteq Pending' /\ aged \subseteq everAged
      BY <1>4 DEF PendingInv
    <2> QED
      BY <1>2, <2>2, <2>3, <2>4 DEF PendingInv
  <1>9. HandlerInv'
    BY <1>2, <1>6, SmallBatch DEF HandlerInv
  <1>10. ASSUME NEW d \in Consumers
         PROVE  ToSet(batch'[d]) = ToSet(batch[d]) \/ (d = c /\ ToSet(batch'[d]) = {e})
    <2>1. batch'[d] = batch[d] \/ (d = c /\ batch'[d] = <<e>>)
      BY <1>6
    <2>2. ToSet(<<e>>) = {e}
      BY SmallBatch
    <2>3. CASE batch'[d] = batch[d]
      BY <2>3
    <2>4. CASE d = c /\ batch'[d] = <<e>>
      <3>1. ToSet(batch'[d]) = ToSet(<<e>>)
        BY <2>4
      <3> QED
        BY <3>1, <2>2, <2>4
    <2> QED
      BY <2>1, <2>3, <2>4
  <1>11. FreshInv' /\ SharedInv'
    <2>1. FreshInv'
      BY <1>2, <1>5, <1>10 DEF FreshInv
    <2>2. SharedInv'
      BY <1>2, <1>5, <1>10 DEF FreshInv, SharedInv
    <2> QED
      BY <2>1, <2>2
  <1>12. HandedOutIsKept'
    <2>1. ASSUME NEW f \in entries, f <= e, f # e PROVE f <= cursor
      BY <2>1, <1>1, <1>3 DEF StreamTypes
    <2> QED
      BY <1>1, <1>2, <1>4, <2>1 DEF HandedOutIsKept
  <1> QED
    BY <1>7, <1>8, <1>9, <1>10, <1>11, <1>12

\* XAUTOCLAIM only hands on what is pending and has been idle.
LEMMA ClaimFacts ==
  ASSUME StreamInv, NEW c \in Consumers, Claim(c)
  PROVE  \E taken \in SUBSET aged :
            /\ owner' = [e \in Entries |-> IF e \notin taken THEN owner[e]
                                           ELSE IF e \in entries THEN c ELSE NoConsumer]
            /\ aged' = aged \ taken
            /\ \/ batch' = batch /\ pc' = pc
               \/ /\ pc' = [pc EXCEPT ![c] = "handle"]
                  /\ \E q \in Seq(1..lastId) :
                        /\ q # <<>> /\ ToSet(q) \subseteq taken
                        /\ batch' = [batch EXCEPT ![c] = q]
  <1> DEFINE taken    == Claimable(IF scan[c] = -1 THEN 0 ELSE scan[c])
             returned == taken \cap entries
             rest     == {e \in Pending : \A f \in taken : f < e}
             next     == IF rest = {} THEN 0 ELSE Min(rest)
  <1>1. taken \in SUBSET aged
    BY DEF Claimable
  <1>2. /\ owner' = [e \in Entries |-> IF e \notin taken THEN owner[e]
                                       ELSE IF e \in entries THEN c ELSE NoConsumer]
        /\ aged' = aged \ taken
        /\ \/ returned # {} /\ \E msgs \in InStreamOrder(returned) : Arrives(c, msgs, next)
           \/ UNCHANGED <<pc, batch, ended>>
    BY DEF Claim
  <1> HIDE DEF taken, next
  <1>3. ASSUME returned # {}, NEW q \in InStreamOrder(returned)
        PROVE  q \in Seq(1..lastId) /\ q # <<>> /\ ToSet(q) \subseteq taken
    <2>1. returned \in SUBSET (1..lastId) /\ lastId \in Nat
      BY DEF StreamInv, StreamTypes
    <2>2. q \in Seq(1..lastId) /\ q # <<>> /\ ToSet(q) \subseteq returned
      BY <1>3, <2>1, ClaimedBatch
    <2> QED
      BY <2>2
  <1>4. \/ batch' = batch /\ pc' = pc
        \/ /\ pc' = [pc EXCEPT ![c] = "handle"]
           /\ \E q \in Seq(1..lastId) :
                 /\ q # <<>> /\ ToSet(q) \subseteq taken
                 /\ batch' = [batch EXCEPT ![c] = q]
    BY <1>2, <1>3 DEF Arrives
  <1> QED
    BY <1>1, <1>2, <1>4

\* A claim keeps the invariant: what it drops was trimmed, and what it hands
\* to a second consumer was idle.
LEMMA ClaimKeeps == ASSUME StreamInv, NEW c \in Consumers, Claim(c) PROVE StreamInv'
  <1> USE DEF StreamInv
  <1>1. PICK taken \in SUBSET aged :
            /\ owner' = [e \in Entries |-> IF e \notin taken THEN owner[e]
                                           ELSE IF e \in entries THEN c ELSE NoConsumer]
            /\ aged' = aged \ taken
            /\ \/ batch' = batch /\ pc' = pc
               \/ /\ pc' = [pc EXCEPT ![c] = "handle"]
                  /\ \E q \in Seq(1..lastId) :
                        /\ q # <<>> /\ ToSet(q) \subseteq taken
                        /\ batch' = [batch EXCEPT ![c] = q]
    BY ClaimFacts
  <1>2. UNCHANGED <<entries, lastId, group, cursor, origin, handled, acked, everAged>>
    BY DEF Claim, streamHist
  <1>3. Pending' \subseteq Pending /\ Pending \ Pending' \subseteq taken \ entries
    <2>1. taken \subseteq Pending /\ c # NoConsumer
      BY RedisStreamAssumption DEF PendingInv
    <2>2. \A f \in Entries : owner'[f] = IF f \notin taken THEN owner[f]
                                         ELSE IF f \in entries THEN c ELSE NoConsumer
      BY <1>1
    <2>3. /\ \A f : f \in Pending <=> f \in Entries /\ owner[f] # NoConsumer
          /\ \A f : f \in Pending' <=> f \in Entries /\ owner'[f] # NoConsumer
      BY DEF Pending
    <2> QED
      BY <2>1, <2>2, <2>3
  <1>4. Fresh' = Fresh
    BY <1>2 DEF Fresh
  <1>5. /\ \A d \in Consumers : d # c => batch'[d] = batch[d] /\ pc'[d] = pc[d]
        /\ \/ batch'[c] = batch[c] /\ pc'[c] = pc[c]
           \/ batch'[c] # <<>> /\ ToSet(batch'[c]) \subseteq taken /\ pc'[c] = "handle"
        /\ batch' \in [Consumers -> Seq(1..lastId)] /\ pc' \in [Consumers -> Phases]
    BY <1>1 DEF StreamTypes, Phases
  <1>6. StreamTypes'
    BY <1>1, <1>2, <1>5 DEF StreamTypes
  <1>7. PendingInv'
    <2>1. aged' \subseteq Pending'
      BY <1>1, <1>3 DEF PendingInv
    <2> QED
      BY <2>1, <1>1, <1>2, <1>3 DEF PendingInv
  <1>8. HandlerInv'
    BY <1>2, <1>5 DEF HandlerInv
  <1>9. taken \cap Fresh = {} /\ taken \subseteq everAged
    <2>1. \A f \in Pending : f \in Nat
      BY DEF Pending, Entries
    <2>2. \A f \in taken : group /\ f \in Nat /\ cursor \in Nat /\ f <= cursor
      BY <2>1 DEF PendingInv, StreamTypes
    <2>3. \A f \in taken : ~(group => f > cursor)
      BY <2>2
    <2> QED
      BY <2>3 DEF Fresh, PendingInv
  <1>10. FreshInv'
    BY <1>2, <1>4, <1>5, <1>9 DEF FreshInv
  <1>11. SharedInv'
    BY <1>2, <1>5, <1>9 DEF SharedInv
  <1>12. HandedOutIsKept'
    BY <1>2, <1>3 DEF HandedOutIsKept
  <1> QED
    BY <1>6, <1>7, <1>8, <1>10, <1>11, <1>12

\* An acknowledgement takes a handled entry off the pending list.
LEMMA AckKeeps == ASSUME StreamInv, NEW c \in Consumers, Ack(c) PROVE StreamInv'
  <1> USE DEF StreamInv
  <1> DEFINE e == Head(batch[c])
  <1>1. /\ batch[c] \in Seq(1..lastId) /\ batch[c] # <<>> /\ e \in handled
        /\ lastId \in Nat
    BY DEF Ack, HandlerInv, StreamTypes
  <1>2. /\ e \in ToSet(batch[c]) /\ e \in 1..lastId
        /\ Tail(batch[c]) \in Seq(1..lastId) /\ ToSet(Tail(batch[c])) \subseteq ToSet(batch[c])
    BY <1>1, BatchRest
  <1>3. /\ UNCHANGED <<entries, lastId, group, cursor, origin, handled, everAged>>
        /\ batch' = [batch EXCEPT ![c] = Tail(@)]
        /\ pc' = [pc EXCEPT ![c] = IF Tail(batch[c]) = <<>> THEN "loop" ELSE "handle"]
        /\ \/ /\ owner' = [owner EXCEPT ![e] = NoConsumer]
              /\ aged' = aged \ {e}
              /\ acked' = IF e \in Pending THEN acked \cup {e} ELSE acked
           \/ UNCHANGED <<owner, aged, acked>>
    BY DEF Ack
  <1> HIDE DEF e
  <1>4. e \in Entries
    BY <1>1, <1>2, RedisStreamAssumption DEF StreamTypes, Entries
  <1>5. /\ owner' \in [Entries -> Consumers \cup {NoConsumer}]
        /\ \/ Pending' = Pending \ {e} /\ aged' = aged \ {e} /\ acked' \subseteq acked \cup {e}
              /\ (e \notin Pending => acked' = acked)
           \/ UNCHANGED <<owner, aged, acked>> /\ Pending' = Pending
    BY <1>3, <1>4 DEF Pending, StreamTypes
  <1>6. batch' \in [Consumers -> Seq(1..lastId)] /\ pc' \in [Consumers -> Phases]
    BY <1>2, <1>3 DEF StreamTypes, Phases
  <1>7. /\ \A d \in Consumers : d # c => batch'[d] = batch[d] /\ pc'[d] = pc[d]
        /\ ToSet(batch'[c]) \subseteq ToSet(batch[c])
        /\ pc'[c] = "loop" \/ (pc'[c] = "handle" /\ batch'[c] # <<>>)
    BY <1>2, <1>3 DEF StreamTypes
  <1>8. StreamTypes'
    BY <1>3, <1>5, <1>6 DEF StreamTypes
  <1>9. PendingInv'
    BY <1>2, <1>3, <1>5 DEF PendingInv
  <1>10. HandlerInv'
    BY <1>3, <1>7 DEF HandlerInv
  <1>11. Fresh' = Fresh /\ e \notin Fresh
    BY <1>2, <1>3 DEF Fresh, FreshInv
  <1>12. FreshInv' /\ SharedInv'
    BY <1>3, <1>5, <1>7, <1>11 DEF FreshInv, SharedInv
  <1>13. HandedOutIsKept'
    BY <1>1, <1>3, <1>5 DEF HandedOutIsKept
  <1> QED
    BY <1>8, <1>9, <1>10, <1>12, <1>13

\* The steps that leave redis and the batches alone.
LEMMA QuietKeeps ==
  ASSUME StreamInv, NEW c \in Consumers,
         ReadFails(c) \/ ClaimFails(c) \/ HandlerAccepts(c) \/ HandlerFails(c)
         \/ EndContext(c) \/ Crash(c)
  PROVE  StreamInv'
  <1> USE DEF StreamInv
  <1>1. /\ UNCHANGED <<entries, lastId, group, cursor, owner, aged, origin, batch, acked, everAged>>
        /\ Pending' = Pending /\ Fresh' = Fresh /\ handled \subseteq handled'
    BY DEF ReadFails, ClaimFails, HandlerAccepts, HandlerFails, EndContext, Crash,
       serverVars, streamHist, Pending, Fresh
  <1>2. /\ pc' \in [Consumers -> Phases]
        /\ \A d \in Consumers :
              \/ pc'[d] = pc[d]
              \/ pc'[d] \in {"returned", "crashed"}
              \/ pc[d] = "handle" /\ pc'[d] = "ack" /\ Head(batch[d]) \in handled'
    BY DEF StreamTypes, Phases, ReadFails, ClaimFails, HandlerAccepts, HandlerFails, EndContext, Crash
  <1>3. StreamTypes'
    BY <1>1, <1>2 DEF StreamTypes
  <1>4. HandlerInv'
    BY <1>1, <1>2 DEF HandlerInv
  <1> QED
    BY <1>1, <1>3, <1>4 DEF PendingInv, FreshInv, SharedInv, HandedOutIsKept

\* Every step of redis, of every consumer, and of time keeps the invariant.
LEMMA StreamStepKeeps == StreamInv /\ [StreamNext]_streamVars => StreamInv'
  <1> SUFFICES ASSUME StreamInv, [StreamNext]_streamVars PROVE StreamInv'
    OBVIOUS
  <1>1. CASE UNCHANGED streamVars
    BY <1>1 DEF streamVars, serverVars, clientVars, streamHist, StreamInv, StreamTypes, PendingInv,
       HandlerInv, FreshInv, Fresh, SharedInv, HandedOutIsKept, Pending
  <1> QED
    BY <1>1, PublishKeeps, DropKeeps, AgeKeeps, SubscribeKeeps, ReadKeeps, ClaimKeeps, AckKeeps,
       QuietKeeps DEF StreamNext, ConsumerStep

\* What the group of a session stream has handed out stays pending until a
\* handler accepted it, through crashes, failing handlers, lost replies,
\* trimming and deletion, and two handlers have a message at the same time
\* only after it had been idle for claimMinIdle; for any number of consumers
\* and messages.
THEOREM HandedOutStaysPending == StreamSpec => []PendingIsOwned
  <1>1. StreamInit => StreamInv
    BY StreamStart
  <1>2. StreamInv /\ [StreamNext]_streamVars => StreamInv'
    BY StreamStepKeeps
  <1>3. StreamInv => PendingIsOwned
    <2> SUFFICES ASSUME StreamInv PROVE OverlapOnlyWhenIdle
      BY DEF StreamInv, PendingIsOwned
    <2>1. ASSUME NEW c \in Consumers PROVE Handling(c) \subseteq ToSet(batch[c])
      <3>1. CASE pc[c] = "handle"
        <4>1. batch[c] \in Seq(1..lastId) /\ batch[c] # <<>>
          BY <3>1 DEF StreamInv, StreamTypes, HandlerInv
        <4> QED
          BY <4>1, BatchRest DEF Handling
      <3> QED
        BY <3>1 DEF Handling
    <2> QED
      BY <2>1 DEF StreamInv, SharedInv, OverlapOnlyWhenIdle
  <1> QED
    BY <1>1, <1>2, <1>3, PTL DEF StreamSpec

\* A message that was acknowledged is never handed to a consumer again: a read
\* takes fresh entries, a claim pending ones, and an acknowledged one is
\* neither, whatever Last-Event-ID a client resumes with.
THEOREM AcknowledgedIsFinal == StreamSpec => AckIsFinal
  <1> DEFINE Final == \A c \in Consumers : batch[c] = <<>> => ToSet(batch'[c]) \cap acked = {}
  <1>1. StreamInit => StreamInv
    BY StreamStart
  <1>2. StreamInv /\ [StreamNext]_streamVars => StreamInv'
    BY StreamStepKeeps
  <1>3. StreamInv /\ [StreamNext]_streamVars => [Final]_streamVars
    <2> SUFFICES ASSUME StreamInv, StreamNext, NEW c \in Consumers, batch[c] = <<>>
                 PROVE  ToSet(batch'[c]) \cap acked = {}
      BY DEF StreamInv
    <2> USE DEF StreamInv
    <2>1. CASE batch'[c] = batch[c]
      BY <2>1, SmallBatch
    <2>2. ASSUME NEW d \in Consumers, ReadGroup(d) PROVE ToSet(batch'[c]) \cap acked = {}
      <3>1. PICK e \in entries : e > cursor /\ Arrives(d, <<e>>, -1)
        BY <2>2 DEF ReadGroup
      <3>2. e \in Fresh
        BY <3>1 DEF Fresh
      <3>3. batch'[c] \in {<<>>, <<e>>}
        BY <3>1 DEF Arrives, StreamTypes
      <3> QED
        BY <3>2, <3>3, SmallBatch DEF FreshInv
    <2>3. ASSUME NEW d \in Consumers, Claim(d) PROVE ToSet(batch'[c]) \cap acked = {}
      <3>1. ToSet(batch'[c]) \subseteq aged \/ batch'[c] = batch[c]
        BY <2>3, ClaimFacts DEF StreamTypes
      <3> QED
        BY <3>1, <2>1 DEF PendingInv
    <2>4. ASSUME NEW d \in Consumers, Ack(d) PROVE batch'[c] = batch[c]
      BY <2>4 DEF Ack, HandlerInv, StreamTypes
    <2>5. ASSUME NEW d \in Consumers,
                 ReadFails(d) \/ ClaimFails(d) \/ HandlerAccepts(d) \/ HandlerFails(d)
                 \/ EndContext(d) \/ Crash(d) \/ \E last \in 0..lastId : SubscribeSession(d, last)
          PROVE  batch'[c] = batch[c]
      BY <2>5 DEF ReadFails, ClaimFails, HandlerAccepts, HandlerFails, EndContext, Crash,
         SubscribeSession
    <2>6. CASE PublishSession \/ DropStream \/ \E e \in Entries : Age(e)
      BY <2>6, <2>1 DEF PublishSession, DropStream, Age, clientVars
    <2> QED
      BY <2>1, <2>2, <2>3, <2>4, <2>5, <2>6 DEF StreamNext, ConsumerStep
  <1> QED
    BY <1>1, <1>2, <1>3, PTL DEF StreamSpec, AckIsFinal
=============================================================================
