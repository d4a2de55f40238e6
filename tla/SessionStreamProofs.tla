------------------------- MODULE SessionStreamProofs -------------------------
(***************************************************************************)
(* Proofs about SessionStream for any number of calls, publishers,         *)
(* deleters, messages and streams.  StreamInv is inductive; ClaimsExact    *)
(* and NoLostWakeup are conjuncts of it, and with it every step maps to a  *)
(* step of SessionQueue or a stutter.                                      *)
(***************************************************************************)
EXTENDS SessionStream, SequenceTheorems, TLAPS

\* The initial state satisfies the inductive invariant.
LEMMA InitInv == Init => StreamInv
  BY BoundsAssumption
  DEF Init, StreamInv, TypeOK, LocalsInv, ClaimsExact, NoLostWakeup, Streams,
      MsgIDs, None, Holders, Holding, Available

\* The stream getOrCreateStream returns, linked or new, is an allocated one.
LEMMA GetStream ==
  ASSUME TypeOK, NEW st \in Streams, getOrCreateStream(st)
  PROVE  /\ cur' \in Streams \cup {None}
         /\ allocated' \in 0..MaxStreams
  BY BoundsAssumption DEF TypeOK, getOrCreateStream, Streams, hostVars, None

\* A call that handles a message has a stream and holds a message of it.
LEMMA HoldersHold ==
  ASSUME TypeOK, LocalsInv, NEW c \in Calls, pc[c] \in Holding
  PROVE  /\ strm[c] \in Streams
         /\ claim[c] \in MsgIDs
         /\ claim[c] \in inflight[strm[c]]
         /\ claim[c] > cursor[c] /\ claim[c] <= len[strm[c]]
<1>1. strm[c] \in Streams
  BY DEF TypeOK, LocalsInv, Holding
<1>2. /\ claim[c] \in inflight[strm[c]]
      /\ claim[c] \in (cursor[c] + 1)..len[strm[c]]
  BY DEF LocalsInv
<1>3. claim[c] \in MsgIDs
  BY <1>1, <1>2 DEF TypeOK
<1> QED
  BY <1>1, <1>2, <1>3, BoundsAssumption DEF TypeOK, MsgIDs

\* Every step keeps the types.
LEMMA StepTypeOK ==
  ASSUME StreamInv, [Next]_vars
  PROVE  TypeOK'
<1> USE BoundsAssumption DEF StreamInv, TypeOK, hostVars, streamVars, callVars,
        pubVars, delVars, histVars
<1>1. ASSUME NEW p \in Publishers, PublishSession(p) PROVE TypeOK'
  BY <1>1, GetStream, SMTT(40) DEF PublishSession
<1>2. ASSUME NEW p \in Publishers, PublishAppend(p) PROVE TypeOK'
  BY <1>2 DEF PublishAppend, Signal, None
<1>3. ASSUME NEW c \in Calls, SubscribeSession(c) PROVE TypeOK'
  BY <1>3, GetStream DEF SubscribeSession
<1>4. ASSUME NEW c \in Calls, InitCursor(c) PROVE TypeOK'
  BY <1>4 DEF InitCursor, StartCursor, LocalsInv, None
<1>5. ASSUME NEW c \in Calls, Claim(c) PROVE TypeOK'
  <2>1. PICK m \in MsgIDs :
          /\ inflight' = [inflight EXCEPT ![strm[c]] = @ \cup {m}]
          /\ claim' = [claim EXCEPT ![c] = m]
    BY <1>5 DEF Claim, Available
  <2>2. inflight' \in [Streams -> SUBSET MsgIDs] /\ claim' \in [Calls -> MsgIDs \cup {None}]
    BY <2>1
  <2> QED
    BY <1>5, <2>2 DEF Claim
<1>6. ASSUME NEW c \in Calls, Wait(c) PROVE TypeOK'
  <2>1. waiters' \in [Streams -> SUBSET Calls]
    BY <1>6 DEF Wait
  <2>2. /\ pc' = [pc EXCEPT ![c] = "waiting"]
        /\ signaled' = [signaled EXCEPT ![c] = FALSE]
    BY <1>6 DEF Wait
  <2> QED
    BY <1>6, <2>1, <2>2 DEF Wait
<1>7. ASSUME NEW c \in Calls, Wake(c) \/ Return(c) \/ Cancel(c) \/ HandlerFails(c)
      PROVE  TypeOK'
  <2>1. CASE Wake(c)
    BY <2>1 DEF Wake
  <2>2. CASE Return(c)
    BY <2>2 DEF Return
  <2>3. CASE HandlerFails(c)
    BY <2>3 DEF HandlerFails
  <2>4. CASE Cancel(c)
    BY <2>4 DEF Cancel
  <2> QED
    BY <1>7, <2>1, <2>2, <2>3, <2>4
<1>8. ASSUME NEW c \in Calls, HandlerAccepts(c) PROVE TypeOK'
  <2>1. claim[c] \in MsgIDs
    BY <1>8, HoldersHold DEF HandlerAccepts, Holders, Holding
  <2>2. received' \in [Calls -> Seq(MsgIDs)]
    BY <1>8, <2>1 DEF HandlerAccepts
  <2> QED
    BY <1>8, <2>2 DEF HandlerAccepts
<1>9. ASSUME NEW c \in Calls, Ack(c) PROVE TypeOK'
  <2>1. claim[c] \in MsgIDs
    BY <1>9, HoldersHold DEF Ack, Holding
  <2>2. claim[c] \in 0..MaxMessages
    BY <2>1 DEF MsgIDs
  <2> QED
    BY <1>9, <2>1, <2>2 DEF Ack
<1>10. ASSUME NEW c \in Calls, Release(c) PROVE TypeOK'
  <2>1. claim[c] \in MsgIDs
    BY <1>10, HoldersHold DEF Release, Holding
  <2> QED
    BY <1>10, <2>1 DEF Release
<1>11. ASSUME NEW d \in Deleters, DeleteSession(d) PROVE TypeOK'
  BY <1>11 DEF DeleteSession
<1>12. ASSUME NEW d \in Deleters, DeleteClose(d) PROVE TypeOK'
  <2>1. dstrm[d] \in Streams
    BY <1>12 DEF DeleteClose, LocalsInv
  <2> QED
    BY <1>12, <2>1 DEF DeleteClose
<1>13. ASSUME NEW d \in Deleters, DeleteSignal(d) \/ DeleteReturn(d) PROVE TypeOK'
  <2>1. CASE DeleteSignal(d)
    <3>1. signaled' \in [Calls -> BOOLEAN]
      BY <2>1 DEF DeleteSignal, Signal
    <3>2. snap' \in [Deleters -> SUBSET Calls]
      BY <2>1 DEF DeleteSignal
    <3> QED
      BY <2>1, <3>1, <3>2 DEF DeleteSignal
  <2>2. CASE DeleteReturn(d)
    BY <2>2 DEF DeleteReturn, None
  <2> QED
    BY <1>13, <2>1, <2>2
<1>14. CASE UNCHANGED vars
  BY <1>14 DEF vars
<1> QED
  BY <1>1, <1>2, <1>3, <1>4, <1>5, <1>6, <1>7, <1>8, <1>9, <1>10, <1>11, <1>12,
     <1>13, <1>14
  DEF Next, CallStep, DeleteStep

\* The clauses of LocalsInv, for one call and for one deleter.
CallInv(c) ==
    /\ pc[c] = "idle" <=> strm[c] = None
    /\ pc[c] \in {"idle", "start"} => cursor[c] = 0 /\ received[c] = <<>>
    /\ IF pc[c] \in Holding
         THEN /\ claim[c] \in inflight[strm[c]]
              /\ claim[c] \in (cursor[c] + 1)..len[strm[c]]
         ELSE claim[c] = None

DelInv(d) == /\ dpc[d] = "idle" <=> dstrm[d] = None
             /\ dpc[d] # "signal" => snap[d] = {}

\* Every step keeps the facts about a deleter.
LEMMA StepDeleter ==
  ASSUME TypeOK, [Next]_vars, NEW e \in Deleters, DelInv(e)
  PROVE  DelInv(e)'
<1>1. UNCHANGED delVars => DelInv(e)'
  BY DEF delVars, DelInv
<1>2. ASSUME NEW d \in Deleters, DeleteSession(d) PROVE DelInv(e)'
  BY <1>2 DEF DeleteSession, DelInv, TypeOK
<1>3. ASSUME NEW d \in Deleters, DeleteClose(d) PROVE DelInv(e)'
  BY <1>3 DEF DeleteClose, DelInv, TypeOK
<1>4. ASSUME NEW d \in Deleters, DeleteSignal(d) PROVE DelInv(e)'
  BY <1>4 DEF DeleteSignal, DelInv, TypeOK
<1>5. ASSUME NEW d \in Deleters, DeleteReturn(d) PROVE DelInv(e)'
  BY <1>5 DEF DeleteReturn, DelInv, TypeOK
<1> QED
  BY <1>1, <1>2, <1>3, <1>4, <1>5
  DEF Next, vars, CallStep, DeleteStep, PublishSession, PublishAppend,
      SubscribeSession, InitCursor, Claim, Wait, Wake, Return, Ack, Release,
      HandlerAccepts, HandlerFails, Cancel

\* Every step keeps the facts about a call: only the call itself changes its
\* own locals, and no other call takes a message it holds out of flight.
LEMMA StepCall ==
  ASSUME StreamInv, [Next]_vars, NEW e \in Calls
  PROVE  CallInv(e)'
<1> USE DEF StreamInv, TypeOK
<1>0. CallInv(e)
  BY DEF LocalsInv, CallInv
<1>1. CASE UNCHANGED <<callVars, inflight, len, received>>
  BY <1>0, <1>1 DEF CallInv, callVars
<1>2. ASSUME NEW p \in Publishers, PublishAppend(p) PROVE CallInv(e)'
  <2>1. pc[e] \in Holding => len[strm[e]] <= len'[strm[e]]
    BY <1>2, HoldersHold DEF PublishAppend, None
  <2> QED
    BY <1>0, <1>2, <2>1, HoldersHold DEF PublishAppend, CallInv, callVars, histVars
<1>3. ASSUME NEW c \in Calls, SubscribeSession(c) PROVE CallInv(e)'
  BY <1>0, <1>3, SMTT(30) DEF SubscribeSession, CallInv, streamVars, histVars, Holding,
     Streams, None
<1>4. ASSUME NEW c \in Calls, InitCursor(c) PROVE CallInv(e)'
  BY <1>0, <1>4 DEF InitCursor, CallInv, streamVars, Holding
<1>5. ASSUME NEW c \in Calls, Claim(c) PROVE CallInv(e)'
  <2>1. PICK m \in Available(strm[c], cursor[c]) :
          /\ inflight' = [inflight EXCEPT ![strm[c]] = @ \cup {m}]
          /\ claim' = [claim EXCEPT ![c] = m]
    BY <1>5 DEF Claim
  <2>2. m \in MsgIDs /\ m > cursor[c] /\ m <= len[strm[c]]
    BY <2>1 DEF Available
  <2>3. strm[c] \in Streams
    BY <1>5 DEF Claim, LocalsInv
  <2>4. CASE e = c
    <3>1. m \in (cursor[c] + 1)..len[strm[c]]
      BY <2>2, <2>3, BoundsAssumption DEF MsgIDs
    <3> QED
      BY <1>0, <1>5, <2>1, <2>3, <2>4, <3>1 DEF Claim, CallInv, Holding, histVars
  <2>5. CASE e # c
    BY <1>0, <1>5, <2>1, <2>3, <2>5 DEF Claim, CallInv, histVars
  <2> QED
    BY <2>4, <2>5
<1>6. ASSUME NEW c \in Calls, Wait(c) \/ Wake(c) PROVE CallInv(e)'
  BY <1>0, <1>6, SMTT(30) DEF Wait, Wake, CallInv, streamVars, histVars, Holding
<1>7. ASSUME NEW c \in Calls, Return(c) PROVE CallInv(e)'
  BY <1>0, <1>7 DEF Return, CallInv, streamVars, histVars, Holding
<1>8. ASSUME NEW c \in Calls, HandlerAccepts(c) PROVE CallInv(e)'
  BY <1>0, <1>8 DEF HandlerAccepts, CallInv, streamVars, Holding
<1>9. ASSUME NEW c \in Calls, HandlerFails(c) PROVE CallInv(e)'
  BY <1>0, <1>9 DEF HandlerFails, CallInv, streamVars, histVars, Holding
<1>10. ASSUME NEW c \in Calls, Ack(c) \/ Release(c) PROVE CallInv(e)'
  <2>1. e # c /\ pc[e] \in Holding /\ strm[e] = strm[c] => claim[e] # claim[c]
    BY <1>10, HoldersHold DEF Ack, Release, Holding, Holders, ClaimsExact
  <2>2. CASE e # c
    <3>1. pc[e] \in Holding => claim[e] \in inflight'[strm[e]]
      <4>1. inflight' = [inflight EXCEPT ![strm[c]] = @ \ {claim[c]}]
        BY <1>10 DEF Ack, Release
      <4>2. pc[e] \in Holding => strm[e] \in Streams /\ claim[e] \in inflight[strm[e]]
        BY HoldersHold, <1>0 DEF CallInv
      <4> QED
        BY <2>1, <2>2, <4>1, <4>2
    <3> QED
      BY <1>0, <1>10, <2>2, <3>1 DEF Ack, Release, CallInv, histVars
  <2>3. CASE e = c
    BY <1>0, <1>10, <2>3 DEF Ack, Release, CallInv, histVars, Holding
  <2> QED
    BY <2>2, <2>3
<1>11. ASSUME NEW c \in Calls, Cancel(c) PROVE CallInv(e)'
  BY <1>0, <1>11 DEF Cancel, CallInv, streamVars, histVars
<1> QED
  BY <1>1, <1>2, <1>3, <1>4, <1>5, <1>6, <1>7, <1>8, <1>9, <1>10, <1>11
  DEF Next, vars, CallStep, DeleteStep, PublishSession, DeleteSession,
      DeleteClose, DeleteSignal, DeleteReturn, streamVars, histVars

\* A step of one action keeps the facts about every call and every deleter.
LEMMA StepLocals ==
  ASSUME StreamInv, [Next]_vars
  PROVE  LocalsInv'
<1>1. LocalsInv <=> (\A c \in Calls : CallInv(c)) /\ (\A d \in Deleters : DelInv(d))
  BY DEF LocalsInv, CallInv, DelInv
<1>2. LocalsInv' <=> (\A c \in Calls : CallInv(c)') /\ (\A d \in Deleters : DelInv(d)')
  BY DEF LocalsInv, CallInv, DelInv
<1> QED
  BY <1>1, <1>2, StepCall, StepDeleter DEF StreamInv
\* Every step keeps inflight equal to what the running handlers hold.
LEMMA StepClaims ==
  ASSUME StreamInv, [Next]_vars
  PROVE  ClaimsExact'
<1> USE DEF StreamInv
<1>1. ASSUME UNCHANGED <<inflight, delivered, claim>>,
             \A c \in Calls : pc'[c] \in Holding => pc[c] \in Holding,
             \A c \in Calls :
                pc[c] \in Holding => pc'[c] \in Holding /\ strm'[c] = strm[c]
      PROVE  ClaimsExact'
  <2>1. ASSUME NEW st \in Streams, NEW c \in Calls
        PROVE  (strm'[c] = st /\ pc'[c] \in Holding) <=> (strm[c] = st /\ pc[c] \in Holding)
    BY <1>1
  <2>2. \A st \in Streams : Holders(st)' = Holders(st)
    BY <2>1, Zenon DEF Holders
  <2> QED
    BY <1>1, <2>2 DEF ClaimsExact
<1>2. ASSUME NEW c \in Calls, Claim(c) PROVE ClaimsExact'
  <2>0. PICK s \in Streams : s = strm[c]
    BY <1>2 DEF Claim, LocalsInv, TypeOK
  <2>1. pc[c] \notin Holding
    BY <1>2 DEF Claim, Holding
  <2>2. PICK m \in Available(s, cursor[c]) :
          /\ inflight' = [inflight EXCEPT ![s] = @ \cup {m}]
          /\ claim' = [claim EXCEPT ![c] = m]
    BY <1>2, <2>0 DEF Claim
  <2>3. /\ Holders(s)' = Holders(s) \cup {c}
        /\ \A st \in Streams \ {s} : Holders(st)' = Holders(st)
    BY <1>2, <2>0, <2>1 DEF Claim, Holders, Holding, TypeOK
  <2>4. m \notin delivered[s] /\ m \notin inflight[s]
    BY DEF Available
  <2>5. SUFFICES ASSUME NEW st \in Streams
        PROVE  /\ inflight'[st] = {claim'[x] : x \in Holders(st)'}
               /\ \A x, y \in Holders(st)' : claim'[x] = claim'[y] => x = y
               /\ inflight'[st] \cap delivered'[st] = {}
    BY DEF ClaimsExact
  <2>6. /\ inflight[st] = {claim[x] : x \in Holders(st)}
        /\ \A x, y \in Holders(st) : claim[x] = claim[y] => x = y
        /\ inflight[st] \cap delivered[st] = {}
    BY DEF ClaimsExact
  <2>7. c \notin Holders(st) /\ \A x \in Holders(st) : x \in Calls /\ x # c
    BY <2>1 DEF Holders
  <2>8. /\ \A x \in Holders(st) : claim'[x] = claim[x]
        /\ claim'[c] = m
    BY <2>2, <2>7 DEF TypeOK
  <2>9. delivered' = delivered
    BY <1>2 DEF Claim
  <2>10. CASE st = s
    <3>1. inflight'[s] = inflight[s] \cup {m}
      BY <2>1, <2>2 DEF TypeOK
    <3>2. inflight'[s] \subseteq {claim'[x] : x \in Holders(s)'}
      BY <2>3, <2>6, <2>8, <2>10, <3>1
    <3>3. {claim'[x] : x \in Holders(s)'} \subseteq inflight'[s]
      BY <2>3, <2>6, <2>8, <2>10, <3>1
    <3>4. \A x, y \in Holders(s)' : claim'[x] = claim'[y] => x = y
      <4>1. \A x \in Holders(s) : claim'[x] # m
        BY <2>4, <2>6, <2>8, <2>10
      <4> QED
        BY <2>3, <2>6, <2>8, <2>10, <4>1
    <3>5. inflight'[s] \cap delivered'[s] = {}
      BY <2>4, <2>6, <2>9, <2>10, <3>1
    <3>6. inflight'[s] = {claim'[x] : x \in Holders(s)'}
      BY <3>2, <3>3, Zenon
    <3> QED
      BY <2>10, <3>4, <3>5, <3>6
  <2>11. CASE st # s
    <3>1. inflight'[st] = inflight[st]
      BY <2>2, <2>11 DEF TypeOK
    <3>2. Holders(st)' = Holders(st)
      BY <2>3, <2>11
    <3> QED
      BY <2>6, <2>8, <2>9, <3>1, <3>2
  <2> QED
    BY <2>10, <2>11
<1>3. ASSUME NEW c \in Calls, Ack(c) \/ Release(c) PROVE ClaimsExact'
  <2>1. pc[c] \in Holding
    BY <1>3 DEF Ack, Release, Holding
  <2>2. PICK s \in Streams : s = strm[c]
    BY <2>1, HoldersHold
  <2>3. /\ c \in Holders(s)
        /\ Holders(s)' = Holders(s) \ {c}
        /\ \A st \in Streams \ {s} : Holders(st)' = Holders(st) /\ c \notin Holders(st)
    <3>1. /\ pc' \in {[pc EXCEPT ![c] = "loop"], [pc EXCEPT ![c] = "returned"]}
          /\ strm' = strm
      BY <1>3 DEF Ack, Release
    <3>2. \A x \in Calls : IF x = c THEN pc'[x] \notin Holding ELSE pc'[x] = pc[x]
      BY <3>1 DEF Holding, TypeOK
    <3> QED
      BY <2>1, <2>2, <3>1, <3>2 DEF Holders
  <2>4. /\ inflight' = [inflight EXCEPT ![s] = @ \ {claim[c]}]
        /\ claim' = [claim EXCEPT ![c] = None]
        /\ delivered' \in {delivered, [delivered EXCEPT ![s] = @ \cup {claim[c]}]}
    BY <1>3, <2>2 DEF Ack, Release
  <2>5. SUFFICES ASSUME NEW st \in Streams
        PROVE  /\ inflight'[st] = {claim'[x] : x \in Holders(st)'}
               /\ \A x, y \in Holders(st)' : claim'[x] = claim'[y] => x = y
               /\ inflight'[st] \cap delivered'[st] = {}
    BY DEF ClaimsExact
  <2>6. /\ inflight[st] = {claim[x] : x \in Holders(st)}
        /\ \A x, y \in Holders(st) : claim[x] = claim[y] => x = y
        /\ inflight[st] \cap delivered[st] = {}
    BY DEF ClaimsExact
  <2>7. \A x \in Holders(st) \ {c} : claim'[x] = claim[x]
    BY <2>4 DEF TypeOK, Holders
  <2>8. CASE st = s
    <3>1. inflight'[s] = inflight[s] \ {claim[c]}
      BY <2>2, <2>4 DEF TypeOK
    <3>2. delivered'[s] \subseteq delivered[s] \cup {claim[c]}
      BY <2>2, <2>4 DEF TypeOK
    <3>3. inflight'[s] \subseteq {claim'[x] : x \in Holders(s)'}
      BY <2>3, <2>6, <2>7, <2>8, <3>1
    <3>4. {claim'[x] : x \in Holders(s)'} \subseteq inflight'[s]
      BY <2>3, <2>6, <2>7, <2>8, <3>1
    <3>5. \A x, y \in Holders(s)' : claim'[x] = claim'[y] => x = y
      BY <2>3, <2>6, <2>7, <2>8
    <3>6. inflight'[s] \cap delivered'[s] = {}
      BY <2>6, <2>8, <3>1, <3>2
    <3>7. inflight'[s] = {claim'[x] : x \in Holders(s)'}
      BY <3>3, <3>4, Zenon
    <3> QED
      BY <2>8, <3>5, <3>6, <3>7
  <2>9. CASE st # s
    <3>1. inflight'[st] = inflight[st] /\ delivered'[st] = delivered[st]
      BY <2>4, <2>9 DEF TypeOK
    <3> QED
      BY <2>3, <2>6, <2>7, <2>9, <3>1
  <2> QED
    BY <2>8, <2>9
<1>4. ASSUME NEW c \in Calls,
             SubscribeSession(c) \/ InitCursor(c) \/ Wait(c) \/ Wake(c) \/ Return(c)
      PROVE  ClaimsExact'
  <2>1. CASE SubscribeSession(c)
    BY <1>1, <2>1 DEF SubscribeSession, streamVars, Holding, TypeOK
  <2>2. CASE InitCursor(c)
    BY <1>1, <2>2 DEF InitCursor, streamVars, Holding, TypeOK
  <2>3. CASE Wait(c)
    BY <1>1, <2>3 DEF Wait, streamVars, Holding, TypeOK
  <2>4. CASE Wake(c)
    BY <1>1, <2>4 DEF Wake, streamVars, Holding, TypeOK
  <2>5. CASE Return(c)
    BY <1>1, <2>5 DEF Return, streamVars, Holding, TypeOK
  <2> QED
    BY <1>4, <2>1, <2>2, <2>3, <2>4, <2>5
<1>5. ASSUME NEW c \in Calls, HandlerAccepts(c) \/ HandlerFails(c) \/ Cancel(c)
      PROVE  ClaimsExact'
  BY <1>1, <1>5 DEF HandlerAccepts, HandlerFails, Cancel, streamVars, Holding, TypeOK
<1>6. CASE UNCHANGED <<callVars, inflight, delivered>>
  BY <1>1, <1>6 DEF callVars
<1> QED
  BY <1>2, <1>3, <1>4, <1>5, <1>6
  DEF Next, vars, CallStep, DeleteStep, PublishSession, PublishAppend,
      DeleteSession, DeleteClose, DeleteSignal, DeleteReturn, streamVars
\* The two ways in which a blocked call without a signal is safe.
Registered(c) == /\ c \in waiters[strm[c]]
                 /\ ~closed[strm[c]]
                 /\ Available(strm[c], cursor[c]) \subseteq released[strm[c]]

AboutToBeSignaled(c) == \E d \in Deleters : c \in snap[d]

\* Every step keeps every blocked call registered, signaled or about to be.
LEMMA StepWakeup ==
  ASSUME StreamInv, [Next]_vars, NEW e \in Calls,
         (pc[e] = "waiting")', ~(signaled[e])'
  PROVE  Registered(e)' \/ AboutToBeSignaled(e)'
<1> USE DEF StreamInv
<1>1. ASSUME pc[e] = "waiting", ~signaled[e]
      PROVE  Registered(e) \/ AboutToBeSignaled(e)
  BY <1>1 DEF NoLostWakeup, Registered, AboutToBeSignaled
<1>2. pc[e] = "waiting" => strm[e] \in Streams
  BY DEF LocalsInv, TypeOK
<1>3. ASSUME pc[e] = "waiting", ~signaled[e],
             UNCHANGED <<len, closed, delivered, waiters, released, snap>>,
             strm'[e] = strm[e], cursor'[e] = cursor[e],
             \A st \in Streams : inflight[st] \subseteq inflight'[st]
      PROVE  Registered(e)' \/ AboutToBeSignaled(e)'
  <2>1. CASE AboutToBeSignaled(e)
    BY <1>3, <2>1 DEF AboutToBeSignaled
  <2>2. CASE Registered(e)
    BY <1>2, <1>3, <2>2 DEF Registered, Available
  <2> QED
    BY <1>1, <1>3, <2>1, <2>2
<1>4. ASSUME NEW p \in Publishers, PublishSession(p) \/ PublishAppend(p)
      PROVE  Registered(e)' \/ AboutToBeSignaled(e)'
  <2>1. CASE PublishSession(p)
    BY <1>3, <2>1 DEF PublishSession, streamVars, callVars, delVars, histVars
  <2>2. CASE PublishAppend(p)
    <3>1. /\ pc[e] = "waiting" /\ ~signaled[e]
          /\ e \notin waiters[pstrm[p]]
          /\ pstrm[p] \in Streams
      BY <2>2 DEF PublishAppend, Signal, TypeOK, callVars, None
    <3>2. CASE AboutToBeSignaled(e)
      BY <2>2, <3>2 DEF PublishAppend, AboutToBeSignaled, delVars
    <3>3. CASE Registered(e)
      <4>1. strm[e] # pstrm[p]
        BY <3>1, <3>3 DEF Registered
      <4> QED
        BY <1>2, <2>2, <3>1, <3>3, <4>1
        DEF PublishAppend, Registered, Available, callVars, histVars, TypeOK
    <3> QED
      BY <1>1, <3>1, <3>2, <3>3
  <2> QED
    BY <1>4, <2>1, <2>2
<1>5. ASSUME NEW c \in Calls, SubscribeSession(c) \/ InitCursor(c)
      PROVE  Registered(e)' \/ AboutToBeSignaled(e)'
  BY <1>3, <1>5
  DEF SubscribeSession, InitCursor, streamVars, delVars, histVars, TypeOK
<1>6. ASSUME NEW c \in Calls, Claim(c)
      PROVE  Registered(e)' \/ AboutToBeSignaled(e)'
  <2>1. pc[e] = "waiting"
    BY <1>6 DEF Claim, TypeOK
  <2>2. \A st \in Streams : inflight[st] \subseteq inflight'[st]
    BY <1>6 DEF Claim, TypeOK
  <2> QED
    BY <1>3, <1>6, <2>1, <2>2 DEF Claim, delVars, histVars
<1>7. ASSUME NEW c \in Calls, Wait(c)
      PROVE  Registered(e)' \/ AboutToBeSignaled(e)'
  <2>1. strm[c] \in Streams
    BY <1>7 DEF Wait, LocalsInv, TypeOK
  <2>2. CASE e = c
    BY <1>7, <2>1, <2>2 DEF Wait, Registered, Available, TypeOK, histVars
  <2>3. CASE e # c
    <3>1. pc[e] = "waiting" /\ ~signaled[e]
      BY <1>7, <2>3 DEF Wait, TypeOK
    <3>2. CASE AboutToBeSignaled(e)
      BY <1>7, <3>2 DEF Wait, AboutToBeSignaled, delVars
    <3>3. CASE Registered(e)
      BY <1>2, <1>7, <2>1, <3>1, <3>3
      DEF Wait, Registered, Available, TypeOK, histVars
    <3> QED
      BY <1>1, <3>1, <3>2, <3>3
  <2> QED
    BY <2>2, <2>3
<1>8. ASSUME NEW c \in Calls, Wake(c) \/ Return(c)
      PROVE  Registered(e)' \/ AboutToBeSignaled(e)'
  BY <1>3, <1>8 DEF Wake, Return, streamVars, delVars, histVars, TypeOK
<1>9. ASSUME NEW c \in Calls, HandlerAccepts(c) \/ HandlerFails(c) \/ Cancel(c)
      PROVE  Registered(e)' \/ AboutToBeSignaled(e)'
  BY <1>3, <1>9
  DEF HandlerAccepts, HandlerFails, Cancel, streamVars, delVars, histVars, TypeOK
<1>10. ASSUME NEW c \in Calls, Ack(c) \/ Release(c)
       PROVE  Registered(e)' \/ AboutToBeSignaled(e)'
  <2>1. pc[e] = "waiting" /\ ~signaled[e] /\ e # c
    BY <1>10 DEF Ack, Release, TypeOK
  <2>2. strm[c] \in Streams
    BY <1>10, HoldersHold DEF Ack, Release, Holding
  <2>3. CASE AboutToBeSignaled(e)
    BY <1>10, <2>3 DEF Ack, Release, AboutToBeSignaled, delVars
  <2>4. CASE Registered(e)
    <3>1. CASE Ack(c)
      BY <1>2, <2>1, <2>2, <2>4, <3>1
      DEF Ack, Registered, Available, TypeOK, histVars
    <3>2. CASE Release(c)
      BY <1>2, <2>1, <2>2, <2>4, <3>2 DEF Release, Registered, Available, TypeOK
    <3> QED
      BY <1>10, <3>1, <3>2
  <2> QED
    BY <1>1, <2>1, <2>3, <2>4
<1>11. ASSUME NEW d \in Deleters, DeleteSession(d) \/ DeleteReturn(d)
       PROVE  Registered(e)' \/ AboutToBeSignaled(e)'
  BY <1>3, <1>11 DEF DeleteSession, DeleteReturn, streamVars, callVars, histVars
<1>12. ASSUME NEW d \in Deleters, DeleteClose(d)
       PROVE  Registered(e)' \/ AboutToBeSignaled(e)'
  <2>1. pc[e] = "waiting" /\ ~signaled[e]
    BY <1>12 DEF DeleteClose, callVars
  <2>2. snap[d] = {} /\ dstrm[d] \in Streams
    BY <1>12 DEF DeleteClose, LocalsInv, TypeOK
  <2>3. CASE AboutToBeSignaled(e)
    BY <1>12, <2>2, <2>3 DEF DeleteClose, AboutToBeSignaled, TypeOK
  <2>4. CASE Registered(e) /\ strm[e] = dstrm[d]
    BY <1>12, <2>4 DEF DeleteClose, AboutToBeSignaled, Registered, TypeOK
  <2>5. CASE Registered(e) /\ strm[e] # dstrm[d]
    BY <1>2, <1>12, <2>1, <2>5
    DEF DeleteClose, Registered, Available, TypeOK, callVars, histVars
  <2> QED
    BY <1>1, <2>1, <2>3, <2>4, <2>5
<1>13. ASSUME NEW d \in Deleters, DeleteSignal(d)
       PROVE  Registered(e)' \/ AboutToBeSignaled(e)'
  <2>1. pc[e] = "waiting" /\ ~signaled[e]
    BY <1>13 DEF DeleteSignal, callVars, Signal
  <2>2. CASE AboutToBeSignaled(e)
    BY <1>13, <2>2 DEF DeleteSignal, AboutToBeSignaled, Signal, TypeOK
  <2>3. CASE Registered(e)
    BY <1>13, <2>3
    DEF DeleteSignal, Registered, Available, streamVars, callVars, histVars
  <2> QED
    BY <1>1, <2>1, <2>2, <2>3
<1>14. CASE UNCHANGED vars
  BY <1>3, <1>14 DEF vars, streamVars, callVars, delVars, histVars
<1> QED
  BY <1>4, <1>5, <1>6, <1>7, <1>8, <1>9, <1>10, <1>11, <1>12, <1>13, <1>14
  DEF Next, CallStep, DeleteStep
\* StreamInv is an invariant of every behaviour of the stream.
THEOREM StreamInvariant == Spec => []StreamInv
<1>1. StreamInv /\ [Next]_vars => StreamInv'
  <2> SUFFICES ASSUME StreamInv, [Next]_vars PROVE StreamInv'
    OBVIOUS
  <2>1. NoLostWakeup'
    BY StepWakeup DEF NoLostWakeup, Registered, AboutToBeSignaled
  <2> QED
    BY <2>1, StepTypeOK, StepLocals, StepClaims DEF StreamInv
<1> QED
  BY <1>1, InitInv, PTL DEF Spec

\* Type correctness of the host's stream state.
THEOREM TypeCorrect == Spec => []TypeOK
  BY StreamInvariant, PTL DEF StreamInv

\* However many SubscribeSession calls compete, inflight is exactly what
\* their handlers hold, and no two of them hold one message.
THEOREM ClaimsAreExact == Spec => []ClaimsExact
  BY StreamInvariant, PTL DEF StreamInv

\* No publish and no delete loses the wakeup of a blocked subscriber.
THEOREM NoWakeupIsLost == Spec => []NoLostWakeup
  BY StreamInvariant, PTL DEF StreamInv

\* Every step of the host is a step of the abstract queue or a stutter.
LEMMA StepQueue ==
  ASSUME StreamInv, [Next]_vars
  PROVE  [Queue!Next]_Queue!vars
<1> USE DEF StreamInv
<1>1. CASE UNCHANGED <<len, delivered, strm, claim, cursor>>
  BY <1>1 DEF Queue!vars
<1>2. ASSUME NEW p \in Publishers, PublishAppend(p) PROVE Queue!Next
  <2>1. Queue!Publish(pstrm[p])
    BY <1>2 DEF PublishAppend, Queue!Publish, callVars
  <2> QED
    BY <1>2, <2>1 DEF Queue!Next, PublishAppend, TypeOK, None
<1>3. ASSUME NEW c \in Calls, SubscribeSession(c) PROVE Queue!Next
  <2>1. Queue!Open(c)
    BY <1>3 DEF SubscribeSession, Queue!Open, Queue!Nothing, LocalsInv, None,
       streamVars
  <2> QED
    BY <2>1 DEF Queue!Next
<1>4. ASSUME NEW c \in Calls, InitCursor(c) PROVE Queue!Next
  <2>1. strm[c] \in Streams /\ strm[c] # None /\ claim[c] = None /\ cursor[c] = 0
    BY <1>4 DEF InitCursor, LocalsInv, TypeOK, Holding
  <2>2. StartCursor(strm[c], lastID[c]) \in 0..len[strm[c]]
    BY <2>1, BoundsAssumption DEF StartCursor, TypeOK
  <2>3. Queue!Seek(c)
    BY <1>4, <2>1, <2>2 DEF InitCursor, Queue!Seek, Queue!Nothing, None, streamVars
  <2> QED
    BY <2>3 DEF Queue!Next
<1>5. ASSUME NEW c \in Calls, Claim(c) PROVE Queue!Next
  <2>1. strm[c] \in Streams /\ strm[c] # None /\ claim[c] = None
    BY <1>5 DEF Claim, LocalsInv, TypeOK, Holding
  <2>2. PICK m \in Available(strm[c], cursor[c]) :
          claim' = [claim EXCEPT ![c] = m]
    BY <1>5 DEF Claim
  <2>3. /\ m \in 1..len[strm[c]] /\ m > cursor[c] /\ m # None
        /\ m \notin delivered[strm[c]] /\ m \notin inflight[strm[c]]
    BY <2>1, <2>2, BoundsAssumption DEF Available, TypeOK, MsgIDs, None
  <2>4. ASSUME NEW d \in Calls, strm[d] = strm[c] PROVE claim[d] # m
    <3>1. CASE pc[d] \in Holding
      BY <2>3, <2>4, <3>1, HoldersHold
    <3>2. CASE pc[d] \notin Holding
      BY <2>3, <3>2 DEF LocalsInv
    <3> QED
      BY <3>1, <3>2
  <2>5. Queue!Take(c)
    BY <1>5, <2>1, <2>2, <2>3, <2>4
    DEF Claim, Queue!Take, Queue!Nothing, None
  <2> QED
    BY <2>5 DEF Queue!Next
<1>6. ASSUME NEW c \in Calls, Ack(c) PROVE Queue!Next
  <2>1. claim[c] # None
    BY <1>6, HoldersHold DEF Ack, Holding, MsgIDs, None
  <2>2. Queue!Finish(c)
    BY <1>6, <2>1 DEF Ack, Queue!Finish, Queue!Nothing, None
  <2> QED
    BY <2>2 DEF Queue!Next
<1>7. ASSUME NEW c \in Calls, Release(c) PROVE Queue!Next
  <2>1. claim[c] # None
    BY <1>7, HoldersHold DEF Release, Holding, MsgIDs, None
  <2>2. Queue!GiveBack(c)
    BY <1>7, <2>1 DEF Release, Queue!GiveBack, Queue!Nothing, None
  <2> QED
    BY <2>2 DEF Queue!Next
<1> QED
  BY <1>1, <1>2, <1>3, <1>4, <1>5, <1>6, <1>7
  DEF Next, vars, CallStep, DeleteStep, PublishSession, Wait, Wake, Return,
      HandlerAccepts, HandlerFails, Cancel, DeleteSession, DeleteClose,
      DeleteSignal, DeleteReturn, streamVars, callVars

\* The in-memory host's streams implement the log with competing consumers
\* that sessions/host.go promises.
THEOREM HostImplementsQueue == Spec => ImplementsQueue
<1>1. Init => Queue!Init
  BY DEF Init, Queue!Init, Queue!Nothing, None
<1>2. StreamInv /\ [Next]_vars => [Queue!Next]_Queue!vars
  BY StepQueue
<1> QED
  BY <1>1, <1>2, StreamInvariant, PTL DEF Spec, ImplementsQueue, Queue!Spec
-----------------------------------------------------------------------------
\* What a call has received: everything beyond the position it started from,
\* in order, and all of it acknowledged but for the message whose handler has
\* just accepted it.
AfterStart(c, m) == m >= lenAtStart[c] \/ (lastID[c] # 0 /\ m >= lastID[c])

CallReceipts(c) ==
    LET n == Len(received[c]) IN
    /\ pc[c] \notin {"idle", "start"} => AfterStart(c, cursor[c])
    /\ pc[c] = "ack" => n > 0 /\ received[c][n] = claim[c]
    /\ \A i \in 1..n :
          /\ \A j \in 1..(i - 1) : received[c][j] < received[c][i]
          /\ AfterStart(c, received[c][i] - 1)
          /\ ~(pc[c] = "ack" /\ i = n) =>
                received[c][i] <= cursor[c] /\ received[c][i] \in delivered[strm[c]]

ReceiptsInv == \A c \in Calls : CallReceipts(c)

\* A call's history of received messages as a sequence of ids.
LEMMA ReceivedSeq ==
  ASSUME TypeOK, NEW c \in Calls
  PROVE  /\ Len(received[c]) \in Nat /\ DOMAIN received[c] = 1..Len(received[c])
         /\ \A i \in 1..Len(received[c]) : received[c][i] \in MsgIDs
         /\ \A m : m \in Accepted(c) <=> \E i \in 1..Len(received[c]) : received[c][i] = m
<1>1. received[c] \in Seq(MsgIDs)
  BY DEF TypeOK
<1>2. /\ Len(received[c]) \in Nat /\ DOMAIN received[c] = 1..Len(received[c])
      /\ \A i \in 1..Len(received[c]) : received[c][i] \in MsgIDs
  BY <1>1, LenProperties, ElementOfSeq
<1> QED
  BY <1>2 DEF Accepted

\* Every step keeps the receipts of every call in order.
LEMMA StepReceipts ==
  ASSUME StreamInv, TypeOK', ReceiptsInv, [Next]_vars
  PROVE  ReceiptsInv'
<1> SUFFICES ASSUME NEW e \in Calls PROVE CallReceipts(e)'
  BY DEF ReceiptsInv
<1> USE DEF StreamInv
<1>0. CallReceipts(e)
  BY DEF ReceiptsInv
<1>1. ASSUME received'[e] = received[e], cursor'[e] = cursor[e], strm'[e] = strm[e],
             lastID'[e] = lastID[e], lenAtStart'[e] = lenAtStart[e],
             Len(received[e]) > 0 => delivered[strm[e]] \subseteq delivered'[strm[e]],
             pc'[e] = "ack" <=> pc[e] = "ack", pc[e] = "ack" => claim'[e] = claim[e],
             pc'[e] \in {"idle", "start"} <=> pc[e] \in {"idle", "start"}
      PROVE  CallReceipts(e)'
  <2>1. Len(received[e]) \in Nat
    BY ReceivedSeq
  <2> QED
    BY <1>0, <1>1, <2>1 DEF CallReceipts, AfterStart
<1>2. ASSUME NEW c \in Calls, SubscribeSession(c) PROVE CallReceipts(e)'
  <2>1. CASE e = c
    <3>1. received'[e] = <<>> /\ pc'[e] = "start"
      BY <1>2, <2>1 DEF SubscribeSession, LocalsInv, histVars, TypeOK
    <3> QED
      BY <3>1 DEF CallReceipts
  <2>2. CASE e # c
    BY <1>1, <1>2, <2>2 DEF SubscribeSession, histVars, streamVars, TypeOK
  <2> QED
    BY <2>1, <2>2
<1>3. ASSUME NEW c \in Calls, InitCursor(c) PROVE CallReceipts(e)'
  <2>1. CASE e = c
    <3>1. /\ received'[e] = <<>> /\ pc'[e] = "loop" /\ lastID'[e] = lastID[e]
          /\ cursor'[e] = StartCursor(strm[e], lastID[e])
          /\ lenAtStart'[e] = len[strm[e]]
      BY <1>3, <2>1 DEF InitCursor, LocalsInv, TypeOK
    <3>2. strm[e] \in Streams /\ len[strm[e]] \in Nat /\ lastID[e] \in Nat
      BY <1>3, <2>1, BoundsAssumption DEF InitCursor, LocalsInv, TypeOK
    <3>3. AfterStart(e, cursor[e])'
      BY <3>1, <3>2 DEF AfterStart, StartCursor
    <3> QED
      BY <3>1, <3>3 DEF CallReceipts
  <2>2. CASE e # c
    BY <1>1, <1>3, <2>2 DEF InitCursor, streamVars, TypeOK
  <2> QED
    BY <2>1, <2>2
<1>4. ASSUME NEW c \in Calls, HandlerAccepts(c) PROVE CallReceipts(e)'
  <2>1. CASE e = c
    <3> DEFINE n == Len(received[e])
    <3>1. /\ claim[e] \in MsgIDs /\ claim[e] > cursor[e] /\ pc[e] = "handling"
          /\ cursor[e] \in Nat
      BY <1>4, <2>1, HoldersHold, BoundsAssumption, SMTT(40) DEF HandlerAccepts, Holding, TypeOK
    <3>2. /\ received'[e] = Append(received[e], claim[e]) /\ pc'[e] = "ack"
          /\ UNCHANGED <<claim, cursor, strm, lastID, lenAtStart, delivered>>
      BY <1>4, <2>1 DEF HandlerAccepts, streamVars, TypeOK
    <3>3. /\ n \in Nat /\ Len(received'[e]) = n + 1 /\ received'[e][n + 1] = claim[e]
          /\ \A i \in 1..n : received'[e][i] = received[e][i] /\ received[e][i] \in MsgIDs
      BY <3>1, <3>2, ReceivedSeq, AppendProperties, SMTT(40) DEF TypeOK
    <3>4. AfterStart(e, cursor[e]) /\ AfterStart(e, claim[e] - 1)
      <4>1. AfterStart(e, cursor[e])
        BY <1>0, <3>1 DEF CallReceipts
      <4>2. claim[e] \in Nat /\ lenAtStart[e] \in Nat /\ lastID[e] \in Nat
        BY <3>1, BoundsAssumption DEF MsgIDs, TypeOK
      <4> QED
        BY <3>1, <4>1, <4>2 DEF AfterStart
    <3>5. \A i \in 1..n : /\ received[e][i] <= cursor[e] /\ received[e][i] < claim[e]
                          /\ received[e][i] \in delivered[strm[e]]
      BY <1>0, <3>1, <3>3 DEF CallReceipts, MsgIDs
    <3>6. SUFFICES ASSUME NEW i \in 1..(n + 1)
          PROVE  /\ \A j \in 1..(i - 1) : received'[e][j] < received'[e][i]
                 /\ AfterStart(e, received'[e][i] - 1)
                 /\ i # n + 1 =>
                       /\ received'[e][i] <= cursor[e]
                       /\ received'[e][i] \in delivered[strm[e]]
      BY <3>2, <3>3, <3>4 DEF CallReceipts, AfterStart
    <3>7. CASE i = n + 1
      BY <3>3, <3>4, <3>5, <3>7
    <3>8. CASE i # n + 1
      <4>1. i \in 1..n /\ \A j \in 1..(i - 1) : j \in 1..n
        BY <3>3, <3>8
      <4> QED
        BY <1>0, <3>3, <3>5, <4>1 DEF CallReceipts
    <3> QED
      BY <3>7, <3>8
  <2>2. CASE e # c
    BY <1>1, <1>4, <2>2 DEF HandlerAccepts, streamVars, TypeOK
  <2> QED
    BY <2>1, <2>2
<1>5. ASSUME NEW c \in Calls, Ack(c) PROVE CallReceipts(e)'
  <2>1. strm[c] \in Streams /\ claim[c] > cursor[c] /\ claim[c] \in MsgIDs
    BY <1>5, HoldersHold DEF Ack, Holding
  <2>2. /\ delivered'[strm[c]] = delivered[strm[c]] \cup {claim[c]}
        /\ \A st \in Streams : delivered[st] \subseteq delivered'[st]
    BY <1>5, <2>1 DEF Ack, TypeOK
  <2>3. CASE e = c
    <3>1. /\ pc[e] = "ack" /\ pc'[e] = "loop" /\ cursor'[e] = claim[e]
          /\ UNCHANGED <<received, strm, lastID, lenAtStart>>
      BY <1>5, <2>3 DEF Ack, histVars, TypeOK
    <3>2. Len(received[e]) \in Nat /\ \A i \in 1..Len(received[e]) : received[e][i] \in MsgIDs
      BY ReceivedSeq
    <3>3. AfterStart(e, claim[e])
      BY <1>0, <2>1, <2>3, <3>1, BoundsAssumption DEF CallReceipts, AfterStart, MsgIDs, TypeOK
    <3>4. \A i \in 1..Len(received[e]) :
             received[e][i] <= claim[e] /\ received[e][i] \in delivered'[strm[e]]
      <4>1. claim[e] \in Nat /\ cursor[e] \in Nat /\ claim[e] > cursor[e]
        BY <2>1, <2>3, BoundsAssumption DEF MsgIDs, TypeOK
      <4>2. \A i \in 1..Len(received[e]) : i = Len(received[e]) => received[e][i] = claim[e]
        BY <1>0, <3>1 DEF CallReceipts
      <4>3. \A i \in 1..Len(received[e]) : i # Len(received[e]) =>
               received[e][i] <= cursor[e] /\ received[e][i] \in delivered[strm[e]]
        BY <1>0, <3>1 DEF CallReceipts
      <4> QED
        BY <2>1, <2>2, <2>3, <3>2, <4>1, <4>2, <4>3 DEF MsgIDs
    <3> QED
      BY <1>0, <3>1, <3>2, <3>3, <3>4 DEF CallReceipts, AfterStart
  <2>4. CASE e # c
    <3>1. Len(received[e]) > 0 => strm[e] \in Streams
      BY ReceivedSeq DEF LocalsInv, TypeOK
    <3> QED
      BY <1>1, <1>5, <2>2, <2>4, <3>1 DEF Ack, histVars, TypeOK
  <2> QED
    BY <2>3, <2>4
<1>6. ASSUME NEW c \in Calls, Claim(c) \/ Wait(c) \/ Wake(c) PROVE CallReceipts(e)'
  <2>1. /\ UNCHANGED <<received, cursor, strm, lastID, lenAtStart, delivered>>
        /\ pc[c] \in {"loop", "waiting"} /\ pc'[c] \in {"loop", "waiting", "handling"}
        /\ e # c => pc'[e] = pc[e] /\ claim'[e] = claim[e]
    <3>1. CASE Claim(c)
      BY <3>1 DEF Claim, histVars, TypeOK
    <3>2. CASE Wait(c) \/ Wake(c)
      BY <3>2 DEF Wait, Wake, streamVars, histVars, TypeOK
    <3> QED
      BY <1>6, <3>1, <3>2
  <2> QED
    BY <1>1, <2>1
<1>7. ASSUME NEW c \in Calls, Return(c) \/ HandlerFails(c) \/ Release(c) PROVE CallReceipts(e)'
  <2>1. /\ UNCHANGED <<received, cursor, strm, lastID, lenAtStart, delivered>>
        /\ pc[c] \in {"loop", "waiting", "handling", "release"}
        /\ pc'[c] \in {"returned", "release"}
        /\ e # c => pc'[e] = pc[e] /\ claim'[e] = claim[e]
    <3>1. CASE Return(c)
      BY <3>1 DEF Return, streamVars, histVars, TypeOK
    <3>2. CASE HandlerFails(c)
      BY <3>2 DEF HandlerFails, streamVars, histVars, TypeOK
    <3>3. CASE Release(c)
      BY <3>3 DEF Release, streamVars, histVars, TypeOK
    <3> QED
      BY <1>7, <3>1, <3>2, <3>3
  <2> QED
    BY <1>1, <2>1
<1>8. CASE UNCHANGED <<pc, claim, received, cursor, strm, lastID, lenAtStart, delivered>>
  BY <1>1, <1>8
<1> QED
  BY <1>2, <1>3, <1>4, <1>5, <1>6, <1>7, <1>8
  DEF Next, vars, CallStep, DeleteStep, PublishSession, PublishAppend, Cancel,
      DeleteSession, DeleteClose, DeleteSignal, DeleteReturn, streamVars, callVars,
      histVars

\* Every step keeps deliveries unique: what a handler accepts was in flight,
\* hence neither delivered nor held by another call.
LEMMA StepDeliveredOnce ==
  ASSUME StreamInv, TypeOK', ReceiptsInv, DeliveredOnce, [Next]_vars
  PROVE  DeliveredOnce'
<1> USE DEF StreamInv
<1>1. CASE UNCHANGED <<received, strm, delivered>>
  BY <1>1 DEF DeliveredOnce, Accepted
<1>2. ASSUME NEW c \in Calls, SubscribeSession(c) PROVE DeliveredOnce'
  <2>1. /\ UNCHANGED <<received, delivered>>
        /\ \A d \in Calls : d # c => strm'[d] = strm[d]
        /\ strm[c] = None
    BY <1>2 DEF SubscribeSession, histVars, streamVars, LocalsInv, TypeOK
  <2>2. Accepted(c) = {} /\ \A d \in Calls : Accepted(d)' = Accepted(d)
    BY <1>2, <2>1 DEF SubscribeSession, LocalsInv, Accepted
  <2>3. \A st \in Streams : st # None
    BY DEF Streams, None
  <2> QED
    BY <2>1, <2>2, <2>3 DEF DeliveredOnce
<1>3. ASSUME NEW c \in Calls, HandlerAccepts(c) PROVE DeliveredOnce'
  <2>1. /\ strm[c] \in Streams /\ claim[c] \in MsgIDs /\ claim[c] \in inflight[strm[c]]
        /\ pc[c] = "handling" /\ UNCHANGED <<strm, delivered>>
        /\ received' = [received EXCEPT ![c] = Append(received[c], claim[c])]
    BY <1>3, HoldersHold DEF HandlerAccepts, Holding, streamVars
  <2>2. Accepted(c)' = Accepted(c) \cup {claim[c]}
    <3>1. received[c] \in Seq(MsgIDs) /\ received'[c] = Append(received[c], claim[c])
      BY <2>1 DEF TypeOK
    <3>2. /\ Len(received'[c]) = Len(received[c]) + 1 /\ Len(received[c]) \in Nat
          /\ received'[c][Len(received[c]) + 1] = claim[c]
          /\ \A i \in 1..Len(received[c]) : received'[c][i] = received[c][i]
      BY <2>1, <3>1, AppendProperties, LenProperties
    <3>3. DOMAIN received[c] = 1..Len(received[c])
      BY ReceivedSeq
    <3>4. DOMAIN received'[c] = 1..Len(received'[c])
      BY <3>1, LenProperties DEF TypeOK
    <3>5. 1..Len(received'[c]) = (1..Len(received[c])) \cup {Len(received[c]) + 1}
      BY <3>2
    <3> QED
      BY <3>2, <3>3, <3>4, <3>5, SMTT(40) DEF Accepted
  <2>3. \A d \in Calls : d # c => Accepted(d)' = Accepted(d)
    BY <2>1 DEF Accepted, TypeOK
  <2>4. ASSUME NEW d \in Calls, d # c, strm[d] = strm[c] PROVE claim[c] \notin Accepted(d)
    <3> SUFFICES ASSUME claim[c] \in Accepted(d) PROVE FALSE
      OBVIOUS
    <3>1. PICK i \in 1..Len(received[d]) : received[d][i] = claim[c]
      BY ReceivedSeq
    <3>2. claim[c] \notin delivered[strm[c]]
      BY <2>1 DEF ClaimsExact
    <3>3. pc[d] = "ack" /\ i = Len(received[d]) /\ claim[d] = claim[c]
      BY <2>4, <3>1, <3>2 DEF ReceiptsInv, CallReceipts
    <3>4. d \in Holders(strm[c]) /\ c \in Holders(strm[c])
      BY <2>1, <2>4, <3>3 DEF Holders, Holding
    <3> QED
      BY <2>1, <2>4, <3>3, <3>4 DEF ClaimsExact
  <2> QED
    BY <2>1, <2>2, <2>3, <2>4 DEF DeliveredOnce
<1>4. ASSUME NEW c \in Calls, Ack(c) PROVE DeliveredOnce'
  <2>1. /\ strm[c] \in Streams /\ UNCHANGED <<strm, received>>
        /\ delivered' = [delivered EXCEPT ![strm[c]] = delivered[strm[c]] \cup {claim[c]}]
    BY <1>4, HoldersHold DEF Ack, Holding, histVars
  <2>2. claim[c] \in Accepted(c)
    <3>1. Len(received[c]) \in 1..Len(received[c]) /\ received[c][Len(received[c])] = claim[c]
      BY <1>4, ReceivedSeq DEF Ack, ReceiptsInv, CallReceipts
    <3> QED
      BY <3>1, ReceivedSeq
  <2>3. \A d \in Calls : Accepted(d)' = Accepted(d)
    BY <2>1 DEF Accepted
  <2> QED
    <3>1. \A st \in Streams : \A m \in delivered'[st] :
             m \in delivered[st] \/ (st = strm[c] /\ m = claim[c])
      BY <2>1 DEF TypeOK
    <3>2. \A st \in Streams : \A m \in delivered'[st] :
             \E d \in Calls : strm[d] = st /\ m \in Accepted(d)
      BY <2>2, <3>1 DEF DeliveredOnce
    <3> QED
      BY <2>1, <2>3, <3>2 DEF DeliveredOnce
<1> QED
  BY <1>1, <1>2, <1>3, <1>4
  DEF Next, vars, CallStep, DeleteStep, PublishSession, PublishAppend, InitCursor,
      Claim, Wait, Wake, Return, Release, HandlerFails, Cancel, DeleteSession,
      DeleteClose, DeleteSignal, DeleteReturn, streamVars, callVars, histVars

\* Each message goes to one SubscribeSession call's handler, a call sees them in
\* order, and one that resumes sees none up to the message it names.
THEOREM OnceAndInOrder == Spec => []OnceInOrder
<1> DEFINE Inv == StreamInv /\ ReceiptsInv /\ DeliveredOnce
<1>1. Init => Inv
  <2> SUFFICES ASSUME Init PROVE ReceiptsInv /\ DeliveredOnce
    BY InitInv
  <2>1. \A c \in Calls : received[c] = <<>> /\ pc[c] = "idle"
    BY DEF Init
  <2>2. \A c \in Calls : Len(received[c]) = 0 /\ DOMAIN received[c] = {}
    BY <2>1
  <2> QED
    BY <2>1, <2>2 DEF ReceiptsInv, CallReceipts, DeliveredOnce, Accepted, Init
<1>2. Inv /\ StreamInv' /\ [Next]_vars => Inv'
  BY StepReceipts, StepDeliveredOnce DEF StreamInv
<1>3. Inv => OnceInOrder
  <2> SUFFICES ASSUME Inv, NEW c \in Calls, NEW i \in DOMAIN received[c]
               PROVE  /\ \A j \in 1..(i - 1) : received[c][j] < received[c][i]
                      /\ lastID[c] \in 1..lenAtStart[c] => received[c][i] > lastID[c]
    BY DEF OnceInOrder, InOrder
  <2>1. i \in 1..Len(received[c]) /\ received[c][i] \in Nat
    BY ReceivedSeq DEF StreamInv, MsgIDs
  <2>2. lenAtStart[c] \in Nat /\ lastID[c] \in Nat
    BY BoundsAssumption DEF StreamInv, TypeOK
  <2> QED
    BY <2>1, <2>2 DEF ReceiptsInv, CallReceipts, AfterStart
<1> HIDE DEF Inv
<1>4. Spec => []Inv
  BY <1>1, <1>2, StreamInvariant, PTL DEF Spec
<1> QED
  BY <1>3, <1>4, PTL
=============================================================================
