--------------------------- MODULE InFlightProofs ---------------------------
(***************************************************************************)
(* The safety properties of InFlight for any number of tool calls,         *)
(* sessions, ids and events.                                               *)
(***************************************************************************)
EXTENDS InFlight, SequenceTheorems, TLAPS

\* What a single call and its request to the client look like at each stage: a
\* request that was not made has an open channel, and one that was written is
\* waited for or over.
CallInv(c) ==
    /\ pc[c] \in {"idle", "rejected"} => outcome[c] = "none"
    /\ pc[c] \in {"created", "waiting"} => outcome[c] = "none"
    /\ pc[c] = "closing" => outcome[c] # "none"
    /\ outcome[c] = "none" /\ pc[c] \notin {"created", "waiting"} => ~chanClosed[c]
    /\ c \in written => pc[c] = "waiting" \/ outcome[c] # "none"

StageInv == \A c \in Calls : CallInv(c)

\* Some client asked to cancel the request with this id.
AskedFor(i) == \E s \in Sessions : <<s, i>> \in asked

\* A cancelled call has an id that some client cancelled.
SomeoneAsked ==
    \A c \in Calls : cause[c] = "client" \/ handling = Cancel(c) => AskedFor(id[c])

\* A client cancels calls of its own.
AskedForOwn == asked \subseteq {<<sess[c], id[c]>> : c \in Calls}

\* Where events come from: a response only answers a request that was written,
\* and a cancellation that some client sent is behind everything that cancels.
OriginInv ==
    /\ unmatched \subseteq written
    /\ \A k \in 1..Len(queue) :
          /\ \A c \in Calls : queue[k] = Response(c) => c \in written
          /\ \A i \in ReqIDs : queue[k] = CancelID(i) => AskedFor(i)

FlightInv ==
    /\ TypeOK /\ StageInv /\ OriginInv
    /\ RegistryExact /\ RendezVousExact /\ ResponseFindsCaller
    /\ SomeoneAsked /\ AskedForOwn

-----------------------------------------------------------------------------
\* The initial states satisfy the invariant.
LEMMA InitFlight == Init => FlightInv
<1>1. Init => TypeOK
  <2>1. <<>> \in Seq(Events) /\ Len(<<>>) <= QueueCap
    BY EmptySeq, InFlightAssumption
  <2>2. Idle \in Handling
    BY DEF Handling
  <2>3. SUFFICES ASSUME Init PROVE TypeOK
    OBVIOUS
  <2>4. /\ pc \in [Calls -> {"idle", "running", "created", "waiting", "closing",
                             "finishing", "done", "rejected"}]
        /\ sess \in [Calls -> Sessions] /\ id \in [Calls -> ReqIDs]
        /\ cause \in [Calls -> {"none", "client", "parent", "returned"}]
        /\ outcome \in [Calls -> {"none", "reply", "closed", "ctx", "writeErr"}]
        /\ cancels \in [ReqIDs -> Calls \cup {NoCall}]
    BY <2>3 DEF Init
  <2>5. /\ rdvChans \in SUBSET Calls /\ rdvClosers \in SUBSET Calls
        /\ buf \in [Calls -> BOOLEAN] /\ chanClosed \in [Calls -> BOOLEAN]
        /\ queue \in Seq(Events) /\ Len(queue) <= QueueCap
        /\ handling \in Handling
    BY <2>1, <2>2, <2>3 DEF Init
  <2>6. /\ crashed \in BOOLEAN
        /\ written \in SUBSET Calls /\ unmatched \in SUBSET Calls
        /\ asked \in SUBSET (Sessions \X ReqIDs)
        /\ events \in 0..MaxEvents
    <3>1. 0 \in 0..MaxEvents
      BY InFlightAssumption
    <3>2. {} \in SUBSET (Sessions \X ReqIDs) /\ {} \in SUBSET Calls
      OBVIOUS
    <3> QED
      BY <2>3, <3>1, <3>2 DEF Init
  <2> QED
    BY <2>4, <2>5, <2>6 DEF TypeOK
<1>2. Init => StageInv /\ OriginInv
  BY DEF Init, StageInv, CallInv, OriginInv
<1>3. Init => RegistryExact /\ RendezVousExact /\ ResponseFindsCaller
  BY DEF Init, RegistryExact, RendezVousExact, ResponseFindsCaller, Active
<1>4. Init => SomeoneAsked /\ AskedForOwn
  BY DEF Init, SomeoneAsked, AskedForOwn, Idle, Cancel
<1> QED
  BY <1>1, <1>2, <1>3, <1>4 DEF FlightInv

\* The messages and the work items of the consumer are told apart by their
\* kind and their call or id.
LEMMA Kinds ==
  /\ \A c, d \in Calls : Response(c) = Response(d) => c = d
  /\ \A c, d \in Calls : Cancel(c) = Cancel(d) => c = d
  /\ \A i, j \in ReqIDs : CancelID(i) = CancelID(j) => i = j
  /\ \A c, d \in Calls : Response(c) # CancelRdv(d)
  /\ \A c \in Calls, i \in ReqIDs : Response(c) # CancelID(i) /\ CancelRdv(c) # CancelID(i)
  /\ \A c, d \in Calls : Cancel(c) # Send(d) /\ Cancel(c) # Idle
BY DEF Response, Cancel, CancelID, CancelRdv, Send, Idle

\* Publishing keeps the queue bounded; its elements are the old ones and the
\* new one.
LEMMA QueueGrows ==
  ASSUME TypeOK, NEW e \in Events, PublishEvent(e)
  PROVE  /\ queue' \in Seq(Events) /\ Len(queue') <= QueueCap
         /\ \A k \in 1..Len(queue') :
               queue'[k] = e \/ \E l \in 1..Len(queue) : queue'[k] = queue[l]
<1> USE InFlightAssumption DEF TypeOK
<1>1. CASE Len(queue) < QueueCap
  <2>1. queue' = Append(queue, e)
    BY <1>1 DEF PublishEvent
  <2>2. /\ Append(queue, e) \in Seq(Events)
        /\ Len(Append(queue, e)) = Len(queue) + 1
        /\ \A k \in 1..Len(queue) : Append(queue, e)[k] = queue[k]
        /\ Append(queue, e)[Len(queue) + 1] = e
    BY AppendProperties
  <2>3. Len(queue) \in Nat
    BY LenProperties
  <2> QED
    BY <1>1, <2>1, <2>2, <2>3
<1>2. CASE ~(Len(queue) < QueueCap)
  BY <1>2 DEF PublishEvent
<1> QED
  BY <1>1, <1>2

\* Taking the first event leaves the others.
LEMMA QueueShrinks ==
  ASSUME TypeOK, queue # <<>>, queue' = Tail(queue)
  PROVE  /\ queue' \in Seq(Events) /\ Len(queue') <= QueueCap
         /\ \A k \in 1..Len(queue') : \E l \in 1..Len(queue) : queue'[k] = queue[l]
         /\ Head(queue) = queue[1] /\ 1 \in 1..Len(queue)
<1>1. /\ Tail(queue) \in Seq(Events)
      /\ Len(Tail(queue)) = Len(queue) - 1
      /\ \A k \in 1..Len(Tail(queue)) : Tail(queue)[k] = queue[k + 1]
      /\ Head(queue) = queue[1]
  BY HeadTailProperties DEF TypeOK
<1>2. Len(queue) \in Nat /\ Len(queue) <= QueueCap /\ Len(queue) # 0
  BY LenProperties, EmptySeq DEF TypeOK
<1>3. \A k \in 1..Len(queue') : k + 1 \in 1..Len(queue) /\ queue'[k] = queue[k + 1]
  BY <1>1, <1>2
<1> QED
  BY <1>1, <1>2, <1>3, InFlightAssumption

-----------------------------------------------------------------------------
\* Every step keeps the types.
LEMMA TypeStep ==
  ASSUME TypeOK, [Next]_vars
  PROVE  TypeOK'
<1> USE DEF TypeOK, Up, Goto, toolVars, rdvVars, busVars, histVars
<1>1. ASSUME NEW c \in Calls, RegisterToolCall(c) PROVE TypeOK'
  BY <1>1 DEF RegisterToolCall
<1>2. ASSUME NEW c \in Calls, RejectToolCall(c) PROVE TypeOK'
  BY <1>2 DEF RejectToolCall, Cancelled
<1>3. ASSUME NEW c \in Calls, WriteRequest(c) \/ WriteFails(c) \/ createRendezVous(c)
      PROVE  TypeOK'
  <2>1. CASE WriteRequest(c)
    BY <2>1 DEF WriteRequest
  <2>2. CASE WriteFails(c)
    BY <2>2 DEF WriteFails
  <2>3. CASE createRendezVous(c)
    BY <2>3 DEF createRendezVous
  <2> QED
    BY <1>3, <2>1, <2>2, <2>3
<1>4. ASSUME NEW c \in Calls, ReceiveReply(c) \/ ReceiveClosed(c) \/ ReceiveCtxDone(c)
      PROVE  TypeOK'
  <2>1. CASE ReceiveReply(c)
    BY <2>1 DEF ReceiveReply
  <2>2. CASE ReceiveClosed(c)
    BY <2>2 DEF ReceiveClosed
  <2>3. CASE ReceiveCtxDone(c)
    BY <2>3 DEF ReceiveCtxDone
  <2> QED
    BY <1>4, <2>1, <2>2, <2>3
<1>5. ASSUME NEW c \in Calls, CloseRendezVous(c) PROVE TypeOK'
  BY <1>5 DEF CloseRendezVous, DropRendezVous
<1>6. ASSUME NEW c \in Calls, FinishToolCall(c) PROVE TypeOK'
  BY <1>6 DEF FinishToolCall, Cancelled
<1>7. ASSUME NEW c \in Calls, ToolReturns(c) PROVE TypeOK'
  BY <1>7 DEF ToolReturns
<1>8. ASSUME NEW c \in Calls, ParentCancelled(c) PROVE TypeOK'
  BY <1>8 DEF ParentCancelled, Cancelled
<1>9. ASSUME NEW c \in Calls, HandleClientResponse(c) \/ CancelServerRequest(c)
      PROVE  TypeOK'
  <2>1. PICK e \in Events : PublishEvent(e)
    BY <1>9 DEF HandleClientResponse, CancelServerRequest, Events
  <2>2. queue' \in Seq(Events) /\ Len(queue') <= QueueCap
    BY <2>1, QueueGrows
  <2>3. events' \in 0..MaxEvents
    BY <2>1, InFlightAssumption DEF PublishEvent
  <2>4. asked' = asked
    BY <1>9 DEF HandleClientResponse, CancelServerRequest
  <2> QED
    BY <2>1, <2>2, <2>3, <2>4 DEF PublishEvent
<1>10. ASSUME NEW c \in Calls, CancelToolCall(c) PROVE TypeOK'
  <2>1. CancelID(id[c]) \in Events
    BY DEF Events
  <2>2. queue' \in Seq(Events) /\ Len(queue') <= QueueCap
    BY <1>10, <2>1, QueueGrows DEF CancelToolCall
  <2>3. events' \in 0..MaxEvents
    BY <1>10, InFlightAssumption DEF CancelToolCall, PublishEvent
  <2>4. asked' \in SUBSET (Sessions \X ReqIDs)
    BY <1>10 DEF CancelToolCall
  <2> QED
    BY <1>10, <2>2, <2>3, <2>4 DEF CancelToolCall, PublishEvent
<1>11. ASSUME NEW c \in Calls, TakeResponse(c) \/ TakeCancelRdv(c) PROVE TypeOK'
  <2>1. queue' \in Seq(Events) /\ Len(queue') <= QueueCap
    BY <1>11, QueueShrinks DEF TakeResponse, TakeCancelRdv
  <2>2. CASE TakeResponse(c)
    BY <2>1, <2>2 DEF TakeResponse, Handling
  <2>3. CASE TakeCancelRdv(c)
    BY <2>1, <2>3 DEF TakeCancelRdv, DropRendezVous
  <2> QED
    BY <1>11, <2>2, <2>3
<1>12. ASSUME NEW c \in Calls, SendResponse(c) PROVE TypeOK'
  BY <1>12 DEF SendResponse, Handling
<1>13. ASSUME NEW c \in Calls, CallCancel(c) PROVE TypeOK'
  BY <1>13 DEF CallCancel, Cancelled, Handling
<1>14. ASSUME NEW i \in ReqIDs, TakeCancel(i) PROVE TypeOK'
  <2>1. queue' \in Seq(Events) /\ Len(queue') <= QueueCap
    BY <1>14, QueueShrinks DEF TakeCancel
  <2>2. handling' \in Handling
    BY <1>14 DEF TakeCancel, Handling
  <2> QED
    BY <1>14, <2>1, <2>2 DEF TakeCancel
<1>15. CASE UNCHANGED vars
  BY <1>15 DEF vars
<1> QED
  BY <1>1, <1>2, <1>3, <1>4, <1>5, <1>6, <1>7, <1>8, <1>9, <1>10, <1>11, <1>12,
     <1>13, <1>14, <1>15
  DEF Next, CallStep, ToolStep, ClientStep, ConsumerStep

-----------------------------------------------------------------------------
\* toolCtxCancels stays exact.  Only registering and finishing a call change
\* it, and the entry of another call is never the one they touch.
LEMMA RegistryStep ==
  ASSUME TypeOK, RegistryExact, [Next]_vars
  PROVE  RegistryExact'
<1> USE InFlightAssumption DEF TypeOK, RegistryExact, Active, Up, Goto, toolVars
<1>1. ASSUME NEW c \in Calls, RegisterToolCall(c) PROVE RegistryExact'
  <2>1. /\ cancels[id[c]] = NoCall /\ id' = id
        /\ cancels' = [cancels EXCEPT ![id[c]] = c]
        /\ pc[c] = "idle" /\ pc' = [pc EXCEPT ![c] = "running"]
    BY <1>1 DEF RegisterToolCall
  <2>2. ASSUME NEW d \in Calls, pc'[d] \in Active PROVE cancels'[id'[d]] = d
    BY <2>1, <2>2
  <2>3. ASSUME NEW i \in ReqIDs, cancels'[i] # NoCall
        PROVE  pc'[cancels'[i]] \in Active /\ id'[cancels'[i]] = i
    <3>1. CASE i = id[c]
      BY <2>1, <3>1
    <3>2. CASE i # id[c]
      BY <2>1, <2>3, <3>2
    <3> QED
      BY <3>1, <3>2
  <2> QED
    BY <2>2, <2>3
<1>2. ASSUME NEW c \in Calls, FinishToolCall(c) PROVE RegistryExact'
  <2>1. /\ id' = id /\ cancels' = [cancels EXCEPT ![id[c]] = NoCall]
        /\ pc[c] = "finishing" /\ pc' = [pc EXCEPT ![c] = "done"]
    BY <1>2 DEF FinishToolCall
  <2>2. ASSUME NEW d \in Calls, pc'[d] \in Active PROVE cancels'[id'[d]] = d
    BY <2>1, <2>2
  <2>3. ASSUME NEW i \in ReqIDs, cancels'[i] # NoCall
        PROVE  pc'[cancels'[i]] \in Active /\ id'[cancels'[i]] = i
    BY <2>1, <2>3
  <2> QED
    BY <2>2, <2>3
<1>3. ASSUME NEW c \in Calls, RejectToolCall(c) PROVE RegistryExact'
  BY <1>3 DEF RejectToolCall
<1>4. ASSUME NEW c \in Calls, NEW from \in Active, NEW to \in Active, Goto(c, from, to),
             UNCHANGED <<id, cancels>>
      PROVE  RegistryExact'
  BY <1>4
<1>5. ASSUME UNCHANGED <<pc, id, cancels>> PROVE RegistryExact'
  BY <1>5
<1>6. ASSUME NEW c \in Calls,
             \/ WriteRequest(c) \/ WriteFails(c) \/ ReceiveReply(c) \/ ReceiveClosed(c)
             \/ ReceiveCtxDone(c) \/ CloseRendezVous(c) \/ ToolStep(c)
      PROVE  RegistryExact'
  <2>1. /\ UNCHANGED <<id, cancels>>
        /\ \E from, to \in Active : Goto(c, from, to)
    BY <1>6 DEF WriteRequest, WriteFails, ReceiveReply, ReceiveClosed, ReceiveCtxDone,
       CloseRendezVous, ToolStep, createRendezVous, ToolReturns
  <2> QED
    BY <1>4, <2>1
<1>7. ASSUME \/ \E c \in Calls : ClientStep(c) \/ ParentCancelled(c)
             \/ ConsumerStep
      PROVE  UNCHANGED <<pc, id, cancels>>
  BY <1>7 DEF ClientStep, HandleClientResponse, CancelServerRequest, CancelToolCall,
     PublishEvent, ParentCancelled, ConsumerStep, TakeResponse, SendResponse,
     TakeCancelRdv, TakeCancel, CallCancel
<1> QED
  BY <1>1, <1>2, <1>3, <1>5, <1>6, <1>7 DEF Next, CallStep, vars

-----------------------------------------------------------------------------
\* The stages of the calls: an action changes its own call only, and a channel
\* is closed by a cancellation only while its request is under way.
LEMMA StageStep ==
  ASSUME TypeOK, StageInv, RendezVousExact, [Next]_vars
  PROVE  StageInv'
<1> SUFFICES ASSUME NEW e \in Calls PROVE CallInv(e)'
  BY DEF StageInv
<1> USE DEF TypeOK, Up, Goto, toolVars, rdvVars, histVars
<1>0. CallInv(e)
  BY DEF StageInv
<1>1. ASSUME NEW c \in Calls, RegisterToolCall(c) \/ RejectToolCall(c) PROVE CallInv(e)'
  BY <1>0, <1>1 DEF RegisterToolCall, RejectToolCall, CallInv
<1>2. ASSUME NEW c \in Calls, createRendezVous(c) PROVE CallInv(e)'
  BY <1>0, <1>2 DEF createRendezVous, CallInv
<1>3. ASSUME NEW c \in Calls, WriteRequest(c) PROVE CallInv(e)'
  BY <1>0, <1>3 DEF WriteRequest, CallInv
<1>4. ASSUME NEW c \in Calls, WriteFails(c) PROVE CallInv(e)'
  BY <1>0, <1>4 DEF WriteFails, CallInv
<1>5. ASSUME NEW c \in Calls, ReceiveReply(c) PROVE CallInv(e)'
  BY <1>0, <1>5 DEF ReceiveReply, CallInv
<1>6. ASSUME NEW c \in Calls, ReceiveClosed(c) PROVE CallInv(e)'
  BY <1>0, <1>6 DEF ReceiveClosed, CallInv
<1>7. ASSUME NEW c \in Calls, ReceiveCtxDone(c) PROVE CallInv(e)'
  BY <1>0, <1>7 DEF ReceiveCtxDone, CallInv
<1>8. ASSUME NEW c \in Calls, CloseRendezVous(c) PROVE CallInv(e)'
  BY <1>0, <1>8 DEF CloseRendezVous, DropRendezVous, CallInv
<1>9. ASSUME NEW c \in Calls, ToolReturns(c) \/ FinishToolCall(c) PROVE CallInv(e)'
  BY <1>0, <1>9 DEF ToolReturns, FinishToolCall, CallInv
<1>10. ASSUME NEW c \in Calls, TakeCancelRdv(c) PROVE CallInv(e)'
  <2>1. c \in rdvClosers => pc[c] \in {"created", "waiting", "closing"}
    BY DEF RendezVousExact
  <2> QED
    BY <1>0, <1>10, <2>1 DEF TakeCancelRdv, DropRendezVous, CallInv
<1>11. ASSUME UNCHANGED <<pc, outcome, chanClosed, written>> PROVE CallInv(e)'
  BY <1>0, <1>11 DEF CallInv
<1>12. ASSUME \/ \E c \in Calls : \/ ClientStep(c) \/ ParentCancelled(c)
                                \/ TakeResponse(c) \/ SendResponse(c) \/ CallCancel(c)
              \/ \E i \in ReqIDs : TakeCancel(i)
       PROVE  UNCHANGED <<pc, outcome, chanClosed, written>>
  BY <1>12 DEF ClientStep, HandleClientResponse, CancelServerRequest, CancelToolCall,
     PublishEvent, ParentCancelled, TakeResponse, SendResponse, TakeCancel, CallCancel
<1> QED
  BY <1>1, <1>2, <1>3, <1>4, <1>5, <1>6, <1>7, <1>8, <1>9, <1>10, <1>11, <1>12
  DEF Next, CallStep, ToolStep, ConsumerStep, vars

\* The rendez-vous maps stay exact, and what was found without a rendez-vous
\* belongs to nobody who waits.
LEMMA RendezVousStep ==
  ASSUME TypeOK, StageInv, OriginInv, RendezVousExact, ResponseFindsCaller, [Next]_vars
  PROVE  RendezVousExact' /\ ResponseFindsCaller'
<1> USE DEF TypeOK, Up, Goto, toolVars, rdvVars, histVars, RendezVousExact,
        ResponseFindsCaller
<1>1. ASSUME NEW c \in Calls, createRendezVous(c)
      PROVE  RendezVousExact' /\ ResponseFindsCaller'
  <2>1. ~chanClosed[c] /\ c \notin written
    BY <1>1 DEF createRendezVous, StageInv, CallInv
  <2>2. c \notin unmatched
    BY <2>1 DEF OriginInv
  <2>3. RendezVousExact'
    BY <1>1, <2>1 DEF createRendezVous
  <2> QED
    BY <1>1, <2>2, <2>3 DEF createRendezVous
<1>2. ASSUME NEW c \in Calls, CloseRendezVous(c)
      PROVE  RendezVousExact' /\ ResponseFindsCaller'
  BY <1>2 DEF CloseRendezVous, DropRendezVous
<1>3. ASSUME NEW c \in Calls, TakeCancelRdv(c)
      PROVE  RendezVousExact' /\ ResponseFindsCaller'
  BY <1>3 DEF TakeCancelRdv, DropRendezVous
<1>4. ASSUME NEW c \in Calls, TakeResponse(c)
      PROVE  RendezVousExact' /\ ResponseFindsCaller'
  BY <1>4 DEF TakeResponse
<1>5. ASSUME NEW c \in Calls, WriteRequest(c)
      PROVE  RendezVousExact' /\ ResponseFindsCaller'
  BY <1>5 DEF WriteRequest
<1>6. ASSUME NEW c \in Calls,
             WriteFails(c) \/ ReceiveReply(c) \/ ReceiveClosed(c) \/ ReceiveCtxDone(c)
      PROVE  RendezVousExact' /\ ResponseFindsCaller'
  <2>1. /\ UNCHANGED <<rdvChans, rdvClosers, chanClosed, unmatched>>
        /\ pc' = [pc EXCEPT ![c] = "closing"]
        /\ pc[c] \in {"created", "waiting"}
    BY <1>6 DEF WriteFails, ReceiveReply, ReceiveClosed, ReceiveCtxDone
  <2> QED
    BY <2>1
<1>7. ASSUME NEW c \in Calls,
             \/ RegisterToolCall(c) \/ RejectToolCall(c) \/ ToolReturns(c)
             \/ FinishToolCall(c)
      PROVE  RendezVousExact' /\ ResponseFindsCaller'
  <2>1. /\ UNCHANGED <<rdvChans, rdvClosers, chanClosed, unmatched>>
        /\ pc[c] \in {"idle", "running", "finishing"}
        /\ \E to \in {"running", "rejected", "finishing", "done"} :
              pc' = [pc EXCEPT ![c] = to]
    BY <1>7 DEF RegisterToolCall, RejectToolCall, ToolReturns, FinishToolCall
  <2> QED
    BY <2>1
<1>8. ASSUME UNCHANGED <<pc, rdvChans, rdvClosers, chanClosed, unmatched>>
      PROVE  RendezVousExact' /\ ResponseFindsCaller'
  BY <1>8
<1>9. ASSUME \/ \E c \in Calls : \/ ClientStep(c) \/ ParentCancelled(c)
                               \/ SendResponse(c) \/ CallCancel(c)
             \/ \E i \in ReqIDs : TakeCancel(i)
      PROVE  UNCHANGED <<pc, rdvChans, rdvClosers, chanClosed, unmatched>>
  BY <1>9 DEF ClientStep, HandleClientResponse, CancelServerRequest, CancelToolCall,
     PublishEvent, ParentCancelled, SendResponse, TakeCancel, CallCancel
<1> QED
  BY <1>1, <1>2, <1>3, <1>4, <1>5, <1>6, <1>7, <1>8, <1>9
  DEF Next, CallStep, ToolStep, ConsumerStep, vars

-----------------------------------------------------------------------------
\* Nothing takes a request or a wish to cancel back.
LEMMA HistoryGrows ==
  ASSUME TypeOK, [Next]_vars
  PROVE  /\ written \subseteq written'
         /\ \A i \in ReqIDs : AskedFor(i) => AskedFor(i)'
<1>1. written \subseteq written' /\ asked \subseteq asked'
  BY DEF Next, CallStep, ToolStep, ClientStep, ConsumerStep, RegisterToolCall,
     RejectToolCall, WriteRequest, WriteFails, ReceiveReply, ReceiveClosed,
     ReceiveCtxDone, CloseRendezVous, FinishToolCall, createRendezVous, ToolReturns,
     HandleClientResponse, CancelServerRequest, CancelToolCall, PublishEvent,
     ParentCancelled, TakeResponse, SendResponse, TakeCancelRdv, TakeCancel,
     CallCancel, histVars, vars
<1> QED
  BY <1>1 DEF AskedFor

\* Every event in the queue has its origin in the client's world.
LEMMA OriginStep ==
  ASSUME TypeOK, OriginInv, [Next]_vars
  PROVE  OriginInv'
<1> DEFINE Fine(e) == /\ \A c \in Calls : e = Response(c) => c \in written'
                      /\ \A i \in ReqIDs : e = CancelID(i) => AskedFor(i)'
<1>1. \A k \in 1..Len(queue) : Fine(queue[k])
  BY HistoryGrows DEF OriginInv
<1>2. ASSUME UNCHANGED <<queue, unmatched>> PROVE OriginInv'
  BY <1>1, <1>2, HistoryGrows DEF OriginInv
<1>3. ASSUME NEW e \in Events, PublishEvent(e), Fine(e) PROVE OriginInv'
  <2>1. \A k \in 1..Len(queue') : Fine(queue'[k])
    BY <1>1, <1>3, QueueGrows
  <2>2. unmatched' \subseteq written'
    BY <1>3, HistoryGrows DEF OriginInv, PublishEvent
  <2> QED
    BY <2>1, <2>2 DEF OriginInv
<1>4. ASSUME queue # <<>>, queue' = Tail(queue),
             unmatched' = unmatched \/ \E c \in Calls : /\ Head(queue) = Response(c)
                                                       /\ unmatched' = unmatched \cup {c}
      PROVE  OriginInv'
  <2>1. \A k \in 1..Len(queue') : Fine(queue'[k])
    BY <1>1, <1>4, QueueShrinks
  <2>2. unmatched' \subseteq written'
    BY <1>1, <1>4, QueueShrinks, HistoryGrows DEF OriginInv
  <2> QED
    BY <2>1, <2>2 DEF OriginInv
<1>5. ASSUME NEW c \in Calls, HandleClientResponse(c) PROVE OriginInv'
  <2>1. Response(c) \in Events /\ PublishEvent(Response(c))
    BY <1>5 DEF HandleClientResponse, Events
  <2>2. Fine(Response(c))
    BY <1>5, Kinds, HistoryGrows DEF HandleClientResponse
  <2> QED
    BY <1>3, <2>1, <2>2
<1>6. ASSUME NEW c \in Calls, CancelServerRequest(c) PROVE OriginInv'
  <2>1. CancelRdv(c) \in Events /\ PublishEvent(CancelRdv(c))
    BY <1>6 DEF CancelServerRequest, Events
  <2>2. Fine(CancelRdv(c))
    BY Kinds
  <2> QED
    BY <1>3, <2>1, <2>2
<1>7. ASSUME NEW c \in Calls, CancelToolCall(c) PROVE OriginInv'
  <2>0. id[c] \in ReqIDs /\ sess[c] \in Sessions
    BY DEF TypeOK
  <2>1. CancelID(id[c]) \in Events /\ PublishEvent(CancelID(id[c]))
    BY <1>7, <2>0 DEF CancelToolCall, Events
  <2>2. AskedFor(id[c])'
    <3>1. <<sess[c], id[c]>> \in asked' /\ id' = id
      BY <1>7 DEF CancelToolCall, PublishEvent, toolVars
    <3> QED
      BY <2>0, <3>1 DEF AskedFor
  <2>3. PICK i \in ReqIDs : i = id[c]
    BY <2>0
  <2>4. AskedFor(i)' /\ CancelID(i) \in Events /\ PublishEvent(CancelID(i))
    <3>1. id'[c] = i
      BY <1>7, <2>3 DEF CancelToolCall, PublishEvent, toolVars
    <3> QED
      BY <2>1, <2>2, <2>3, <3>1
  <2>5. Fine(CancelID(i))
    BY <2>4, Kinds
  <2> QED
    BY <1>3, <2>4, <2>5
<1>8. ASSUME \/ \E c \in Calls : TakeResponse(c) \/ TakeCancelRdv(c)
             \/ \E i \in ReqIDs : TakeCancel(i)
      PROVE  OriginInv'
  <2>1. /\ queue # <<>> /\ queue' = Tail(queue)
        /\ \/ unmatched' = unmatched
           \/ \E c \in Calls : Head(queue) = Response(c) /\ unmatched' = unmatched \cup {c}
    BY <1>8 DEF TakeResponse, TakeCancelRdv, TakeCancel, histVars
  <2> QED
    BY <1>4, <2>1
<1>9. ASSUME \/ UNCHANGED vars
             \/ \E c \in Calls : \/ CallStep(c) \/ ToolStep(c) \/ ParentCancelled(c)
                               \/ SendResponse(c) \/ CallCancel(c)
      PROVE  UNCHANGED <<queue, unmatched>>
  BY <1>9 DEF CallStep, ToolStep, RegisterToolCall, RejectToolCall, WriteRequest,
     WriteFails, ReceiveReply, ReceiveClosed, ReceiveCtxDone, CloseRendezVous,
     FinishToolCall, createRendezVous, ToolReturns, ParentCancelled, SendResponse,
     CallCancel, busVars, histVars, vars
<1> QED
  BY <1>2, <1>5, <1>6, <1>7, <1>8, <1>9 DEF Next, ClientStep, ConsumerStep

\* Only a cancellation that was asked for cancels: the entry the consumer finds
\* under an id is of the call with that id.
LEMMA AskedStep ==
  ASSUME TypeOK, OriginInv, RegistryExact, SomeoneAsked, [Next]_vars
  PROVE  SomeoneAsked'
<1> SUFFICES ASSUME NEW e \in Calls, (cause[e] = "client" \/ handling = Cancel(e))'
             PROVE  AskedFor(id[e])'
  BY DEF SomeoneAsked
<1>0. id' = id /\ id[e] \in ReqIDs
  BY DEF TypeOK, Next, CallStep, ToolStep, ClientStep, ConsumerStep, RegisterToolCall,
     RejectToolCall, WriteRequest, WriteFails, ReceiveReply, ReceiveClosed,
     ReceiveCtxDone, CloseRendezVous, FinishToolCall, createRendezVous, ToolReturns,
     HandleClientResponse, CancelServerRequest, CancelToolCall, PublishEvent,
     ParentCancelled, TakeResponse, SendResponse, TakeCancelRdv, TakeCancel,
     CallCancel, toolVars, vars
<1>1. PICK i \in ReqIDs : i = id[e] /\ i = id'[e]
  BY <1>0
<1>2. SUFFICES AskedFor(i)'
  BY <1>1
<1>3. cause[e] = "client" \/ handling = Cancel(e) => AskedFor(i)'
  BY <1>1, HistoryGrows DEF SomeoneAsked
<1>4. CASE \E j \in ReqIDs : TakeCancel(j)
  <2>1. PICK j \in ReqIDs : TakeCancel(j)
    BY <1>4
  <2>2. queue # <<>> /\ queue' = Tail(queue) /\ Head(queue) = CancelID(j) /\ cause' = cause
    BY <2>1 DEF TakeCancel, toolVars
  <2>3. AskedFor(j)
    BY <2>2, QueueShrinks DEF OriginInv
  <2>4. handling' = Idle \/ (cancels[j] # NoCall /\ handling' = Cancel(cancels[j]))
    BY <2>1 DEF TakeCancel
  <2>5. CASE handling' = Cancel(e)
    <3>1. cancels[j] # NoCall /\ cancels[j] = e
      BY <2>4, <2>5, Kinds DEF TypeOK
    <3>2. id[e] = j
      BY <3>1 DEF RegistryExact
    <3> QED
      BY <1>1, <2>3, <3>2, HistoryGrows
  <2>6. CASE cause'[e] = "client"
    BY <1>3, <2>2, <2>6
  <2> QED
    BY <2>5, <2>6
<1>5. CASE \E c \in Calls : CallCancel(c)
  <2>1. PICK c \in Calls : CallCancel(c)
    BY <1>5
  <2>2. CASE e = c
    BY <1>3, <2>1, <2>2 DEF CallCancel
  <2>3. CASE e # c
    BY <1>3, <2>1, <2>3, Kinds DEF CallCancel, Cancelled, TypeOK
  <2> QED
    BY <2>2, <2>3
<1>6. CASE \E c \in Calls : \/ RejectToolCall(c) \/ FinishToolCall(c) \/ ParentCancelled(c)
  <2>1. PICK c \in Calls, why \in {"parent", "returned"} :
          Cancelled(c, why) /\ handling' = handling
    BY <1>6 DEF RejectToolCall, FinishToolCall, ParentCancelled, busVars
  <2>2. cause'[e] = "client" => cause[e] = "client"
    BY <2>1 DEF Cancelled, TypeOK
  <2> QED
    BY <1>3, <2>1, <2>2
<1>7. CASE cause' = cause /\ (handling' = handling \/ \A c \in Calls : handling' # Cancel(c))
  BY <1>3, <1>7
<1>8. ASSUME \/ UNCHANGED vars
             \/ \E c \in Calls :
                  \/ RegisterToolCall(c) \/ WriteRequest(c) \/ WriteFails(c)
                  \/ ReceiveReply(c) \/ ReceiveClosed(c) \/ ReceiveCtxDone(c)
                  \/ CloseRendezVous(c) \/ ToolStep(c) \/ ClientStep(c)
      PROVE  cause' = cause /\ handling' = handling
  BY <1>8 DEF ToolStep, ClientStep, RegisterToolCall, WriteRequest, WriteFails,
     ReceiveReply, ReceiveClosed, ReceiveCtxDone, CloseRendezVous, createRendezVous,
     ToolReturns, HandleClientResponse, CancelServerRequest, CancelToolCall,
     PublishEvent, toolVars, busVars, vars
<1>9. ASSUME \E c \in Calls : TakeResponse(c) \/ SendResponse(c) \/ TakeCancelRdv(c)
      PROVE  cause' = cause /\ (handling' = handling \/ \A c \in Calls : handling' # Cancel(c))
  BY <1>9, Kinds DEF TakeResponse, SendResponse, TakeCancelRdv, toolVars
<1> QED
  BY <1>4, <1>5, <1>6, <1>7, <1>8, <1>9 DEF Next, CallStep, ConsumerStep

\* Whom a client asks to have cancelled is a call of its own session.
LEMMA OwnStep ==
  ASSUME TypeOK, AskedForOwn, [Next]_vars
  PROVE  AskedForOwn'
<1>1. sess' = sess /\ id' = id
  BY DEF Next, CallStep, ToolStep, ClientStep, ConsumerStep, RegisterToolCall,
     RejectToolCall, WriteRequest, WriteFails, ReceiveReply, ReceiveClosed,
     ReceiveCtxDone, CloseRendezVous, FinishToolCall, createRendezVous, ToolReturns,
     HandleClientResponse, CancelServerRequest, CancelToolCall, PublishEvent,
     ParentCancelled, TakeResponse, SendResponse, TakeCancelRdv, TakeCancel,
     CallCancel, toolVars, vars
<1>2. asked' = asked \/ \E c \in Calls : asked' = asked \cup {<<sess[c], id[c]>>}
  BY DEF Next, CallStep, ToolStep, ClientStep, ConsumerStep, RegisterToolCall,
     RejectToolCall, WriteRequest, WriteFails, ReceiveReply, ReceiveClosed,
     ReceiveCtxDone, CloseRendezVous, FinishToolCall, createRendezVous, ToolReturns,
     HandleClientResponse, CancelServerRequest, CancelToolCall, PublishEvent,
     ParentCancelled, TakeResponse, SendResponse, TakeCancelRdv, TakeCancel,
     CallCancel, histVars, vars
<1> QED
  BY <1>1, <1>2 DEF AskedForOwn

-----------------------------------------------------------------------------
\* The invariant holds in every reachable state.
THEOREM FlightInvariant == Spec => []FlightInv
<1>1. Init => FlightInv
  BY InitFlight
<1>2. FlightInv /\ [Next]_vars => FlightInv'
  BY TypeStep, RegistryStep, StageStep, RendezVousStep, OriginStep, AskedStep, OwnStep
  DEF FlightInv
<1> QED
  BY <1>1, <1>2, PTL DEF Spec

\* Type correctness of the requests in flight; the fan-out queue never holds
\* more than its channel does.
THEOREM FlightTypes == Spec => []TypeOK
<1>1. FlightInv => TypeOK
  BY DEF FlightInv
<1> QED
  BY <1>1, FlightInvariant, PTL

\* handleToolCall's registry holds exactly the calls that run: a duplicate id
\* never removes or replaces the entry of the call it collides with.
THEOREM RegistryIsExact == Spec => []RegistryExact
<1>1. FlightInv => RegistryExact
  BY DEF FlightInv
<1> QED
  BY <1>1, FlightInvariant, PTL

\* The deferred close and a cancellation never close a channel twice, and both
\* maps of createRendezVous lose a request together.
THEOREM RendezVousIsExact == Spec => []RendezVousExact
<1>1. FlightInv => RendezVousExact
  BY DEF FlightInv
<1> QED
  BY <1>1, FlightInvariant, PTL

\* handleSessionEvent drops a response for want of a rendez-vous only if its
\* caller does not wait for it any more.
THEOREM ResponsesFindCallers == Spec => []ResponseFindsCaller
<1>1. FlightInv => ResponseFindsCaller
  BY DEF FlightInv
<1> QED
  BY <1>1, FlightInvariant, PTL

\* cancelInFlightRequest calls the cancel function of a call whose id no other
\* session uses, however late, only if the client of its own session sent
\* notifications/cancelled with its id.
THEOREM CancelsWereAsked == Spec => []CancelWasAsked
<1>1. FlightInv => CancelWasAsked
  <2> SUFFICES ASSUME FlightInv, NEW c \in Calls,
                      cause[c] = "client" \/ handling = Cancel(c),
                      \A d \in Calls : id[d] = id[c] => d = c
               PROVE  <<sess[c], id[c]>> \in asked
    BY DEF CancelWasAsked
  <2>1. PICK s \in Sessions : <<s, id[c]>> \in asked
    BY DEF FlightInv, SomeoneAsked, AskedFor
  <2>2. PICK d \in Calls : <<s, id[c]>> = <<sess[d], id[d]>>
    BY <2>1 DEF FlightInv, AskedForOwn
  <2> QED
    BY <2>1, <2>2
<1> QED
  BY <1>1, FlightInvariant, PTL
=============================================================================
