------------------------- MODULE SubscriptionsProofs -------------------------
(***************************************************************************)
(* Proofs about Subscriptions, for any number of engines, resources and    *)
(* subscribe requests: what an engine tracks is what it runs, and a        *)
(* forwarder that can no longer be cancelled was lost to one of the two    *)
(* races the code has.                                                     *)
(***************************************************************************)
EXTENDS Subscriptions, SequenceTheorems, TLAPS

\* The invariant the proofs are by: the two properties with the stages of a
\* request that make them inductive.
SubsInv == SubTypeOK /\ StagesInv /\ TrackedIsRunning /\ RunningIsOwned

\* A set with an element other than y is not {y}.
LEMMA NotSingleton == ASSUME NEW S, NEW x \in S, NEW y, x # y PROVE S # {y}
OBVIOUS

\* The initial state satisfies the invariant.
LEMMA InitSubs == SubInit => SubsInv
<1> USE DEF SubInit, Empty, SubEvents
<1>1. SubInit => SubTypeOK
  BY SubscriptionsAssumption DEF SubTypeOK
<1>2. SubInit => StagesInv /\ TrackedIsRunning /\ RunningIsOwned
  BY SubscriptionsAssumption DEF StagesInv, TrackedIsRunning, RunningIsOwned
<1> QED
  BY <1>1, <1>2 DEF SubsInv

\* The steps of a subscribe request keep the invariant.
LEMMA RequestKeeps ==
    ASSUME SubsInv, NEW r \in SubRequests, LoadForRequest(r) \/ SubscribeStep(r)
    PROVE  SubsInv'
<1> USE SubscriptionsAssumption DEF SubsInv, SubTypeOK, StagesInv,
        TrackedIsRunning, RunningIsOwned, subs, bus, deleter
<1>0. r.node \in Engines /\ r.uri \in URIs /\ NoCancel \notin SubRequests
  OBVIOUS
<1>1. CASE LoadForRequest(r)
  BY <1>0, <1>1 DEF LoadForRequest
<1>2. CASE CheckSubscribed(r)
  BY <1>0, <1>2 DEF CheckSubscribed
<1>3. CASE StartForwarder(r)
  BY <1>0, <1>3 DEF StartForwarder
<1>4. CASE SubscribeFails(r)
  BY <1>0, <1>4 DEF SubscribeFails
<1>5. CASE StoreCancel(r)
  <2>1. SubTypeOK'
    BY <1>0, <1>5 DEF StoreCancel
  <2>2. StagesInv' /\ TrackedIsRunning'
    BY <1>0, <1>5 DEF StoreCancel
  <2>3. RunningIsOwned'
    BY <1>0, <1>5 DEF StoreCancel
  <2> QED
    BY <2>1, <2>2, <2>3
<1>6. CASE StorePanics(r)
  BY <1>0, <1>6 DEF StorePanics
<1> QED
  BY <1>1, <1>2, <1>3, <1>4, <1>5, <1>6 DEF SubscribeStep

\* Cancelling what an engine tracks, wherever it is called from, keeps the
\* tables and the running forwarders in step.
LEMMA CancelAllKeeps ==
    ASSUME SubsInv, NEW n \in Engines, cancelAllSubscriptionsForSession(n),
           UNCHANGED <<stuck, stage, replaced>>
    PROVE  /\ hasMap' \in [Engines -> BOOLEAN]
           /\ subCancels' \in [Engines -> [URIs -> SubRequests \cup {NoCancel}]]
           /\ running' \subseteq SubRequests
           /\ StagesInv' /\ TrackedIsRunning' /\ RunningIsOwned'
<1> USE SubscriptionsAssumption DEF SubsInv, SubTypeOK, StagesInv,
        TrackedIsRunning, RunningIsOwned, cancelAllSubscriptionsForSession,
        Tracked, Empty
<1>1. /\ hasMap' \in [Engines -> BOOLEAN]
      /\ subCancels' \in [Engines -> [URIs -> SubRequests \cup {NoCancel}]]
      /\ running' \subseteq SubRequests
  OBVIOUS
<1>2. StagesInv'
  OBVIOUS
<1>3. TrackedIsRunning'
  OBVIOUS
<1>4. RunningIsOwned'
  OBVIOUS
<1> QED
  BY <1>1, <1>2, <1>3, <1>4

\* The same for the forwarder of one resource.
LEMMA CancelOneKeeps ==
    ASSUME SubsInv, NEW n \in Engines, NEW u \in URIs, cancelSubscription(n, u),
           UNCHANGED <<stuck, stage, replaced>>
    PROVE  /\ hasMap' \in [Engines -> BOOLEAN]
           /\ subCancels' \in [Engines -> [URIs -> SubRequests \cup {NoCancel}]]
           /\ running' \subseteq SubRequests
           /\ StagesInv' /\ TrackedIsRunning' /\ RunningIsOwned'
<1> USE SubscriptionsAssumption DEF SubsInv, SubTypeOK, StagesInv,
        TrackedIsRunning, RunningIsOwned, cancelSubscription, Tracked
<1>1. /\ hasMap' \in [Engines -> BOOLEAN]
      /\ subCancels' \in [Engines -> [URIs -> SubRequests \cup {NoCancel}]]
      /\ running' \subseteq SubRequests
  OBVIOUS
<1>2. StagesInv'
  OBVIOUS
<1>3. TrackedIsRunning'
  <2> SUFFICES ASSUME NEW m \in Engines, NEW v \in URIs,
                      subCancels'[m][v] # NoCancel
               PROVE  LET r == subCancels'[m][v] IN
                      /\ r \in running'
                      /\ r.node = m /\ r.uri = v
                      /\ stage'[r] = "done"
                      /\ hasMap'[m]
    OBVIOUS
  <2>1. ~(m = n /\ v = u) /\ subCancels'[m][v] = subCancels[m][v]
    OBVIOUS
  <2>2. /\ subCancels[m][v] \in running
        /\ subCancels[m][v].node = m /\ subCancels[m][v].uri = v
        /\ stage[subCancels[m][v]] = "done"
        /\ hasMap[m]
    BY <2>1
  <2>3. subCancels[m][v] # subCancels[n][u]
    BY <2>1, <2>2
  <2>4. CASE m # n
    BY <2>1, <2>2, <2>3, <2>4
  <2>5. CASE m = n
    <3>1. subCancels[n][v] \in Tracked(n)
      BY <2>1, <2>5
    <3>2. subCancels[n][v] # subCancels[n][u]
      BY <2>3, <2>5
    <3> HIDE DEF Tracked
    <3>3. Tracked(n) # {subCancels[n][u]}
      BY <3>1, <3>2, NotSingleton
    <3>4. hasMap'[n]
      BY <2>2, <2>5, <3>3
    <3> QED
      BY <2>1, <2>2, <2>3, <2>5, <3>4
  <2> QED
    BY <2>4, <2>5
<1>4. RunningIsOwned'
  OBVIOUS
<1> QED
  BY <1>1, <1>2, <1>3, <1>4

\* The fan-out consumer of an engine keeps the invariant.
LEMMA ConsumerKeeps ==
    ASSUME SubsInv, NEW n \in Engines, SubConsumerStep(n)
    PROVE  SubsInv'
<1> USE SubscriptionsAssumption DEF SubsInv, subs, bus, deleter
<1>1. CASE LoadForEvent(n)
  BY <1>1 DEF LoadForEvent, SubTypeOK, StagesInv, TrackedIsRunning, RunningIsOwned
<1>2. CASE SkipEvent(n)
  BY <1>2 DEF SkipEvent, SubTypeOK, StagesInv, TrackedIsRunning, RunningIsOwned
<1>3. CASE ApplyUnsubscribe(n)
  <2>1. fanouts[n] \in Seq(SubEvents) /\ fanouts[n] # <<>>
    BY <1>3 DEF ApplyUnsubscribe, SubTypeOK
  <2>2. Head(fanouts[n]) \in SubEvents /\ Head(fanouts[n]).kind = "unsubscribe"
    BY <1>3, <2>1 DEF ApplyUnsubscribe
  <2>3. Head(fanouts[n]).uri \in URIs
    BY <2>2 DEF SubEvents, Unsub, Deleted
  <2>4. StagesInv' /\ TrackedIsRunning' /\ RunningIsOwned'
    BY <1>3, <2>3, CancelOneKeeps DEF ApplyUnsubscribe
  <2>5. SubTypeOK'
    BY <1>3, <2>1, <2>3, CancelOneKeeps DEF ApplyUnsubscribe, EventDone, SubTypeOK
  <2> QED
    BY <2>4, <2>5
<1>4. CASE ApplyDeleted(n)
  <2>1. fanouts[n] \in Seq(SubEvents) /\ fanouts[n] # <<>>
    BY <1>4 DEF ApplyDeleted, SubTypeOK
  <2>2. StagesInv' /\ TrackedIsRunning' /\ RunningIsOwned'
    BY <1>4, CancelAllKeeps DEF ApplyDeleted
  <2>3. SubTypeOK'
    BY <1>4, <2>1, CancelAllKeeps DEF ApplyDeleted, EventDone, SubTypeOK
  <2> QED
    BY <2>2, <2>3
<1> QED
  BY <1>1, <1>2, <1>3, <1>4 DEF SubConsumerStep

\* Publishing an event and the steps of DeleteSession keep the invariant.
LEMMA DeleteKeeps ==
    ASSUME SubsInv,
           \/ \E u \in URIs : Unsubscribe(u)
           \/ \E n \in Engines : DeleteHere(n)
           \/ DeleteStep
    PROVE  SubsInv'
<1> USE SubscriptionsAssumption DEF SubsInv, subs, bus, deleter
<1>1. ASSUME NEW e \in SubEvents, Publish(e), UNCHANGED loaded
      PROVE  /\ fanouts' \in [Engines -> Seq(SubEvents)]
             /\ \A n \in Engines : loaded'[n] => fanouts'[n] # <<>>
             /\ sent' \in Nat
  <2>1. sent' \in Nat
    BY <1>1 DEF Publish, SubTypeOK
  <2>2. ASSUME NEW n \in Engines
        PROVE  fanouts'[n] \in Seq(SubEvents) /\ fanouts'[n] # <<>>
    <3>1. fanouts[n] \in Seq(SubEvents)
      BY DEF SubTypeOK
    <3>2. fanouts'[n] = Append(fanouts[n], e)
      BY <1>1 DEF Publish
    <3>3. Append(fanouts[n], e) \in Seq(SubEvents) /\ Append(fanouts[n], e) # <<>>
      BY <1>1, <3>1, AppendProperties
    <3> QED
      BY <3>2, <3>3
  <2>3. fanouts' = [n \in Engines |-> fanouts'[n]]
    BY <1>1 DEF Publish
  <2> QED
    BY <2>1, <2>2, <2>3
<1>2. ASSUME NEW u \in URIs, Unsubscribe(u) PROVE SubsInv'
  <2>1. Unsub(u) \in SubEvents
    BY DEF SubEvents
  <2>2. Publish(Unsub(u)) /\ UNCHANGED loaded
    BY <1>2 DEF Unsubscribe
  <2>3. /\ fanouts' \in [Engines -> Seq(SubEvents)]
        /\ \A n \in Engines : loaded'[n] => fanouts'[n] # <<>>
        /\ sent' \in Nat
    BY <1>1, <2>1, <2>2
  <2>4. SubTypeOK'
    BY <1>2, <2>3 DEF Unsubscribe, SubTypeOK
  <2>5. StagesInv' /\ TrackedIsRunning' /\ RunningIsOwned'
    BY <1>2 DEF Unsubscribe, StagesInv, TrackedIsRunning, RunningIsOwned
  <2> QED
    BY <2>4, <2>5
<1>3. ASSUME NEW n \in Engines, DeleteHere(n) PROVE SubsInv'
  <2>1. StagesInv' /\ TrackedIsRunning' /\ RunningIsOwned'
    BY <1>3, CancelAllKeeps DEF DeleteHere
  <2>2. SubTypeOK'
    BY <1>3, CancelAllKeeps DEF DeleteHere, SubTypeOK
  <2> QED
    BY <2>1, <2>2
<1>4. CASE DeleteFanout
  <2>1. Deleted \in SubEvents
    BY DEF SubEvents
  <2>2. Publish(Deleted) /\ UNCHANGED loaded
    BY <1>4 DEF DeleteFanout
  <2>3. /\ fanouts' \in [Engines -> Seq(SubEvents)]
        /\ \A n \in Engines : loaded'[n] => fanouts'[n] # <<>>
        /\ sent' \in Nat
    BY <1>1, <2>1, <2>2
  <2>4. SubTypeOK'
    BY <1>4, <2>3 DEF DeleteFanout, SubTypeOK
  <2>5. StagesInv' /\ TrackedIsRunning' /\ RunningIsOwned'
    BY <1>4 DEF DeleteFanout, StagesInv, TrackedIsRunning, RunningIsOwned
  <2> QED
    BY <2>4, <2>5
<1>5. CASE DeleteFromHost
  <2>1. SubTypeOK'
    BY <1>5 DEF DeleteFromHost, SubTypeOK
  <2>2. StagesInv' /\ TrackedIsRunning' /\ RunningIsOwned'
    BY <1>5 DEF DeleteFromHost, StagesInv, TrackedIsRunning, RunningIsOwned
  <2> QED
    BY <2>1, <2>2
<1>6. CASE DeleteFails
  BY <1>6 DEF DeleteFails, SubTypeOK, StagesInv, TrackedIsRunning, RunningIsOwned
<1> QED
  BY <1>2, <1>3, <1>4, <1>5, <1>6 DEF DeleteStep

\* The invariant holds in every reachable state.
THEOREM SubscriptionsInvariant == SubSpec => []SubsInv
<1>1. SubsInv /\ [SubNext]_subVars => SubsInv'
  <2> SUFFICES ASSUME SubsInv, [SubNext]_subVars PROVE SubsInv'
    OBVIOUS
  <2>1. CASE SubNext
    BY <2>1, RequestKeeps, ConsumerKeeps, DeleteKeeps DEF SubNext
  <2>2. CASE UNCHANGED subVars
    BY <2>2 DEF subVars, subs, bus, deleter, SubsInv, SubTypeOK, StagesInv,
                TrackedIsRunning, RunningIsOwned
  <2> QED
    BY <2>1, <2>2
<1> QED
  BY InitSubs, <1>1, PTL DEF SubSpec

\* Unsubscribe and delete find, under a resource, a forwarder the engine runs
\* for that resource and has answered for.
THEOREM TrackedForwardersRun == SubSpec => []TrackedIsRunning
<1>1. SubsInv => TrackedIsRunning
  BY DEF SubsInv
<1> QED
  BY SubscriptionsInvariant, <1>1, PTL

\* A forwarder nobody can cancel any more was overwritten by a concurrent
\* subscribe for the same resource or left behind by the panic in the store.
THEOREM ForwardersAreOwned == SubSpec => []RunningIsOwned
<1>1. SubsInv => RunningIsOwned
  BY DEF SubsInv
<1> QED
  BY SubscriptionsInvariant, <1>1, PTL
=============================================================================
