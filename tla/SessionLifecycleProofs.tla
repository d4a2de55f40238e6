----------------------- MODULE SessionLifecycleProofs -----------------------
(***************************************************************************)
(* Proofs about SessionLifecycle, for any number of users, sessions, nodes *)
(* and requests in flight.  TypeOK, OwnSessionsOnly, EmittersOnce and      *)
(* RecordsInv are inductive together; the bound on notes needs, besides,   *)
(* the accounts of who has still to forward which change.                  *)
(***************************************************************************)
EXTENDS SessionLifecycle, FiniteSetTheorems, SequenceTheorems, TLAPS

\* What is true of the records: only an id that was handed out has one or is
\* being initialized, and an open session has the session's time-to-live.
RecordsInv ==
    /\ \A s \in SessionIDs : metas[s] # NoMeta =>
          /\ s \in minted
          /\ metas[s].state = "open" => metas[s].ttl = "session"
    /\ \A p \in Procs : pc[p] = "initializing" => task[p].sess \in minted

LifeInv == TypeOK /\ OwnSessionsOnly /\ EmittersOnce /\ RecordsInv

\* A goroutine that is not idle has a well-formed task.
LEMMA Busy ==
  ASSUME TypeOK, NEW p \in Procs, pc[p] # "idle"
  PROVE  /\ task[p] \in Tasks /\ task[p].node \in Nodes
         /\ task[p].user \in Users /\ task[p].sess \in SessionIDs
<1>1. task[p] \in Tasks
  BY DEF TypeOK
<1> QED
  BY <1>1 DEF Tasks

\* Requests and consumers are goroutines, and an event has a kind of its own.
LEMMA ProcsCover == Requests \subseteq Procs /\ Nodes \subseteq Procs
  BY DEF Procs

\* What a broadcast puts on the topic.
LEMMA BroadcastTypes ==
  ASSUME TypeOK, NEW k \in EventKinds, NEW s \in SessionIDs, Broadcast(k, s)
  PROVE  /\ events' \in [EventKinds -> Nat]
         /\ inbox' \in [Nodes -> Seq([kind : EventKinds, sess : SessionIDs])]
<1>1. \A n \in Nodes : Append(inbox[n], [kind |-> k, sess |-> s])
                          \in Seq([kind : EventKinds, sess : SessionIDs])
  BY AppendProperties, ZenonT(60) DEF TypeOK
<1>2. inbox' \in [Nodes -> Seq([kind : EventKinds, sess : SessionIDs])]
  BY <1>1 DEF Broadcast
<1>3. events' \in [EventKinds -> Nat]
  BY DEF Broadcast, TypeOK
<1> QED
  BY <1>2, <1>3

\* Every action keeps the types.
LEMMA StepTypes ==
  ASSUME TypeOK, RecordsInv, [Next]_vars
  PROVE  TypeOK'
<1> USE LifecycleAssumption, ProcsCover
    DEF hostVars, idVars, procVars, wireVars, busVars, noteVars, Goto, Done
<1>1. ASSUME NEW p \in Procs, LoadStep(p) PROVE TypeOK'
  <2>1. CASE LoadSession(p)
    BY <2>1 DEF LoadSession, TypeOK
  <2>2. CASE LoadRefused(p)
    BY <2>2 DEF LoadRefused, TypeOK
  <2>3. CASE wireListChangedEmitters(p)
    BY <2>3 DEF wireListChangedEmitters, TypeOK
  <2>4. CASE ClaimWiring(p)
    <3>1. task[p].node \in Nodes /\ task[p].sess \in SessionIDs
      BY <2>4, Busy DEF ClaimWiring, Ready
    <3> QED
      BY <2>4, <3>1 DEF ClaimWiring, TypeOK
  <2>5. CASE registerListChangedEmitters(p)
    <3>1. task[p].node \in Nodes /\ task[p].sess \in SessionIDs
      BY <2>5, Busy DEF registerListChangedEmitters, Ready
    <3> QED
      <4>1. emitters' \in [Nodes -> [SessionIDs -> Nat]]
        <5>1. emitters \in [Nodes -> [SessionIDs -> Nat]]
          BY DEF TypeOK
        <5>2. emitters' = [emitters EXCEPT ![task[p].node][task[p].sess] = @ + 1]
          BY <2>5 DEF registerListChangedEmitters
        <5> QED
          BY <3>1, <5>1, <5>2
      <4> QED
        BY <2>5, <4>1 DEF registerListChangedEmitters, TypeOK
  <2> QED
    BY <1>1, <2>1, <2>2, <2>3, <2>4, <2>5 DEF LoadStep
<1>2. ASSUME NEW p \in Requests, Arrival(p) PROVE TypeOK'
  <2>0. PICK n \in Nodes, u \in Users, s \in SessionIDs :
          \/ InitializeSession(p, n, u, s)
          \/ \E k \in {"initialized", "call", "delete"} : Receive(p, n, u, s, k)
    BY <1>2 DEF Arrival
  <2>1. CASE InitializeSession(p, n, u, s)
    <3>1. [node |-> n, user |-> u, sess |-> s, kind |-> "initialize"] \in Tasks
      BY DEF Tasks, Kinds
    <3>2. [owner |-> u, state |-> "pending", ttl |-> "handshake"] \in Meta
      BY DEF Meta
    <3> QED
      BY <2>1, <3>1, <3>2 DEF InitializeSession, CreateSession, TypeOK
  <2>2. ASSUME NEW k \in {"initialized", "call", "delete"}, Receive(p, n, u, s, k)
        PROVE  TypeOK'
    <3>1. [node |-> n, user |-> u, sess |-> s, kind |-> k] \in Tasks
      BY DEF Tasks, Kinds
    <3> QED
      BY <2>2, <3>1 DEF Receive, TypeOK
  <2> QED
    BY <2>0, <2>1, <2>2
<1>3. ASSUME NEW p \in Requests, RequestStep(p) PROVE TypeOK'
  <2>1. CASE InitializeAnswered(p)
    <3>1. task[p].sess \in SessionIDs /\ task[p].sess \in minted
      BY <2>1, Busy DEF InitializeAnswered, RecordsInv
    <3> QED
      BY <2>1, <3>1 DEF InitializeAnswered, TypeOK
  <2>2. CASE InitializeFails(p)
    <3>1. task[p].sess \in SessionIDs
      BY <2>2, Busy DEF InitializeFails, Ready
    <3> QED
      BY <2>2, <3>1 DEF InitializeFails, DeleteSession, TypeOK
  <2>3. CASE InitializeAbandoned(p)
    BY <2>3 DEF InitializeAbandoned, TypeOK
  <2>4. CASE HandleInitialized(p)
    <3>1. task[p].sess \in SessionIDs
      BY <2>4, Busy DEF HandleInitialized, Ready
    <3>2. \A m \in Meta : [m EXCEPT !.state = "open", !.ttl = "session"] \in Meta
      BY DEF Meta
    <3>3. metas' \in [SessionIDs -> Meta \cup {NoMeta}]
      BY <2>4, <3>1, <3>2 DEF HandleInitialized, OpenSession, TypeOK
    <3> QED
      BY <2>4, <3>3 DEF HandleInitialized, Ready, TypeOK
  <2>5. CASE HandleRequest(p)
    <3>1. task[p].sess \in SessionIDs
      BY <2>5, Busy DEF HandleRequest, Ready
    <3>2. kv' \subseteq SessionIDs
      BY <2>5, <3>1 DEF HandleRequest, TypeOK
    <3> QED
      BY <2>5, <3>2 DEF HandleRequest, Ready, TypeOK
  <2>6. CASE DeleteBroadcast(p)
    <3>1. task[p].sess \in SessionIDs
      BY <2>6, Busy DEF DeleteBroadcast, Ready
    <3>2. events' \in [EventKinds -> Nat]
          /\ inbox' \in [Nodes -> Seq([kind : EventKinds, sess : SessionIDs])]
      BY <2>6, <3>1, BroadcastTypes DEF DeleteBroadcast, EventKinds
    <3> QED
      BY <2>6, <3>2 DEF DeleteBroadcast, TypeOK
  <2>7. CASE DeleteAtHost(p)
    <3>1. task[p].sess \in SessionIDs
      BY <2>7, Busy DEF DeleteAtHost, Ready
    <3> QED
      BY <2>7, <3>1 DEF DeleteAtHost, DeleteSession, TypeOK
  <2>8. CASE DeleteRefused(p)
    BY <2>8 DEF DeleteRefused, TypeOK
  <2>9. CASE BroadcastRefused(p)
    BY <2>9 DEF BroadcastRefused, Ready, TypeOK
  <2> QED
    BY <1>3, <2>1, <2>2, <2>3, <2>4, <2>5, <2>6, <2>7, <2>8, <2>9 DEF RequestStep
<1>4. ASSUME NEW n \in Nodes, ConsumerStep(n) PROVE TypeOK'
  <2>1. CASE TakeEvent(n)
    <3> DEFINE e == Head(inbox[n])
    <3>1. /\ e \in [kind : EventKinds, sess : SessionIDs]
          /\ Tail(inbox[n]) \in Seq([kind : EventKinds, sess : SessionIDs])
      BY <2>1, HeadTailProperties DEF TakeEvent, TypeOK
    <3>2. [node |-> n, user |-> owners[e.sess], sess |-> e.sess, kind |-> e.kind] \in Tasks
      BY <3>1 DEF Tasks, Kinds, EventKinds, TypeOK
    <3> QED
      BY <2>1, <3>1, <3>2 DEF TakeEvent, TypeOK
  <2>2. CASE ForwardListChanged(n)
    <3>1. task[n].sess \in SessionIDs
      BY <2>2, Busy DEF ForwardListChanged, Ready
    <3> QED
      <4>1. notes' \in [Nodes -> [SessionIDs -> Nat]] /\ streams' \subseteq SessionIDs
        BY <2>2, <3>1 DEF ForwardListChanged, TypeOK
      <4> QED
        BY <2>2, <4>1 DEF ForwardListChanged, Ready, TypeOK
  <2>3. CASE IgnoreEvent(n)
    BY <2>3 DEF IgnoreEvent, Ready, TypeOK
  <2> QED
    BY <1>4, <2>1, <2>2, <2>3 DEF ConsumerStep
<1>5. ASSUME NEW n \in Nodes, NEW s \in SessionIDs, EmitListChanged(n, s) PROVE TypeOK'
  <2>1. events' \in [EventKinds -> Nat]
        /\ inbox' \in [Nodes -> Seq([kind : EventKinds, sess : SessionIDs])]
    BY <1>5, BroadcastTypes DEF EmitListChanged, EventKinds
  <2>2. emitters[n][s] \in Nat
    BY DEF TypeOK
  <2>3. /\ notes' \in [Nodes -> [SessionIDs -> Nat]] /\ changes' \in [SessionIDs -> Nat]
        /\ own' \in [Nodes -> [SessionIDs -> Nat]]
        /\ streams' \subseteq SessionIDs
    BY <1>5, <2>2 DEF EmitListChanged, TypeOK
  <2> QED
    BY <1>5, <2>1, <2>3 DEF EmitListChanged, TypeOK
<1>6. CASE UNCHANGED vars
  BY <1>6 DEF vars, TypeOK
<1> QED
  BY <1>1, <1>2, <1>3, <1>4, <1>5, <1>6 DEF Next

\* Every action keeps sessions with their owners: the check of LoadSession is
\* the only way into the loaded stages, and records never change owner.
LEMMA StepOwners ==
  ASSUME TypeOK, OwnSessionsOnly, [Next]_vars
  PROVE  OwnSessionsOnly'
<1> USE LifecycleAssumption, ProcsCover
    DEF hostVars, idVars, procVars, wireVars, busVars, noteVars, Goto, Done, Loaded
<1>1. ASSUME NEW p \in Procs, LoadStep(p) PROVE OwnSessionsOnly'
  <2>0. UNCHANGED <<metas, owners>>
    BY <1>1 DEF LoadStep, LoadSession, LoadRefused, wireListChangedEmitters,
                ClaimWiring, registerListChangedEmitters
  <2>1. CASE LoadSession(p)
    <3>1. task[p].sess \in SessionIDs
      BY <2>1, Busy DEF LoadSession
    <3>2. task[p].user = owners[task[p].sess]
      BY <2>1, <3>1 DEF LoadSession, MayUse, OwnSessionsOnly
    <3> QED
      BY <2>1, <3>2 DEF LoadSession, OwnSessionsOnly, TypeOK
  <2>2. CASE LoadRefused(p)
    BY <2>2 DEF LoadRefused, OwnSessionsOnly, TypeOK
  <2>3. CASE wireListChangedEmitters(p)
    BY <2>3 DEF wireListChangedEmitters, OwnSessionsOnly, TypeOK
  <2>4. CASE ClaimWiring(p)
    BY <2>4 DEF ClaimWiring, OwnSessionsOnly, TypeOK
  <2>5. CASE registerListChangedEmitters(p)
    BY <2>5 DEF registerListChangedEmitters, OwnSessionsOnly, TypeOK
  <2> QED
    BY <1>1, <2>1, <2>2, <2>3, <2>4, <2>5 DEF LoadStep
<1>2. ASSUME NEW p \in Requests, NEW n \in Nodes, NEW u \in Users, NEW s \in SessionIDs,
             InitializeSession(p, n, u, s)
      PROVE  OwnSessionsOnly'
  <2>1. metas'[s].owner = u /\ \A t \in SessionIDs : t # s => metas'[t] = metas[t]
    BY <1>2 DEF InitializeSession, CreateSession, TypeOK
  <2>2. \A q \in Procs : pc'[q] \in Loaded => pc[q] \in Loaded /\ task'[q] = task[q]
    BY <1>2 DEF InitializeSession, TypeOK
  <2> QED
    BY <1>2, <2>1, <2>2 DEF InitializeSession, OwnSessionsOnly
<1>3. ASSUME NEW p \in Requests, NEW n \in Nodes, NEW u \in Users, NEW s \in SessionIDs,
             NEW k, Receive(p, n, u, s, k)
      PROVE  OwnSessionsOnly'
  BY <1>3 DEF Receive, OwnSessionsOnly, TypeOK
<1>4. ASSUME NEW p \in Requests, RequestStep(p) PROVE OwnSessionsOnly'
  <2>1. UNCHANGED owners /\ \A q \in Procs : pc'[q] \in Loaded => pc[q] \in Loaded /\ task'[q] = task[q]
    BY <1>4 DEF RequestStep, InitializeAnswered, InitializeFails, InitializeAbandoned,
       HandleInitialized, HandleRequest, DeleteBroadcast, BroadcastRefused, DeleteAtHost, DeleteRefused,
       Ready, TypeOK
  <2>2. \A s \in SessionIDs : metas'[s] # NoMeta =>
           metas[s] # NoMeta /\ metas'[s].owner = metas[s].owner
    <3>1. CASE HandleInitialized(p)
      <4>1. \A m \in Meta : [m EXCEPT !.state = "open", !.ttl = "session"].owner = m.owner
        BY DEF Meta
      <4> QED
        BY <3>1, <4>1 DEF HandleInitialized, OpenSession, TypeOK
    <3>2. CASE ~HandleInitialized(p)
      BY <1>4, <3>2 DEF RequestStep, InitializeAnswered, InitializeFails,
         InitializeAbandoned, HandleRequest, DeleteBroadcast, BroadcastRefused, DeleteAtHost,
         DeleteRefused, DeleteSession, TypeOK
    <3> QED
      BY <3>1, <3>2
  <2> QED
    BY <2>1, <2>2 DEF OwnSessionsOnly
<1>5. ASSUME NEW n \in Nodes, ConsumerStep(n) PROVE OwnSessionsOnly'
  <2>1. CASE TakeEvent(n)
    BY <2>1 DEF TakeEvent, Ready, OwnSessionsOnly, TypeOK
  <2>2. CASE ForwardListChanged(n)
    BY <2>2 DEF ForwardListChanged, Ready, OwnSessionsOnly, TypeOK
  <2>3. CASE IgnoreEvent(n)
    BY <2>3 DEF IgnoreEvent, Ready, OwnSessionsOnly, TypeOK
  <2> QED
    BY <1>5, <2>1, <2>2, <2>3 DEF ConsumerStep
<1>6. ASSUME NEW n \in Nodes, NEW s \in SessionIDs, EmitListChanged(n, s)
      PROVE  OwnSessionsOnly'
  BY <1>6 DEF EmitListChanged, OwnSessionsOnly
<1>7. CASE UNCHANGED vars
  BY <1>7 DEF vars, OwnSessionsOnly
<1> QED
  BY <1>1, <1>2, <1>3, <1>4, <1>5, <1>6, <1>7 DEF Next, Arrival

\* Who registers the emitters of s on n at the moment.
Registering(n, s) ==
    {p \in Procs : pc[p] = "register" /\ task[p].node = n /\ task[p].sess = s}

\* A step that keeps the tables and moves nobody into or out of the registering
\* stage keeps EmittersOnce.
LEMMA EmittersFrame ==
  ASSUME EmittersOnce, UNCHANGED wireVars,
         \A p \in Procs : pc'[p] = "register" <=> pc[p] = "register",
         \A p \in Procs : pc[p] = "register" => task'[p] = task[p]
  PROVE  EmittersOnce'
<1>1. \A n \in Nodes, s \in SessionIDs : Registering(n, s)' = Registering(n, s)
  BY DEF Registering
<1> QED
  BY <1>1 DEF EmittersOnce, Registering, wireVars

\* Every action keeps the emitters registered at most once: a goroutine claims
\* the session under wireMu before it registers.
LEMMA StepEmitters ==
  ASSUME TypeOK, EmittersOnce, [Next]_vars
  PROVE  EmittersOnce'
<1> USE LifecycleAssumption, ProcsCover
    DEF hostVars, idVars, procVars, wireVars, busVars, noteVars, Goto, Done
<1>1. ASSUME NEW p \in Procs, ClaimWiring(p) PROVE EmittersOnce'
  <2> DEFINE n == task[p].node  s == task[p].sess
  <2>1. n \in Nodes /\ s \in SessionIDs
    BY <1>1, Busy DEF ClaimWiring
  <2>2. /\ pc[p] = "wire" /\ UNCHANGED <<task, emitters>>
        /\ \A q \in Procs : q # p => pc'[q] = pc[q]
        /\ pc'[p] = IF s \in wired[n] THEN "ready" ELSE "register"
        /\ wired'[n] = wired[n] \cup {s} /\ \A m \in Nodes : m # n => wired'[m] = wired[m]
    BY <1>1, <2>1 DEF ClaimWiring, TypeOK
  <2>3. CASE s \in wired[n]
    <3>1. wired' = wired
      BY <1>1, <2>1, <2>3 DEF ClaimWiring, TypeOK
    <3> QED
      BY <2>2, <2>3, <3>1, EmittersFrame
  <2>4. CASE s \notin wired[n]
    <3>1. Registering(n, s) = {} /\ emitters[n][s] = 0
      <4> DEFINE R == Registering(n, s)
      <4>1. emitters[n][s] + (IF R = {} THEN 0 ELSE 1) = 0
        BY <2>1, <2>4 DEF EmittersOnce, Registering
      <4>2. emitters[n][s] \in Nat
        BY <2>1 DEF TypeOK
      <4> HIDE DEF R
      <4>3. R = {} /\ emitters[n][s] = 0
        BY <4>1, <4>2
      <4> QED
        BY <4>3 DEF R
    <3>2. Registering(n, s)' = {p}
      BY <2>2, <2>4, <3>1 DEF Registering
    <3>3. \A m \in Nodes, t \in SessionIDs :
             <<m, t>> # <<n, s>> => Registering(m, t)' = Registering(m, t)
      BY <2>2, <2>4 DEF Registering
    <3>4. \A m \in Nodes, t \in SessionIDs :
             <<m, t>> # <<n, s>> => (t \in wired'[m] <=> t \in wired[m])
      BY <2>2
    <3> QED
      BY <2>1, <2>2, <3>1, <3>2, <3>3, <3>4 DEF EmittersOnce, Registering
  <2> QED
    BY <2>3, <2>4
<1>2. ASSUME NEW p \in Procs, registerListChangedEmitters(p) PROVE EmittersOnce'
  <2> DEFINE n == task[p].node  s == task[p].sess
  <2>1. n \in Nodes /\ s \in SessionIDs
    BY <1>2, Busy DEF registerListChangedEmitters
  <2>2. /\ pc[p] = "register" /\ pc'[p] = "ready" /\ UNCHANGED <<task, wired>>
        /\ \A q \in Procs : q # p => pc'[q] = pc[q]
    BY <1>2 DEF registerListChangedEmitters, TypeOK
  <2>3. /\ emitters'[n][s] = emitters[n][s] + 1
        /\ \A m \in Nodes, t \in SessionIDs :
              <<m, t>> # <<n, s>> => emitters'[m][t] = emitters[m][t]
    BY <1>2, <2>1 DEF registerListChangedEmitters, TypeOK
  <2>4. p \in Registering(n, s)
    BY <2>2 DEF Registering
  <2>5. Registering(n, s) = {p} /\ Registering(n, s)' = {}
    BY <2>1, <2>2, <2>4 DEF EmittersOnce, Registering
  <2>6. \A m \in Nodes, t \in SessionIDs :
           <<m, t>> # <<n, s>> => Registering(m, t)' = Registering(m, t)
    BY <2>2 DEF Registering
  <2>7. emitters[n][s] \in Nat
    BY <2>1 DEF TypeOK
  <2> QED
    BY <2>1, <2>2, <2>3, <2>5, <2>6, <2>7 DEF EmittersOnce, Registering
<1>3. ASSUME NEW p \in Procs, LoadSession(p) \/ LoadRefused(p) \/ wireListChangedEmitters(p)
      PROVE  EmittersOnce'
  BY <1>3, EmittersFrame DEF LoadSession, LoadRefused, wireListChangedEmitters, TypeOK
<1>4. ASSUME NEW p \in Requests, Arrival(p) PROVE EmittersOnce'
  BY <1>4, EmittersFrame DEF Arrival, InitializeSession, Receive, TypeOK
<1>5. ASSUME NEW p \in Requests, RequestStep(p) PROVE EmittersOnce'
  BY <1>5, EmittersFrame
     DEF RequestStep, InitializeAnswered, InitializeFails, InitializeAbandoned,
         HandleInitialized, HandleRequest, DeleteBroadcast, BroadcastRefused, DeleteAtHost,
         DeleteRefused, Ready, TypeOK
<1>6. ASSUME NEW n \in Nodes, ConsumerStep(n) PROVE EmittersOnce'
  BY <1>6, EmittersFrame
     DEF ConsumerStep, TakeEvent, ForwardListChanged, IgnoreEvent, Ready, TypeOK
<1>7. ASSUME NEW n \in Nodes, NEW s \in SessionIDs, EmitListChanged(n, s)
      PROVE  EmittersOnce'
  BY <1>7, EmittersFrame DEF EmitListChanged
<1>8. CASE UNCHANGED vars
  BY <1>8, EmittersFrame DEF vars
<1> QED
  BY <1>1, <1>2, <1>3, <1>4, <1>5, <1>6, <1>7, <1>8 DEF Next, LoadStep

\* What one step does to the records: it creates one for a fresh id, opens one
\* in place, or drops one.
LEMMA StepMetas ==
  ASSUME TypeOK, [Next]_vars, NEW s \in SessionIDs
  PROVE  \/ metas'[s] = metas[s]
         \/ metas'[s] = NoMeta
         \/ /\ s \notin minted /\ s \in minted'
            /\ metas'[s] = [owner |-> owners[s], state |-> "pending", ttl |-> "handshake"]
         \/ /\ metas[s] \in Meta /\ metas'[s] \in Meta
            /\ metas'[s].owner = metas[s].owner
            /\ metas'[s].state = "open" /\ metas'[s].ttl = "session"
<1> USE LifecycleAssumption, ProcsCover
    DEF hostVars, idVars, procVars, wireVars, busVars, noteVars, Goto, Done
<1>1. ASSUME NEW p \in Requests, NEW n \in Nodes, NEW u \in Users, NEW t \in SessionIDs,
             InitializeSession(p, n, u, t), s = t
      PROVE  /\ s \notin minted /\ s \in minted'
             /\ metas'[s] = [owner |-> owners[s], state |-> "pending", ttl |-> "handshake"]
  BY <1>1 DEF InitializeSession, CreateSession, TypeOK
<1>2. ASSUME NEW p \in Requests, NEW n \in Nodes, NEW u \in Users, NEW t \in SessionIDs,
             InitializeSession(p, n, u, t), s # t
      PROVE  metas'[s] = metas[s]
  BY <1>2 DEF InitializeSession, CreateSession, TypeOK
<1>3. ASSUME NEW p \in Requests, HandleInitialized(p), metas'[s] # metas[s]
      PROVE  /\ metas[s] \in Meta /\ metas'[s] \in Meta
             /\ metas'[s].owner = metas[s].owner
             /\ metas'[s].state = "open" /\ metas'[s].ttl = "session"
  <2>1. metas[s] \in Meta /\ metas'[s] = [metas[s] EXCEPT !.state = "open", !.ttl = "session"]
    <3>1. metas' = [metas EXCEPT ![task[p].sess] =
                      IF @ # NoMeta /\ @.owner = task[p].user /\ @.state = "pending"
                      THEN [@ EXCEPT !.state = "open", !.ttl = "session"] ELSE @]
      BY <1>3 DEF HandleInitialized, OpenSession
    <3>2. s = task[p].sess
      BY <1>3, <3>1 DEF TypeOK
    <3>3. metas[s] # NoMeta /\ metas'[s] = [metas[s] EXCEPT !.state = "open", !.ttl = "session"]
      BY <1>3, <3>1, <3>2 DEF TypeOK
    <3> QED
      BY <3>3 DEF TypeOK
  <2> QED
    BY <2>1 DEF Meta
<1>4. ASSUME NEW p \in Requests, RequestStep(p), ~HandleInitialized(p)
      PROVE  metas'[s] = metas[s] \/ metas'[s] = NoMeta
  BY <1>4 DEF RequestStep, InitializeAnswered, InitializeFails, InitializeAbandoned,
     HandleRequest, DeleteBroadcast, BroadcastRefused, DeleteAtHost, DeleteRefused, DeleteSession, TypeOK
<1>5. ASSUME NEW p \in Procs, LoadStep(p) PROVE metas'[s] = metas[s]
  BY <1>5 DEF LoadStep, LoadSession, LoadRefused, wireListChangedEmitters, ClaimWiring,
              registerListChangedEmitters
<1>6. ASSUME NEW n \in Nodes, ConsumerStep(n) \/ \E t \in SessionIDs : EmitListChanged(n, t)
      PROVE  metas'[s] = metas[s]
  BY <1>6 DEF ConsumerStep, TakeEvent, ForwardListChanged, IgnoreEvent, EmitListChanged
<1>7. ASSUME NEW p \in Requests, NEW n \in Nodes, NEW u \in Users, NEW t \in SessionIDs,
             NEW k, Receive(p, n, u, t, k)
      PROVE  metas'[s] = metas[s]
  BY <1>7 DEF Receive
<1>8. CASE UNCHANGED vars
  BY <1>8 DEF vars
<1>9. CASE Next
  <2>1. CASE \E p \in Requests : Arrival(p)
    BY <2>1, <1>1, <1>2, <1>7 DEF Arrival
  <2>2. CASE \E p \in Requests : RequestStep(p)
    BY <2>2, <1>3, <1>4
  <2> QED
    BY <1>5, <1>6, <1>9, <2>1, <2>2 DEF Next
<1> QED
  BY <1>8, <1>9

\* Every action keeps RecordsInv.
LEMMA StepRecords ==
  ASSUME TypeOK, RecordsInv, [Next]_vars
  PROVE  RecordsInv'
<1>1. minted \subseteq minted'
  BY ZenonT(60) DEF Next, vars, LoadStep, LoadSession, LoadRefused, wireListChangedEmitters,
     ClaimWiring, registerListChangedEmitters, Arrival, InitializeSession, Receive,
     RequestStep, InitializeAnswered, InitializeFails, InitializeAbandoned,
     HandleInitialized, HandleRequest, DeleteBroadcast, BroadcastRefused, DeleteAtHost, DeleteRefused,
     ConsumerStep, TakeEvent, ForwardListChanged, IgnoreEvent, EmitListChanged, idVars
<1>2. ASSUME NEW s \in SessionIDs, metas'[s] # NoMeta
      PROVE  s \in minted' /\ (metas'[s].state = "open" => metas'[s].ttl = "session")
  <2>1. CASE metas'[s] = metas[s]
    BY <1>1, <1>2, <2>1 DEF RecordsInv
  <2>2. CASE /\ s \in minted'
             /\ metas'[s] = [owner |-> owners[s], state |-> "pending", ttl |-> "handshake"]
    BY <2>2
  <2>3. CASE /\ metas[s] \in Meta
             /\ metas'[s].state = "open" /\ metas'[s].ttl = "session"
    BY <1>1, <2>3, LifecycleAssumption DEF RecordsInv
  <2> QED
    BY <1>2, <2>1, <2>2, <2>3, StepMetas
<1>3. ASSUME NEW p \in Procs, pc'[p] = "initializing" PROVE task'[p].sess \in minted'
  <2>1. \/ pc[p] = "initializing" /\ task'[p] = task[p]
        \/ task'[p].sess \in minted'
    <3> USE <1>3, ProcsCover DEF procVars, Goto, Done, TypeOK
    <3>1. ASSUME NEW q \in Procs, LoadStep(q)
          PROVE  pc[p] = "initializing" /\ task'[p] = task[p]
      BY <3>1 DEF LoadStep, LoadSession, LoadRefused, wireListChangedEmitters,
         ClaimWiring, registerListChangedEmitters
    <3>2. ASSUME NEW q \in Requests, RequestStep(q)
          PROVE  pc[p] = "initializing" /\ task'[p] = task[p]
      BY <3>2 DEF RequestStep, InitializeAnswered, InitializeFails, InitializeAbandoned,
         HandleInitialized, HandleRequest, DeleteBroadcast, BroadcastRefused, DeleteAtHost, DeleteRefused
    <3>3. ASSUME NEW n \in Nodes, ConsumerStep(n) \/ \E s \in SessionIDs : EmitListChanged(n, s)
          PROVE  pc[p] = "initializing" /\ task'[p] = task[p]
      BY <3>3 DEF ConsumerStep, TakeEvent, ForwardListChanged, IgnoreEvent, EmitListChanged
    <3>4. ASSUME NEW q \in Requests, NEW n \in Nodes, NEW u \in Users,
                 NEW s \in SessionIDs, InitializeSession(q, n, u, s)
          PROVE  \/ pc[p] = "initializing" /\ task'[p] = task[p]
                 \/ task'[p].sess \in minted'
      BY <3>4 DEF InitializeSession
    <3>5. ASSUME NEW q \in Requests, NEW n \in Nodes, NEW u \in Users,
                 NEW s \in SessionIDs, NEW k, Receive(q, n, u, s, k)
          PROVE  pc[p] = "initializing" /\ task'[p] = task[p]
      BY <3>5 DEF Receive
    <3>6. CASE UNCHANGED vars
      BY <3>6 DEF vars
    <3> QED
      BY <3>1, <3>2, <3>3, <3>4, <3>5, <3>6 DEF Next, Arrival
  <2> QED
    BY <1>1, <2>1 DEF RecordsInv
<1> QED
  BY <1>2, <1>3, SMTT(40) DEF RecordsInv

\* The invariant holds.
THEOREM LifeInvariant == Spec => []LifeInv
<1>1. Init => LifeInv
  <2> SUFFICES ASSUME Init PROVE LifeInv
    OBVIOUS
  <2>1. TypeOK
    BY LifecycleAssumption DEF Init, TypeOK, EventKinds
  <2>2. EmittersOnce
    <3>1. \A n \in Nodes, s \in SessionIDs : Registering(n, s) = {}
      BY DEF Init, Registering
    <3> QED
      BY <3>1 DEF Init, EmittersOnce, Registering
  <2>3. OwnSessionsOnly /\ RecordsInv
    BY DEF Init, OwnSessionsOnly, RecordsInv, Loaded
  <2> QED
    BY <2>1, <2>2, <2>3 DEF LifeInv
<1>2. LifeInv /\ [Next]_vars => LifeInv'
  BY StepTypes, StepOwners, StepEmitters, StepRecords DEF LifeInv
<1> QED
  BY <1>1, <1>2, PTL DEF Spec

\* Whatever requests, events and deletes interleave, what passes LoadSession
\* works for the user who created the session.
THEOREM SessionsStayWithOwners == Spec => []OwnSessionsOnly
<1>1. LifeInv => OwnSessionsOnly
  BY DEF LifeInv
<1> QED
  BY <1>1, LifeInvariant, PTL

\* A deleted record never comes back, an open session stays open, and the owner
\* of a record never changes.
THEOREM RecordsOnlyMoveForward == Spec => RecordsMoveForward
<1>1. ASSUME LifeInv, LifeInv', [Next]_vars
      PROVE  [\A s \in SessionIDs :
          /\ s \in minted /\ metas[s] = NoMeta => metas'[s] = NoMeta
          /\ metas[s] # NoMeta /\ metas'[s] # NoMeta =>
               /\ metas'[s].owner = metas[s].owner
               /\ metas[s].state = "open" => metas'[s].state = "open"
               /\ metas'[s].state = "open" => metas'[s].ttl = "session"]_vars
  BY <1>1, StepMetas, LifecycleAssumption DEF LifeInv, RecordsInv
<1> QED
  BY <1>1, LifeInvariant, PTL DEF Spec, RecordsMoveForward

-----------------------------------------------------------------------------
(* How many notes an engine puts in a stream.  The changes of a session are *)
(* numbered as they happen.  A node owes a note for every listChanged event *)
(* it works on (position 0) or has not taken yet (the positions of its      *)
(* inbox); each of these stands for another change, and none for one the    *)
(* node has forwarded already.                                              *)

Tells(e, s) == e.kind = "listChanged" /\ e.sess = s

Owed(n, s) ==
    {i \in 0..Len(inbox[n]) : IF i = 0 THEN pc[n] # "idle" /\ Tells(task[n], s)
                                       ELSE Tells(inbox[n][i], s)}

\* t tells which change each event that n owes stands for; F are the changes n
\* has forwarded.
Numbering(n, s, F, t) ==
    \A i \in Owed(n, s) :
        /\ t[i] \in 1..changes[s]
        /\ t[i] \notin F
        /\ \A j \in Owed(n, s) : t[i] = t[j] => i = j

NotesOf(n, s, F) ==
    /\ notes[n][s] <= own[n][s] + Cardinality(F)
    /\ \E t \in [Nat -> Nat] : Numbering(n, s, F, t)

\* The accounts of n for s balance.
Balanced(n, s) == \E F \in SUBSET (1..changes[s]) : NotesOf(n, s, F)

NotesInv == \A n \in Nodes, s \in SessionIDs : Balanced(n, s)

\* A set of changes is finite and has no more members than there were changes.
LEMMA ForwardedFinite ==
  ASSUME NEW k \in Nat, NEW F \in SUBSET (1..k)
  PROVE  IsFiniteSet(F) /\ Cardinality(F) \in Nat /\ Cardinality(F) <= k
<1>1. IsFiniteSet(1..k) /\ Cardinality(1..k) = k
  BY FS_Interval
<1> QED
  BY <1>1, FS_Subset, FS_CardinalityType

\* An emitter that exists is registered once.
LEMMA OneEmitter ==
  ASSUME TypeOK, EmittersOnce, NEW n \in Nodes, NEW s \in SessionIDs, emitters[n][s] > 0
  PROVE  emitters[n][s] = 1
<1> DEFINE R == Registering(n, s)
<1>1. emitters[n][s] + (IF R = {} THEN 0 ELSE 1) = (IF s \in wired[n] THEN 1 ELSE 0)
  BY DEF EmittersOnce, Registering
<1>2. emitters[n][s] \in Nat
  BY DEF TypeOK
<1> HIDE DEF R
<1> QED
  BY <1>1, <1>2

\* A step that adds no debt and no note keeps the accounts.
LEMMA NotesFrame ==
  ASSUME NEW n \in Nodes, NEW s \in SessionIDs, changes'[s] = changes[s],
         notes'[n][s] = notes[n][s], own'[n][s] = own[n][s],
         Owed(n, s)' \subseteq Owed(n, s), Balanced(n, s)
  PROVE  Balanced(n, s)'
<1>1. PICK F \in SUBSET (1..changes[s]) : NotesOf(n, s, F)
  BY DEF Balanced
<1>2. ASSUME NEW t, Numbering(n, s, F, t) PROVE Numbering(n, s, F, t)'
  BY <1>2 DEF Numbering
<1>3. NotesOf(n, s, F)'
  BY <1>1, <1>2 DEF NotesOf
<1> QED
  BY <1>1, <1>3 DEF Balanced

\* What an event of another kind or session on the topic adds: nothing.
LEMMA BroadcastOwes ==
  ASSUME TypeOK, NEW k \in EventKinds, NEW u \in SessionIDs, Broadcast(k, u),
         NEW n \in Nodes, NEW s \in SessionIDs,
         pc'[n] # "idle" => pc[n] # "idle" /\ task'[n] = task[n]
  PROVE  /\ Len(inbox[n]) \in Nat
         /\ Owed(n, s)' \subseteq Owed(n, s) \cup {Len(inbox[n]) + 1}
         /\ ~(k = "listChanged" /\ u = s) => Owed(n, s)' \subseteq Owed(n, s)
<1> DEFINE e == [kind |-> k, sess |-> u]
<1>1. /\ inbox[n] \in Seq([kind : EventKinds, sess : SessionIDs])
      /\ e \in [kind : EventKinds, sess : SessionIDs]
      /\ inbox'[n] = Append(inbox[n], e)
  BY DEF TypeOK, Broadcast
<1>2. /\ Len(inbox[n]) \in Nat /\ Len(inbox'[n]) = Len(inbox[n]) + 1
      /\ \A i \in 1..Len(inbox[n]) : inbox'[n][i] = inbox[n][i]
      /\ inbox'[n][Len(inbox[n]) + 1] = e
  BY <1>1, AppendProperties, LenProperties
<1>3. Tells(e, s) => k = "listChanged" /\ u = s
  BY DEF Tells
<1> HIDE DEF e
<1>4. ASSUME NEW i \in Owed(n, s)', i # Len(inbox[n]) + 1 PROVE i \in Owed(n, s)
  BY <1>2, <1>4 DEF Owed, Tells
<1>5. ASSUME Len(inbox[n]) + 1 \in Owed(n, s)' PROVE Tells(e, s)
  BY <1>2, <1>5 DEF Owed, Tells
<1> QED
  BY <1>2, <1>3, <1>4, <1>5

\* Every step keeps the accounts.
LEMMA StepNotes ==
  ASSUME TypeOK, TypeOK', EmittersOnce, NotesInv, [Next]_vars
  PROVE  NotesInv'
<1> SUFFICES ASSUME NEW m \in Nodes, NEW s \in SessionIDs
             PROVE  Balanced(m, s)'
  BY DEF NotesInv
<1> USE LifecycleAssumption, ProcsCover
    DEF hostVars, idVars, procVars, wireVars, busVars, noteVars, Goto, Done
<1>0. Balanced(m, s)
  BY DEF NotesInv
<1>a. changes[s] \in Nat /\ notes[m][s] \in Nat /\ own[m][s] \in Nat
  BY DEF TypeOK
<1>1. ASSUME changes'[s] = changes[s], notes'[m][s] = notes[m][s], own'[m][s] = own[m][s],
             Owed(m, s)' \subseteq Owed(m, s)
      PROVE  Balanced(m, s)'
  BY <1>0, <1>1, NotesFrame
<1>2. ASSUME UNCHANGED <<inbox, changes, own, notes>>,
             pc'[m] # "idle" => pc[m] # "idle" /\ task'[m] = task[m]
      PROVE  Balanced(m, s)'
  <2>1. Owed(m, s)' \subseteq Owed(m, s)
    BY <1>2 DEF Owed
  <2> QED
    BY <1>1, <1>2, <2>1
<1>3. ASSUME NEW p \in Procs, LoadStep(p) PROVE Balanced(m, s)'
  BY <1>2, <1>3 DEF LoadStep, LoadSession, LoadRefused, wireListChangedEmitters,
                    ClaimWiring, registerListChangedEmitters, TypeOK
<1>4. ASSUME NEW p \in Requests, Arrival(p) PROVE Balanced(m, s)'
  <2>1. /\ UNCHANGED <<inbox, changes, own, notes>>
        /\ pc'[m] = pc[m] /\ task'[m] = task[m]
    <3>1. p \notin Nodes
      OBVIOUS
    <3>2. ASSUME NEW n \in Nodes, NEW u \in Users, NEW x \in SessionIDs,
                 \/ InitializeSession(p, n, u, x)
                 \/ \E k \in {"initialized", "call", "delete"} : Receive(p, n, u, x, k)
          PROVE  /\ UNCHANGED <<inbox, changes, own, notes>>
                 /\ pc'[m] = pc[m] /\ task'[m] = task[m]
      BY <3>1, <3>2 DEF InitializeSession, Receive, TypeOK
    <3> QED
      BY <1>4, <3>2 DEF Arrival
  <2> QED
    BY <1>2, <2>1
<1>5. ASSUME NEW p \in Requests, RequestStep(p), ~DeleteBroadcast(p)
      PROVE  Balanced(m, s)'
  BY <1>2, <1>5 DEF RequestStep, InitializeAnswered, InitializeFails,
     InitializeAbandoned, HandleInitialized, HandleRequest, BroadcastRefused,
     DeleteAtHost, DeleteRefused, Ready, TypeOK
<1>6. ASSUME NEW p \in Requests, DeleteBroadcast(p) PROVE Balanced(m, s)'
  <2>1. task[p].sess \in SessionIDs
    BY <1>6, Busy DEF DeleteBroadcast, Ready
  <2>2. pc'[m] # "idle" => pc[m] # "idle" /\ task'[m] = task[m]
    BY <1>6 DEF DeleteBroadcast, TypeOK
  <2>3. Owed(m, s)' \subseteq Owed(m, s)
    BY <1>6, <2>1, <2>2, BroadcastOwes DEF DeleteBroadcast, EventKinds
  <2> QED
    BY <1>1, <1>6, <2>3 DEF DeleteBroadcast
<1>7. ASSUME NEW n \in Nodes, IgnoreEvent(n) PROVE Balanced(m, s)'
  BY <1>2, <1>7 DEF IgnoreEvent, Ready, TypeOK
<1>8. CASE UNCHANGED vars
  BY <1>2, <1>8 DEF vars
<1>9. ASSUME NEW n \in Nodes, TakeEvent(n) PROVE Balanced(m, s)'
  <2>1. /\ inbox[n] \in Seq([kind : EventKinds, sess : SessionIDs]) /\ inbox[n] # <<>>
        /\ pc[n] = "idle" /\ UNCHANGED <<changes, own, notes>>
        /\ m # n => inbox'[m] = inbox[m] /\ pc'[m] = pc[m] /\ task'[m] = task[m]
        /\ inbox'[n] = Tail(inbox[n])
        /\ task'[n].kind = Head(inbox[n]).kind /\ task'[n].sess = Head(inbox[n]).sess
    BY <1>9 DEF TakeEvent, TypeOK
  <2>2. /\ Len(inbox[n]) \in Nat /\ Len(inbox'[n]) = Len(inbox[n]) - 1
        /\ Head(inbox[n]) = inbox[n][1]
        /\ \A i \in 1..Len(inbox'[n]) : inbox'[n][i] = inbox[n][i + 1]
    BY <2>1, HeadTailProperties, LenProperties, EmptySeq
  <2>3. \A i \in Owed(n, s)' : i \in Nat /\ i + 1 \in Owed(n, s)
    BY <2>1, <2>2 DEF Owed, Tells
  <2>4. CASE m # n
    <3>1. Owed(m, s)' = Owed(m, s)
      BY <2>1, <2>4 DEF Owed
    <3> QED
      BY <1>1, <2>1, <3>1
  <2>5. CASE m = n
    <3>0. PICK F \in SUBSET (1..changes[s]) : NotesOf(n, s, F)
      BY <1>0, <2>5 DEF Balanced
    <3>1. PICK t \in [Nat -> Nat] : Numbering(n, s, F, t)
      BY <3>0 DEF NotesOf
    <3>2. PICK u \in [Nat -> Nat] : \A i \in Nat : u[i] = t[i + 1]
      <4>1. [i \in Nat |-> t[i + 1]] \in [Nat -> Nat]
        BY <3>1
      <4> QED
        BY <4>1
    <3>3. ASSUME NEW i \in Owed(n, s)'
          PROVE  /\ u[i] \in 1..changes'[s] /\ u[i] \notin F
                 /\ \A j \in Owed(n, s)' : u[i] = u[j] => i = j
      <4>1. i \in Nat /\ i + 1 \in Owed(n, s) /\ u[i] = t[i + 1]
        BY <2>3, <3>2, <3>3
      <4>2. ASSUME NEW j \in Owed(n, s)', u[i] = u[j] PROVE i = j
        <5>1. j \in Nat /\ j + 1 \in Owed(n, s) /\ u[j] = t[j + 1]
          BY <2>3, <3>2, <4>2
        <5>2. i + 1 = j + 1
          BY <3>1, <4>1, <4>2, <5>1 DEF Numbering
        <5> QED
          BY <4>1, <5>1, <5>2
      <4>3. t[i + 1] \in 1..changes[s] /\ t[i + 1] \notin F
        BY <3>1, <4>1 DEF Numbering
      <4> QED
        BY <2>1, <4>1, <4>2, <4>3
    <3>4. Numbering(n, s, F, u)'
      BY <3>3 DEF Numbering
    <3>5. NotesOf(n, s, F)'
      BY <2>1, <3>0, <3>4 DEF NotesOf
    <3> QED
      BY <2>1, <2>5, <3>0, <3>5 DEF Balanced
  <2> QED
    BY <2>4, <2>5
<1>10. ASSUME NEW n \in Nodes, ForwardListChanged(n) PROVE Balanced(m, s)'
  <2>1. task[n].sess \in SessionIDs
    BY <1>10, Busy DEF ForwardListChanged, Ready
  <2>2. /\ UNCHANGED <<inbox, changes, own>> /\ pc[n] # "idle" /\ pc'[n] = "idle"
        /\ task[n].kind = "listChanged"
        /\ m # n => pc'[m] = pc[m] /\ task'[m] = task[m]
    BY <1>10, <2>1 DEF ForwardListChanged, Ready, TypeOK
  <2>a. notes'[m][s] = IF m = n /\ s = task[n].sess THEN notes[m][s] + 1 ELSE notes[m][s]
    BY <1>10, <2>1 DEF ForwardListChanged, TypeOK
  <2>3. /\ Owed(m, s)' \subseteq Owed(m, s)
        /\ 0 \notin Owed(n, s)'
    BY <2>2 DEF Owed
  <2>4. CASE ~(m = n /\ s = task[n].sess)
    BY <1>1, <2>2, <2>a, <2>3, <2>4
  <2>5. CASE m = n /\ s = task[n].sess
    <3>0. PICK F \in SUBSET (1..changes[s]) : NotesOf(n, s, F)
      BY <1>0, <2>5 DEF Balanced
    <3>1. PICK t \in [Nat -> Nat] : Numbering(n, s, F, t)
      BY <3>0 DEF NotesOf
    <3>2. 0 \in Owed(n, s)
      <4>1. Len(inbox[n]) \in Nat
        BY LenProperties DEF TypeOK
      <4> QED
        BY <2>2, <2>5, <4>1 DEF Owed, Tells
    <3>3. t[0] \in 1..changes[s] /\ t[0] \notin F
      BY <3>1, <3>2 DEF Numbering
    <3> DEFINE G == F \cup {t[0]}
    <3>4. G \in SUBSET (1..changes[s])
      BY <3>3
    <3>5. Cardinality(F) \in Nat /\ Cardinality(G) = Cardinality(F) + 1
      BY <1>a, <3>3, ForwardedFinite, FS_AddElement
    <3>6. Numbering(n, s, G, t)'
      <4>1. ASSUME NEW i \in Owed(n, s)' PROVE t[i] # t[0] /\ i \in Owed(n, s)
        BY <2>3, <2>5, <3>1, <3>2, <4>1 DEF Numbering
      <4> QED
        BY <2>2, <3>1, <4>1 DEF Numbering
    <3>8. notes'[n][s] <= own'[n][s] + Cardinality(G)
      <4>1. notes[n][s] <= own[n][s] + Cardinality(F)
        BY <3>0 DEF NotesOf
      <4> HIDE DEF G
      <4> QED
        BY <1>a, <2>2, <2>a, <2>5, <3>5, <4>1
    <3>9. NotesOf(n, s, G)'
      BY <3>6, <3>8 DEF NotesOf
    <3> QED
      BY <2>2, <2>5, <3>4, <3>9 DEF Balanced
  <2> QED
    BY <2>4, <2>5
<1>11. ASSUME NEW n \in Nodes, NEW u \in SessionIDs, EmitListChanged(n, u)
       PROVE  Balanced(m, s)'
  <2>1. /\ Broadcast("listChanged", u) /\ "listChanged" \in EventKinds
        /\ UNCHANGED <<pc, task>>
        /\ changes'[s] = IF s = u THEN changes[s] + 1 ELSE changes[s]
    BY <1>11 DEF EmitListChanged, EventKinds, TypeOK
  <2>a. emitters[n][u] = 1
    BY <1>11, OneEmitter DEF EmitListChanged
  <2>b. /\ notes'[m][s] = IF m = n /\ s = u THEN notes[m][s] + 1 ELSE notes[m][s]
        /\ own'[m][s] = IF m = n /\ s = u THEN own[m][s] + 1 ELSE own[m][s]
    <3>1. notes \in [Nodes -> [SessionIDs -> Nat]] /\ own \in [Nodes -> [SessionIDs -> Nat]]
      BY DEF TypeOK
    <3>2. /\ notes' = [notes EXCEPT ![n][u] = @ + 1]
          /\ own' = [own EXCEPT ![n][u] = @ + 1]
      BY <1>11, <2>a DEF EmitListChanged
    <3> QED
      BY <3>1, <3>2
  <2>2. CASE s # u
    <3>1. Owed(m, s)' \subseteq Owed(m, s)
      BY <2>1, <2>2, BroadcastOwes
    <3> QED
      BY <1>1, <2>1, <2>b, <2>2, <3>1
  <2>3. CASE s = u
    <3>0. PICK F \in SUBSET (1..changes[s]) : NotesOf(m, s, F)
      BY <1>0 DEF Balanced
    <3>2. \E v \in [Nat -> Nat] : Numbering(m, s, F, v)'
      <4>1. PICK t \in [Nat -> Nat] : Numbering(m, s, F, t)
        BY <3>0 DEF NotesOf
      <4>2. PICK k \in Nat : k = Len(inbox[m]) + 1
        BY LenProperties DEF TypeOK
      <4>3. k \notin Owed(m, s) /\ Owed(m, s) \subseteq Nat
        <5>1. Len(inbox[m]) \in Nat
          BY LenProperties DEF TypeOK
        <5> QED
          BY <4>2, <5>1, SMTT(40) DEF Owed
      <4>4. Owed(m, s)' \subseteq Owed(m, s) \cup {k}
        BY <2>1, <4>2, BroadcastOwes
      <4>5. PICK v \in [Nat -> Nat] : /\ v[k] = changes[s] + 1
                                      /\ \A i \in Owed(m, s) : v[i] = t[i]
        <5> DEFINE w == [t EXCEPT ![k] = changes[s] + 1]
        <5>1. w \in [Nat -> Nat] /\ w[k] = changes[s] + 1 /\ \A i \in Nat : i # k => w[i] = t[i]
          BY <1>a
        <5> HIDE DEF w
        <5> QED
          BY <4>3, <5>1
      <4>6. \A i \in Owed(m, s) : t[i] \in 1..changes[s] /\ t[i] \notin F
        BY <4>1 DEF Numbering
      <4>7. changes'[s] = changes[s] + 1 /\ changes[s] + 1 \notin F
        BY <3>0, <1>a, <2>1, <2>3
      <4>a. \A x \in 1..changes[s] : x \in 1..(changes[s] + 1) /\ x # changes[s] + 1
        BY <1>a
      <4>b. changes[s] + 1 \in 1..(changes[s] + 1)
        BY <1>a
      <4>8. ASSUME NEW i \in Owed(m, s)'
            PROVE  v[i] \in 1..changes'[s] /\ v[i] \notin F
        <5>1. CASE i = k
          BY <4>5, <4>7, <4>b, <5>1
        <5>2. CASE i \in Owed(m, s)
          BY <4>5, <4>6, <4>7, <4>a, <5>2
        <5> QED
          BY <4>4, <4>8, <5>1, <5>2
      <4>9. ASSUME NEW i \in Owed(m, s)', NEW j \in Owed(m, s)', v[i] = v[j] PROVE i = j
        <5>1. CASE i \in Owed(m, s) /\ j \in Owed(m, s)
          BY <4>1, <4>5, <4>9, <5>1 DEF Numbering
        <5>2. CASE i = k \/ j = k
          <6>1. \A x \in Owed(m, s) : v[x] # v[k]
            BY <4>5, <4>6, <4>a
          <6> QED
            BY <4>4, <4>9, <5>2, <6>1
        <5> QED
          BY <4>4, <4>9, <5>1, <5>2
      <4>10. Numbering(m, s, F, v)'
        BY <4>8, <4>9 DEF Numbering
      <4> QED
        BY <4>10
    <3>3. Cardinality(F) \in Nat
      BY <1>a, ForwardedFinite
    <3>4. notes'[m][s] <= own'[m][s] + Cardinality(F)
      <4>1. notes[m][s] <= own[m][s] + Cardinality(F)
        BY <3>0 DEF NotesOf
      <4> QED
        BY <1>a, <2>b, <3>3, <4>1
    <3>5. NotesOf(m, s, F)'
      BY <3>2, <3>4 DEF NotesOf
    <3>6. F \in SUBSET (1..changes'[s])
      BY <3>0, <1>a, <2>1, <2>3
    <3> QED
      BY <3>5, <3>6 DEF Balanced
  <2> QED
    BY <2>2, <2>3
<1> QED
  BY <1>3, <1>4, <1>5, <1>6, <1>7, <1>8, <1>9, <1>10, <1>11 DEF Next, ConsumerStep

\* Whatever loads race, an engine has the emitters of a session once, and puts
\* at most one note in its stream for each change of the resource list, two for
\* a change that happened on the engine itself.
THEOREM NotesAreBounded == Spec => []ListChangesCounted
<1>1. Init => NotesInv
  <2> SUFFICES ASSUME Init, NEW n \in Nodes, NEW s \in SessionIDs
               PROVE  NotesOf(n, s, {})
    BY DEF NotesInv, Balanced
  <2>1. Cardinality({}) = 0
    BY FS_EmptySet
  <2>2. Owed(n, s) = {}
    BY ProcsCover DEF Init, Owed
  <2>3. Numbering(n, s, {}, [i \in Nat |-> 0])
    BY <2>2 DEF Numbering
  <2>4. [i \in Nat |-> 0] \in [Nat -> Nat] /\ notes[n][s] = 0 /\ own[n][s] = 0
    BY DEF Init
  <2> QED
    BY <2>1, <2>3, <2>4 DEF NotesOf
<1>2. LifeInv /\ LifeInv' /\ NotesInv /\ [Next]_vars => NotesInv'
  BY StepNotes DEF LifeInv
<1>3. LifeInv /\ NotesInv => ListChangesCounted
  <2> SUFFICES ASSUME LifeInv, NotesInv, NEW n \in Nodes, NEW s \in SessionIDs
               PROVE  notes[n][s] <= changes[s] + own[n][s]
    BY DEF LifeInv, ListChangesCounted, NotesPerEngine
  <2>1. PICK F \in SUBSET (1..changes[s]) : NotesOf(n, s, F)
    BY DEF NotesInv, Balanced
  <2>2. changes[s] \in Nat /\ notes[n][s] \in Nat /\ own[n][s] \in Nat
    BY DEF LifeInv, TypeOK
  <2>3. Cardinality(F) \in Nat /\ Cardinality(F) <= changes[s]
    BY <2>2, ForwardedFinite
  <2>4. notes[n][s] <= own[n][s] + Cardinality(F)
    BY <2>1 DEF NotesOf
  <2> QED
    BY <2>2, <2>3, <2>4
<1> QED
  BY <1>1, <1>2, <1>3, LifeInvariant, PTL DEF Spec
=============================================================================
