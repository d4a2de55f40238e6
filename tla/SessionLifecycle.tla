-------------------------- MODULE SessionLifecycle --------------------------
(***************************************************************************)
(* The life of sessions: initialize, the initialized notification,         *)
(* requests, delete (internal/engine) over the records, key/value data and *)
(* streams of the in-memory host, and the listChanged emitters that        *)
(* loading a session registers on an engine.                               *)
(*                                                                         *)
(* A member of Requests is a goroutine serving one inbound message at a    *)
(* time; every node also has a goroutine that consumes the fan-out topic,  *)
(* named like the node.  Both start with LoadSession, whose steps are      *)
(* split where the code leaves the host or releases wireMu.                *)
(*                                                                         *)
(* A session id is a fresh uuid, so ids are handed out once.  Timestamps   *)
(* and client information are left out.                                    *)
(***************************************************************************)
EXTENDS Naturals, Sequences, FiniteSets

CONSTANTS
    Users, SessionIDs, Nodes,
    Requests,    \* goroutines serving inbound messages
    NoMeta,      \* "the host has no record of the session"
    Nobody,      \* the task of an idle goroutine
    MaxEvents    \* bound: events of each kind on the fan-out topic

Procs == Requests \cup Nodes
Kinds == {"initialize", "initialized", "call", "delete",    \* of requests
          "listChanged", "other"}                           \* of events
Meta == [owner : Users, state : {"pending", "open"},
         ttl : {"handshake", "session"}]
EventKinds == {"listChanged", "other"}
Tasks == [node : Nodes, user : Users, sess : SessionIDs, kind : Kinds]

ASSUME LifecycleAssumption ==
    /\ Requests \cap Nodes = {} /\ IsFiniteSet(Nodes)
    /\ NoMeta \notin Meta /\ Nobody \notin Tasks
    /\ MaxEvents \in Nat

VARIABLES
    metas,      \* Host.metas
    kv,         \* the sessions with an entry in Host.kv
    streams,    \* the sessions with an entry in Host.streams
    minted,     \* session ids used so far
    owners,     \* who created each session (history)
    known,      \* sessions whose initialize was answered
    pc, task,   \* the goroutines
    wired,      \* Engine.wired
    emitters,   \* emitters[n][s]: how often n registered the emitters of s
    inbox,      \* the fan-out events each node has not taken yet
    events,     \* how many events of each kind were published
    changes,    \* changes[s]: resource list changes emitted for s (history)
    own,        \* own[n][s]: those among them that happened on n (history)
    notes       \* notes[n][s]: notes of a change that n put in the stream of s

hostVars == <<metas, kv, streams>>
idVars   == <<minted, owners, known>>
procVars == <<pc, task>>
wireVars == <<wired, emitters>>
busVars  == <<inbox, events>>
noteVars == <<changes, own, notes>>
vars == <<hostVars, idVars, procVars, wireVars, busVars, noteVars>>

Init ==
    /\ metas = [s \in SessionIDs |-> NoMeta]
    /\ kv = {} /\ streams = {} /\ minted = {} /\ known = {}
    /\ owners \in [SessionIDs -> Users]
    /\ pc = [p \in Procs |-> "idle"]
    /\ task = [p \in Procs |-> Nobody]
    /\ wired = [n \in Nodes |-> {}]
    /\ emitters = [n \in Nodes |-> [s \in SessionIDs |-> 0]]
    /\ inbox = [n \in Nodes |-> <<>>]
    /\ events = [k \in EventKinds |-> 0]
    /\ changes = [s \in SessionIDs |-> 0]
    /\ own = [n \in Nodes |-> [s \in SessionIDs |-> 0]]
    /\ notes = [n \in Nodes |-> [s \in SessionIDs |-> 0]]

-----------------------------------------------------------------------------
Goto(p, from, to) == pc[p] = from /\ pc' = [pc EXCEPT ![p] = to]

Done(p, from) ==
    /\ Goto(p, from, "idle")
    /\ task' = [task EXCEPT ![p] = Nobody]

\* An event of session s for every node.  (EventBus: how events get lost.)
Broadcast(kind, s) ==
    /\ events[kind] < MaxEvents
    /\ events' = [events EXCEPT ![kind] = @ + 1]
    /\ inbox' = [n \in Nodes |-> Append(inbox[n], [kind |-> kind, sess |-> s])]

\* The host's record operations, each atomic under h.mu.
CreateSession(s, u) ==
    metas' = [metas EXCEPT ![s] =
                [owner |-> u, state |-> "pending", ttl |-> "handshake"]]

\* Fault: a mutation of a record that is gone writes a new one.
OpenSessionUpserts(s, u) ==
    metas' = [metas EXCEPT ![s] =
                [owner |-> u, state |-> "open", ttl |-> "session"]]

\* MutateSession with the function HandleNotification passes: it fails if the
\* record is gone, and leaves an open session or another user's alone.
OpenSession(s, u) ==
    metas' = [metas EXCEPT ![s] =
                IF @ # NoMeta /\ @.owner = u /\ @.state = "pending"
                THEN [@ EXCEPT !.state = "open", !.ttl = "session"] ELSE @]

\* DeleteSession: the record, the data and the stream, in one section.
DeleteSession(s) ==
    /\ metas' = [metas EXCEPT ![s] = NoMeta]
    /\ kv' = kv \ {s}
    /\ streams' = streams \ {s}

-----------------------------------------------------------------------------
(* InitializeSession *)

InitializeSession(p, n, u, s) ==
    /\ Goto(p, "idle", "initializing")
    /\ s \notin minted
    /\ owners[s] = u
    /\ minted' = minted \cup {s}
    /\ CreateSession(s, u)
    /\ task' = [task EXCEPT ![p] =
                  [node |-> n, user |-> u, sess |-> s, kind |-> "initialize"]]
    /\ UNCHANGED <<kv, streams, owners, known, wireVars, busVars, noteVars>>

InitializeAnswered(p) ==
    /\ Done(p, "initializing")
    /\ known' = known \cup {task[p].sess}
    /\ UNCHANGED <<hostVars, minted, owners, wireVars, busVars, noteVars>>

\* A capability query fails: the deferred cleanup deletes the session ...
InitializeFails(p) ==
    /\ Done(p, "initializing")
    /\ DeleteSession(task[p].sess)
    /\ UNCHANGED <<idVars, wireVars, busVars, noteVars>>

\* ... unless the request's context ended, which makes the host refuse.
InitializeAbandoned(p) ==
    /\ Done(p, "initializing")
    /\ UNCHANGED <<hostVars, idVars, wireVars, busVars, noteVars>>

-----------------------------------------------------------------------------
(* LoadSession *)

\* An inbound message for a session the client knows, with its own identity
\* or another one.
Receive(p, n, u, s, kind) ==
    /\ Goto(p, "idle", "load")
    /\ s \in known
    /\ task' = [task EXCEPT ![p] =
                  [node |-> n, user |-> u, sess |-> s, kind |-> kind]]
    /\ UNCHANGED <<hostVars, idVars, wireVars, busVars, noteVars>>

\* The consumer takes an event; events carry the user of the session.
TakeEvent(n) ==
    /\ Goto(n, "idle", "load")
    /\ inbox[n] # <<>>
    /\ inbox' = [inbox EXCEPT ![n] = Tail(@)]
    /\ LET e == Head(inbox[n]) IN
         task' = [task EXCEPT ![n] =
                    [node |-> n, user |-> owners[e.sess], sess |-> e.sess,
                     kind |-> e.kind]]
    /\ UNCHANGED <<hostVars, idVars, wireVars, events, noteVars>>

\* Fault: the owner is not compared.
MayUseAny(u, s) == metas[s] # NoMeta

MayUse(u, s) == metas[s] # NoMeta /\ metas[s].owner = u

\* GetSession and the owner check.  TouchSession only moves timestamps.
LoadSession(p) ==
    /\ Goto(p, "load", "loaded")
    /\ MayUse(task[p].user, task[p].sess)
    /\ UNCHANGED <<hostVars, idVars, task, wireVars, busVars, noteVars>>

LoadRefused(p) ==
    /\ Done(p, "load")
    /\ ~MayUse(task[p].user, task[p].sess)
    /\ UNCHANGED <<hostVars, idVars, wireVars, busVars, noteVars>>

\* wireListChangedEmitters: look whether the session is wired ...
wireListChangedEmitters(p) ==
    /\ pc[p] = "loaded"
    /\ pc' = [pc EXCEPT ![p] = IF task[p].sess \in wired[task[p].node]
                               THEN "ready" ELSE "wire"]
    /\ UNCHANGED <<hostVars, idVars, task, wireVars, busVars, noteVars>>

\* Fault: no second look under the lock.
ClaimUnchecked(p) ==
    /\ Goto(p, "wire", "register")
    /\ wired' = [wired EXCEPT ![task[p].node] = @ \cup {task[p].sess}]
    /\ UNCHANGED <<hostVars, idVars, task, emitters, busVars, noteVars>>

\* ... registerListChangedEmitters: look again under wireMu and claim it ...
ClaimWiring(p) ==
    /\ pc[p] = "wire"
    /\ LET n == task[p].node  s == task[p].sess IN
         /\ pc' = [pc EXCEPT ![p] = IF s \in wired[n] THEN "ready" ELSE "register"]
         /\ wired' = [wired EXCEPT ![n] = @ \cup {s}]
    /\ UNCHANGED <<hostVars, idVars, task, emitters, busVars, noteVars>>

\* ... and register the callbacks, which nothing ever unregisters.
registerListChangedEmitters(p) ==
    /\ Goto(p, "register", "ready")
    /\ LET n == task[p].node  s == task[p].sess IN
         emitters' = [emitters EXCEPT ![n][s] = @ + 1]
    /\ UNCHANGED <<hostVars, idVars, task, wired, busVars, noteVars>>

-----------------------------------------------------------------------------
(* What a loaded task does. *)

Ready(p, kind) == pc[p] = "ready" /\ task[p].kind = kind

\* HandleNotification(notifications/initialized)
HandleInitialized(p) ==
    /\ Ready(p, "initialized")
    /\ OpenSession(task[p].sess, task[p].user)
    /\ Done(p, "ready")
    /\ UNCHANGED <<kv, streams, idVars, wireVars, busVars, noteVars>>

\* HandleRequest looks only at the method.  The handler may store session
\* data (PutData goes straight to the host), remove it, or do neither.
HandleRequest(p) ==
    /\ Ready(p, "call")
    /\ kv' \in {kv, kv \cup {task[p].sess}, kv \ {task[p].sess}}
    /\ Done(p, "ready")
    /\ UNCHANGED <<metas, streams, idVars, wireVars, busVars, noteVars>>

\* Engine.DeleteSession: tell the other nodes, then delete at the host.
DeleteBroadcast(p) ==
    /\ Ready(p, "delete")
    /\ Goto(p, "ready", "deleting")
    /\ Broadcast("other", task[p].sess)
    /\ UNCHANGED <<hostVars, idVars, task, wireVars, noteVars>>

\* The host refuses the event: DeleteSession returns the error and the session
\* stays, although its subscriptions here are gone (Subscriptions).
BroadcastRefused(p) ==
    /\ Ready(p, "delete")
    /\ Done(p, "ready")
    /\ UNCHANGED <<hostVars, idVars, wireVars, busVars, noteVars>>

DeleteAtHost(p) ==
    /\ Done(p, "deleting")
    /\ DeleteSession(task[p].sess)
    /\ UNCHANGED <<idVars, wireVars, busVars, noteVars>>

\* The request's context has ended: the host refuses and the session stays.
DeleteRefused(p) ==
    /\ Done(p, "deleting")
    /\ UNCHANGED <<hostVars, idVars, wireVars, busVars, noteVars>>

\* handleSessionEvent of notifications/resources/list_changed: one more note in
\* the client's stream, on every node that gets the event.
ForwardListChanged(n) ==
    /\ Ready(n, "listChanged")
    /\ streams' = streams \cup {task[n].sess}
    /\ notes' = [notes EXCEPT ![n][task[n].sess] = @ + 1]
    /\ Done(n, "ready")
    /\ UNCHANGED <<metas, kv, idVars, wireVars, busVars, changes, own>>

\* Deleted, cancelled, unsubscribe and response events: see Subscriptions and
\* InFlight.
IgnoreEvent(n) ==
    /\ Ready(n, "other")
    /\ Done(n, "ready")
    /\ UNCHANGED <<hostVars, idVars, wireVars, busVars, noteVars>>

-----------------------------------------------------------------------------
\* The resource list of node n changes: the emitter of s publishes a note to
\* the client and an event to the nodes.
EmitListChanged(n, s) ==
    /\ emitters[n][s] > 0
    /\ Broadcast("listChanged", s)
    /\ streams' = streams \cup {s}
    /\ changes' = [changes EXCEPT ![s] = @ + 1]
    /\ own' = [own EXCEPT ![n][s] = @ + 1]
    /\ notes' = [notes EXCEPT ![n][s] = @ + emitters[n][s]]
    /\ UNCHANGED <<metas, kv, idVars, procVars, wireVars>>

-----------------------------------------------------------------------------
LoadStep(p) ==
    \/ LoadSession(p) \/ LoadRefused(p) \/ wireListChangedEmitters(p)
    \/ ClaimWiring(p) \/ registerListChangedEmitters(p)

RequestStep(p) ==
    \/ InitializeAnswered(p) \/ InitializeFails(p) \/ InitializeAbandoned(p)
    \/ HandleInitialized(p) \/ HandleRequest(p)
    \/ DeleteBroadcast(p) \/ BroadcastRefused(p)
    \/ DeleteAtHost(p) \/ DeleteRefused(p)

ConsumerStep(n) == TakeEvent(n) \/ ForwardListChanged(n) \/ IgnoreEvent(n)

Arrival(p) ==
    \E n \in Nodes, u \in Users, s \in SessionIDs :
        \/ InitializeSession(p, n, u, s)
        \/ \E k \in {"initialized", "call", "delete"} : Receive(p, n, u, s, k)

Next ==
    \/ \E p \in Procs : LoadStep(p)
    \/ \E p \in Requests : Arrival(p) \/ RequestStep(p)
    \/ \E n \in Nodes : ConsumerStep(n) \/ \E s \in SessionIDs : EmitListChanged(n, s)

Spec == Init /\ [][Next]_vars

-----------------------------------------------------------------------------
(* Properties *)

\* Every variable has its type, and a goroutine that is past the arrival of a
\* message has the task it works on.
TypeOK ==
    /\ metas \in [SessionIDs -> Meta \cup {NoMeta}]
    /\ kv \subseteq SessionIDs /\ streams \subseteq SessionIDs
    /\ minted \subseteq SessionIDs /\ known \subseteq minted
    /\ owners \in [SessionIDs -> Users]
    /\ pc \in [Procs -> {"idle", "initializing", "load", "loaded", "wire",
                         "register", "ready", "deleting"}]
    /\ task \in [Procs -> Tasks \cup {Nobody}]
    /\ \A p \in Procs : pc[p] # "idle" => task[p] # Nobody
    /\ wired \in [Nodes -> SUBSET SessionIDs]
    /\ emitters \in [Nodes -> [SessionIDs -> Nat]]
    /\ inbox \in [Nodes -> Seq([kind : EventKinds, sess : SessionIDs])]
    /\ events \in [EventKinds -> Nat]
    /\ changes \in [SessionIDs -> Nat]
    /\ own \in [Nodes -> [SessionIDs -> Nat]]
    /\ notes \in [Nodes -> [SessionIDs -> Nat]]

Loaded == {"loaded", "wire", "register", "ready", "deleting"}

\* However many requests and events load a session at once, a node registers
\* its listChanged emitters at most once, and a session that is marked wired
\* has them or is about to.
EmittersOnce ==
    \A n \in Nodes, s \in SessionIDs :
        LET registering == {p \in Procs : /\ pc[p] = "register"
                                          /\ task[p].node = n /\ task[p].sess = s}
        IN  /\ \A p, q \in registering : p = q
            /\ emitters[n][s] + (IF registering = {} THEN 0 ELSE 1)
                  = (IF s \in wired[n] THEN 1 ELSE 0)

\* A goroutine that got past LoadSession serves the user who created the
\* session, whatever happened to the record since, and no record ever has
\* another owner.
OwnSessionsOnly ==
    /\ \A p \in Procs : pc[p] \in Loaded => task[p].user = owners[task[p].sess]
    /\ \A s \in SessionIDs : metas[s] # NoMeta => metas[s].owner = owners[s]

\* A record is written once: nothing a late notification or request does brings
\* a deleted session back or takes an open one back to pending, and an open
\* session has left the short time-to-live of the handshake.
RecordsMoveForward ==
    [][\A s \in SessionIDs :
          /\ s \in minted /\ metas[s] = NoMeta => metas'[s] = NoMeta
          /\ metas[s] # NoMeta /\ metas'[s] # NoMeta =>
               /\ metas'[s].owner = metas[s].owner
               /\ metas[s].state = "open" => metas'[s].state = "open"
               /\ metas'[s].state = "open" => metas'[s].ttl = "session"]_vars

\* An engine puts at most one note in the client's stream for each change it is
\* told of over the fan-out topic, and one more for each change that happened
\* on itself: its own broadcast comes back to it, so for these it is two.
NotesPerEngine ==
    \A n \in Nodes, s \in SessionIDs : notes[n][s] <= changes[s] + own[n][s]

\* However many loads of a session race, its emitters exist once per engine, and
\* the notes a client gets are bounded accordingly: one per change and engine,
\* two from the engine where the change happened.
ListChangesCounted == EmittersOnce /\ NotesPerEngine
=============================================================================
