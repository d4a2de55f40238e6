--------------------------- MODULE Subscriptions ---------------------------
(***************************************************************************)
(* Resource subscriptions of one session, over the engines that share its  *)
(* host.  An engine keeps a map from URI to the function that    *)
(* cancels the forwarder it started (subCancels[sessionID], guarded by     *)
(* subMu); subscribing tests the map, starts the forwarder and stores its  *)
(* cancel function in three separate steps, while unsubscribe and delete   *)
(* travel to every engine over the fan-out topic.                          *)
(*                                                                         *)
(* A subscribe request is a record that says on which node and for which   *)
(* URI it runs; the request also names the forwarder it starts.            *)
(***************************************************************************)
EXTENDS Naturals, Sequences

CONSTANTS Engines,     \* the engines
          URIs,        \* the resources
          SubRequests, \* the subscribe requests
          NoCancel,    \* "no entry for this URI"
          MaxFanouts,  \* bound: events published on the fan-out topic
          MaxDeletes   \* bound: calls of DeleteSession

ASSUME SubscriptionsAssumption ==
    /\ \A r \in SubRequests : r.node \in Engines /\ r.uri \in URIs
    /\ NoCancel \notin SubRequests
    /\ MaxFanouts \in Nat /\ MaxDeletes \in Nat

VARIABLES
    alive,      \* the host still has the session
    hasMap,     \* hasMap[n]: subCancels of n has a map for the session
    subCancels, \* subCancels[n][u]: the forwarder n tracks for u
    stuck,      \* stuck[n]: a handler panicked while holding subMu of n
    stage,      \* stage[r]: where subscribe request r is
    running,    \* the forwarders that are running
    replaced,   \* forwarders whose entry a later store overwrote (history)
    fanouts,    \* fanouts[n]: fan-out events n has not handled yet
    loaded,     \* loaded[n]: n found the session of its first event
    sent,       \* how many events were published
    dpc,        \* the DeleteSession call, past its local cancellations
    deletes     \* how many calls of DeleteSession were made

subs == <<hasMap, subCancels, stuck, running>>
bus == <<fanouts, loaded, sent>>
deleter == <<dpc, deletes>>
subVars == <<alive, subs, stage, replaced, bus, deleter>>

Unsub(u) == [kind |-> "unsubscribe", uri |-> u]
Deleted == [kind |-> "deleted"]
SubEvents == {Unsub(u) : u \in URIs} \cup {Deleted}

Empty == [u \in URIs |-> NoCancel]

SubInit ==
    /\ alive = TRUE
    /\ hasMap = [n \in Engines |-> FALSE]
    /\ subCancels = [n \in Engines |-> Empty]
    /\ stuck = [n \in Engines |-> FALSE]
    /\ stage = [r \in SubRequests |-> "idle"]
    /\ running = {}
    /\ replaced = {}
    /\ fanouts = [n \in Engines |-> <<>>]
    /\ loaded = [n \in Engines |-> FALSE]
    /\ sent = 0
    /\ dpc = "idle"
    /\ deletes = 0

-----------------------------------------------------------------------------
(* The tables of one node. *)

Tracked(n) == {subCancels[n][u] : u \in URIs} \ {NoCancel}

\* The host's fan-out topic as the engines see it: every engine gets every
\* event, in the order of publication (EventBus models where that fails).
Publish(e) ==
    /\ sent < MaxFanouts
    /\ sent' = sent + 1
    /\ fanouts' = [n \in Engines |-> Append(fanouts[n], e)]

\* Fault: the map is dropped and nothing in it is cancelled.
cancelAllForgets(n) ==
    /\ subCancels' = [subCancels EXCEPT ![n] = Empty]
    /\ hasMap' = [hasMap EXCEPT ![n] = @ /\ Tracked(n) = {}]
    /\ UNCHANGED running

\* Cancel and forget everything n tracks.  A map without entries stays.
cancelAllSubscriptionsForSession(n) ==
    /\ running' = running \ Tracked(n)
    /\ subCancels' = [subCancels EXCEPT ![n] = Empty]
    /\ hasMap' = [hasMap EXCEPT ![n] = @ /\ Tracked(n) = {}]

\* Fault: the cancelled entry stays in the map.
cancelKeepsEntry(n, u) ==
    /\ running' = running \ {subCancels[n][u]}
    /\ UNCHANGED <<subCancels, hasMap>>

\* Fault: the map must have two entries for one to be cancelled.
cancelOneOfMany(n, u) ==
    /\ running' = IF Tracked(n) \subseteq {subCancels[n][u]}
                  THEN running ELSE running \ {subCancels[n][u]}
    /\ subCancels' = IF Tracked(n) \subseteq {subCancels[n][u]}
                     THEN subCancels ELSE [subCancels EXCEPT ![n][u] = NoCancel]
    /\ UNCHANGED hasMap

\* Cancel and forget the forwarder of u, and drop the map if that was the last.
cancelSubscription(n, u) ==
    /\ running' = running \ {subCancels[n][u]}
    /\ subCancels' = [subCancels EXCEPT ![n][u] = NoCancel]
    /\ hasMap' = [hasMap EXCEPT ![n] =
                    @ /\ (Tracked(n) = {} \/ Tracked(n) # {subCancels[n][u]})]

-----------------------------------------------------------------------------
(* handleResourcesSubscribe *)

\* The transport finds the session before it hands the request to the engine.
LoadForRequest(r) ==
    /\ stage[r] = "idle"
    /\ alive
    /\ stage' = [stage EXCEPT ![r] = "loaded"]
    /\ UNCHANGED <<alive, subs, replaced, bus, deleter>>

\* Fault: the early return of a repeated subscribe does not unlock subMu.
CheckKeepsLock(r) ==
    /\ stage[r] = "loaded"
    /\ ~stuck[r.node]
    /\ hasMap' = [hasMap EXCEPT ![r.node] = TRUE]
    /\ stage' = [stage EXCEPT ![r] = IF subCancels[r.node][r.uri] # NoCancel
                               THEN "done" ELSE "checked"]
    /\ stuck' = [stuck EXCEPT ![r.node] = subCancels[r.node][r.uri] # NoCancel]
    /\ UNCHANGED <<alive, subCancels, running, replaced, bus, deleter>>

CheckSubscribed(r) ==
    /\ stage[r] = "loaded"
    /\ ~stuck[r.node]
    /\ hasMap' = [hasMap EXCEPT ![r.node] = TRUE]
    /\ stage' = [stage EXCEPT ![r] = IF subCancels[r.node][r.uri] # NoCancel
                               THEN "done" ELSE "checked"]
    /\ UNCHANGED <<alive, subCancels, stuck, running, replaced, bus, deleter>>

\* Subscribe of the capability, or the goroutine the handler starts itself on the
\* channel of UpdatedChan.  That goroutine would also end by itself when the
\* channel is closed, which no container of this repository does.
StartForwarder(r) ==
    /\ stage[r] = "checked"
    /\ running' = running \cup {r}
    /\ stage' = [stage EXCEPT ![r] = "built"]
    /\ UNCHANGED <<alive, hasMap, subCancels, stuck, replaced, bus, deleter>>

\* The provider's Subscribe returns an error.
SubscribeFails(r) ==
    /\ stage[r] = "checked"
    /\ stage' = [stage EXCEPT ![r] = "failed"]
    /\ UNCHANGED <<alive, subs, replaced, bus, deleter>>

StoreCancel(r) ==
    /\ stage[r] = "built"
    /\ ~stuck[r.node]
    /\ hasMap[r.node]
    /\ replaced' = replaced \cup ({subCancels[r.node][r.uri]} \ {NoCancel})
    /\ subCancels' = [subCancels EXCEPT ![r.node][r.uri] = r]
    /\ stage' = [stage EXCEPT ![r] = "done"]
    /\ UNCHANGED <<alive, hasMap, stuck, running, bus, deleter>>

\* The session's map is gone: assigning to an entry of a nil map panics.  The
\* HTTP server recovers the handler's panic, and nothing unlocks subMu.
StorePanics(r) ==
    /\ stage[r] = "built"
    /\ ~stuck[r.node]
    /\ ~hasMap[r.node]
    /\ stuck' = [stuck EXCEPT ![r.node] = TRUE]
    /\ stage' = [stage EXCEPT ![r] = "panicked"]
    /\ UNCHANGED <<alive, hasMap, subCancels, running, replaced, bus, deleter>>

-----------------------------------------------------------------------------
(* handleResourcesUnsubscribe: only the broadcast.  It runs on any engine;  *)
(* one that is overtaken by the delete publishes an event nobody applies.   *)

Unsubscribe(u) ==
    /\ alive
    /\ Publish(Unsub(u))
    /\ UNCHANGED <<alive, subs, stage, replaced, loaded, deleter>>

-----------------------------------------------------------------------------
(* handleSessionEvent, run for one event at a time on every engine. *)

LoadForEvent(n) ==
    /\ fanouts[n] # <<>>
    /\ ~loaded[n]
    /\ alive
    /\ loaded' = [loaded EXCEPT ![n] = TRUE]
    /\ UNCHANGED <<alive, subs, stage, replaced, fanouts, sent, deleter>>

\* "Session not found or invalid; nothing to do."
SkipEvent(n) ==
    /\ fanouts[n] # <<>>
    /\ ~loaded[n]
    /\ ~alive
    /\ fanouts' = [fanouts EXCEPT ![n] = Tail(@)]
    /\ UNCHANGED <<alive, subs, stage, replaced, loaded, sent, deleter>>

EventDone(n) ==
    /\ fanouts' = [fanouts EXCEPT ![n] = Tail(@)]
    /\ loaded' = [loaded EXCEPT ![n] = FALSE]

ApplyUnsubscribe(n) ==
    /\ loaded[n]
    /\ Head(fanouts[n]).kind = "unsubscribe"
    /\ ~stuck[n]
    /\ cancelSubscription(n, Head(fanouts[n]).uri)
    /\ EventDone(n)
    /\ UNCHANGED <<alive, stuck, stage, replaced, sent, deleter>>

ApplyDeleted(n) ==
    /\ loaded[n]
    /\ Head(fanouts[n]).kind = "deleted"
    /\ ~stuck[n]
    /\ cancelAllSubscriptionsForSession(n)
    /\ EventDone(n)
    /\ UNCHANGED <<alive, stuck, stage, replaced, sent, deleter>>

-----------------------------------------------------------------------------
(* DeleteSession: cancel here, tell the others, delete at the host.         *)

DeleteHere(n) ==
    /\ dpc = "idle"
    /\ deletes < MaxDeletes
    /\ alive
    /\ ~stuck[n]
    /\ cancelAllSubscriptionsForSession(n)
    /\ dpc' = "cancelled"
    /\ deletes' = deletes + 1
    /\ UNCHANGED <<alive, stuck, stage, replaced, bus>>

DeleteFanout ==
    /\ dpc = "cancelled"
    /\ Publish(Deleted)
    /\ dpc' = "published"
    /\ UNCHANGED <<alive, subs, stage, replaced, loaded, deletes>>

DeleteFromHost ==
    /\ dpc = "published"
    /\ alive' = FALSE
    /\ dpc' = "idle"
    /\ UNCHANGED <<subs, stage, replaced, bus, deletes>>

\* The host refuses the event or the deletion: the call returns, the
\* subscriptions stay cancelled and the session lives on.
DeleteFails ==
    /\ dpc \in {"cancelled", "published"}
    /\ dpc' = "idle"
    /\ UNCHANGED <<alive, subs, stage, replaced, bus, deletes>>

-----------------------------------------------------------------------------

SubscribeStep(r) ==
    \/ CheckSubscribed(r) \/ StartForwarder(r) \/ SubscribeFails(r)
    \/ StoreCancel(r) \/ StorePanics(r)

SubConsumerStep(n) ==
    LoadForEvent(n) \/ SkipEvent(n) \/ ApplyUnsubscribe(n) \/ ApplyDeleted(n)

DeleteStep == DeleteFanout \/ DeleteFromHost \/ DeleteFails

SubNext ==
    \/ \E r \in SubRequests : LoadForRequest(r) \/ SubscribeStep(r)
    \/ \E u \in URIs : Unsubscribe(u)
    \/ \E n \in Engines : SubConsumerStep(n) \/ DeleteHere(n)
    \/ DeleteStep

SubSpec == SubInit /\ [][SubNext]_subVars

\* The goroutines of a node are scheduled; clients need not send anything.
SubFairness ==
    /\ \A r \in SubRequests : WF_subVars(SubscribeStep(r))
    /\ \A n \in Engines : WF_subVars(SubConsumerStep(n))
    /\ WF_subVars(DeleteStep)

SubFairSpec == SubSpec /\ SubFairness

-----------------------------------------------------------------------------
(* Properties *)

\* Every variable has its type, and an engine holds a session only while it
\* handles an event.
SubTypeOK ==
    /\ alive \in BOOLEAN
    /\ hasMap \in [Engines -> BOOLEAN]
    /\ subCancels \in [Engines -> [URIs -> SubRequests \cup {NoCancel}]]
    /\ stuck \in [Engines -> BOOLEAN]
    /\ stage \in [SubRequests -> {"idle", "loaded", "checked", "built", "done",
                            "failed", "panicked"}]
    /\ running \subseteq SubRequests
    /\ replaced \subseteq SubRequests
    /\ fanouts \in [Engines -> Seq(SubEvents)]
    /\ loaded \in [Engines -> BOOLEAN]
    /\ \A n \in Engines : loaded[n] => fanouts[n] # <<>>
    /\ sent \in Nat /\ deletes \in Nat
    /\ dpc \in {"idle", "cancelled", "published"}

\* What an engine tracks for a URI is a forwarder that this engine runs for
\* that URI and whose request was answered: unsubscribe and delete never cancel
\* a forwarder twice, nor one that belongs to another URI, and an entry never
\* outlives its map.
TrackedIsRunning ==
    \A n \in Engines, u \in URIs : subCancels[n][u] # NoCancel =>
        LET r == subCancels[n][u] IN
        /\ r \in running
        /\ r.node = n /\ r.uri = u
        /\ stage[r] = "done"
        /\ hasMap[n]

\* A running forwarder can still be cancelled: it is tracked, or its request is
\* about to store it.  The two exceptions are the races of this code: an entry
\* overwritten by a second subscribe for the same URI, and a store that
\* panicked.
RunningIsOwned ==
    \A r \in running :
        \/ subCancels[r.node][r.uri] = r
        \/ stage[r] = "built"
        \/ r \in replaced
        \/ stage[r] = "panicked" /\ stuck[r.node]

\* The stages of a request that make the two invariants above inductive: a
\* forwarder runs only once its request started it, a request about to store
\* one has it running, and only a running mutex owner can have panicked.
StagesInv ==
    \A r \in SubRequests :
        /\ r \in running => stage[r] \in {"built", "done", "panicked"}
        /\ stage[r] = "built" => r \in running
        /\ stage[r] = "panicked" => stuck[r.node]

\* An unsubscribe event in the queue of an engine stops the forwarder that the
\* engine tracks for the URI, unless the session is deleted first, the entry
\* is overwritten or the engine's subMu is lost to a panic.
UnsubscribeStops ==
    \A r \in SubRequests :
        (/\ \E i \in DOMAIN fanouts[r.node] : fanouts[r.node][i] = Unsub(r.uri)
         /\ subCancels[r.node][r.uri] = r)
            ~> (\/ r \notin running
                \/ r \in replaced
                \/ ~alive
                \/ stuck[r.node])

\* A subscribe request of engine n died in StorePanics.
Panicked(n) == \E r \in SubRequests : r.node = n /\ stage[r] = "panicked"

\* The fan-out consumer and the subscribe requests of an engine share subMu and
\* never wait for each other for ever: every request that found its session is
\* answered, and every event an engine was sent is handled, unless a subscribe
\* of that engine panicked with the mutex held (the handlers of resources are
\* dead from then on: the exception is what the code does, not what it should).
SubscribeIsAnswered ==
    /\ \A r \in SubRequests :
          (stage[r] = "loaded") ~> (stage[r] \in {"done", "failed"} \/ Panicked(r.node))
    /\ \A n \in Engines :
          (fanouts[n] # <<>>) ~> (fanouts[n] = <<>> \/ Panicked(n))

-----------------------------------------------------------------------------
(* What a comment of the code claims and the races above refute. *)

\* engine.go: "Broadcast a fanout event so other instances can cancel their
\* local subscriptions."  A deleted event in the queue of an engine stops the
\* forwarders the engine tracks when it gets the event.
DeleteStopsForwarders ==
    \A r \in SubRequests :
        (/\ \E i \in DOMAIN fanouts[r.node] : fanouts[r.node][i] = Deleted
         /\ subCancels[r.node][r.uri] = r)
            ~> (\/ r \notin running
                \/ r \in replaced
                \/ stuck[r.node])
=============================================================================
