# A verification of mcp-server-go

mcp-server-go is a Go library for MCP servers: a client opens a session over
streaming HTTP or stdio, sends JSON-RPC requests and notifications, answers
requests the server makes of it, and receives server messages over a resumable
per-session stream. A session may be served by several processes, so its state
lives in a *session host* (in memory, or redis), and the processes talk to each
other over a *fan-out topic* of that host.

This directory models the two hosts, the engine, the two transports and what a
server author plugs into them: where goroutines or processes meet step by step,
elsewhere as the decisions the code makes. Everything is translated from the
code; `PROJECT.json` ("map") names the lines behind every definition.

## 1. Inventory

| part | state | operations | talks to |
|---|---|---|---|
| memory host, session streams (`sessions/memoryhost/memory.go`) | per session: messages, `delivered`, `inflight`, `waiters`, `closed` | PublishSession, SubscribeSession, DeleteSession | transports (SubscribeSession's handler writes SSE or stdout) |
| memory host, event fan-out | per topic: map of buffered channels | PublishEvent, SubscribeEvents | every engine |
| memory host, records and data | `metas`, `kv` | CreateSession, GetSession, MutateSession, TouchSession, DeleteSession, Put/Get/DeleteData | engine |
| redis host (`sessions/redishost/redis.go`) | streams with a consumer group, record keys with TTL, data keys, event streams | the same interface | engine, redis |
| engine, requests in flight (`internal/engine`) | `toolCtxCancels`, `rdvChans`, `rdvClosers` | handleToolCall, ListRoots / CreateMessage / Elicit, HandleClientResponse, notifications/cancelled, handleSessionEvent | fan-out topic |
| engine, resource subscriptions | `subCancels` per session and URI | subscribe, unsubscribe, DeleteSession, their fan-out events | provider callbacks, fan-out topic |
| engine, session lifecycle | session records, `wired`, listChanged callbacks | InitializeSession, LoadSession, notifications/initialized, HandleRequest, DeleteSession | host, capabilities |
| streaming HTTP transport (`streaminghttp/handler.go`) | per response a locked SSE writer; nothing across requests | POST, GET, DELETE handlers, direct write with fallback | engine, auth |
| stdio transport (`stdio/handler.go`) | one session, one pump, one locked stdout | reader loop, request goroutines, session pump | engine, host |
| containers (`mcpservice/static_*.go`, `change_notifier.go`, `pagination.go`) | lists, dispatch tables, URI index, subscribers | replace/add/remove/upsert, list pages, call, Notify, Close | engine (listChanged, updated) |
| file-system resources (`mcpservice/fs_resources.go`) | snapshot, watches, debouncers | poll, fsnotify loop, flush, subscribe | the same |
| tool result writer (`mcpservice/toolwriter.go`) | blocks, `finalized` | AppendBlocks, SetError, Result | tool goroutines |
| JSON-RPC (`internal/jsonrpc`) | none | classify, request ids | transports |
| authentication (`auth`, `internal/jwtauth`) | a configuration, its description | options, check a token | HTTP transport |
| elicitation (`elicitation`, `internal/engine/elicitation_capability.go`) | builder, schema, destination | build, bind, send, validate, decode | engine, client |
| sampling builders, `mcp` types | none | build | all |

Behaviours that are hard, and that the unit tests of the repository hardly
reach:

* every operation above is several critical sections (`h.mu` then `s.mu`;
  `rdvMu`, then a send without it; `subMu`, the provider, `subMu` again), and
  the state seen in one may be gone in the next;
* SubscribeSession scans a stream and then sleeps on a fresh channel: a publish
  or a delete in between must not be missed;
* the fan-out drops events at a full channel and orders them differently for
  different subscribers;
* a session is deleted while other goroutines and other engines work for it;
* one registry is keyed by ids that clients choose;
* a panic in a handler may leave a mutex locked;
* a redis consumer dies with messages in hand, or is slow enough for another to
  take them over; records expire and are updated optimistically;
* a response breaks off inside a frame, when the message may or may not have
  reached the client; several goroutines write to one response or one stdout;
* a list is paged through while it changes, and a file while it is watched;
* a value is described to a client in one form and checked in another
  (capabilities, schemas, security configuration).

What makes each part correct: a message is held by one subscriber at a time,
delivered once and in order, and nobody sleeps through it; an event published
after a subscription reaches it (it does not: section 3 says what holds
instead); a response reaches the caller that waits for it and closes
nothing twice; a subscription that runs can be cancelled; a session is used by
its owner only, never comes back after its deletion, and its callbacks are
registered once per engine; redis delivers at least once and an acknowledged
message never again; frames and lines are whole and no message is on two ways
to the client; what is listed is served, what changes is signalled, what is
advertised holds, what is refused had no effect, what is decoded meets the
schema. The hazards, each at its line and with the
properties that would catch it, are in `PROJECT.json`.

## 2. Modules

* **SessionQueue** - the abstract promise of SubscribeSession
  (`sessions/host.go`): append-only logs and competing consumers; a message is
  held by at most one consumer of its log, is finished once, goes back if its
  handler fails, and a consumer only moves forward.
* **SessionStream** - the memory host's implementation for one session id.
  Streams are pointers: `DeleteSession` unlinks one and the next lookup
  allocates another, while calls still hold the old one; so `getOrCreateStream`
  under `h.mu` is a step of its own (`PublishSession`, `SubscribeSession`) and
  what follows under `s.mu` another (`PublishAppend`, `InitCursor`, then
  `Claim`, `Wait` or `Return` per turn of the loop, `Wake`, the handler outside
  the lock, `Ack` or `Release`). `DeleteSession` / `DeleteClose` /
  `DeleteSignal` / `DeleteReturn` unlink, close and copy the waiters, and signal
  them one by one. The i-th message of a stream is the number i; the code's
  `lastIdx` is `cursor - 1`. `Queue == INSTANCE SessionQueue WITH ...` is the
  refinement mapping.
* **EventBus** - PublishEvent and SubscribeEvents for one topic: the copy of the
  channels under `es.mu`, one non-blocking send at a time in any order, the
  receiving goroutine, its handler and its deferred removal.
* **InFlight** - tools/call handlers of one engine, the one request each may
  make of its client (roots, sampling and elicitation share the protocol of
  `createRendezVous`), and the single goroutine that consumes the topic.
  Split where `toolCtxMu` or `rdvMu` is released: a channel is looked up
  (`TakeResponse`) and sent to (`SendResponse`) in two steps, so is a cancel
  function (`TakeCancel`, `CallCancel`). A client may cancel any id at any
  moment, also before its call is registered. A send on a closed channel is a
  panic (`crashed`).
* **Subscriptions** - resources/subscribe of one session over several engines:
  `CheckSubscribed`, `StartForwarder`, `StoreCancel` are the three sections of
  the handler, `StorePanics` is the assignment to a nil map with `subMu` held,
  `LoadForEvent` / `ApplyUnsubscribe` / `ApplyDeleted` / `SkipEvent` the
  consumer, `DeleteHere` / `DeleteFanout` / `DeleteFromHost` the deleting
  request. A forwarder ends when it is cancelled; the exit on a closed channel
  (`engine.go:453`) is left out, for no provider in the repository closes one.
* **SessionLifecycle** - initialize with its cleanup, LoadSession with the
  owner check and the wiring of the listChanged emitters (double-checked under
  `wireMu`), initialized, requests, delete, and the emitters themselves, over
  the records, data and streams of the host. Every goroutine is at a `pc` and
  has a `task`; a request's context may end, which makes the host refuse
  (`InitializeAbandoned`, `DeleteRefused`), and it may refuse the event of a
  delete (`BroadcastRefused`).
* **RedisStream** - one session stream in redis: XADD with MAXLEN, the group
  with its position and pending entries, XREADGROUP, XAUTOCLAIM in steps of
  `ClaimCount`, the handler, XACK. A consumer may crash at any point, an entry
  may grow idle (`Age`), a reply may be lost with its context (`Arrives`), the
  stream may be trimmed or deleted. Redis itself is external and modelled from
  the commands the host sends.
* **RedisRecords** - a record key with its expiry and the keys beside it: the
  WATCH/GET/MULTI loops of MutateSession and TouchSession with their retries,
  the two halves of PublishSession's expiry, the separate deletes. The TTL is
  computed between GET and MULTI (`PlanTTL`). Time passes between any two
  commands (`now`).
* **RedisEvents** - a topic: XADD with MAXLEN, and readers whose reads start at
  `$` until one brought an event; a read may end empty or with an error
  (`ReadFailed`). `gap` collects what was published between two such reads.
* **HttpTransport** - the messages of one POST: several goroutines, one
  `lockedWriteFlusher`, the frame in three writes, a connection that may break
  before each, the fallback to the session's stream, which runs under the
  context of the tool call and may be refused (`FallBackRefused`), and the GETs
  that carry the stream on, resumed by the client with the last id it saw.
* **HttpRequests** - one request each of several connections at the /mcp
  endpoint: method, authentication, headers, body, LoadSession, the engine call
  and the answer, in the order of the handlers. **JsonRpc** is its pure part:
  what an object of the wire is taken for and what becomes of its id
  (`Mantissa` is the number of bits of float64's mantissa).
* **StdioTransport** - the reader, one goroutine per request, the pump and its
  replacement, and stdout behind `writeMu`; body and newline are two writes.
  What the client answers and cancels goes through the fan-out: `FanOut` drops
  it at a full channel, or while `engine.Run` has not subscribed yet
  (`EngineSubscribes`). At the end of input Serve returns without waiting for
  the requests, and the process may exit at any step (`ProcessExits`).
* **ChangeNotifier**, **ToolsContainer** (tools and prompts, by `kind`),
  **ResourcesContainer** - the containers: Notify's sends one by one under the
  read lock, Close's closes after the lock; the list, the dispatch table and a
  client that walks the pages; slice and URI index, the update signal that
  follows a change in a critical section of its own, and the read in two
  sections that panics over an emptied container with the lock held (`stuck`).
* **FsResources** - the tree, the watcher (polling, or fsnotify with its event
  queue and watches per directory), the debouncers, a listing client and
  subscribers of files. The poller's first snapshot (`Prime`) signals nothing:
  what differed from the client's list at that moment is `list.blind`, and what
  a subscriber has read stays apart from the baseline (`base`).
* **ToolWriter** - appends of several goroutines against Result.
* **Handshake** - InitializeSession capability by capability, each of which may
  be absent, nil or fail, the deferred cleanup, the version, and then what
  HandleRequest answers to each method, also after a provider has changed its
  mind (`ProviderChanges`).
* **Authentication** - options, defaults and validation of both constructors,
  the description handed to the transport (`EnforceExp` and `EnforceNbf`
  included), and the checks in their order.
  Signature and key are the Boolean `genuine`.
* **Elicitation** - a schema made by the builder or by reflection, options in
  any order and also after Build, the schema as the client is told it, its
  answer, and validation and decoding field by field. A string is represented
  by its length; integers have `Width` bits.
* **SessionStreamProofs**, **EventBusProofs**, **InFlightProofs**,
  **SubscriptionsProofs**, **SessionLifecycleProofs**, **TransportProofs** (both
  transports), **RedisProofs** (the three redis modules) and **ServiceProofs**
  (everything the service run has) - theorems and their proofs (section 5).
* **MCMemory** (SessionStream, EventBus), **MCEngine** (SessionLifecycle,
  Subscriptions), **MCEngineFair** (InFlight, Subscriptions), **MCDelivery**
  (redis, transports), **MCService** (the rest) and **MCSubscriptions** -
  instances for TLC; they add symmetry sets, request sets, or the choice of
  representatives, and redefine nothing.

Definitions whose comment starts with *Fault* are faulty variants of the
definition that follows. They are used by no specification: putting one in the
place of its original must make TLC report the property that guards against it.

How the modules fit together: SessionStream, EventBus and the record part of
SessionLifecycle are three independent parts of one host (they share `h.mu` for
lookups only). InFlight, Subscriptions and SessionLifecycle are three
independent tables of the engine; each contains as much of the topic as it
needs (InFlight the bounded queue of EventBus, the other two unbounded inboxes,
as the number of events is bounded anyway). What they assume of each other is
stated in their heads: InFlight's sessions stay alive, Subscriptions' record is
one Boolean. The redis modules are the second implementation of the same three
parts of a host. HttpTransport and StdioTransport are the two users of
SubscribeSession, whose promise they contain in a few lines; HttpRequests uses
JsonRpc and stands before HttpTransport. The MC modules run several parts that
share no variable: `part` says which one a behaviour is about, so the state
spaces add up instead of multiplying.

Abstractions. Payloads, log output, error texts and timestamps are left out,
for no guard looks at them. One session id (SessionStream, Subscriptions), one
topic (EventBus), one request to the client per tool call (InFlight): the code
keeps separate state for each, and where it does not - the tool registry, which
all sessions of an engine share - the model has several sessions. The order of a
Go map is any order. A `select` with several ready cases takes any of them.

## 3. Runs

Bounds are chosen so that the contended case happens and one more does not add
a new kind of interleaving.

| run | instance | shows |
|---|---|---|
| memory | two subscribers, a publisher, a deleter, two messages, two streams; two publishers with three events each, a subscriber, capacity one | claims are exclusive (`ClaimsExact`), each message is accepted once (`DeliveredOnce`), in order and after the requested id (`InOrder`), a sleeping call has nothing to take (`NoLostWakeup`), the streams implement SessionQueue (`ImplementsQueue`); events keep their publisher's order (`PublisherOrder`) and are lost only over a backlog (`AccountedFor`) |
| stream_live | the same with one stream, fair | a delete ends every subscription of the stream; a message a live call could take is taken |
| engine | two users, two engines, two request goroutines, one session, an event of each kind; four subscribe requests on two engines and two URIs, two events, one delete | a session is used by its owner (`OwnSessionsOnly`), records only move forward, emitters are registered once and a list change is announced at most once per engine and once more by its own (`ListChangesCounted`); what is tracked runs, what runs is tracked up to two races (`replaced`, the panic) |
| engine_fair | two tool calls, two sessions, two ids, two client events, a queue of one; three subscribe requests on one engine; fair | both registries exact (`RegistryExact`, `RendezVousExact`), no response is too early (`ResponseFindsCaller`), no cancellation nobody asked for (`CancelWasAsked`), and queued responses and cancellations end the wait; an unsubscribe event stops the tracked forwarder; subscribe requests and fan-out events are worked off unless the panic locked the engine (`SubscribeIsAnswered`) |
| delivery | two consumers, two entries, a stream of length one, one drop; two callers with four calls, three ticks; two readers, three events; two writers (one reports progress), two GETs, two notes; a request, two pumps, three lines of input, two messages, a channel of one; fair | what is handed out stays pending until handled and has two handlers only after claimMinIdle (`PendingIsOwned`); it is handled in the end and never handed out after its acknowledgement (`HandledThenFinal`); no update is lost, no record outlives its lifetime or comes back (`RecordsSerial`); readers miss only what fell between two reads of `$` (`FutureEventsInOrder`); `WholeFrames`, one fate per message (`OneFate`); whole lines, none twice, from one pump (`StdoutExact`); a request is answered while the process serves, unless the answer it waits for was dropped (`EveryRequestAnswered`) |
| service | nine parts with the constants of `Service.cfg` | see below |

The properties of the service run, part by part: nobody sends on a closed
channel, misses a change or outlives Close (`NotifierPromise`); pages give the
list and calls reach what is listed (`ListedIsServed`); the URI index is right
and watchers hear of the changes the container marks (`ContentIsCurrent`); changes of files and of the
listing are signalled or still to be handled (`NoChangeUnseen`); a block that
was accepted is in the result (`AcceptedIsReturned`); a failed initialize leaves
nothing unless its context ended, a successful one a version both speak and
capabilities that are served while the providers stay with them
(`InitializeKeepsItsWord`); every message is answered in kind and with its id
(`AnsweredInKind`); statuses are true and tell strangers nothing
(`StatusIsTrue`); nobody is let in whom the description keeps out, and refusals
are explained (`VerdictAsDescribed`); accept means a complete and valid destination
(`AcceptMeansValid`), and an honest answer is accepted
(`TruthfulAnswerIsDecoded`). Several of these are conjunctions of named parts,
and "mutants" has at least one fault for each part.

Why they are enough: two subscribers suffice for a double claim, two messages
for a wrong order or cursor; capacity one already has an empty and a full
channel, three events per publisher an order and a backlog, and subscribers do
not touch each other; two calls with equal ids collide,
with different ids run side by side; two requests for one URI on one engine are
the duplicate, a third for another URI keeps the session's map alive or not, a
fourth is on the other engine; one event of each kind lets a list change follow a delete.
Two redis consumers are the slow one and the one that claims, a stream of length
one is trimmed under a reader; three ticks pass every TTL of the instance; two
writers interleave in a frame and two GETs are a break and a resumption; two
listeners and two notifies are a signal that meets a full channel; two bits of
mantissa make 5 the first integer that is lost; tokens differ from a good one in
at most two claims; of two files one is in a directory made inside another that
is made later, so that a watch can come too late, and the first may change
before and after priming and be removed, though not changed twice in a run that
also makes directories; four of the six providers of a server start alike and
change one at a time; the replacements of a resource
list contain duplicates, two and three long; two properties of a schema are one that decodes and one that
does not. In
engine_fair the first call has the first session and id, which loses nothing as
they are interchangeable. Symmetry is used in runs without liveness only.
Deadlock is not checked: all these programs may come to rest (subscribers wait,
bounds are used up).

Six runs show the code doing something else than a comment says, and TLC's
trace how ("findings" in `PROJECT.json`):

| run | what TLC finds |
|---|---|
| starts_at_beginning | a call with an empty lastEventID sleeps beside a message nobody has taken; `sessions/host.go:27` has it start "from the beginning" |
| at_least_once | a third event is dropped at a full channel and the publisher is told nothing; `sessions/host.go:43`: "At-least-once to every active subscriber" |
| each_event_after_subscription | an event between two reads of `$` is never seen, although SubscribeEvents had returned; `sessions/host.go:55`: "each event published after subscription time" |
| cancel_stays_in_session | a cancellation of one session ends the tool call of another with the same request id; `mcpservice/capabilities.go:191`: "Calls MUST be isolated per session" |
| delete_stops_forwarders | the deleted event is skipped by an engine that handles it after the record is gone; its forwarders run on |
| fallback | a message whose direct write fails is encoded a second time: `jsonrpc.Message` is a named type, `case []byte` never matches it, and the session's stream gets a base64 string |

The passing runs beside them state what does hold: `InOrder` says where a
call with a known id begins, `AccountedFor` and `FutureEventsInOrder` say that nothing but a
backlog, or the gap between two reads, loses an event, `CancelWasAsked` that
somebody sent the id.

Further differences are part of the models and named as exceptions by the
properties, without a run of their own:

* a response is looked up, the caller gives up and closes the channel, the send
  panics (`crashed` in InFlight; `engine.go:1259`: "if the channel is blocked or
  closed, just drop the message");
* an unsubscribe or a delete removes the session's map between check and store;
  the store panics with `subMu` locked, which blocks the engine's consumer
  (`StorePanics`, `Panicked`; `engine.go:368`: "and stores a cancel");
* an engine handles its own listChanged event, so the client gets one note more
  than there are engines (`NotesPerEngine`; `engine.go:1232`: "from another
  instance");
* a container that is emptied between the two sections of ReadResource makes it
  panic with the read lock held, after which nothing can be changed (`stuck`);
* `UpdatedChan` is not "signaled when URI content/metadata changes"
  (`static_resources.go:398`) for the cases `UpdateIsSignalled` lists;
* the poller's first snapshot swallows what changed before it (`list.blind`,
  `base`), where the fsnotify watcher signals once "to normalize initial state"
  (`fs_resources.go:348`);
* resources/unsubscribe is answered with a result whatever was advertised
  (`AdvertisedIsServed`; `capabilities.go:123`: "If ok is false, subscriptions
  are not supported");
* `EnforceExp` and `EnforceNbf` are "default true" (`security.go:37`) but are
  neither defaulted nor consulted (`Understated`); the static authenticator
  "validates RFC 9068 JWT access tokens" (`static.go:32`) of any `typ`;
* a deleted session keeps its mark in `wired` and its emitters, and a request
  that was loaded before brings its data back (`streaminghttp/handler.go:451`:
  "any process-local ephemeral resources ... are cleaned up").

Other differences met while modelling, visible in the passing properties or in
the model: a message given
back by a failing handler is signalled to nobody, so another live subscriber
sleeps until the next publish (the exception `released` in `NoLostWakeup`); the
topic is not totally ordered (`sessions/host.go:39`; `PublisherOrder` states what
does hold); equal request ids of
two sessions make the second call fail (`RejectToolCall`; `engine.go:603` says
that this should never happen); two concurrent subscribes for a URI start two
forwarders and lose the first (`replaced` in `RunningIsOwned`); a pending
session accepts requests (`HandleRequest` has no guard on the state;
`sessions/metadata.go:32`).

And part by part:

* Redis: `redishost/doc.go:8` speaks of group-free XREAD, session streams use
  groups; PublishSession reads the record's TTL and sets the stream's in two
  commands, so the stream may outlive or precede the record; the TTL of session
  data is not refreshed; the memory host never expires anything; time may pass
  between the computation of a TTL and EXEC, by which a record outlives its
  maximal lifetime (`lag`).
* Transports: a GET that breaks after the host counted a message loses it, so
  the stream is not quite "Ordered, resumable"; stdio reads lines of at most 64
  KiB; `h.initialized` is read without a lock; on stdio a cancellation may
  overtake its request, an answer may come before the engine has subscribed and
  is lost (`lost`), and requests that run at the end of input are not waited
  for; a second notifications/initialized replaces the pump; a
  failure to open the session is logged and answered 202; ping, which
  `mcp/messages.go` defines, is answered with an internal error; a nil
  completions capability is advertised and then not found; ids `"1"` and `1`
  collide in the registry, and numeric ids beyond 2^53 come back changed;
  Engine.DeleteSession documents an error for a missing session that neither
  host returns; New accepts a security configuration without an authenticator.
* Containers and files: a cursor beyond the end gives an empty last page;
  prompts have no page size to set; ReplaceResources keeps duplicates;
  AddResource and a replacement do not signal a URI's watcher, and a removal
  that uncovers a duplicate of the URI with other content does not either
  (`unmarked`); SetError and
  SetMeta after Result are ignored; directories below a new one that were made before
  its watch are never watched (`MissedBelow`); a file that comes and goes between
  two ticks of the poller stays in the list of a client that listed it meanwhile,
  for the snapshots before and after are equal (`Fleeting`); a
  change that keeps size and time is not seen by polling, and one map of
  notifiers is read without its lock in the debouncer.
* Authentication: no leeway and an empty list of algorithms are enforced as
  given and described as the defaults; a token without subject may be told that
  its scope is too small.
* Elicitation: the wire type drops lengths, defaults and bounds equal to zero;
  an integer property of the builder never decodes; strictness is not enforced;
  options after Build or after a default are not checked; numbers wrap or are
  truncated into integer fields; fields the answer leaves out are cleared.

## 4. Fairness

Weak fairness is assumed of what the Go scheduler runs: a goroutine that is
neither blocked nor waiting for somebody outside takes its next step, and a
handler that was called returns (with or without an error; SubscribeSession
gives it a context that ends with the connection). For redis (`StreamFairness`)
a consumer that was not stopped goes on reading, claiming and acknowledging, and
time passes; a handler that fails ends its subscription, so the promise is made
as long as a subscriber remains. For stdio (`StdioFairness`) goroutines and
writes go on, the consumer takes what is in its channel and the client answers
what it was asked, all of it only while the process serves: after the end of
input it may exit between any two steps. Otherwise nothing is assumed of
the environment: nobody has to publish, subscribe, cancel, delete or answer, and a
tool need not return. A mutex is released in the step that takes it, except
after `StorePanics` and while a frame or a line is written. Strong fairness is
used for one thing, the mutex of stdout: a goroutine that waits for `writeMu` gets it although others take it in between,
which Go's mutexes guarantee (a waiter that starves is served first).

## 5. Proofs

TLC's runs are for the instances above; the following hold for every value of
the constants: any number of goroutines, engines, messages, sessions, URIs,
files, tokens or properties. Every safety property a passing run checks is the
statement of a theorem, with the exceptions it names; of the properties, liveness alone is left to TLC.

The assumptions are the named ASSUMEs of the modules, which TLC evaluates in
every run: bounds are naturals, capacities and page sizes positive; sentinels
(`NoCall`, `NoCancel`, `NoWriter`, `NoConsumer`, `Nobody`, `NoMeta`, `Absent`)
are none of what they stand beside, and goroutines of different kinds are
different; inputs have the shape of their Go types (tokens, objects of the wire,
answers, struct fields, directories and files, requests with a node and a URI).
Three of them are not about the code but facts the prover has no theory for: the
powers of two in `Width` and `Mantissa` are naturals, and what `SelectSeq` makes
of one of the given replacements is a list of resources again.

The shape is the same everywhere: a predicate `...Inv` that is inductive, a lemma
that the initial states satisfy it, lemmas that the steps keep it (one per
action or group of actions, below one per conjunct that can be disturbed), and
the theorem by PTL. What is added to the property, and why, part by part:

**SessionStreamProofs.** The invariants are not inductive by themselves:
that an acknowledgement leaves `inflight` exact needs to know that the message
is in the stream, marked, and held by nobody else. `StreamInv` is `TypeOK`,
`LocalsInv` (what single calls and deleters hold at each `pc`), `ClaimsExact`
and `NoLostWakeup`. `StepTypeOK`, `StepDeleter`, `StepCall`, `StepLocals`,
`StepClaims` and `StepWakeup` show that every action keeps one of them;
`StreamInvariant` puts them together, and `TypeCorrect`, `ClaimsAreExact` and
`NoWakeupIsLost` follow. The delicate case is `Wait`: the scan and the
registration are one critical section, so a publish comes before it (and the
scan sees the message) or after it (and finds the waiter); and a deleter that
has unlinked the stream but not closed it yet will find the waiter, too.
`StepQueue` then maps every step to a step of SessionQueue or a stutter under
`StreamInv`, which gives `HostImplementsQueue`. `OnceAndInOrder` is about what
calls have received, so `ReceiptsInv` ties each receipt to the stream's marks:
what a call received lies between its start and its cursor, in order, and what
was accepted is marked delivered, which no scan takes again.

**SubscriptionsProofs.** `SubsInv` adds `StagesInv` (at which `pc` a request's
forwarder runs) to `SubTypeOK`, `TrackedIsRunning` and `RunningIsOwned`.
`CancelAllKeeps` and `CancelOneKeeps` are about the two ways a map shrinks and
serve unsubscribe, delete and their events; `RequestKeeps`, `ConsumerKeeps` and
`DeleteKeeps` go through the actions. `ForwardersAreOwned` says that the
duplicate subscribe and the panic are the ONLY ways to lose a forwarder on an
engine that still tracks the session.

**InFlightProofs.** `FlightInv` adds two facts to the four invariants of the
run and `TypeOK`: `StageInv` (a request that was not made has an open channel,
one that was written is waited for or over) and `OriginInv` (a queued response
answers a written request, a queued cancellation was asked for). Without the
first, registering a rendez-vous might find its channel closed already; without
the second, a response might be dropped before its request is made, and the
consumer might cancel out of nothing. `QueueGrows` and `QueueShrinks` say what a
bounded append and a removal do to the queue; `RegistryStep`, `StageStep`,
`RendezVousStep`, `OriginStep` and `AskedStep` keep one conjunct each. The
theorems hold for any mix of sessions and ids, colliding ones included.

**EventBusProofs.** `PublisherOrder` is about what handlers saw, and an event is
seen long after it was sent, so `BusInv` is about the whole line of a
subscription: `LineInv` says that one publisher's events are in order in what it
saw (`SeenInv`), in its channel (`ChanInv`) and across the two (`CrossInv`), and
that none of them is an event still to be sent; `TargetsInv` that only a running
PublishEvent has targets; `FateInv` that an event begun was seen, waits, was
dropped, or is still to be sent. A receive turns `CrossInv` into `SeenInv`
(`ReceiveKeeps`); a send is in order because a publisher starts its next event
only after the last send (`PublishKeeps`, `SendKeeps`). When PublishEvent has
returned the last case of `FateInv` is excluded, which is `AccountedFor`; that a
loss needs a backlog follows from a send that finds the channel full. The
type invariant and the capacity of the channels (`BusTypes`) are proved there,
too.

**SessionLifecycleProofs.** `LifeInv` is `TypeOK` (which says what a goroutine
has in hand at every `pc`), `OwnSessionsOnly`, `EmittersOnce` and `RecordsInv`
(only an id that was handed out has a record; an open record has the session's
time-to-live). `StepEmitters` is the double-checked wiring: the mark under
`wireMu` is the claim, so at most one goroutine per engine and session is between
claim and registration. `RecordsOnlyMoveForward` is an action property and follows
from `StepMetas`, which lists what a step can do to a record. `NotesAreBounded`
counts: of each engine a client has at most one note per change, and one more for
each change that happened there (`own`). Counting is not
inductive, so `NotesInv` gives every note the pair of a node and a change it
stands for and every queued event or running forward the pair it will use up
(`Numbering`, `Owed`); the bound is the cardinality of that set of pairs.

**TransportProofs.** HTTP: `FramesInv` says that the response is whole frames
followed by the pieces the holder of the lock has written, until a write fails;
`FatesInv` that a completed frame or a published message belongs to a goroutine
that says so and does nothing more (`FinalPlaces`). stdio: `MutexInv` (stdout
ends inside a line exactly while somebody holds `writeMu`, and the line is the
holder's), `LinesInv` and `OutInv` (a line belongs to one goroutine, one still
to be written is not on stdout, and a message taken is one or the other), `PumpInv` (only the pump that `h.sessionCancel`
belongs to has not been cancelled). `SayKeeps`, `BodyKeeps` and `NewlineKeeps` are
the three things that can happen to stdout.

**RedisProofs.** Records: `SightsAreTrue` is optimistic locking - a caller saw
some revision, and if it is still the current one, the record is there with the
value it saw; `History` says what a revision implies. Events: `Position`, `Start`
and `Run` describe where a reader's read starts and that its reply goes on from
there but for what was trimmed. Streams: `FreshInv` (nobody has had an entry
behind the group's cursor) makes a read exclusive, `SharedInv` (an entry is in
two batches only after a claim of an idle one) is what at-least-once costs,
`PendingInv` and `HandlerInv` tie batches to the pending list.
`AcknowledgedIsFinal` is the safety half of `HandledThenFinal`.

**ServiceProofs.** One part per section of the module.
* *Writer*: `WriterInv` ties the list of blocks to the answers the appends gave.
* *Notifier*: `CloseInv` (after Close nobody subscribes, nobody sends, and each
  channel is closed or about to be) and `SignalInv` (a listener that is behind
  has a signal in its channel, or some Notify has yet to send one). Both are
  about Notify's loop, which goes over a copy one channel at a time.
* *Handshake*: `Agreement` and `Advertising` say at each question what has been
  agreed, stored and collected so far.
* *HTTP endpoint*: `PlaceInv` (nothing was done before it is done; beyond the
  loading it is the owner's and its session exists) and `MessageInv`; a step of
  one request leaves the others' parts alone because sessions only move
  `Onward` (`UntouchedKeeps`, `OneRequest`). `IDsComeBack` is the way through
  float64.
* *Tokens*: `AuthInv` freezes the configuration once the authenticator is ready;
  `AcceptedIsDescribed` and `DescribedIsAccepted` compare the ordered checks
  with `SecurityConfig()`, in both directions.
* *Resources*: `ResourceInv` has the index sound and every watcher up to date,
  signalled, marked or excepted; `RemoveKeeps` is the swap deletion, where the
  last resource takes the place of the one that goes.
* *Tools and prompts*: `TableInv` says that the dispatch table is what the list
  `Serves` - for each name the handler of its last definition that has one -
  and `WalkInv` that an undisturbed walk has the list up to a cursor inside it.
  What Remove's loop keeps (`KeptOf`) and serves (`KeptServes`) is shown for
  lists of any length.
* *Files*: `WatchInv` (a directory of the root is watched or its creation is
  still an event), `DebounceInv` (a pending flush has a timer or is running),
  `TreeInv` (a snapshot is not ahead of the tree), and `PolledList` and
  `NotifiedList`, the reason why either watcher will find a client's list wrong.
* *Elicitation*: `DefaultsInv` (a default meets its property as soon as somebody
  checks it), `BoundInv` (without a late option the published properties are
  the ones validated against), `DecodingInv` (what Decode has looked at is valid
  and copied). `ConvertedValue` is the conversion into integer fields of any
  width; `ValuableFulfils` and `FulfilsValuable` compare the two validators with
  the meaning of the schema, in both directions.

Some proofs failed at first, and for good reasons. A duplicate URI, a file
between two ticks of the poller and a directory made too early are real gaps in
the code's signalling that the earlier instances were too small to show; the
instances now contain the first and the third, the second was a case the model
had hidden by keeping the versions of removed files in the snapshot. Several
definitions were CASEs with overlapping conditions, which TLA+ does not order;
they are IFs now, like the code's.

Only model-checked: liveness (`HandledThenFinal`'s first half,
`EveryRequestAnswered`, and what the live runs check), for liveness under
fairness and `ENABLED` are out of the prover's reach. The library's induction
theorems are, too; where a proof needs induction over a list (`LoopRuns`,
`KeptServes`) it takes a least counterexample instead (`LeastOne`, from `WFMin`).
No module uses a RECURSIVE operator.

## 6. Not modelled, and why

* Redis data keys: single commands on keys of their own. The memory host's
  timestamps: nothing acts on them.
* HTTP: the metadata documents and CORS headers, written once and served as they
  are. stdio: progress lines (written like responses), options.
* File-system resources: the conversion between paths and URIs and the reading
  of files; string and I/O code without shared state.
* Tool schemas by reflection, string formats and struct tags of elicitation,
  sampling builders, `mcp` types, logging: the interesting part is Go's
  reflection. `internal/elicitation/projection.go` is imported by nobody.
* JWT signatures, key fetching, discovery: libraries.
* Examples and test kits: not part of the library.

## 7. Plan

Modelling follows the inventory to its end, and every safety property of the
runs is proved. What would say more: refinements of the other contracts of
`sessions/host.go` (one abstract specification of a topic and of a record, which
both hosts implement, as SessionQueue is for the memory host's streams), and a
composition of InFlight with EventBus in place of its own bounded queue.
