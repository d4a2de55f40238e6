--------------------------- MODULE ServiceProofs ---------------------------
(***************************************************************************)
(* Proofs about what a server does for one client: the notifier, the lists *)
(* and the resources of the service containers, the tool result writer,    *)
(* the handshake, the handlers of the HTTP endpoint, the authenticators,   *)
(* the watcher of a directory tree, and elicitation.                       *)
(***************************************************************************)
EXTENDS ChangeNotifier, ToolsContainer, ResourcesContainer, ToolWriter, Handshake,
        HttpRequests, Authentication, FsResources, Elicitation,
        FiniteSetTheorems, SequenceTheorems, TLAPS

-----------------------------------------------------------------------------
(* The tool result writer *)

WriterTypes ==
    /\ finalized \in BOOLEAN /\ isError \in BOOLEAN
    /\ blocks \in Seq(Writers)
    /\ writer \in [Writers -> {"idle", "locking", "ok", "refused"}]

\* A block is in the list exactly if its append was accepted, and the first
\* result has the list of that moment, which nothing changes any more.
WriterInv ==
    /\ WriterTypes
    /\ ToSet(blocks) = {w \in Writers : writer[w] = "ok"}
    /\ result = NoResult \/ (finalized /\ result.content = blocks)

\* What an appended sequence contains.
LEMMA AppendedSet == ASSUME NEW S, NEW s \in Seq(S), NEW e \in S
                     PROVE  ToSet(Append(s, e)) = ToSet(s) \cup {e}
  <1>1. /\ Len(s) \in Nat /\ DOMAIN s = 1..Len(s) /\ DOMAIN Append(s, e) = 1..(Len(s) + 1)
        /\ \A i \in 1..Len(s) : Append(s, e)[i] = s[i]
        /\ Append(s, e)[Len(s) + 1] = e
    BY AppendProperties
  <1> QED
    BY <1>1 DEF ToSet

\* Every step keeps the writer's invariant.
LEMMA WriterStepKeeps == WriterInv /\ [WriterNext]_writerVars => WriterInv'
  <1> SUFFICES ASSUME WriterInv, [WriterNext]_writerVars PROVE WriterInv'
    OBVIOUS
  <1> USE DEF WriterInv, WriterTypes
  <1>1. CASE Cancel
    BY <1>1 DEF Cancel
  <1>2. CASE SetError
    BY <1>2 DEF SetError
  <1>3. CASE Result
    BY <1>3 DEF Result
  <1>4. ASSUME NEW w \in Writers, AppendStarts(w) PROVE WriterInv'
    BY <1>4 DEF AppendStarts
  <1>5. ASSUME NEW w \in Writers, AppendLocked(w) PROVE WriterInv'
    <2>1. CASE finalized
      BY <1>5, <2>1 DEF AppendLocked
    <2>2. CASE ~finalized
      <3>1. blocks' = Append(blocks, w) /\ blocks' \in Seq(Writers)
            /\ ToSet(blocks') = ToSet(blocks) \cup {w}
        BY <1>5, <2>2, AppendedSet DEF AppendLocked
      <3>2. writer' = [writer EXCEPT ![w] = "ok"] /\ UNCHANGED <<finalized, isError, result>>
        BY <1>5, <2>2 DEF AppendLocked
      <3> QED
        BY <3>1, <3>2, <2>2
    <2> QED
      BY <2>1, <2>2
  <1>6. CASE UNCHANGED writerVars
    BY <1>6 DEF writerVars
  <1> QED
    BY <1>1, <1>2, <1>3, <1>4, <1>5, <1>6 DEF WriterNext

\* A block is in the result of a tool call exactly if its append was accepted,
\* for any number of goroutines writing while another takes the result.
THEOREM AcceptedBlocksAreReturned == WriterSpec => []AcceptedIsReturned
  <1>1. WriterInit => WriterInv
    <2> SUFFICES ASSUME WriterInit PROVE WriterInv
      OBVIOUS
    <2>1. finalized \in BOOLEAN /\ isError \in BOOLEAN
      BY DEF WriterInit
    <2>2. blocks \in Seq(Writers) /\ ToSet(blocks) = {}
      BY EmptySeq DEF WriterInit, ToSet
    <2> QED
      BY <2>1, <2>2 DEF WriterInit, WriterInv, WriterTypes
  <1>2. WriterInv /\ [WriterNext]_writerVars => WriterInv'
    BY WriterStepKeeps
  <1>3. WriterInv => AcceptedIsReturned
    BY DEF WriterInv, AcceptedIsReturned
  <1> QED
    BY <1>1, <1>2, <1>3, PTL DEF WriterSpec

-----------------------------------------------------------------------------
(* The change notifier *)

NotifierTypes ==
    /\ version \in Nat
    /\ closed \in BOOLEAN
    /\ subscribers \in Seq(Listeners) /\ closing \in Seq(Listeners)
    /\ buffered \in [Listeners -> Nat] /\ seen \in [Listeners -> Nat]
    /\ notify \in [Notifies -> [at : {"idle", "start", "sending", "done"}, left : Seq(Listeners)]]
    /\ listener \in [Listeners -> {"absent", "waiting", "calling", "returning", "ended"}]

\* Before Close everyone who registered is a subscriber and no channel is
\* closed; after it nobody is one, no Notify is sending, and every channel is
\* closed or about to be.
CloseInv ==
    /\ ~panicked
    /\ ~closed => /\ shut = {} /\ closing = <<>>
                  /\ \A l \in Listeners : listener[l] # "absent" => l \in ToSet(subscribers)
    /\ closed => /\ ~ReadLocked
                 /\ \A l \in Listeners : listener[l] # "absent" => l \in shut \cup ToSet(closing)

\* A signal is on its way to l: in its channel, or a Notify has yet to send it.
Signalled(l) ==
    \/ buffered[l] > 0
    \/ \E n \in Notifies : notify[n].at = "start" \/ l \in ToSet(notify[n].left)

\* NoMissedChange, for a listener about to wait as well: the list may change
\* between the client's listing and the next wait.
SignalInv ==
    \A l \in Listeners :
        listener[l] \in {"waiting", "returning"} /\ seen[l] < version /\ ~closed => Signalled(l)

NotifierInv == NotifierTypes /\ CloseInv /\ SignalInv

\* What a sequence contains, taken apart.
LEMMA SequenceSets ==
  ASSUME NEW S, NEW s \in Seq(S)
  PROVE  /\ ToSet(s) \subseteq S
         /\ s = <<>> => ToSet(s) = {}
         /\ s # <<>> => /\ Head(s) \in S /\ Tail(s) \in Seq(S)
                        /\ ToSet(s) = {Head(s)} \cup ToSet(Tail(s))
         /\ \A e : Contains(s, e) <=> e \in ToSet(s)
  <1>1. Len(s) \in Nat /\ DOMAIN s = 1..Len(s) /\ \A i \in 1..Len(s) : s[i] \in S
    OBVIOUS
  <1>2. ToSet(s) \subseteq S
    BY <1>1 DEF ToSet
  <1>3. s = <<>> => ToSet(s) = {}
    BY DEF ToSet
  <1>4. \A e : Contains(s, e) <=> e \in ToSet(s)
    BY <1>1 DEF ToSet, Contains
  <1>5. ASSUME s # <<>>
        PROVE  /\ Head(s) \in S /\ Tail(s) \in Seq(S)
               /\ ToSet(s) = {Head(s)} \cup ToSet(Tail(s))
    <2>1. /\ Len(s) \in Nat \ {0} /\ Head(s) = s[1] /\ Tail(s) \in Seq(S)
          /\ Len(Tail(s)) = Len(s) - 1
          /\ \A i \in 1..Len(Tail(s)) : Tail(s)[i] = s[i + 1]
      BY <1>5, EmptySeq, HeadTailProperties
    <2>2. DOMAIN Tail(s) = 1..Len(Tail(s))
      BY <2>1
    <2>3. \A i \in 1..Len(s) : i = 1 \/ (i - 1 \in 1..Len(Tail(s)) /\ s[i] = Tail(s)[i - 1])
      BY <2>1
    <2>4. \A i \in 1..Len(Tail(s)) : i + 1 \in 1..Len(s)
      BY <2>1
    <2>5. ToSet(s) \subseteq {Head(s)} \cup ToSet(Tail(s))
      <3> SUFFICES ASSUME NEW i \in 1..Len(s), s[i] # Head(s) PROVE s[i] \in ToSet(Tail(s))
        BY <1>1 DEF ToSet
      <3>1. i - 1 \in 1..Len(Tail(s)) /\ s[i] = Tail(s)[i - 1]
        BY <2>1, <2>3
      <3> QED
        BY <3>1, <2>2 DEF ToSet
    <2>6. {Head(s)} \cup ToSet(Tail(s)) \subseteq ToSet(s)
      BY <1>1, <2>1, <2>2, <2>4 DEF ToSet
    <2> QED
      BY <1>1, <2>1, <2>5, <2>6
  <1> QED
    BY <1>2, <1>3, <1>4, <1>5

\* A Notify signals the subscribers one by one under its read lock.
LEMMA NotifyKeeps ==
  ASSUME NotifierInv, NEW n \in Notifies,
         ChangeList(n) \/ NotifyEnter(n) \/ NotifySend(n) \/ NotifyLeave(n)
  PROVE  NotifierInv'
  <1> USE DEF NotifierInv, NotifierTypes
  <1>1. CASE ChangeList(n)
    <2>1. /\ version' = version + 1 /\ notify' = [notify EXCEPT ![n].at = "start"]
          /\ UNCHANGED <<closeVars, buffered, listener, seen, panicked>>
      BY <1>1 DEF ChangeList
    <2>2. notify'[n].at = "start"
      BY <2>1
    <2>3. NotifierTypes'
      <3>1. version' \in Nat
        BY <2>1
      <3>2. notify' \in [Notifies -> [at : {"idle", "start", "sending", "done"},
                                      left : Seq(Listeners)]]
        BY <2>1
      <3> QED
        BY <2>1, <3>1, <3>2 DEF closeVars
    <2>4. CloseInv'
      BY <2>1 DEF CloseInv, ReadLocked, closeVars
    <2>5. SignalInv'
      BY <2>2 DEF SignalInv, Signalled
    <2> QED
      BY <2>3, <2>4, <2>5
  <1>2. CASE NotifyEnter(n)
    <2>1. /\ notify[n].at = "start"
          /\ notify' = [notify EXCEPT ![n] = IF closed THEN [at |-> "done", left |-> <<>>]
                                             ELSE [at |-> "sending", left |-> subscribers]]
          /\ UNCHANGED <<version, closeVars, buffered, listener, seen, panicked>>
      BY <1>2 DEF NotifyEnter
    <2>2. CASE closed
      <3>1. notify' = [notify EXCEPT ![n] = [at |-> "done", left |-> <<>>]]
        BY <2>1, <2>2
      <3>2. NotifierTypes'
        BY <2>1, <3>1, EmptySeq DEF closeVars
      <3>3. CloseInv' /\ SignalInv'
        BY <2>1, <2>2, <3>1 DEF CloseInv, ReadLocked, SignalInv, closeVars
      <3> QED
        BY <3>2, <3>3
    <2>3. CASE ~closed
      <3>1. notify' = [notify EXCEPT ![n] = [at |-> "sending", left |-> subscribers]]
        BY <2>1, <2>3
      <3>2. NotifierTypes'
        BY <2>1, <3>1 DEF closeVars
      <3>3. CloseInv'
        BY <2>1, <2>3 DEF CloseInv, closeVars
      <3>4. notify'[n].left = subscribers
        BY <3>1
      <3>5. SignalInv'
        BY <2>1, <2>3, <3>4 DEF CloseInv, SignalInv, Signalled, closeVars
      <3> QED
        BY <3>2, <3>3, <3>5
    <2> QED
      BY <2>2, <2>3
  <1>3. CASE NotifySend(n)
    <2> DEFINE s == notify[n].left
               h == Head(s)
    <2>1. /\ notify[n].at = "sending" /\ s \in Seq(Listeners) /\ s # <<>>
          /\ buffered' = [buffered EXCEPT ![h] = Send(h)]
          /\ panicked' = (panicked \/ h \in shut)
          /\ notify' = [notify EXCEPT ![n].left = Tail(@)]
          /\ UNCHANGED <<version, closeVars, listener, seen>>
      BY <1>3 DEF NotifySend
    <2>2. h \in Listeners /\ Tail(s) \in Seq(Listeners) /\ ToSet(s) = {h} \cup ToSet(Tail(s))
      BY <2>1, SequenceSets
    <2>3. notify'[n].left = Tail(s) /\ notify'[n].at = "sending"
      BY <2>1
    <2> HIDE DEF s, h
    <2>4. Send(h) \in Nat \ {0} /\ \A l \in Listeners : l # h => buffered'[l] = buffered[l]
      <3>1. buffered[h] \in Nat
        BY <2>2
      <3>2. Send(h) \in Nat \ {0}
        BY <3>1, ChanSlotsAssumption DEF Send
      <3> QED
        BY <2>1, <3>2
    <2>5. buffered'[h] > 0 /\ buffered' \in [Listeners -> Nat]
      BY <2>1, <2>2, <2>4, SMTT(40)
    <2>6. notify' \in [Notifies -> [at : {"idle", "start", "sending", "done"},
                                    left : Seq(Listeners)]]
      BY <2>1, <2>2 DEF s
    <2>7. NotifierTypes'
      BY <2>1, <2>5, <2>6 DEF closeVars
    <2>8. ~closed
      BY <2>1 DEF CloseInv, ReadLocked
    <2>9. CloseInv'
      BY <2>1, <2>8 DEF CloseInv, closeVars
    <2>10. \A m \in Notifies : m # n => notify'[m] = notify[m]
      BY <2>1
    <2>11. SignalInv'
      <3> SUFFICES ASSUME NEW l \in Listeners, Signalled(l) PROVE Signalled(l)'
        BY <2>1 DEF SignalInv, closeVars
      <3>1. CASE l = h
        BY <3>1, <2>5 DEF Signalled
      <3>2. CASE l # h /\ buffered[l] > 0
        BY <3>2, <2>4 DEF Signalled
      <3>3. ASSUME l # h, NEW m \in Notifies,
                   notify[m].at = "start" \/ l \in ToSet(notify[m].left)
            PROVE  notify'[m].at = "start" \/ l \in ToSet(notify'[m].left)
        <4>1. CASE m = n
          <5>1. l \in ToSet(s)
            BY <4>1, <3>3, <2>1 DEF s
          <5> QED
            BY <4>1, <5>1, <3>3, <2>2, <2>3
        <4>2. CASE m # n
          BY <4>2, <3>3, <2>10
        <4> QED
          BY <4>1, <4>2
      <3> QED
        BY <3>1, <3>2, <3>3 DEF Signalled
    <2> QED
      BY <2>7, <2>9, <2>11
  <1>4. CASE NotifyLeave(n)
    <2>1. /\ notify[n].left = <<>> /\ notify' = [notify EXCEPT ![n].at = "done"]
          /\ notify[n].at = "sending"
          /\ UNCHANGED <<version, closeVars, buffered, listener, seen, panicked>>
      BY <1>4 DEF NotifyLeave
    <2>2. NotifierTypes'
      BY <2>1 DEF closeVars
    <2>3. CloseInv'
      BY <2>1 DEF CloseInv, ReadLocked, closeVars
    <2>4. \A m \in Notifies : \/ notify'[m] = notify[m]
                              \/ m = n /\ ToSet(notify[m].left) = {}
      BY <2>1 DEF ToSet
    <2>5. SignalInv'
      BY <2>1, <2>4 DEF SignalInv, Signalled, closeVars
    <2> QED
      BY <2>2, <2>3, <2>5
  <1> QED
    BY <1>1, <1>2, <1>3, <1>4

\* Registering and closing exclude every Notify under way.
LEMMA RegisterKeeps ==
  ASSUME NotifierInv, NEW l \in Listeners, Register(l) PROVE NotifierInv'
  <1> USE DEF NotifierInv, NotifierTypes
  <1>1. /\ listener' = [listener EXCEPT ![l] = "waiting"] /\ seen' = [seen EXCEPT ![l] = version]
        /\ UNCHANGED <<version, closed, closing, buffered, notify, panicked>>
    BY DEF Register
  <1>2. CASE closed
    <2>1. shut' = shut \cup {l} /\ subscribers' = subscribers
      BY <1>2 DEF Register
    <2> QED
      BY <1>1, <1>2, <2>1 DEF CloseInv, ReadLocked, SignalInv
  <1>3. CASE ~closed
    <2>1. subscribers' = Append(subscribers, l) /\ shut' = shut
      BY <1>3 DEF Register
    <2>2. subscribers' \in Seq(Listeners) /\ ToSet(subscribers') = ToSet(subscribers) \cup {l}
      BY <2>1, AppendedSet
    <2>3. CloseInv'
      BY <1>1, <1>3, <2>1, <2>2 DEF CloseInv
    <2>4. SignalInv'
      BY <1>1 DEF SignalInv, Signalled
    <2> QED
      BY <1>1, <2>2, <2>3, <2>4
  <1> QED
    BY <1>2, <1>3

\* Close takes the subscribers while no Notify is under way, then closes their
\* channels one by one.
LEMMA CloseKeeps == ASSUME NotifierInv, CloseBegin \/ CloseChannel PROVE NotifierInv'
  <1> USE DEF NotifierInv, NotifierTypes
  <1>1. CASE CloseBegin
    <2>1. /\ ~closed /\ ~ReadLocked /\ closed' = TRUE /\ closing' = subscribers
          /\ subscribers' = <<>>
          /\ UNCHANGED <<version, shut, buffered, notify, listener, seen, panicked>>
      BY <1>1 DEF CloseBegin
    <2>2. closed' \in BOOLEAN /\ ~ReadLocked'
      BY <2>1 DEF ReadLocked
    <2>3. NotifierTypes'
      BY <2>1, <2>2, EmptySeq
    <2>4. CloseInv' /\ SignalInv'
      BY <2>1, <2>2 DEF CloseInv, SignalInv
    <2> QED
      BY <2>3, <2>4
  <1>2. CASE CloseChannel
    <2>1. /\ closing # <<>> /\ shut' = shut \cup {Head(closing)} /\ closing' = Tail(closing)
          /\ UNCHANGED <<version, subscribers, closed, buffered, notify, listener, seen, panicked>>
      BY <1>2 DEF CloseChannel
    <2>2. Tail(closing) \in Seq(Listeners) /\ ToSet(closing) = {Head(closing)} \cup ToSet(Tail(closing))
      BY <2>1, SequenceSets
    <2>3. closed
      BY <2>1 DEF CloseInv
    <2>4. CloseInv'
      BY <2>1, <2>2, <2>3 DEF CloseInv, ReadLocked
    <2>5. SignalInv'
      BY <2>1, <2>3 DEF SignalInv
    <2> QED
      BY <2>1, <2>2, <2>4, <2>5
  <1> QED
    BY <1>1, <1>2

\* A listener receives, has its client list, and waits again, or ends.
LEMMA ListenerKeeps ==
  ASSUME NotifierInv, NEW l \in Listeners,
         Receive(l) \/ ClientLists(l) \/ WaitAgain(l) \/ ListenerEnds(l) \/ ContextDone(l)
  PROVE  NotifierInv'
  <1> USE DEF NotifierInv, NotifierTypes
  <1>1. UNCHANGED <<version, subscribers, closed, closing, shut, notify, panicked>>
    BY DEF Receive, ClientLists, WaitAgain, ListenerEnds, ContextDone, closeVars
  <1>2. /\ buffered' \in [Listeners -> Nat] /\ seen' \in [Listeners -> Nat]
        /\ listener' \in [Listeners -> {"absent", "waiting", "calling", "returning", "ended"}]
        /\ listener[l] # "absent"
        /\ \A k \in Listeners : k # l => /\ buffered'[k] = buffered[k] /\ seen'[k] = seen[k]
                                        /\ listener'[k] = listener[k]
        /\ \/ listener'[l] \in {"calling", "ended"}
           \/ seen'[l] = version
           \/ listener[l] = "returning" /\ buffered'[l] = buffered[l] /\ seen'[l] = seen[l]
    <2>1. CASE Receive(l)
      BY <2>1 DEF Receive
    <2>2. CASE ClientLists(l)
      BY <2>2 DEF ClientLists
    <2>3. CASE WaitAgain(l)
      BY <2>3 DEF WaitAgain
    <2>4. CASE ListenerEnds(l) \/ ContextDone(l)
      BY <2>4 DEF ListenerEnds, ContextDone
    <2> QED
      BY <2>1, <2>2, <2>3, <2>4
  <1>3. NotifierTypes'
    BY <1>1, <1>2
  <1>4. CloseInv'
    BY <1>1, <1>2 DEF CloseInv, ReadLocked
  <1>5. SignalInv'
    <2>1. ASSUME NEW k \in Listeners, buffered'[k] = buffered[k], Signalled(k) PROVE Signalled(k)'
      BY <1>1, <2>1 DEF Signalled
    <2>2. ASSUME NEW k \in Listeners, k # l,
                 listener'[k] \in {"waiting", "returning"}, seen'[k] < version', ~closed'
          PROVE  Signalled(k)'
      BY <1>1, <1>2, <2>1, <2>2 DEF SignalInv
    <2>3. ASSUME listener'[l] \in {"waiting", "returning"}, seen'[l] < version', ~closed'
          PROVE  Signalled(l)'
      BY <1>1, <1>2, <2>1, <2>3 DEF SignalInv
    <2> QED
      BY <2>2, <2>3 DEF SignalInv
  <1> QED
    BY <1>3, <1>4, <1>5

\* Notify, Subscriber and Close keep their promise to each other for any
\* number of listeners and changes: nobody sends on a closed channel, no
\* change is missed although signals are dropped, and Close reaches everyone,
\* whoever registers meanwhile.
THEOREM NotifierKeepsItsPromise == NotifierSpec => []NotifierPromise
  <1>1. NotifierInit => NotifierInv
    <2> SUFFICES ASSUME NotifierInit PROVE NotifierInv
      OBVIOUS
    <2>1. closed \in BOOLEAN /\ ~closed /\ ~panicked
      BY DEF NotifierInit
    <2>2. NotifierTypes
      BY <2>1, EmptySeq DEF NotifierInit, NotifierTypes
    <2> QED
      BY <2>1, <2>2 DEF NotifierInit, NotifierInv, CloseInv, SignalInv
  <1>2. NotifierInv /\ [NotifierNext]_notifierVars => NotifierInv'
    <2> SUFFICES ASSUME NotifierInv, [NotifierNext]_notifierVars PROVE NotifierInv'
      OBVIOUS
    <2>1. CASE UNCHANGED notifierVars
      BY <2>1 DEF notifierVars, closeVars, NotifierInv, NotifierTypes, CloseInv, ReadLocked,
         SignalInv, Signalled
    <2> QED
      BY <2>1, NotifyKeeps, RegisterKeeps, CloseKeeps, ListenerKeeps DEF NotifierNext
  <1>3. NotifierInv => NotifierPromise
    <2> SUFFICES ASSUME NotifierInv PROVE NotifierPromise
      OBVIOUS
    <2>1. NoSendOnClosed
      BY DEF NotifierInv, CloseInv, NoSendOnClosed
    <2>2. \A n \in Notifies, l \in Listeners :
             l \in ToSet(notify[n].left) => Contains(notify[n].left, l)
      BY SequenceSets DEF NotifierInv, NotifierTypes
    <2>3. NoMissedChange
      BY <2>2 DEF NotifierInv, SignalInv, Signalled, NoMissedChange
    <2>4. CloseReachesAll
      BY SequenceSets DEF NotifierInv, NotifierTypes, CloseInv, CloseReachesAll
    <2> QED
      BY <2>1, <2>3, <2>4 DEF NotifierPromise
  <1> QED
    BY <1>1, <1>2, <1>3, PTL DEF NotifierSpec

-----------------------------------------------------------------------------
(* The handshake *)

HsTypes ==
    /\ offer \in [Offered -> {"absent", "nil", "present"}]
    /\ offered \in [Offered -> {"absent", "nil", "present"}]
    /\ step # "done" => offer = offered
    /\ asked \in Nat
    /\ ctxDone \in BOOLEAN
    /\ client \in Versions /\ preferred \in Versions \cup {NoVersion}

\* Where initialize is tells what it has agreed on and stored.
Agreement ==
    /\ step \in {"version", "create"} => stored = NoVersion
    /\ step = "create" => Negotiated(client) # NoVersion
    /\ step \in {"ask", "cleanup", "done"} =>
          stored = Negotiated(client) /\ stored # NoVersion
    /\ step = "failed" => stored \in {NoVersion, Negotiated(client)}
    /\ step = "failed" /\ ~ctxDone => stored = NoVersion

\* The result contains what the providers asked so far have answered.
Advertising ==
    /\ advertised = UNION {AdvertisedBy(Asked[i], offered) : i \in 3..asked}
    /\ asked <= Len(Asked)
    /\ step = "ask" => asked < Len(Asked)
    /\ step = "done" => asked = Len(Asked)
    /\ step \in {"version", "create"} => asked = 0

\* Requests are answered by their handlers, after initialize.
Replies ==
    reply = NoReply \/ (step = "done" /\ reply.code \in Codes(reply.method, reply.params))

HandshakeInv ==
    /\ HsTypes
    /\ step \in {"version", "create", "ask", "cleanup", "done", "failed"}
    /\ Agreement /\ Advertising /\ Replies

\* The order of the questions.
LEMMA AskedFacts ==
  /\ Len(Asked) = 7
  /\ Asked[3] = "resources" /\ Asked[4] = "tools" /\ Asked[5] = "prompts"
  /\ Asked[6] = "logging" /\ Asked[7] = "completions"
  /\ Offered = {"resources", "tools", "prompts", "logging", "completions", "subscription"}
  <1>1. Len(Asked) = 7
    BY DEF Asked
  <1>2. /\ Asked[3] = "resources" /\ Asked[4] = "tools" /\ Asked[5] = "prompts"
        /\ Asked[6] = "logging" /\ Asked[7] = "completions"
    BY DEF Asked
  <1>3. 3..7 = {3, 4, 5, 6, 7}
    OBVIOUS
  <1> QED
    BY <1>1, <1>2, <1>3 DEF Offered

\* A negotiated version is one the library speaks, the client's if possible.
LEMMA NegotiatedVersion ==
  Negotiated(client) # NoVersion =>
      /\ Negotiated(client) \in Supported
      /\ client \in Supported => Negotiated(client) = client
  BY VersionAssumption DEF Negotiated

\* Every step of initialize and every later request keep the invariant.
LEMMA HandshakeStepKeeps == HandshakeInv /\ [HandshakeNext]_hsVars => HandshakeInv'
  <1> SUFFICES ASSUME HandshakeInv, [HandshakeNext]_hsVars PROVE HandshakeInv'
    OBVIOUS
  <1> USE DEF HandshakeInv, HsTypes, Agreement, Advertising, Replies
  <1>0. ASSUME UNCHANGED <<offer, offered, preferred, client>>
        PROVE  /\ Negotiated(client)' = Negotiated(client)
               /\ \A c : AdvertisedBy(c, offered') = AdvertisedBy(c, offered)
               /\ \A m, p : Codes(m, p)' = Codes(m, p)
    BY <1>0 DEF Negotiated, AdvertisedBy, Codes, handleToolsList, handleResourcesList,
       handleResourcesTemplatesList, handlePromptsList, handleResourcesRead, handlePromptsGet,
       handleCompletionsComplete, handleToolCall, handleSetLoggingLevel,
       handleResourcesSubscribe, handleResourcesUnsubscribe, Serve
  <1>1. CASE HandshakeContextEnds
    BY <1>0, <1>1 DEF HandshakeContextEnds
  <1>2. CASE NegotiateVersion
    BY <1>0, <1>2 DEF NegotiateVersion
  <1>3. CASE CreateRecord
    BY <1>0, <1>3, AskedFacts DEF CreateRecord
  <1>4. CASE AskProvider
    <2>1. /\ step = "ask" /\ asked' = asked + 1 /\ asked < Len(Asked)
          /\ step' = IF asked' = Len(Asked) THEN "done" ELSE "ask"
          /\ UNCHANGED <<offer, offered, preferred, client, ctxDone, stored, reply>>
          /\ offer = offered
      BY <1>4 DEF AskProvider
    <2>2. advertised' = UNION {AdvertisedBy(Asked[i], offered) : i \in 3..asked'}
      <3>1. CASE asked' <= 2
        <4>1. 3..asked' = {} /\ 3..asked = {}
          BY <3>1, <2>1
        <4>2. advertised' = advertised
          BY <1>4, <3>1 DEF AskProvider
        <4> QED
          BY <4>1, <4>2
      <3>2. CASE ~(asked' <= 2)
        <4>1. 3..asked' = (3..asked) \cup {asked'}
          BY <3>2, <2>1
        <4>2. advertised' = advertised \cup AdvertisedBy(Asked[asked'], offered)
          BY <1>4, <2>1, <3>2 DEF AskProvider
        <4> QED
          BY <4>1, <4>2
      <3> QED
        BY <3>1, <3>2
    <2>3. UNION {AdvertisedBy(Asked[i], offered') : i \in 3..asked'}
          = UNION {AdvertisedBy(Asked[i], offered) : i \in 3..asked'}
      BY <1>0, <2>1
    <2>4. Advertising'
      BY <2>1, <2>2, <2>3, AskedFacts DEF Asked
    <2> QED
      BY <1>0, <2>1, <2>4
  <1>5. CASE ProviderFails
    BY <1>0, <1>5 DEF ProviderFails
  <1>6. CASE CleanUp
    BY <1>0, <1>6 DEF CleanUp
  <1>7. ASSUME NEW m, NEW p, HandleRequest(m, p) PROVE HandshakeInv'
    BY <1>0, <1>7 DEF HandleRequest
  <1>8. ASSUME NEW c \in Offered, ProviderChanges(c) PROVE HandshakeInv'
    <2>1. /\ step = "done" /\ reply' = NoReply
          /\ UNCHANGED <<offered, preferred, step, asked, client, ctxDone, stored, advertised>>
      BY <1>8 DEF ProviderChanges
    <2>2. offer' \in [Offered -> {"absent", "nil", "present"}]
      BY <1>8 DEF ProviderChanges
    <2>3. Negotiated(client)' = Negotiated(client)
      BY <2>1 DEF Negotiated
    <2> QED
      BY <2>1, <2>2, <2>3
  <1>9. CASE UNCHANGED hsVars
    BY <1>0, <1>9 DEF hsVars
  <1> QED
    BY <1>1, <1>2, <1>3, <1>4, <1>5, <1>6, <1>7, <1>8, <1>9 DEF HandshakeNext

\* What the result of a finished initialize contains.
LEMMA AllAdvertised ==
  ASSUME HandshakeInv, step = "done"
  PROVE  advertised = AdvertisedBy("resources", offered) \cup AdvertisedBy("tools", offered)
                      \cup AdvertisedBy("prompts", offered) \cup AdvertisedBy("logging", offered)
                      \cup AdvertisedBy("completions", offered)
  <1>1. advertised = UNION {AdvertisedBy(Asked[i], offered) : i \in 3..7}
    BY AskedFacts DEF HandshakeInv, Advertising
  <1>2. 3..7 = {3, 4, 5, 6, 7}
    OBVIOUS
  <1>3. UNION {AdvertisedBy(Asked[i], offered) : i \in {3, 4, 5, 6, 7}}
        = AdvertisedBy(Asked[3], offered) \cup AdvertisedBy(Asked[4], offered) \cup AdvertisedBy(Asked[5], offered)
          \cup AdvertisedBy(Asked[6], offered) \cup AdvertisedBy(Asked[7], offered)
    BY Zenon
  <1>4. /\ AdvertisedBy(Asked[3], offered) = AdvertisedBy("resources", offered)
        /\ AdvertisedBy(Asked[4], offered) = AdvertisedBy("tools", offered)
        /\ AdvertisedBy(Asked[5], offered) = AdvertisedBy("prompts", offered)
        /\ AdvertisedBy(Asked[6], offered) = AdvertisedBy("logging", offered)
        /\ AdvertisedBy(Asked[7], offered) = AdvertisedBy("completions", offered)
    BY AskedFacts, Zenon
  <1>5. advertised = UNION {AdvertisedBy(Asked[i], offered) : i \in {3, 4, 5, 6, 7}}
    BY <1>1, <1>2, Zenon
  <1> QED
    BY <1>3, <1>4, <1>5, Zenon

\* A handler's answer agrees with what was advertised.
LEMMA CodesAgree == HandshakeInv => AdvertisedIsServed
  <1> SUFFICES ASSUME HandshakeInv, reply.method \in Methods,
                      \A c \in ProvidersOf(reply.method) : offer[c] = offered[c]
               PROVE  /\ reply.code = "MethodNotFound" =>
                            \/ CapabilityOf[reply.method] \notin advertised
                            \/ reply.method = "completion/complete" /\ offer["completions"] = "nil"
                      /\ reply.code = "result" =>
                            \/ CapabilityOf[reply.method] \in advertised
                            \/ reply.method = "resources/unsubscribe"
    BY DEF AdvertisedIsServed
  <1>1. reply # NoReply
    <2>1. NoReply.method = ""
      BY DEF NoReply
    <2>2. "" \notin Methods
      BY DEF Methods
    <2> QED
      BY <2>1, <2>2
  <1>2. step = "done" /\ reply.code \in Codes(reply.method, reply.params)
    BY <1>1 DEF HandshakeInv, Replies
  <1>3. /\ "resources" \in advertised <=> offered["resources"] = "present"
        /\ "tools" \in advertised <=> offered["tools"] = "present"
        /\ "prompts" \in advertised <=> offered["prompts"] = "present"
        /\ "logging" \in advertised <=> offered["logging"] # "absent"
        /\ "completions" \in advertised <=> offered["completions"] # "absent"
        /\ "subscribe" \in advertised <=>
              offered["resources"] = "present" /\ offered["subscription"] = "present"
    BY <1>2, AllAdvertised DEF AdvertisedBy
  <1>4. \A c \in Offered : offer[c] \in {"absent", "nil", "present"}
    BY DEF HandshakeInv, HsTypes
  <1>5. {"resources", "tools", "prompts", "logging", "completions", "subscription"} = Offered
    BY AskedFacts
  <1>6. CASE reply.method \in {"tools/list", "tools/call"}
    BY <1>2, <1>3, <1>6 DEF ProvidersOf, CapabilityOf, Methods, Codes, handleToolsList, handleToolCall, Serve
  <1>7. CASE reply.method \in {"resources/list", "resources/templates/list", "resources/read"}
    BY <1>2, <1>3, <1>7 DEF ProvidersOf, CapabilityOf, Methods, Codes, handleResourcesList,
       handleResourcesTemplatesList, handleResourcesRead, Serve
  <1>12. CASE reply.method = "resources/unsubscribe"
    BY <1>2, <1>12 DEF Methods, Codes, handleResourcesUnsubscribe
  <1>8. CASE reply.method = "resources/subscribe"
    BY <1>2, <1>3, <1>8 DEF ProvidersOf, CapabilityOf, Methods, Codes, handleResourcesSubscribe, Serve
  <1>9. CASE reply.method \in {"prompts/list", "prompts/get"}
    BY <1>2, <1>3, <1>9 DEF ProvidersOf, CapabilityOf, Methods, Codes, handlePromptsList, handlePromptsGet, Serve
  <1>10. CASE reply.method = "logging/setLevel"
    BY <1>2, <1>3, <1>4, <1>5, <1>10 DEF ProvidersOf, CapabilityOf, Methods, Codes, handleSetLoggingLevel
  <1>11. CASE reply.method = "completion/complete"
    BY <1>2, <1>3, <1>4, <1>5, <1>11 DEF ProvidersOf, CapabilityOf, Methods, Codes, handleCompletionsComplete, Serve
  <1> QED
    BY <1>6, <1>7, <1>8, <1>9, <1>10, <1>11, <1>12 DEF Methods

\* InitializeSession leaves nothing behind, unless its context ended, or a
\* session in a version both sides speak, whose later requests find what was
\* advertised, except for unsubscribing and while a provider answers otherwise
\* than it did: for every set of versions, whatever the providers answer,
\* whenever they change and wherever one of them fails.
THEOREM InitializeKeepsItsPromise == HandshakeSpec => []InitializeKeepsItsWord
  <1>1. HandshakeInit => HandshakeInv
    <2> SUFFICES ASSUME HandshakeInit PROVE HandshakeInv
      OBVIOUS
    <2>1. ctxDone \in BOOLEAN
      BY DEF HandshakeInit
    <2>2. 3..0 = {} /\ advertised = {} /\ asked = 0 /\ asked \in Nat
      BY DEF HandshakeInit
    <2>3. advertised = UNION {AdvertisedBy(Asked[i], offered) : i \in 3..asked}
      BY <2>2
    <2> QED
      BY <2>1, <2>2, <2>3, AskedFacts DEF HandshakeInit, HandshakeInv, HsTypes, Agreement,
         Advertising, Replies
  <1>2. HandshakeInv /\ [HandshakeNext]_hsVars => HandshakeInv'
    BY HandshakeStepKeeps
  <1>3. HandshakeInv => InitializeKeepsItsWord
    BY NegotiatedVersion, CodesAgree DEF HandshakeInv, Agreement, InitializeKeepsItsWord,
       FailedInitializeCleansUp, VersionAgreed
  <1> QED
    BY <1>1, <1>2, <1>3, PTL DEF HandshakeSpec

-----------------------------------------------------------------------------
(* The handlers of the HTTP endpoint *)

Early == {"idle", "negotiate", "auth", "body", "header", "refuse", "initialize"}
Beyond == {"loaded", "stream", "delete", "notification", "accept", "response"}

RequestTypes ==
    /\ session \in {"none", "pending", "open", "gone"}
    /\ place \in [Conns -> Early \cup Beyond \cup {"load", "done"}]
    /\ sent \in [Conns -> Objects \cup {NoMessage}]
    /\ failed \in [Conns -> BOOLEAN]
    /\ DOMAIN verb = Conns /\ DOMAIN user = Conns /\ DOMAIN header = Conns
    /\ DOMAIN message = Conns /\ DOMAIN called = Conns /\ DOMAIN answer = Conns

\* The message is what the body said, its id through a float64.
MessageInv(c) ==
    message[c].method = sent[c].method /\ message[c].id = UnmarshalID(sent[c].id)

\* What is known of a request at each place: nothing was done before it is
\* done, and beyond the loading it is the owner's and its session exists.
PlaceInv(c) ==
    /\ place[c] # "done" => called[c] = "none"
    /\ place[c] \in Early => header[c] = "none"
    /\ place[c] \in Beyond => user[c] = Owner /\ header[c] = "s" /\ session # "none"
    /\ place[c] = "notification" => AsRequest(message[c]) /\ IsNil(message[c].id)
    /\ place[c] = "accept" => AsRequest(message[c])
    /\ place[c] = "response" => AsResponse(message[c])

SameID(o, a) == a.id = o.id \/ (o.id.type = "number" /\ o.id.value > Exact)

\* What is known of an answer.
AnswerInv(c) ==
    /\ place[c] = "done" =>
          /\ user[c] = Stranger /\ header[c] # "none" =>
                answer[c].status \in {404, 500} /\ called[c] = "none"
          /\ answer[c].status \in 400..499 => called[c] = "none"
          /\ answer[c].status # 0
          /\ answer[c].reply # "none" => AsRequest(sent[c]) /\ SameID(sent[c], answer[c])
          /\ answer[c].status = 202 => AsResponse(sent[c]) \/ sent[c].id = NoID
          /\ answer[c].status = 202 /\ sent[c].method = "initialized" =>
                session \in {"open", "gone"} \/ failed[c]
    /\ called[c] \notin {"none", "initialize"} => user[c] = Owner /\ header[c] = "s"

RequestInv ==
    RequestTypes /\ \A c \in Conns : MessageInv(c) /\ PlaceInv(c) /\ AnswerInv(c)

\* An id comes back from the float64 as it was, or was beyond its integers.
LEMMA IDsComeBack ==
  ASSUME NEW o \in Objects \cup {NoMessage}
  PROVE  /\ UnmarshalID(o.id) = o.id \/ (o.id.type = "number" /\ o.id.value > Exact)
         /\ IsNil(UnmarshalID(o.id)) => o.id = NoID
  <1>1. o.id \in IDs \cup {BadID}
    <2>1. CASE o \in Objects
      BY <2>1 DEF Objects
    <2>2. CASE o = NoMessage
      BY <2>2 DEF NoMessage, IDs
    <2> QED
      BY <2>1, <2>2
  <1>2. Exact \in Nat
    BY JsonRpcAssumption
  <1>3. CASE o.id.type = "number"
    <2>1. o.id \in [type : {"number"}, value : NumberIDs]
      BY <1>1, <1>3 DEF IDs, NoID, BadID
    <2>2. o.id.value \in Nat
      <3>1. o.id.value \in NumberIDs
        BY <2>1
      <3>2. \A n \in 0..(2 * Exact) : n \in Nat
        BY <1>2
      <3> QED
        BY <3>1, <3>2, JsonRpcAssumption
    <2>3. o.id.value <= Exact => [o.id EXCEPT !.value = ToFloat(o.id.value)] = o.id
      BY <2>1 DEF ToFloat
    <2> QED
      BY <1>2, <1>3, <2>1, <2>2, <2>3 DEF UnmarshalID, IsNil
  <1>4. CASE o.id.type # "number"
    BY <1>1, <1>4 DEF UnmarshalID, IsNil, IDs, NoID, BadID
  <1> QED
    BY <1>3, <1>4

\* A session goes from none to pending to open to gone, and not back.
Onward ==
    /\ session' \in {"none", "pending", "open", "gone"}
    /\ session # "none" => session' # "none"
    /\ session \in {"open", "gone"} => session' \in {"open", "gone"}

\* The variables of a request d are as they were.
Untouched(d) ==
    /\ verb'[d] = verb[d] /\ place'[d] = place[d] /\ user'[d] = user[d]
    /\ header'[d] = header[d] /\ sent'[d] = sent[d] /\ message'[d] = message[d]
    /\ called'[d] = called[d] /\ failed'[d] = failed[d] /\ answer'[d] = answer[d]

\* A request that a step does not touch keeps its part of the invariant.
LEMMA UntouchedKeeps ==
  ASSUME RequestInv, Onward, NEW d \in Conns, Untouched(d)
  PROVE  MessageInv(d)' /\ PlaceInv(d)' /\ AnswerInv(d)'
  <1>1. MessageInv(d) /\ PlaceInv(d) /\ AnswerInv(d)
    BY DEF RequestInv
  <1>2. MessageInv(d)'
    BY <1>1 DEF MessageInv, Untouched
  <1>3. PlaceInv(d)'
    BY <1>1 DEF PlaceInv, Untouched, Onward
  <1>4. AnswerInv(d)'
    BY <1>1 DEF AnswerInv, Untouched, Onward, SameID
  <1> QED
    BY <1>2, <1>3, <1>4

\* So it is enough to look at the request that takes the step.
LEMMA OneRequest ==
  ASSUME RequestInv, Onward, RequestTypes', NEW c \in Conns,
         \A d \in Conns : d # c => Untouched(d),
         MessageInv(c)', PlaceInv(c)', AnswerInv(c)'
  PROVE  RequestInv'
  <1>1. ASSUME NEW d \in Conns PROVE MessageInv(d)' /\ PlaceInv(d)' /\ AnswerInv(d)'
    <2>1. CASE d = c
      BY <2>1
    <2>2. CASE d # c
      BY <2>2, UntouchedKeeps
    <2> QED
      BY <2>1, <2>2
  <1> QED
    BY <1>1 DEF RequestInv

\* What an answer without a message says.
LEMMA StatusFacts == ASSUME NEW n PROVE Status(n).status = n /\ Status(n).reply = "none"
  BY DEF Status, NoAnswer

\* A refusal, or a failure of the host, where nothing was done yet: to anybody
\* at an early place, as 404 or 500 at the loading, to the owner beyond it.
LEMMA RefusalKeeps ==
  ASSUME RequestInv, NEW c \in Conns, NEW status \in 400..500,
         place[c] \in Early \cup Beyond \/ (place[c] = "load" /\ status \in {404, 500}),
         place' = [place EXCEPT ![c] = "done"],
         answer' = [answer EXCEPT ![c] = Status(status)],
         failed' = failed \/ failed' = [failed EXCEPT ![c] = TRUE],
         UNCHANGED <<session, askVars, called>>
  PROVE  RequestInv'
  <1>1. RequestTypes' /\ Onward /\ \A d \in Conns : d # c => Untouched(d)
    <2>1. failed' \in [Conns -> BOOLEAN] /\ \A d \in Conns : d # c => failed'[d] = failed[d]
      <3>1. failed \in [Conns -> BOOLEAN]
        BY DEF RequestInv, RequestTypes
      <3>2. CASE failed' = failed
        BY <3>1, <3>2
      <3>3. CASE failed' = [failed EXCEPT ![c] = TRUE]
        BY <3>1, <3>3
      <3> QED
        BY <3>2, <3>3
    <2>2. RequestTypes'
      BY <2>1, ZenonT(60) DEF RequestInv, RequestTypes, askVars
    <2>3. \A d \in Conns : d # c => Untouched(d)
      BY <2>1 DEF RequestInv, RequestTypes, Untouched, askVars
    <2> QED
      BY <2>2, <2>3 DEF RequestInv, RequestTypes, Onward
  <1>2. /\ place'[c] = "done" /\ answer'[c] = Status(status) /\ user'[c] = user[c]
        /\ header'[c] = header[c] /\ sent'[c] = sent[c] /\ message'[c] = message[c]
        /\ called'[c] = called[c] /\ place[c] # "done"
    BY DEF RequestInv, RequestTypes, askVars, Early, Beyond
  <1>3. MessageInv(c) /\ PlaceInv(c)
    BY DEF RequestInv
  <1>4. called[c] = "none"
    BY <1>2, <1>3 DEF PlaceInv
  <1>5. answer'[c].status = status /\ answer'[c].reply = "none"
    BY <1>2, StatusFacts
  <1>6. MessageInv(c)'
    BY <1>2, <1>3 DEF MessageInv
  <1>7. PlaceInv(c)'
    BY <1>2 DEF PlaceInv, Early, Beyond
  <1>8. user[c] = Stranger /\ header[c] # "none" => status \in {404, 500}
    BY <1>3, HttpRequestsAssumption DEF PlaceInv
  <1>9. status # 0 /\ status # 202
    OBVIOUS
  <1>10. AnswerInv(c)'
    BY <1>2, <1>4, <1>5, <1>8, <1>9, SMTT(40) DEF AnswerInv
  <1> QED
    BY <1>1, <1>6, <1>7, <1>10, OneRequest

\* In particular a handler that returns early,
LEMMA ReturnKeeps ==
  ASSUME RequestInv, NEW c \in Conns, NEW from \in Early \cup Beyond, NEW status \in 400..500,
         Refuse(c, from, status)
  PROVE  RequestInv'
  BY RefusalKeeps, ZenonT(60) DEF Refuse, Advance, Answer

\* and a host that fails, at any place.
LEMMA FailureKeeps ==
  ASSUME RequestInv, NEW c \in Conns, NEW from \in Early \cup Beyond \cup {"load"},
         HostFails(c, from)
  PROVE  RequestInv'
  <1> DEFINE status == 500
  <1>1. /\ place' = [place EXCEPT ![c] = "done"]
        /\ answer' = [answer EXCEPT ![c] = Status(status)]
        /\ failed' = failed \/ failed' = [failed EXCEPT ![c] = TRUE]
        /\ UNCHANGED <<session, askVars, called>>
    BY DEF HostFails, Advance, Answer
  <1>2. place[c] \in Early \cup Beyond \/ (place[c] = "load" /\ status \in {404, 500})
    BY DEF HostFails, Advance
  <1>3. status \in 400..500
    OBVIOUS
  <1> HIDE DEF status
  <1> QED
    BY <1>1, <1>2, <1>3, RefusalKeeps, ZenonT(60)

\* An engine call that takes effect, beyond the loading or to initialize.
LEMMA PerformKeeps ==
  ASSUME RequestInv, NEW c \in Conns, NEW from, NEW what, NEW a,
         Perform(c, from, what, a), Onward,
         from \in Beyond \/ (from = "initialize" /\ what = "initialize"),
         a.status \in {200, 202, 204},
         a.reply # "none" => AsRequest(sent[c]) /\ SameID(sent[c], a),
         a.status = 202 => AsResponse(sent[c]) \/ sent[c].id = NoID,
         a.status = 202 /\ sent[c].method = "initialized" => session' \in {"open", "gone"}
  PROVE  RequestInv'
  <1>1. /\ place[c] = from /\ place' = [place EXCEPT ![c] = "done"]
        /\ answer' = [answer EXCEPT ![c] = a] /\ called' = [called EXCEPT ![c] = what]
        /\ UNCHANGED <<askVars, failed>>
    BY DEF Perform, Advance, Answer
  <1>2. RequestTypes' /\ \A d \in Conns : d # c => Untouched(d)
    BY <1>1 DEF RequestInv, RequestTypes, Onward, Untouched, askVars
  <1>3. /\ place'[c] = "done" /\ answer'[c] = a /\ user'[c] = user[c]
        /\ header'[c] = header[c] /\ sent'[c] = sent[c] /\ message'[c] = message[c]
        /\ called'[c] = what /\ failed'[c] = failed[c]
    BY <1>1 DEF RequestInv, RequestTypes, askVars
  <1>4. MessageInv(c) /\ PlaceInv(c)
    BY DEF RequestInv
  <1>5. MessageInv(c)'
    BY <1>3, <1>4 DEF MessageInv
  <1>6. PlaceInv(c)'
    BY <1>3 DEF PlaceInv, Early, Beyond
  <1>7. /\ user[c] = Stranger => header[c] = "none"
        /\ what \notin {"none", "initialize"} => user[c] = Owner /\ header[c] = "s"
    BY <1>1, <1>4, HttpRequestsAssumption DEF PlaceInv, Early
  <1>8. a.status \notin 400..499 /\ a.status # 0
    OBVIOUS
  <1>9. AnswerInv(c)'
    <2>1. SameID(sent[c], a)' <=> SameID(sent[c], a)
      BY <1>3 DEF SameID
    <2> QED
      BY <1>3, <1>7, <1>8 DEF AnswerInv, SameID
  <1> QED
    BY <1>2, <1>5, <1>6, <1>9, OneRequest

\* A handler goes on to its next place, having read something.
LEMMA ProceedKeeps ==
  ASSUME RequestInv, NEW c \in Conns, RequestTypes', Onward, PlaceInv(c)', MessageInv(c)',
         \A d \in Conns : d # c => Untouched(d),
         place[c] # "done", place'[c] # "done", called'[c] = called[c]
  PROVE  RequestInv'
  <1>1. called[c] = "none"
    BY DEF RequestInv, PlaceInv
  <1>2. AnswerInv(c)'
    BY <1>1 DEF AnswerInv
  <1> QED
    BY <1>2, OneRequest

\* The places at which nothing is read from the session.
LEMMA EarlySteps ==
  ASSUME RequestInv, NEW c \in Conns,
         \/ \E v \in {"POST", "GET", "DELETE"} : Route(c, v)
         \/ Negotiate(c) \/ AuthenticationFails(c)
         \/ \E u \in {Owner, Stranger} : Authenticated(c, u)
         \/ BodyRefused(c)
         \/ \E h \in {"none", "s", "unknown"} : ReadHeader(c, h)
         \/ SessionMissing(c) \/ InitializeRefused(c)
  PROVE  RequestInv'
  <1>1. MessageInv(c) /\ PlaceInv(c) /\ RequestTypes
    BY SMTT(40) DEF RequestInv
  <1>2. ASSUME NEW from \in Early, NEW status \in 400..500, Refuse(c, from, status)
        PROVE  RequestInv'
    BY <1>2, RefusalKeeps, ZenonT(60) DEF Refuse, Advance, Answer
  <1>3. {400, 401, 403, 404, 415, 500} \subseteq 400..500
    OBVIOUS
  <1>4. CASE \/ AuthenticationFails(c) \/ BodyRefused(c) \/ SessionMissing(c)
             \/ InitializeRefused(c)
    BY <1>2, <1>3, <1>4 DEF AuthenticationFails, BodyRefused, SessionMissing,
       InitializeRefused, Early
  <1>5. ASSUME NEW to \in {"auth", "negotiate", "body", "header", "load", "initialize", "refuse"},
               place[c] \in {"idle", "negotiate", "auth", "header"},
               place' = [place EXCEPT ![c] = to],
               to # "load" => header' = header \/ header' = [header EXCEPT ![c] = "none"],
               DOMAIN verb' = Conns, DOMAIN user' = Conns, DOMAIN header' = Conns,
               \A d \in Conns : d # c => verb'[d] = verb[d] /\ user'[d] = user[d]
                                         /\ header'[d] = header[d],
               UNCHANGED <<session, sent, message, called, failed, answer>>
        PROVE  RequestInv'
    <2>1. RequestTypes' /\ Onward /\ \A d \in Conns : d # c => Untouched(d)
      BY <1>1, <1>5 DEF RequestTypes, Onward, Untouched, Early, Beyond
    <2>2. place'[c] = to /\ place[c] # "done" /\ called'[c] = called[c]
      BY <1>1, <1>5 DEF RequestTypes
    <2>3. to # "load" => header'[c] = "none"
      BY <1>1, <1>5 DEF RequestTypes, PlaceInv, Early
    <2>4. PlaceInv(c)'
      BY <1>1, <2>2, <2>3 DEF PlaceInv, Early, Beyond
    <2>5. MessageInv(c)'
      BY <1>1, <1>5 DEF MessageInv
    <2> QED
      BY <2>1, <2>2, <2>4, <2>5, ProceedKeeps
  <1>6. CASE \E v \in {"POST", "GET", "DELETE"} : Route(c, v)
    BY <1>1, <1>5, <1>6 DEF Route, Advance, RequestTypes
  <1>7. CASE Negotiate(c)
    <2>1. CASE Proceed(c, "negotiate", "auth")
      BY <1>1, <1>5, <2>1 DEF Proceed, Advance, RequestTypes, askVars
    <2> QED
      BY <1>2, <1>3, <1>7, <2>1 DEF Negotiate, Early
  <1>8. CASE \E u \in {Owner, Stranger} : Authenticated(c, u)
    BY <1>1, <1>5, <1>8 DEF Authenticated, Advance, RequestTypes
  <1>9. CASE \E h \in {"none", "s", "unknown"} : ReadHeader(c, h)
    BY <1>1, <1>5, <1>9 DEF ReadHeader, Advance, RequestTypes
  <1> QED
    BY <1>4, <1>6, <1>7, <1>8, <1>9

\* The body becomes a message.
LEMMA DecodeKeeps ==
  ASSUME RequestInv, NEW c \in Conns, NEW o \in ClientObjects, DecodeBody(c, o)
  PROVE  RequestInv'
  <1>1. /\ place[c] = "body" /\ place' = [place EXCEPT ![c] = "header"]
        /\ sent' = [sent EXCEPT ![c] = o] /\ message' = [message EXCEPT ![c] = Unmarshal(o)]
        /\ UNCHANGED <<session, verb, user, header, called, failed, answer>>
    BY DEF DecodeBody, Advance
  <1>2. PlaceInv(c) /\ RequestTypes /\ o \in Objects
    BY HttpRequestsAssumption DEF RequestInv
  <1>3. RequestTypes' /\ Onward /\ \A d \in Conns : d # c => Untouched(d)
    BY <1>1, <1>2 DEF RequestTypes, Onward, Untouched, Early, Beyond
  <1>4. /\ place'[c] = "header" /\ place[c] # "done" /\ called'[c] = called[c]
        /\ sent'[c] = o /\ message'[c] = Unmarshal(o) /\ header'[c] = header[c]
    BY <1>1, <1>2 DEF RequestTypes
  <1>5. PlaceInv(c)'
    BY <1>1, <1>2, <1>4 DEF PlaceInv, Early, Beyond
  <1>6. Unmarshal(o).method = o.method /\ Unmarshal(o).id = UnmarshalID(o.id)
    BY <1>2 DEF Unmarshal, Objects
  <1>7. MessageInv(c)'
    BY <1>4, <1>6 DEF MessageInv
  <1> QED
    BY <1>3, <1>4, <1>5, <1>7, ProceedKeeps

\* A message is a request or a response, as the object in the body was.
LEMMA Kinds ==
  ASSUME NEW c \in Conns, MessageInv(c)
  PROVE  /\ AsRequest(message[c]) <=> AsRequest(sent[c])
         /\ AsResponse(message[c]) <=> AsResponse(sent[c])
         /\ AsRequest(message[c]) \/ AsResponse(message[c])
  BY Zenon DEF MessageInv, AsRequest, AsResponse

\* Loading lets only the owner of an existing session pass, and what follows
\* sorts the messages by their kind.
LEMMA LoadSteps ==
  ASSUME RequestInv, NEW c \in Conns, LoadSession(c) \/ CheckLoaded(c)
  PROVE  RequestInv'
  <1>1. MessageInv(c) /\ PlaceInv(c) /\ RequestTypes
    BY DEF RequestInv
  <1>2. ASSUME NEW from \in {"load", "loaded"}, NEW to \in Beyond, Proceed(c, from, to),
               user[c] = Owner /\ header[c] = "s" /\ session # "none",
               to = "notification" => AsRequest(message[c]) /\ IsNil(message[c].id),
               to = "accept" => AsRequest(message[c]),
               to = "response" => AsResponse(message[c])
        PROVE  RequestInv'
    <2>1. /\ place[c] = from /\ place' = [place EXCEPT ![c] = to]
          /\ UNCHANGED <<session, verb, user, header, sent, message, called, failed, answer>>
      BY <1>2 DEF Proceed, Advance, askVars
    <2>2. RequestTypes' /\ Onward /\ \A d \in Conns : d # c => Untouched(d)
      BY <1>1, <2>1 DEF RequestTypes, Onward, Untouched, Early, Beyond
    <2>3. place'[c] = to /\ place[c] # "done" /\ to # "done" /\ to \notin Early /\ called'[c] = called[c]
      BY <1>1, <2>1 DEF RequestTypes, Early, Beyond
    <2>4. MessageInv(c)'
      BY <1>1, <2>1 DEF MessageInv
    <2>5. PlaceInv(c)'
      BY <1>1, <1>2, <2>1, <2>3, <2>4, SMTT(40) DEF PlaceInv
    <2> QED
      BY <2>2, <2>3, <2>4, <2>5, ProceedKeeps
  <1>3. ASSUME NEW from \in {"load", "loaded"}, NEW status \in 400..500, Refuse(c, from, status),
               from = "load" => status \in {404, 500}
        PROVE  RequestInv'
    BY <1>3, RefusalKeeps, ZenonT(60) DEF Refuse, Advance, Answer, Beyond
  <1>4. {400, 404, 409, 500} \subseteq 400..500
    OBVIOUS
  <1>5. CASE LoadSession(c)
    <2>1. CASE MayLoad(c) /\ Proceed(c, "load", "loaded")
      BY <1>2, <2>1 DEF MayLoad, Beyond
    <2>2. CASE ~MayLoad(c) /\ Refuse(c, "load", 404)
      BY <1>3, <1>4, <2>2
    <2>3. CASE HostFails(c, "load")
      BY <2>3, FailureKeeps
    <2> QED
      BY <1>5, <2>1, <2>2, <2>3 DEF LoadSession
  <1>6. CASE CheckLoaded(c)
    <2> DEFINE m == message[c]
               to == IF verb[c] = "GET" THEN "stream"
                     ELSE IF verb[c] = "DELETE" THEN "delete"
                     ELSE IF AsResponse(m) THEN "response"
                     ELSE IF IsNil(m.id) THEN "notification" ELSE "accept"
    <2>1. Refuse(c, "loaded", 409) \/ Refuse(c, "loaded", 400) \/ Proceed(c, "loaded", to)
      BY <1>6, Zenon DEF CheckLoaded
    <2>2. CASE Proceed(c, "loaded", to)
      <3>1. user[c] = Owner /\ header[c] = "s" /\ session # "none"
        BY <1>1, <2>2 DEF Proceed, Advance, PlaceInv, Beyond
      <3>2. /\ to \in Beyond
            /\ to = "notification" => AsRequest(m) /\ IsNil(m.id)
            /\ to = "accept" => AsRequest(m)
            /\ to = "response" => AsResponse(m)
        BY <1>1, Kinds DEF Beyond
      <3> HIDE DEF to
      <3> QED
        BY <1>2, <2>2, <3>1, <3>2
    <2> HIDE DEF to
    <2>3. CASE Refuse(c, "loaded", 409)
      BY <1>3, <1>4, <2>3
    <2>4. CASE Refuse(c, "loaded", 400)
      BY <1>3, <1>4, <2>4
    <2> QED
      BY <2>1, <2>2, <2>3, <2>4
  <1> QED
    BY <1>5, <1>6

\* The id of a reply is that of the message, hence that of the object sent.
LEMMA RepliesCarryTheID ==
  ASSUME RequestInv, NEW c \in Conns, NEW a, a.id = message[c].id
  PROVE  SameID(sent[c], a) /\ (IsNil(message[c].id) => sent[c].id = NoID)
  <1>1. message[c].id = UnmarshalID(sent[c].id) /\ sent[c] \in Objects \cup {NoMessage}
    BY DEF RequestInv, RequestTypes, MessageInv
  <1> QED
    BY <1>1, IDsComeBack DEF SameID

\* The engine calls of a POST.
LEMMA PostSteps ==
  ASSUME RequestInv, NEW c \in Conns,
         PostInitialize(c) \/ PostNotification(c) \/ PostRequest(c) \/ PostResponse(c)
  PROVE  RequestInv'
  <1>1. MessageInv(c) /\ PlaceInv(c) /\ RequestTypes
    BY DEF RequestInv
  <1>2. /\ AsRequest(message[c]) <=> AsRequest(sent[c])
        /\ AsResponse(message[c]) <=> AsResponse(sent[c])
        /\ message[c].method = sent[c].method
    BY <1>1, Kinds DEF MessageInv
  <1>3. CASE PostInitialize(c)
    <2>1. AsRequest(message[c])
      BY <1>3, Zenon DEF PostInitialize, AsRequest
    <2> DEFINE a == [status |-> 200, reply |-> "result", id |-> message[c].id]
    <2>2. CASE /\ Perform(c, "initialize", "initialize", a)
               /\ session' = IF session = "none" /\ user[c] = Owner THEN "pending" ELSE session
      <3>1. Onward
        BY <1>1, <2>2 DEF Onward, RequestTypes
      <3>2. a.status = 200 /\ a.id = message[c].id
        OBVIOUS
      <3> HIDE DEF a
      <3>3. SameID(sent[c], a)
        BY <3>2, RepliesCarryTheID
      <3> QED
        BY <1>2, <2>1, <2>2, <3>1, <3>2, <3>3, PerformKeeps
    <2>3. CASE HostFails(c, "initialize")
      BY <2>3, FailureKeeps DEF Early
    <2> QED
      BY <1>3, <2>2, <2>3 DEF PostInitialize
  <1>4. ASSUME NEW from \in {"notification", "response"}, NEW what,
               Perform(c, from, what, Status(202)), Onward,
               sent[c].method = "initialized" => session' \in {"open", "gone"},
               AsResponse(sent[c]) \/ sent[c].id = NoID
        PROVE  RequestInv'
    <2> DEFINE a == Status(202)
    <2>1. a.status = 202 /\ a.reply = "none"
      BY StatusFacts
    <2>2. from \in Beyond
      BY DEF Beyond
    <2> HIDE DEF a
    <2>3. Perform(c, from, what, a)
      BY <1>4 DEF a
    <2> QED
      BY <1>4, <2>1, <2>2, <2>3, PerformKeeps
  <1>5. CASE PostNotification(c)
    <2>1. place[c] = "notification"
      BY <1>5 DEF PostNotification, Perform, HostFails, Advance
    <2>2. sent[c].id = NoID
      <3> DEFINE a == [id |-> message[c].id]
      <3> QED
        BY <1>1, <2>1, RepliesCarryTheID, a.id = message[c].id DEF PlaceInv
    <2>3. user[c] = Owner /\ header[c] = "s" /\ session # "none" /\ called[c] = "none"
      BY <1>1, <2>1 DEF PlaceInv, Beyond
    <2>4. CASE Perform(c, "notification", "open", Status(202)) /\ session' = Opens(session)
      <3>1. Onward /\ session' \in {"open", "gone"}
        BY <1>1, <2>3, <2>4 DEF Onward, Opens, RequestTypes
      <3> QED
        BY <1>4, <2>2, <2>4, <3>1
    <2>5. CASE /\ Advance(c, "notification", "done") /\ Answer(c, Status(202))
               /\ failed' = [failed EXCEPT ![c] = TRUE]
               /\ UNCHANGED <<session, askVars, called>>
      <3>1. failed' \in [Conns -> BOOLEAN] /\ failed'[c] = TRUE
            /\ \A d \in Conns : d # c => failed'[d] = failed[d]
        BY <1>1, <2>5 DEF RequestTypes
      <3>2. RequestTypes' /\ Onward /\ \A d \in Conns : d # c => Untouched(d)
        BY <1>1, <2>5, <3>1 DEF RequestTypes, Onward, Untouched, askVars, Advance, Answer
      <3>3. /\ place'[c] = "done" /\ answer'[c] = Status(202) /\ user'[c] = user[c]
            /\ header'[c] = header[c] /\ sent'[c] = sent[c] /\ message'[c] = message[c]
            /\ called'[c] = "none"
        BY <1>1, <2>3, <2>5 DEF RequestTypes, askVars, Advance, Answer
      <3>4. answer'[c].status = 202 /\ answer'[c].reply = "none"
        BY <3>3, StatusFacts
      <3>5. MessageInv(c)'
        BY <1>1, <3>3 DEF MessageInv
      <3>6. PlaceInv(c)'
        BY <3>3 DEF PlaceInv, Early, Beyond
      <3>7. AnswerInv(c)'
        BY <2>2, <2>3, <3>1, <3>3, <3>4, HttpRequestsAssumption DEF AnswerInv
      <3> QED
        BY <3>2, <3>5, <3>6, <3>7, OneRequest
    <2>6. CASE /\ message[c].method # "initialized"
               /\ Perform(c, "notification", "publish", Status(202)) /\ UNCHANGED session
      BY <1>1, <1>2, <1>4, <2>2, <2>6 DEF Onward, RequestTypes
    <2>7. CASE HostFails(c, "notification")
      BY <2>7, FailureKeeps DEF Beyond
    <2> QED
      BY <1>5, <2>4, <2>5, <2>6, <2>7 DEF PostNotification
  <1>6. CASE PostRequest(c)
    <2>1. PICK r \in {"result", "error"} :
            Perform(c, "accept", "request", [status |-> 200, reply |-> r, id |-> message[c].id])
      BY <1>6 DEF PostRequest
    <2> DEFINE a == [status |-> 200, reply |-> r, id |-> message[c].id]
    <2>2. Onward
      BY <1>1, <1>6 DEF PostRequest, Onward, RequestTypes
    <2>3. a.status = 200 /\ a.id = message[c].id
      OBVIOUS
    <2>4. Perform(c, "accept", "request", a) /\ place[c] = "accept"
      BY <2>1 DEF Perform, Advance
    <2> HIDE DEF a
    <2>5. SameID(sent[c], a)
      BY <2>3, RepliesCarryTheID
    <2>6. AsRequest(sent[c])
      BY <1>1, <1>2, <2>4 DEF PlaceInv
    <2>7. "accept" \in Beyond
      BY DEF Beyond
    <2> QED
      BY <2>2, <2>3, <2>4, <2>5, <2>6, <2>7, PerformKeeps
  <1>7. CASE PostResponse(c)
    <2>1. place[c] = "response"
      BY <1>7 DEF PostResponse, Perform, Refuse, HostFails, Advance
    <2>2. AsResponse(sent[c]) /\ sent[c].method # "initialized"
      <3>1. AsResponse(message[c])
        BY <1>1, <2>1 DEF PlaceInv
      <3> QED
        BY <1>2, <3>1, Zenon DEF AsResponse
    <2>3. CASE Refuse(c, "response", 500)
      <3>1. 500 \in 400..500 /\ "response" \in Beyond
        BY DEF Beyond
      <3> QED
        BY <2>3, <3>1, ReturnKeeps
    <2>4. CASE Perform(c, "response", "publish", Status(202)) /\ UNCHANGED session
      BY <1>1, <1>4, <2>2, <2>4 DEF Onward, RequestTypes
    <2>5. CASE HostFails(c, "response")
      BY <2>5, FailureKeeps DEF Beyond
    <2> QED
      BY <1>7, <2>3, <2>4, <2>5 DEF PostResponse
  <1> QED
    BY <1>3, <1>5, <1>6, <1>7

\* The engine calls of GET and DELETE, and a POST that accepts no stream.
LEMMA OtherSteps ==
  ASSUME RequestInv, NEW c \in Conns, AcceptRefused(c) \/ StreamSession(c) \/ DeleteSession(c)
  PROVE  RequestInv'
  <1>1. RequestTypes
    BY DEF RequestInv
  <1>2. ASSUME NEW from \in {"stream", "delete"}, NEW what, NEW status \in {200, 204},
               Perform(c, from, what, Status(status)), Onward
        PROVE  RequestInv'
    <2> DEFINE a == Status(status)
    <2>1. a.status \in {200, 204} /\ a.reply = "none"
      BY StatusFacts
    <2>2. from \in Beyond
      BY DEF Beyond
    <2> HIDE DEF a
    <2>3. Perform(c, from, what, a)
      BY <1>2 DEF a
    <2> QED
      BY <1>2, <2>1, <2>2, <2>3, PerformKeeps
  <1>3. CASE AcceptRefused(c)
    <2>1. 415 \in 400..500 /\ "accept" \in Beyond
      BY DEF Beyond
    <2> QED
      BY <1>3, <2>1, ReturnKeeps DEF AcceptRefused
  <1>4. CASE StreamSession(c)
    BY <1>1, <1>2, <1>4 DEF StreamSession, Onward, RequestTypes
  <1>5. CASE DeleteSession(c)
    <2>1. CASE Perform(c, "delete", "delete", Status(204)) /\ session' = "gone"
      BY <1>1, <1>2, <2>1 DEF Onward, RequestTypes
    <2>2. CASE HostFails(c, "delete")
      BY <2>2, FailureKeeps DEF Beyond
    <2> QED
      BY <1>5, <2>1, <2>2 DEF DeleteSession
  <1> QED
    BY <1>3, <1>4, <1>5

\* Every step of a connection's handler keeps the invariant of its request.
LEMMA RequestStepKeeps == RequestInv /\ [HttpRequestsNext]_requestVars => RequestInv'
  <1> SUFFICES ASSUME RequestInv, [HttpRequestsNext]_requestVars PROVE RequestInv'
    OBVIOUS
  <1>1. ASSUME NEW c \in Conns, RequestHandler(c) PROVE RequestInv'
    BY <1>1, EarlySteps, DecodeKeeps, LoadSteps, PostSteps, OtherSteps DEF RequestHandler
  <1>2. CASE UNCHANGED requestVars
    <2>1. Onward /\ RequestTypes' /\ \A d \in Conns : Untouched(d)
      BY <1>2 DEF RequestInv, RequestTypes, Onward, Untouched, requestVars, askVars
    <2> QED
      BY <2>1, UntouchedKeeps DEF RequestInv
  <1> QED
    BY <1>1, <1>2 DEF HttpRequestsNext

\* So it holds of the endpoint.
LEMMA RequestInvariant == HttpRequestsSpec => []RequestInv
  <1>1. HttpRequestsInit => RequestInv
    <2> SUFFICES ASSUME HttpRequestsInit PROVE RequestInv
      OBVIOUS
    <2>1. /\ session \in {"none", "pending"}
          /\ place = [c \in Conns |-> "idle"] /\ header = [c \in Conns |-> "none"]
          /\ sent = [c \in Conns |-> NoMessage] /\ message = sent
          /\ called = [c \in Conns |-> "none"] /\ failed = [c \in Conns |-> FALSE]
          /\ DOMAIN verb = Conns /\ DOMAIN user = Conns /\ DOMAIN answer = Conns
      BY DEF HttpRequestsInit
    <2>2. RequestTypes
      BY <2>1 DEF RequestTypes, Early, Beyond
    <2>3. UnmarshalID(NoMessage.id) = NoMessage.id
      BY Zenon DEF NoMessage, UnmarshalID, NoID
    <2>4. ASSUME NEW c \in Conns PROVE MessageInv(c) /\ PlaceInv(c) /\ AnswerInv(c)
      BY <2>1, <2>3 DEF MessageInv, PlaceInv, AnswerInv, Early, Beyond
    <2> QED
      BY <2>2, <2>4 DEF RequestInv
  <1> QED
    BY <1>1, RequestStepKeeps, PTL DEF HttpRequestsSpec

\* For every number of concurrent requests a refusal did nothing, a stranger
\* learns nothing, and after a 202 to "initialized" the session is open or
\* deleted, but for one exception the status does not show: an engine whose
\* host failed to open it answers 202 too.
THEOREM StatusTellsTheTruth == HttpRequestsSpec => []StatusIsTrue
  <1>1. RequestInv => StatusIsTrue
    BY DEF RequestInv, AnswerInv, StatusIsTrue, StrangerLearnsNothing, RefusedDoesNothing,
       InitializedOpens, Finished
  <1> QED
    BY <1>1, RequestInvariant, PTL

\* Every finished request was answered, and in the way its kind asks for, with
\* the id its client sent unless a float64 cannot hold it: for every set of
\* ids and every precision.
THEOREM EveryKindHasItsAnswer == HttpRequestsSpec => []AnsweredInKind
  <1>1. RequestInv => AnsweredInKind
    <2> SUFFICES ASSUME RequestInv, NEW c \in Conns, Finished(c)
                 PROVE  LET o == sent[c]
                            a == answer[c]
                        IN /\ a.status # 0
                           /\ a.reply # "none" =>
                                 /\ o.method # ""
                                 /\ a.id = o.id \/ (o.id.type = "number" /\ o.id.value > Exact)
                           /\ verb[c] = "POST" /\ a.status = 202 =>
                                 o.method = "" \/ o.id = NoID
      BY Zenon DEF AnsweredInKind
    <2>1. /\ answer[c].status # 0
          /\ answer[c].reply # "none" => AsRequest(sent[c]) /\ SameID(sent[c], answer[c])
          /\ answer[c].status = 202 => AsResponse(sent[c]) \/ sent[c].id = NoID
      BY DEF RequestInv, AnswerInv, Finished
    <2> QED
      BY <2>1, Zenon DEF AsRequest, AsResponse, SameID
  <1> QED
    BY <1>1, RequestInvariant, PTL

-----------------------------------------------------------------------------
(* Access tokens *)

TokenRecords == [genuine : BOOLEAN, iss : BOOLEAN, sub : BOOLEAN, alg : Algs,
                 typ : {"at+jwt", "JWT"}, aud : SUBSET Auds, exp : Int, nbf : Int,
                 iat : Int, scope : SUBSET Scopes]

Configs == [by : {"discovery", "hand"}, auds : Seq(Auds), algs : SUBSET Algs, leeway : Nat,
            enforceExp : BOOLEAN, enforceNbf : BOOLEAN, scopes : SUBSET Scopes, any : BOOLEAN]

\* The description differs from what is enforced where a default stands in.
DescribedAs(d, c) ==
    /\ ToSet(d.auds) = ToSet(c.auds)
    /\ d.algs = c.algs \/ c.algs = {}
    /\ d.leeway \in Nat /\ (d.leeway = c.leeway \/ c.leeway = 0)
    /\ d.enforceExp = c.enforceExp /\ d.enforceNbf = c.enforceNbf
    /\ c.by = "hand" => d = c

\* A discovered authenticator always has an audience; once it is ready its
\* configuration does not change, so a verdict is about the present one.
AuthInv ==
    /\ config \in Configs
    /\ config.by = "discovery" => config.auds # <<>> /\ config.enforceExp /\ config.enforceNbf
    /\ stage \in {"configure", "ready", "failed", "checked"}
    /\ stage \in {"ready", "checked"} => DescribedAs(described, config)
    /\ stage # "checked" => verdict = "none"
    /\ stage = "checked" =>
          /\ token \in TokenRecords
          /\ verdict = IF config.by = "discovery" THEN DiscoveryVerdict(token)
                       ELSE StaticVerdict(token)

\* What is assumed of the constants.
LEMMA AuthFacts ==
  /\ DefaultAlg \in Algs /\ Leeways \subseteq Nat /\ DefaultLeeway \in Nat /\ FutureIat \in Nat
  /\ \A t \in Tokens : t \in TokenRecords
  <1>1. /\ DefaultAlg \in Algs /\ Leeways \subseteq Nat
        /\ {DefaultLeeway, FutureIat, MaxOptions} \subseteq Nat
        /\ Tokens \subseteq TokenRecords
    BY AuthenticationAssumption, Zenon DEF TokenRecords
  <1> QED
    BY <1>1

\* Normalizing fills in defaults and describes the configuration.
LEMMA NormalizeFacts ==
  ASSUME NEW c \in Configs
  PROVE  /\ Normalize(c) \in Configs /\ Normalize(c).by = c.by /\ Normalize(c).auds = c.auds
         /\ Normalize(c).enforceExp = c.enforceExp /\ Normalize(c).enforceNbf = c.enforceNbf
         /\ DescribedAs(Normalize(c), c) \/ c.by = "hand"
  <1>1. /\ Normalize(c) \in Configs /\ Normalize(c).by = c.by /\ Normalize(c).auds = c.auds
        /\ Normalize(c).algs = c.algs \/ c.algs = {}
        /\ Normalize(c).leeway = c.leeway \/ c.leeway = 0
        /\ Normalize(c).enforceExp = c.enforceExp /\ Normalize(c).enforceNbf = c.enforceNbf
    BY AuthFacts DEF Normalize, Configs
  <1>2. c.by \in {"discovery", "hand"} /\ Normalize(c).leeway \in Nat
    BY <1>1 DEF Configs
  <1> QED
    BY <1>1, <1>2 DEF DescribedAs

\* Options, construction and checks keep the configuration and its description.
LEMMA AuthStepKeeps == AuthInv /\ [AuthNext]_authVars => AuthInv'
  <1> SUFFICES ASSUME AuthInv, [AuthNext]_authVars PROVE AuthInv'
    OBVIOUS
  <1>1. ASSUME NEW new \in Configs, Option(new), new.auds # <<>>,
               new.enforceExp = config.enforceExp, new.enforceNbf = config.enforceNbf
        PROVE  AuthInv'
    BY <1>1 DEF AuthInv, Option
  <1>2. CASE \E s \in SUBSET Scopes : WithRequiredScopes(s) \/ WithAnyRequiredScope(s)
    <2>1. PICK s \in SUBSET Scopes, b \in BOOLEAN :
             Option([config EXCEPT !.scopes = s, !.any = b])
      BY <1>2 DEF WithRequiredScopes, WithAnyRequiredScope
    <2>2. /\ [config EXCEPT !.scopes = s, !.any = b] \in Configs
          /\ [config EXCEPT !.scopes = s, !.any = b].auds = config.auds
          /\ [config EXCEPT !.scopes = s, !.any = b].enforceExp = config.enforceExp
          /\ [config EXCEPT !.scopes = s, !.any = b].enforceNbf = config.enforceNbf
      BY DEF AuthInv, Configs
    <2>3. config.auds # <<>>
      BY <2>1 DEF Option, AuthInv
    <2> QED
      BY <1>1, <2>1, <2>2, <2>3
  <1>3. CASE \E as \in SUBSET Algs : WithAllowedAlgs(as)
    <2>1. PICK as \in SUBSET Algs : Option([config EXCEPT !.algs = as])
      BY <1>3 DEF WithAllowedAlgs
    <2>2. /\ [config EXCEPT !.algs = as] \in Configs
          /\ [config EXCEPT !.algs = as].auds = config.auds
          /\ [config EXCEPT !.algs = as].enforceExp = config.enforceExp
          /\ [config EXCEPT !.algs = as].enforceNbf = config.enforceNbf
      BY DEF AuthInv, Configs
    <2>3. config.auds # <<>>
      BY <2>1 DEF Option, AuthInv
    <2> QED
      BY <1>1, <2>1, <2>2, <2>3
  <1>4. CASE \E d \in Leeways : WithLeeway(d)
    <2>1. PICK d \in Leeways : Option([config EXCEPT !.leeway = d])
      BY <1>4 DEF WithLeeway
    <2>2. /\ [config EXCEPT !.leeway = d] \in Configs
          /\ [config EXCEPT !.leeway = d].auds = config.auds
          /\ [config EXCEPT !.leeway = d].enforceExp = config.enforceExp
          /\ [config EXCEPT !.leeway = d].enforceNbf = config.enforceNbf
      BY AuthFacts DEF AuthInv, Configs
    <2>3. config.auds # <<>>
      BY <2>1 DEF Option, AuthInv
    <2> QED
      BY <1>1, <2>1, <2>2, <2>3
  <1>5. CASE \E a \in Auds : WithExtraAudience(a)
    <2>1. PICK a \in Auds : Option(config) \/ Option([config EXCEPT !.auds = Append(@, a)])
      <3>1. PICK a \in Auds : WithExtraAudience(a)
        BY <1>5
      <3>2. Option(config) \/ Option([config EXCEPT !.auds = Append(@, a)])
        BY <3>1, Zenon DEF WithExtraAudience
      <3> QED
        BY <3>2
    <2>2. /\ [config EXCEPT !.auds = Append(@, a)] \in Configs
          /\ [config EXCEPT !.auds = Append(@, a)].auds = Append(config.auds, a)
          /\ [config EXCEPT !.auds = Append(@, a)].enforceExp = config.enforceExp
          /\ [config EXCEPT !.auds = Append(@, a)].enforceNbf = config.enforceNbf
          /\ config.auds \in Seq(Auds)
      <3>1. config \in Configs
        BY DEF AuthInv
      <3>2. config.auds \in Seq(Auds)
        BY <3>1 DEF Configs
      <3> DEFINE s == Append(config.auds, a)
      <3>3. s \in Seq(Auds)
        BY <3>2
      <3> HIDE DEF s
      <3>4. /\ [config EXCEPT !.auds = s] \in Configs /\ [config EXCEPT !.auds = s].auds = s
            /\ [config EXCEPT !.auds = s].enforceExp = config.enforceExp
            /\ [config EXCEPT !.auds = s].enforceNbf = config.enforceNbf
        BY <3>1, <3>3 DEF Configs
      <3> QED
        BY <3>2, <3>4 DEF s
    <2>3. Append(config.auds, a) # <<>>
      BY <2>2
    <2>4. config \in Configs /\ config.auds # <<>>
      BY <2>1 DEF Option, AuthInv
    <2> QED
      BY <1>1, <2>1, <2>2, <2>3, <2>4
  <1>6. CASE NewAuthenticator
    <2>1. /\ stage' = "ready" /\ stage = "configure" /\ UNCHANGED <<token, verdict>>
          /\ config' = IF config.by = "hand" THEN Normalize(config) ELSE config
          /\ described' = Normalize(config) /\ config \in Configs
      BY <1>6 DEF NewAuthenticator, Describes, AuthInv
    <2>2. /\ config' \in Configs
          /\ config'.by = "discovery" =>
                config'.auds # <<>> /\ config'.enforceExp /\ config'.enforceNbf
      BY <2>1, NormalizeFacts DEF AuthInv
    <2>3. DescribedAs(described', config')
      <3> DEFINE n == Normalize(config)
      <3>1. n \in Configs /\ n.by = config.by /\ (DescribedAs(n, config) \/ config.by = "hand")
        BY <2>1, NormalizeFacts
      <3>2. DescribedAs(n, n)
        <4>1. n.leeway \in Nat
          BY <3>1 DEF Configs
        <4> HIDE DEF n
        <4> QED
          BY <4>1 DEF DescribedAs
      <3> HIDE DEF n
      <3>3. described' = n /\ config' = IF config.by = "hand" THEN n ELSE config
        BY <2>1 DEF n
      <3> QED
        BY <3>1, <3>2, <3>3
    <2> QED
      BY <2>1, <2>2, <2>3 DEF AuthInv
  <1>7. CASE NewFails
    BY <1>7 DEF NewFails, AuthInv
  <1>8. CASE \E t \in Tokens : CheckAuthentication(t)
    <2>1. PICK t \in Tokens : CheckAuthentication(t)
      BY <1>8
    <2>2. t \in TokenRecords
      BY AuthFacts
    <2>3. /\ stage = "ready" /\ stage' = "checked" /\ token' = t
          /\ UNCHANGED <<config, described>>
          /\ verdict' = IF config.by = "discovery" THEN DiscoveryVerdict(t) ELSE StaticVerdict(t)
      BY <2>1 DEF CheckAuthentication
    <2>4. (DiscoveryVerdict(token))' = DiscoveryVerdict(t) /\ (StaticVerdict(token))' = StaticVerdict(t)
      BY <2>3 DEF DiscoveryVerdict, StaticVerdict, ParserAccepts, AudienceOk, IatOk, ScopesOk
    <2> QED
      BY <2>2, <2>3, <2>4 DEF AuthInv
  <1>9. CASE UNCHANGED authVars
    BY <1>9 DEF authVars, AuthInv, DiscoveryVerdict, StaticVerdict, ParserAccepts, AudienceOk,
       IatOk, ScopesOk
  <1> QED
    BY <1>2, <1>3, <1>4, <1>5, <1>6, <1>7, <1>8, <1>9 DEF AuthNext

\* One audience or several, the check asks for a common one.
LEMMA AudiencesAgree ==
  ASSUME AuthInv, NEW t \in TokenRecords
  PROVE  AudienceOk(t) <=> t.aud \cap ToSet(config.auds) # {}
  <1>1. config.auds \in Seq(Auds)
    BY DEF AuthInv, Configs
  <1>2. audIntersects(t.aud, ToSet(config.auds)) <=> t.aud \cap ToSet(config.auds) # {}
    BY DEF audIntersects
  <1>3. CASE config.by = "discovery" /\ Len(config.auds) = 1
    <2>1. ToSet(config.auds) = {Head(config.auds)}
      BY <1>1, <1>3 DEF ToSet
    <2> QED
      BY <1>3, <2>1 DEF AudienceOk, audContains
  <1>4. CASE ~(config.by = "discovery" /\ Len(config.auds) = 1)
    BY <1>2, <1>4 DEF AudienceOk
  <1> QED
    BY <1>3, <1>4

\* A token that passes the parser, the audience and the subject is let in by
\* the description: a tolerance that is described is at least the one in force.
LEMMA AcceptedIsDescribed ==
  ASSUME AuthInv, stage = "checked", NEW t \in TokenRecords,
         ParserAccepts(t), AudienceOk(t), t.sub
  PROVE  ByDescription(t)
  <1>1. DescribedAs(described, config)
    BY DEF AuthInv
  <1>2. /\ t.exp \in Int /\ t.nbf \in Int /\ config.leeway \in Nat /\ described.leeway \in Nat
        /\ config.leeway <= described.leeway
    BY <1>1 DEF TokenRecords, AuthInv, Configs, DescribedAs
  <1>3. /\ t.genuine /\ t.iss /\ t.alg \in config.algs /\ t.exp # NoExp
        /\ t.exp + config.leeway > 0 /\ t.nbf <= config.leeway
    BY DEF ParserAccepts
  <1>4. t.exp > -described.leeway /\ t.nbf <= described.leeway
    BY <1>2, <1>3
  <1>5. t.alg \in described.algs
    BY <1>1, <1>3 DEF DescribedAs
  <1>6. t.aud \cap ToSet(described.auds) # {}
    BY <1>1, AudiencesAgree DEF DescribedAs
  <1> QED
    BY <1>3, <1>4, <1>5, <1>6 DEF ByDescription

\* Where the description does not understate, a token it lets in passes the
\* parser, the audience and the subject.
LEMMA DescribedIsAccepted ==
  ASSUME AuthInv, stage = "checked", NEW t \in TokenRecords, ByDescription(t), ~Understated
  PROVE  ParserAccepts(t) /\ AudienceOk(t) /\ t.sub
  <1>1. DescribedAs(described, config) /\ config.by \in {"discovery", "hand"}
    BY DEF AuthInv, Configs
  <1>2. /\ described.leeway = config.leeway /\ described.algs = config.algs
        /\ ToSet(described.auds) = ToSet(config.auds)
        /\ described.enforceExp /\ described.enforceNbf
    BY <1>1 DEF DescribedAs, Understated, AuthInv
  <1>3. t.exp \in Int /\ t.nbf \in Int /\ config.leeway \in Nat
    BY DEF TokenRecords, AuthInv, Configs
  <1>4. /\ t.genuine /\ t.iss /\ t.sub /\ t.alg \in config.algs
        /\ t.aud \cap ToSet(config.auds) # {}
        /\ t.exp # NoExp /\ t.exp > -config.leeway /\ t.nbf <= config.leeway
    BY <1>2 DEF ByDescription
  <1>5. t.exp + config.leeway > 0
    BY <1>3, <1>4
  <1> QED
    BY <1>4, <1>5, AudiencesAgree DEF ParserAccepts

\* A token is only let in if SecurityConfig() lets it in, one it lets in is
\* only refused for what discovery asks besides or where the description
\* understates (Understated), and "scope" is said only when more scope would
\* help: for every configuration, every token and every tolerance.
THEOREM TheVerdictIsAsDescribed == AuthSpec => []VerdictAsDescribed
  <1>1. AuthInit => AuthInv
    <2> SUFFICES ASSUME AuthInit PROVE AuthInv
      OBVIOUS
    <2>1. CASE config \in [by : {"discovery"}, auds : {<<a>> : a \in Auds}, algs : {{DefaultAlg}},
                           leeway : {DefaultLeeway}, enforceExp : {TRUE}, enforceNbf : {TRUE},
                           scopes : {{}}, any : {FALSE}]
      <3>1. PICK a \in Auds : config.auds = <<a>>
        BY <2>1
      <3>2. config.auds \in Seq(Auds) /\ config.auds # <<>>
        BY <3>1
      <3>3. config \in Configs /\ config.enforceExp /\ config.enforceNbf
        BY <2>1, <3>2, AuthFacts DEF Configs
      <3> QED
        BY <3>2, <3>3 DEF AuthInit, AuthInv
    <2>2. CASE config \in [by : {"hand"}, auds : BoundedSeq(Auds, 2), algs : SUBSET Algs,
                           leeway : Leeways, enforceExp : BOOLEAN, enforceNbf : BOOLEAN,
                           scopes : {{}}, any : {FALSE}]
      <3>1. config.auds \in BoundedSeq(Auds, 2)
        BY <2>2
      <3>2. PICK m \in 0..2 : config.auds \in [1..m -> Auds]
        BY <3>1 DEF BoundedSeq, SeqOf
      <3>3. config.auds \in Seq(Auds)
        BY <3>2
      <3>4. config \in Configs /\ config.by = "hand"
        BY <2>2, <3>3, AuthFacts DEF Configs
      <3> QED
        BY <3>4 DEF AuthInit, AuthInv
    <2> QED
      BY <2>1, <2>2 DEF AuthInit
  <1>2. AuthInv => VerdictAsDescribed
    <2> SUFFICES ASSUME AuthInv PROVE VerdictAsDescribed
      OBVIOUS
    <2>1. ASSUME stage = "checked"
          PROVE  /\ token \in TokenRecords /\ config.by \in {"discovery", "hand"}
                 /\ config.by = "discovery" => verdict = DiscoveryVerdict(token)
                 /\ config.by = "hand" => verdict = StaticVerdict(token)
      BY <2>1 DEF AuthInv, Configs
    <2>2. LetsInTheDescribed
      <3> SUFFICES ASSUME stage = "checked", verdict = "user" PROVE ByDescription(token)
        BY DEF LetsInTheDescribed
      <3>1. ParserAccepts(token) /\ AudienceOk(token) /\ token.sub
        BY <2>1 DEF DiscoveryVerdict, StaticVerdict
      <3> QED
        BY <2>1, <3>1, AcceptedIsDescribed
    <2>3. RefusalIsDescribed
      <3> SUFFICES ASSUME stage = "checked", verdict # "user", ByDescription(token), ~Understated
                   PROVE  /\ config.by = "discovery"
                          /\ \/ token.typ # "at+jwt" \/ token.iat - config.leeway > FutureIat
                             \/ verdict = "scope"
        BY Zenon DEF RefusalIsDescribed
      <3>1. ParserAccepts(token) /\ AudienceOk(token) /\ token.sub
        BY <2>1, DescribedIsAccepted
      <3>2. config.by = "discovery" /\ verdict = DiscoveryVerdict(token)
        BY <2>1, <3>1 DEF StaticVerdict
      <3>3. token.typ # "at+jwt" \/ ~IatOk(token) \/ verdict = "scope"
        BY <3>1, <3>2 DEF DiscoveryVerdict
      <3>4. token.iat \in Int /\ config.leeway \in Nat /\ FutureIat \in Nat
        BY <2>1, AuthFacts DEF TokenRecords, AuthInv, Configs
      <3>5. ~IatOk(token) => token.iat - config.leeway > FutureIat
        BY <3>4 DEF IatOk
      <3> QED
        BY <3>2, <3>3, <3>5
    <2>4. ForbiddenIsAboutScope
      <3> SUFFICES ASSUME verdict = "scope"
                   PROVE  LET more == [token EXCEPT !.scope = config.scopes, !.sub = TRUE]
                          IN  ByDescription(more) /\ DiscoveryVerdict(more) = "user"
        BY Zenon DEF ForbiddenIsAboutScope
      <3> DEFINE more == [token EXCEPT !.scope = config.scopes, !.sub = TRUE]
      <3>1. stage = "checked" /\ token \in TokenRecords
        BY DEF AuthInv
      <3>2. config.by = "discovery" /\ verdict = DiscoveryVerdict(token)
        BY <3>1 DEF AuthInv, StaticVerdict
      <3>3. /\ ParserAccepts(token) /\ token.typ = "at+jwt" /\ AudienceOk(token)
            /\ IatOk(token) /\ ~ScopesOk(token)
        BY <3>2 DEF DiscoveryVerdict
      <3>4. /\ more \in TokenRecords /\ more.scope = config.scopes /\ more.sub
            /\ more.genuine = token.genuine /\ more.iss = token.iss /\ more.alg = token.alg
            /\ more.typ = token.typ /\ more.aud = token.aud /\ more.exp = token.exp
            /\ more.nbf = token.nbf /\ more.iat = token.iat
        BY <3>1 DEF TokenRecords, AuthInv, Configs
      <3> HIDE DEF more
      <3>5. /\ ParserAccepts(more) /\ more.typ = "at+jwt" /\ IatOk(more)
        BY <3>3, <3>4 DEF ParserAccepts, IatOk
      <3>6. AudienceOk(more)
        BY <3>3, <3>4 DEF AudienceOk
      <3>7. ScopesOk(more)
        BY <3>4 DEF ScopesOk
      <3>8. ByDescription(more)
        BY <3>1, <3>4, <3>5, <3>6, AcceptedIsDescribed
      <3>9. DiscoveryVerdict(more) = "user"
        BY <3>4, <3>5, <3>6, <3>7 DEF DiscoveryVerdict
      <3> QED
        BY <3>8, <3>9 DEF more
    <2> QED
      BY <2>2, <2>3, <2>4 DEF VerdictAsDescribed
  <1> QED
    BY <1>1, <1>2, AuthStepKeeps, PTL DEF AuthSpec

-----------------------------------------------------------------------------
(* The resources *)

\* A set of naturals that is not empty has a least member.
LEMMA LeastOne ==
  ASSUME NEW T \in SUBSET Nat, T # {}
  PROVE  \E i \in T : \A j \in T : i <= j
  <1> DEFINE R == OpToRel(<, Nat)
  <1>2. IsWellFoundedOn(R, Nat)
    BY NatLessThanWellFounded
  <1>3. \A x, y \in Nat : x < y => <<x, y>> \in R
    BY DEF OpToRel
  <1> HIDE DEF R
  <1>4. PICK x \in T : \A y \in T : ~(<<y, x>> \in R)
    BY <1>2, WFMin
  <1>5. \A y \in T : ~(y < x)
    BY <1>3, <1>4
  <1> QED
    BY <1>5

\* A set of positions has a last one.
LEMMA LastOne ==
  ASSUME NEW n \in Nat, NEW T \in SUBSET (1..n), T # {}
  PROVE  \E i \in T : \A j \in T : j <= i
  <1> DEFINE D == {n - i : i \in T}
  <1>1. D \subseteq Nat /\ D # {}
    <2>1. \A i \in T : n - i \in Nat
      <3> TAKE i \in T
      <3>1. i \in 1..n
        OBVIOUS
      <3> QED
        BY <3>1
    <2> QED
      BY <2>1
  <1> HIDE DEF D
  <1>5. PICK x \in D : \A y \in D : x <= y
    BY <1>1, LeastOne
  <1>6. PICK i \in T : x = n - i
    BY DEF D
  <1>7. ASSUME NEW j \in T PROVE j <= i
    <2>1. n - j \in D /\ n - i <= n - j
      BY <1>5, <1>6 DEF D
    <2> QED
      BY <2>1
  <1> QED
    BY <1>7

WatcherRecords == [uri : ResourceURIs \cup {Absent}, signal : BOOLEAN, body : Bodies \cup {NoBody}]

\* A watcher is in the notifier of its own URI only.
WatchersInv ==
    /\ DOMAIN notifiers \subseteq ResourceURIs
    /\ watcher \in [Watchers -> WatcherRecords]
    /\ \A u \in DOMAIN notifiers : \A w \in notifiers[u] : w \in Watchers /\ watcher[w].uri = u

ResourceInv ==
    /\ resources \in Seq(AResource)
    /\ WatchersInv
    /\ IndexSound
    /\ PanicsOnlyEmptied
    /\ UpdateIsSignalled

\* What the index leads to.
LEMMA BodyFacts ==
  ASSUME ResourceInv
  PROVE  \A u \in DOMAIN uriSet :
            /\ uriSet[u] \in 1..Len(resources) /\ resources[uriSet[u]] \in AResource
            /\ resources[uriSet[u]].uri = u /\ u \in ResourceURIs
            /\ ReadBody(u) = resources[uriSet[u]].body /\ ReadBody(u) \in Bodies \cup {NoBody}
  <1> TAKE u \in DOMAIN uriSet
  <1>1. resources \in Seq(AResource) /\ uriSet[u] \in DOMAIN resources /\ resources[uriSet[u]].uri = u
    BY DEF ResourceInv, IndexSound
  <1>2. uriSet[u] \in 1..Len(resources) /\ resources[uriSet[u]] \in AResource
    BY <1>1, LenProperties, ElementOfSeq
  <1> QED
    BY <1>1, <1>2 DEF AResource, ReadBody

\* A step that leaves the watchers alone has to keep the index sound, and to
\* mark, or to except, every URI that reads differently afterwards.
LEMMA ContentKeeps ==
  ASSUME ResourceInv, resources' \in Seq(AResource), IndexSound', PanicsOnlyEmptied',
         UNCHANGED <<notifiers, watcher>>,
         marks \subseteq marks',
         \A u \in DOMAIN uriSet' \ unmarked' :
            u \in marks' \/ (u \in DOMAIN uriSet \ unmarked /\ (ReadBody(u))' = ReadBody(u))
  PROVE  ResourceInv'
  <1>1. WatchersInv'
    BY DEF ResourceInv, WatchersInv
  <1>2. UpdateIsSignalled'
    <2> SUFFICES ASSUME NEW u \in DOMAIN notifiers', NEW w \in notifiers'[u],
                        u \in DOMAIN uriSet', u \notin unmarked'
                 PROVE  \/ watcher'[w].body = (ReadBody(u))'
                        \/ watcher'[w].signal
                        \/ u \in marks'
      BY DEF UpdateIsSignalled
    <2> QED
      BY DEF ResourceInv, UpdateIsSignalled
  <1> QED
    BY <1>1, <1>2 DEF ResourceInv

\* A resource that is appended, to a URI without one.
LEMMA AppendKeepsIndex ==
  ASSUME ResourceInv, NEW r \in AResource, r.uri \notin DOMAIN uriSet,
         resources' = Append(resources, r),
         uriSet' = Put(uriSet, r.uri, Len(resources) + 1)
  PROVE  /\ resources' \in Seq(AResource) /\ IndexSound'
         /\ DOMAIN uriSet' = DOMAIN uriSet \cup {r.uri}
         /\ \A u \in DOMAIN uriSet : (ReadBody(u))' = ReadBody(u)
  <1> DEFINE n == Len(resources)
  <1>1. /\ resources' \in Seq(AResource) /\ n \in Nat /\ Len(resources') = n + 1
        /\ \A i \in 1..n : resources'[i] = resources[i]
        /\ resources'[n + 1] = r
    BY AppendProperties, LenProperties DEF ResourceInv
  <1>2. DOMAIN resources' = 1..(n + 1)
    BY <1>1, LenProperties
  <1>3. /\ DOMAIN uriSet' = DOMAIN uriSet \cup {r.uri} /\ uriSet'[r.uri] = n + 1
        /\ \A u \in DOMAIN uriSet : uriSet'[u] = uriSet[u]
    BY DEF Put
  <1>4. \A u \in DOMAIN uriSet : uriSet[u] \in 1..n /\ resources[uriSet[u]].uri = u
    BY BodyFacts
  <1> HIDE DEF n
  <1>5. IndexSound'
    BY <1>1, <1>2, <1>3, <1>4 DEF IndexSound
  <1>6. \A u \in DOMAIN uriSet : (ReadBody(u))' = ReadBody(u)
    BY <1>1, <1>3, <1>4 DEF ReadBody
  <1> QED
    BY <1>1, <1>3, <1>5, <1>6

\* AddResource and UpsertResource.
LEMMA AddKeeps ==
  ASSUME ResourceInv, NEW r \in AResource, AddResource(r) \/ UpsertResource(r)
  PROVE  ResourceInv'
  <1>0. PanicsOnlyEmptied'
    BY DEF AddResource, UpsertResource, PanicsOnlyEmptied
  <1>1. CASE AddResource(r)
    <2>1. /\ resources' \in Seq(AResource) /\ IndexSound'
          /\ DOMAIN uriSet' = DOMAIN uriSet \cup {r.uri}
          /\ \A u \in DOMAIN uriSet : (ReadBody(u))' = ReadBody(u)
      BY <1>1, AppendKeepsIndex DEF AddResource
    <2>2. UNCHANGED <<notifiers, marks, watcher>> /\ unmarked' = unmarked \cup {r.uri}
      BY <1>1 DEF AddResource
    <2> QED
      BY <1>0, <2>1, <2>2, ContentKeeps
  <1>2. CASE UpsertResource(r) /\ r.uri \notin DOMAIN uriSet
    <2>1. /\ resources' \in Seq(AResource) /\ IndexSound'
          /\ DOMAIN uriSet' = DOMAIN uriSet \cup {r.uri}
          /\ \A u \in DOMAIN uriSet : (ReadBody(u))' = ReadBody(u)
      BY <1>2, AppendKeepsIndex DEF UpsertResource
    <2>2. /\ UNCHANGED <<notifiers, watcher>>
          /\ marks' = IF r.body # NoBody THEN marks \cup {r.uri} ELSE marks
          /\ unmarked' = IF r.body = NoBody THEN unmarked \cup {r.uri} ELSE unmarked \ {r.uri}
      BY <1>2 DEF UpsertResource, UpdatedByUpsert
    <2> QED
      BY <1>0, <2>1, <2>2, ContentKeeps
  <1>3. CASE UpsertResource(r) /\ r.uri \in DOMAIN uriSet
    <2> DEFINE k == uriSet[r.uri]
    <2>1. k \in 1..Len(resources) /\ resources \in Seq(AResource)
      BY <1>3, BodyFacts DEF ResourceInv
    <2>2. /\ resources' = [resources EXCEPT ![k] = r] /\ uriSet' = uriSet
          /\ UNCHANGED <<notifiers, watcher>>
          /\ marks' = IF ReadBody(r.uri) # r.body THEN marks \cup {r.uri} ELSE marks
          /\ unmarked' = IF ReadBody(r.uri) = r.body THEN unmarked ELSE unmarked \ {r.uri}
      BY <1>3 DEF UpsertResource, UpdatedByUpsert
    <2>3. /\ resources' \in Seq(AResource) /\ Len(resources') = Len(resources)
          /\ \A j \in 1..Len(resources) : resources'[j] = IF j = k THEN r ELSE resources[j]
      BY <2>1, <2>2, ExceptSeq
    <2>4. DOMAIN resources' = 1..Len(resources)
      BY <2>3, LenProperties
    <2>5. \A u \in DOMAIN uriSet : /\ uriSet[u] \in 1..Len(resources)
                                   /\ resources[uriSet[u]].uri = u
                                   /\ uriSet[u] = k => u = r.uri
      BY <1>3, BodyFacts
    <2> HIDE DEF k
    <2>6. \A u \in DOMAIN uriSet' : /\ uriSet'[u] \in DOMAIN resources'
                                    /\ resources'[uriSet'[u]].uri = u
      BY <2>2, <2>3, <2>4, <2>5
    <2>7. IndexSound'
      BY <2>6 DEF IndexSound
    <2>8. \A u \in DOMAIN uriSet : u # r.uri => (ReadBody(u))' = ReadBody(u)
      BY <2>2, <2>3, <2>5 DEF ReadBody
    <2>9. ReadBody(r.uri)' = r.body
      BY <1>3, <2>1, <2>2, <2>3 DEF ReadBody, k
    <2>10. marks \subseteq marks'
      BY <2>2
    <2>11. \A u \in DOMAIN uriSet' \ unmarked' :
              u \in marks' \/ (u \in DOMAIN uriSet \ unmarked /\ (ReadBody(u))' = ReadBody(u))
      BY <2>2, <2>8, <2>9
    <2> QED
      BY <1>0, <2>2, <2>3, <2>7, <2>10, <2>11, ContentKeeps
  <1> QED
    BY <1>1, <1>2, <1>3

\* The swap deletion: the last resource takes the place of the one that goes,
\* and whoever the index led elsewhere still finds what was found there.
LEMMA RemoveKeeps ==
  ASSUME ResourceInv, NEW u, RemoveResource(u)
  PROVE  ResourceInv'
  <1> DEFINE n == Len(resources)
             k == uriSet[u]
             last == resources[n]
             moved == [resources EXCEPT ![k] = last]
  <1>1. /\ u \in DOMAIN uriSet /\ resources' = SubSeq(moved, 1, n - 1)
        /\ uriSet' = Without(Put(uriSet, last.uri, k), {u})
        /\ unmarked' = IF last.uri \in DOMAIN uriSet /\ uriSet[last.uri] = n
                       THEN unmarked ELSE unmarked \cup {last.uri}
        /\ UNCHANGED <<notifiers, marks, watcher>>
    BY DEF RemoveResource, IndexAfterRemove
  <1>0. PanicsOnlyEmptied'
    BY DEF RemoveResource, PanicsOnlyEmptied
  <1>2. k \in 1..n /\ n \in Nat /\ resources \in Seq(AResource) /\ resources[k].uri = u
    BY <1>1, BodyFacts, LenProperties DEF ResourceInv
  <1>3. last \in AResource
    BY <1>2, ElementOfSeq
  <1>4. /\ moved \in Seq(AResource) /\ Len(moved) = n
        /\ \A j \in 1..n : moved[j] = IF j = k THEN last ELSE resources[j]
    BY <1>2, <1>3, ExceptSeq
  <1>5. \A v \in DOMAIN uriSet : uriSet[v] \in 1..n /\ resources[uriSet[v]].uri = v
    BY BodyFacts
  <1> HIDE DEF n, k, moved
  <1>6. \A j \in 1..(n - 1) : moved[j] \in AResource
    BY <1>2, <1>4, ElementOfSeq
  <1>7. /\ resources' \in Seq(AResource) /\ Len(resources') = n - 1
        /\ \A j \in 1..(n - 1) : resources'[j] = IF j = k THEN last ELSE resources[j]
    <2>1. /\ SubSeq(moved, 1, n - 1) \in Seq(AResource)
          /\ Len(SubSeq(moved, 1, n - 1)) = IF 1 <= n - 1 THEN n - 1 - 1 + 1 ELSE 0
          /\ \A j \in 1..(n - 1 - 1 + 1) : SubSeq(moved, 1, n - 1)[j] = moved[1 + j - 1]
      BY <1>2, <1>6, SubSeqProperties
    <2>2. n - 1 - 1 + 1 = n - 1 /\ (1 <= n - 1 \/ n - 1 = 0)
      BY <1>2
    <2>3. \A j \in 1..(n - 1) : resources'[j] = moved[j]
      BY <1>1, <1>2, <2>1, <2>2
    <2> QED
      BY <1>1, <1>2, <1>4, <2>1, <2>2, <2>3
  <1>8. DOMAIN resources' = 1..(n - 1)
    BY <1>7, LenProperties
  <1>9. /\ DOMAIN uriSet' = (DOMAIN uriSet \cup {last.uri}) \ {u}
        /\ \A v \in DOMAIN uriSet' : uriSet'[v] = IF v = last.uri THEN k ELSE uriSet[v]
    BY <1>1 DEF Put, Without
  <1> HIDE DEF last
  <1>10. last.uri # u => k \in 1..(n - 1)
    BY <1>2 DEF last
  <1>11. \A v \in DOMAIN uriSet : v # u /\ v # last.uri => uriSet[v] \in 1..(n - 1) /\ uriSet[v] # k
    BY <1>2, <1>5 DEF last
  <1>12. \A v \in DOMAIN uriSet' :
            /\ uriSet'[v] \in 1..(n - 1)
            /\ resources'[uriSet'[v]] = IF v = last.uri THEN last ELSE resources[uriSet[v]]
            /\ v = last.uri \/ v \in DOMAIN uriSet
    BY <1>7, <1>9, <1>10, <1>11
  <1>13. IndexSound'
    BY <1>5, <1>8, <1>12 DEF IndexSound
  <1>14. ASSUME NEW v \in DOMAIN uriSet' \ unmarked'
         PROVE  v \in DOMAIN uriSet \ unmarked /\ (ReadBody(v))' = ReadBody(v)
    <2>1. CASE v = last.uri
      <3>1. v \in DOMAIN uriSet \ unmarked /\ uriSet[v] = n
        BY <1>1, <2>1
      <3> QED
        BY <1>12, <2>1, <3>1 DEF ReadBody, last
    <2>2. CASE v # last.uri
      <3>1. v \in DOMAIN uriSet \ unmarked
        BY <1>1, <1>12, <2>2
      <3> QED
        BY <1>12, <2>2, <3>1 DEF ReadBody
    <2> QED
      BY <2>1, <2>2
  <1> QED
    BY <1>0, <1>1, <1>7, <1>13, <1>14, ContentKeeps

\* ReplaceResources: the last of each URI is indexed, what has content is
\* marked, and what has none is excepted.
LEMMA ReplaceKeeps ==
  ASSUME ResourceInv, NEW rs \in Replacements, ReplaceResources(rs)
  PROVE  ResourceInv'
  <1> DEFINE new == Listable(rs)
             uris == {r.uri : r \in ToSet(new)}
             full == {r.uri : r \in {x \in ToSet(new) : x.body # NoBody}}
             P(u) == {i \in DOMAIN new : new[i].uri = u}
  <1>1. /\ resources' = new
        /\ uriSet' = [u \in uris |-> CHOOSE i \in DOMAIN new :
                        /\ new[i].uri = u
                        /\ \A j \in DOMAIN new : new[j].uri = u => j <= i]
        /\ notifiers' = Without(notifiers, DOMAIN uriSet \ uris)
        /\ marks' = marks \cup full /\ unmarked' = (unmarked \cup uris) \ full
        /\ UNCHANGED watcher
    BY DEF ReplaceResources
  <1>0. PanicsOnlyEmptied'
    BY DEF ReplaceResources, PanicsOnlyEmptied
  <1>2. new \in Seq(AResource)
    BY ResourcesAssumption
  <1> HIDE DEF new
  <1>3. Len(new) \in Nat /\ DOMAIN new = 1..Len(new)
    BY <1>2, LenProperties
  <1>4. ASSUME NEW u \in uris
        PROVE  uriSet'[u] \in DOMAIN new /\ new[uriSet'[u]].uri = u
    <2>1. P(u) # {} /\ P(u) \subseteq 1..Len(new)
      BY <1>3 DEF ToSet
    <2>2. PICK i \in P(u) : \A j \in P(u) : j <= i
      BY <1>3, <2>1, LastOne
    <2>3. \E l \in DOMAIN new : /\ new[l].uri = u
                                /\ \A j \in DOMAIN new : new[j].uri = u => j <= l
      BY <2>2
    <2>4. uriSet'[u] = CHOOSE l \in DOMAIN new :
                          /\ new[l].uri = u
                          /\ \A j \in DOMAIN new : new[j].uri = u => j <= l
      BY <1>1
    <2> QED
      BY <2>3, <2>4
  <1>5. DOMAIN uriSet' = uris
    BY <1>1
  <1>6. IndexSound'
    BY <1>1, <1>4, <1>5 DEF IndexSound
  <1>7. /\ DOMAIN notifiers' \subseteq DOMAIN notifiers
        /\ \A u \in DOMAIN notifiers' : notifiers'[u] = notifiers[u]
    BY <1>1 DEF Without
  <1>8. WatchersInv'
    BY <1>1, <1>7 DEF ResourceInv, WatchersInv
  <1>9. UpdateIsSignalled'
    <2>1. \A u \in DOMAIN uriSet' : u \notin unmarked' => u \in marks'
      BY <1>1, <1>5
    <2> QED
      BY <2>1 DEF UpdateIsSignalled
  <1> QED
    BY <1>0, <1>1, <1>2, <1>6, <1>8, <1>9 DEF ResourceInv

\* The signal, a new watcher, and a watcher's client that reads again.
LEMMA WatcherKeeps ==
  ASSUME ResourceInv,
         \/ \E u \in ResourceURIs : MarkUpdated(u)
         \/ \E w \in Watchers : Reread(w) \/ \E u \in ResourceURIs : UpdatedChan(w, u)
  PROVE  ResourceInv'
  <1>1. /\ resources \in Seq(AResource) /\ IndexSound /\ UpdateIsSignalled
        /\ DOMAIN notifiers \subseteq ResourceURIs
        /\ watcher \in [Watchers -> WatcherRecords]
        /\ \A u \in DOMAIN notifiers : \A w \in notifiers[u] : w \in Watchers /\ watcher[w].uri = u
    BY DEF ResourceInv, WatchersInv
  <1>2. UNCHANGED <<resources, uriSet, unmarked, stuck>>
    BY DEF MarkUpdated, Reread, UpdatedChan
  <1>0. PanicsOnlyEmptied'
    BY <1>2 DEF ResourceInv, PanicsOnlyEmptied
  <1>3. resources' \in Seq(AResource) /\ IndexSound' /\ \A u : (ReadBody(u))' = ReadBody(u)
    BY <1>1, <1>2 DEF IndexSound, ReadBody
  <1>4. ASSUME NEW u \in ResourceURIs, MarkUpdated(u) PROVE ResourceInv'
    <2>1. /\ marks' = marks \ {u} /\ notifiers' = notifiers
          /\ watcher' = [w \in Watchers |->
                           IF u \in DOMAIN notifiers /\ w \in notifiers[u]
                           THEN [watcher[w] EXCEPT !.signal = TRUE] ELSE watcher[w]]
      BY <1>4 DEF MarkUpdated
    <2>2. \A w \in Watchers : /\ watcher'[w] \in WatcherRecords
                              /\ watcher'[w].uri = watcher[w].uri
                              /\ watcher'[w].body = watcher[w].body
                              /\ watcher[w].signal => watcher'[w].signal
      <3> TAKE w \in Watchers
      <3>1. watcher[w] \in WatcherRecords
        BY <1>1
      <3>2. watcher'[w] = watcher[w] \/ watcher'[w] = [watcher[w] EXCEPT !.signal = TRUE]
        BY <2>1
      <3> QED
        BY <3>1, <3>2 DEF WatcherRecords
    <2>3. u \in DOMAIN notifiers => \A w \in notifiers[u] : watcher'[w].signal
      <3> SUFFICES ASSUME u \in DOMAIN notifiers, NEW w \in notifiers[u] PROVE watcher'[w].signal
        OBVIOUS
      <3>1. w \in Watchers /\ watcher[w] \in WatcherRecords
        BY <1>1
      <3>2. watcher'[w] = [watcher[w] EXCEPT !.signal = TRUE]
        BY <2>1, <3>1
      <3> QED
        BY <3>1, <3>2 DEF WatcherRecords
    <2>4. watcher' \in [Watchers -> WatcherRecords]
      BY <2>1, <2>2
    <2>5. WatchersInv'
      BY <1>1, <2>1, <2>2, <2>4 DEF WatchersInv
    <2>6. UpdateIsSignalled'
      BY <1>1, <1>2, <1>3, <2>1, <2>2, <2>3 DEF UpdateIsSignalled
    <2> QED
      BY <1>0, <1>3, <2>5, <2>6 DEF ResourceInv
  <1>5. ASSUME NEW w \in Watchers, NEW u \in ResourceURIs, UpdatedChan(w, u) PROVE ResourceInv'
    <2> DEFINE b == IF u \in DOMAIN uriSet THEN ReadBody(u) ELSE NoBody
               r == [uri |-> u, signal |-> FALSE, body |-> b]
               old == IF u \in DOMAIN notifiers THEN notifiers[u] ELSE {}
    <2>1. /\ watcher[w].uri = Absent /\ marks' = marks
          /\ notifiers' = Put(notifiers, u, {w} \cup old)
          /\ watcher' = [watcher EXCEPT ![w] = r]
      BY <1>5 DEF UpdatedChan
    <2>2. b \in Bodies \cup {NoBody}
      BY BodyFacts
    <2>3. r \in WatcherRecords /\ r.uri = u /\ r.body = b
      BY <2>2 DEF WatcherRecords
    <2>4. /\ DOMAIN notifiers' = DOMAIN notifiers \cup {u}
          /\ \A v \in DOMAIN notifiers' : notifiers'[v] = IF v = u THEN {w} \cup old ELSE notifiers[v]
      BY <2>1 DEF Put
    <2>5. \A v \in DOMAIN notifiers : w \notin notifiers[v]
      BY <1>1, <2>1, ResourcesAssumption
    <2>6. u \in DOMAIN uriSet => b = ReadBody(u)
      OBVIOUS
    <2> HIDE DEF r, b
    <2>7. /\ watcher' \in [Watchers -> WatcherRecords] /\ watcher'[w] = r
          /\ \A x \in Watchers : x # w => watcher'[x] = watcher[x]
      BY <1>1, <2>1, <2>3
    <2>8. \A v \in DOMAIN notifiers' : \A x \in notifiers'[v] :
             \/ v = u /\ x = w
             \/ v \in DOMAIN notifiers /\ x \in notifiers[v] /\ x # w
      BY <2>4, <2>5
    <2>9. WatchersInv'
      BY <1>1, <2>3, <2>4, <2>7, <2>8 DEF WatchersInv
    <2>10. UpdateIsSignalled'
      <3> SUFFICES ASSUME NEW v \in DOMAIN notifiers', NEW x \in notifiers'[v],
                          v \in DOMAIN uriSet, v \notin unmarked
                   PROVE  watcher'[x].body = ReadBody(v) \/ watcher'[x].signal \/ v \in marks
        BY <1>2, <1>3, <2>1 DEF UpdateIsSignalled
      <3>1. CASE v = u /\ x = w
        BY <2>3, <2>6, <2>7, <3>1
      <3>2. CASE v \in DOMAIN notifiers /\ x \in notifiers[v] /\ x # w
        <4>1. watcher'[x] = watcher[x]
          BY <1>1, <2>7, <3>2
        <4> QED
          BY <1>1, <3>2, <4>1 DEF UpdateIsSignalled
      <3> QED
        BY <2>8, <3>1, <3>2
    <2> QED
      BY <1>0, <1>3, <2>9, <2>10 DEF ResourceInv
  <1>6. ASSUME NEW w \in Watchers, Reread(w) PROVE ResourceInv'
    <2> DEFINE u == watcher[w].uri
               b == IF u \in DOMAIN uriSet THEN ReadBody(u) ELSE watcher[w].body
               r == [[watcher[w] EXCEPT !.signal = FALSE] EXCEPT !.body = b]
    <2>1. watcher[w] \in WatcherRecords
      BY <1>1
    <2>2. /\ marks' = marks /\ notifiers' = notifiers
          /\ watcher' = [watcher EXCEPT ![w].signal = FALSE,
                           ![w].body = IF u \in DOMAIN uriSet THEN ReadBody(u) ELSE @]
      BY <1>6 DEF Reread
    <2>3. b \in Bodies \cup {NoBody}
      BY <2>1, BodyFacts DEF WatcherRecords
    <2>4. u \in DOMAIN uriSet => b = ReadBody(u)
      OBVIOUS
    <2>5. /\ DOMAIN watcher' = Watchers /\ watcher'[w] = r
          /\ \A x \in Watchers : x # w => watcher'[x] = watcher[x]
      BY <1>1, <2>1, <2>2 DEF WatcherRecords
    <2> HIDE DEF b
    <2>6. r \in WatcherRecords /\ r.uri = u /\ r.body = b
      BY <2>1, <2>3 DEF WatcherRecords
    <2> HIDE DEF r, u
    <2>7. watcher' \in [Watchers -> WatcherRecords]
      <3>1. \A x \in Watchers : watcher'[x] \in WatcherRecords
        BY <1>1, <2>5, <2>6
      <3>2. watcher' = [x \in Watchers |-> watcher'[x]]
        BY <1>1, <2>2
      <3> QED
        BY <3>1, <3>2
    <2>8. \A v \in DOMAIN notifiers : w \in notifiers[v] => v = u
      BY <1>1 DEF u
    <2>9. WatchersInv'
      BY <1>1, <2>2, <2>5, <2>6, <2>7, <2>8 DEF WatchersInv
    <2>10. UpdateIsSignalled'
      BY <1>1, <1>2, <1>3, <2>2, <2>4, <2>5, <2>6, <2>8 DEF UpdateIsSignalled
    <2> QED
      BY <1>0, <1>3, <2>9, <2>10 DEF ResourceInv
  <1> QED
    BY <1>4, <1>5, <1>6

\* A read finds the resource it asks for, after any history of additions,
\* swap deletions and replacements, and a watcher is signalled of every change
\* that is not excepted: for every set of URIs, watchers and replacements.
THEOREM ContentStaysCurrent == ResourceSpec => []ContentIsCurrent
  <1>1. ResourceInit => ResourceInv
    <2> SUFFICES ASSUME ResourceInit PROVE ResourceInv
      OBVIOUS
    <2>1. watcher \in [Watchers -> WatcherRecords]
      BY DEF ResourceInit, WatcherRecords
    <2>2. DOMAIN uriSet = {} /\ DOMAIN notifiers = {} /\ resources \in Seq(AResource)
      BY DEF ResourceInit
    <2> QED
      BY <2>1, <2>2 DEF ResourceInit, ResourceInv, WatchersInv, IndexSound, UpdateIsSignalled, PanicsOnlyEmptied
  <1>2. ResourceInv /\ [ResourceNext]_resourceVars => ResourceInv'
    <2> SUFFICES ASSUME ResourceInv, [ResourceNext]_resourceVars PROVE ResourceInv'
      OBVIOUS
    <2>1. ASSUME UNCHANGED <<resources, uriSet, notifiers, marks, watcher, unmarked>>,
                 PanicsOnlyEmptied'
          PROVE  ResourceInv'
      <3>1. IndexSound' /\ \A u : (ReadBody(u))' = ReadBody(u)
        BY <2>1 DEF ResourceInv, IndexSound, ReadBody
      <3> QED
        BY <2>1, <3>1, ContentKeeps DEF ResourceInv
    <2>2. CASE \E u \in ResourceURIs : RemoveResource(u)
      BY <2>2, RemoveKeeps
    <2>3. CASE \/ \E u \in ResourceURIs : ReadBegin(u)
               \/ \E t \in Templates : AddTemplate(t) \/ RemoveTemplate(t) \/ ReplaceTemplates(<<t, t>>)
               \/ UNCHANGED resourceVars
      <3>1. UNCHANGED <<resources, uriSet, notifiers, marks, watcher, unmarked, stuck>>
        BY <2>3, Zenon DEF ReadBegin, AddTemplate, RemoveTemplate, ReplaceTemplates, resourceVars
      <3>2. PanicsOnlyEmptied'
        BY <3>1 DEF ResourceInv, PanicsOnlyEmptied
      <3> QED
        BY <2>1, <3>1, <3>2
    <2>4. CASE ReadEnd
      <3>1. /\ stuck' = (stuck \/ IndexOrZero(reader) \notin DOMAIN resources)
            /\ UNCHANGED <<resources, uriSet, notifiers, marks, watcher, unmarked>>
        BY <2>4 DEF ReadEnd
      <3>2. resources \in Seq(AResource) /\ DOMAIN resources = 1..Len(resources) /\ Len(resources) \in Nat
        BY LenProperties DEF ResourceInv
      <3>3. resources # <<>> => 1 \in DOMAIN resources
        BY <3>2, EmptySeq
      <3>4. resources # <<>> => IndexOrZero(reader) \in DOMAIN resources
        BY <3>3 DEF IndexOrZero, ResourceInv, IndexSound
      <3>5. PanicsOnlyEmptied'
        BY <3>1, <3>4 DEF ResourceInv, PanicsOnlyEmptied
      <3> QED
        BY <2>1, <3>1, <3>5
    <2> QED
      BY <2>2, <2>3, <2>4, AddKeeps, ReplaceKeeps, WatcherKeeps DEF ResourceNext
  <1>3. ResourceInv => ContentIsCurrent
    BY DEF ResourceInv, ContentIsCurrent
  <1> QED
    BY <1>1, <1>2, <1>3, PTL DEF ResourceSpec

-----------------------------------------------------------------------------
(* The tools and prompts *)

\* The steps of the loop in Remove, as a function of the descriptors seen.
IsLoop(kept, defs, name, n) ==
    kept = [i \in 0..n |->
              IF i = 0 THEN <<>>
              ELSE IF defs[i].name = name THEN kept[i - 1] ELSE Append(kept[i - 1], defs[i])]

\* The loop can be run: there is such a function for every prefix.
LEMMA LoopRuns ==
  ASSUME NEW defs, NEW name, NEW n \in Nat
  PROVE  \E kept : IsLoop(kept, defs, name, n)
  <1> DEFINE Bad == {m \in Nat : ~ \E kept : IsLoop(kept, defs, name, m)}
  <1> SUFFICES ASSUME Bad # {} PROVE FALSE
    OBVIOUS
  <1>1. PICK m \in Bad : \A k \in Bad : m <= k
    BY LeastOne
  <1>2. m # 0
    <2> SUFFICES ASSUME m = 0 PROVE FALSE
      OBVIOUS
    <2> DEFINE k0 == [i \in 0..0 |-> <<>>]
    <2>1. IsLoop(k0, defs, name, 0)
      BY DEF IsLoop
    <2> QED
      BY <1>1, <2>1
  <1>3. m - 1 \in Nat /\ m - 1 \notin Bad
    BY <1>1, <1>2
  <1>4. PICK kept : IsLoop(kept, defs, name, m - 1)
    BY <1>3
  <1> DEFINE last == IF defs[m].name = name THEN kept[m - 1] ELSE Append(kept[m - 1], defs[m])
             more == [i \in 0..m |-> IF i = m THEN last ELSE kept[i]]
  <1>5. \A i \in 0..(m - 1) : /\ more[i] = kept[i]
                              /\ kept[i] = IF i = 0 THEN <<>>
                                           ELSE IF defs[i].name = name THEN kept[i - 1]
                                                ELSE Append(kept[i - 1], defs[i])
    <2>1. m \in Nat \ {0}
      BY <1>1, <1>2
    <2>2. \A i \in 0..(m - 1) : more[i] = kept[i]
      BY <2>1
    <2>3. \A i \in 0..(m - 1) : kept[i] = IF i = 0 THEN <<>>
                                           ELSE IF defs[i].name = name THEN kept[i - 1]
                                                ELSE Append(kept[i - 1], defs[i])
      BY <1>4 DEF IsLoop
    <2> QED
      BY <2>2, <2>3
  <1>6. more[m] = last /\ more[m - 1] = kept[m - 1]
    BY <1>1, <1>2, <1>3
  <1>7. \A i \in 0..m : more[i] = IF i = 0 THEN <<>>
                                  ELSE IF defs[i].name = name THEN more[i - 1]
                                       ELSE Append(more[i - 1], defs[i])
    <2> TAKE i \in 0..m
    <2>1. CASE i = m
      BY <1>2, <1>6, <2>1
    <2>2. CASE i # m
      <3>1. i \in 0..(m - 1) /\ (i # 0 => i - 1 \in 0..(m - 1))
        BY <1>1, <2>2
      <3> HIDE DEF more, last
      <3> QED
        BY <1>5, <3>1
    <2> QED
      BY <2>1, <2>2
  <1>8. more = [i \in 0..m |-> more[i]]
    OBVIOUS
  <1> HIDE DEF more
  <1>9. IsLoop(more, defs, name, m)
    BY <1>7, <1>8 DEF IsLoop
  <1> QED
    BY <1>1, <1>9

\* So KeptOf is what the loop has kept in the end.
LEMMA KeptIsLoop ==
  ASSUME NEW defs, NEW name, Len(defs) \in Nat
  PROVE  \E kept : IsLoop(kept, defs, name, Len(defs)) /\ KeptOf(defs, name) = kept[Len(defs)]
  <1> DEFINE k == CHOOSE kept : IsLoop(kept, defs, name, Len(defs))
  <1>1. IsLoop(k, defs, name, Len(defs))
    BY LoopRuns
  <1>2. KeptOf(defs, name) = k[Len(defs)]
    BY DEF KeptOf, IsLoop
  <1> QED
    BY <1>1, <1>2

\* The definitions of a name that can be called, among the first m of a list.
Able(q, m, n) == {i \in 1..m : q[i].name = n /\ q[i].handler # NoHandler}

\* The handler of the last of them, and none if there is none.
Serves(q, m, n, h) ==
    \/ Able(q, m, n) = {} /\ h = NoHandler
    \/ \E i \in Able(q, m, n) : (\A j \in Able(q, m, n) : j <= i) /\ h = q[i].handler

\* One handler is served at most.
LEMMA ServesOne ==
  ASSUME NEW q, NEW m \in Nat, NEW n, NEW g, NEW h, Serves(q, m, n, g), Serves(q, m, n, h)
  PROVE  g = h
  <1>1. CASE Able(q, m, n) = {}
    BY <1>1 DEF Serves
  <1>2. CASE Able(q, m, n) # {}
    <2>1. PICK i \in Able(q, m, n) : (\A j \in Able(q, m, n) : j <= i) /\ g = q[i].handler
      BY <1>2 DEF Serves
    <2>2. PICK k \in Able(q, m, n) : (\A j \in Able(q, m, n) : j <= k) /\ h = q[k].handler
      BY <1>2 DEF Serves
    <2>3. i \in Nat /\ k \in Nat /\ i <= k /\ k <= i
      BY <2>1, <2>2 DEF Able
    <2> QED
      BY <2>1, <2>2, <2>3
  <1> QED
    BY <1>1, <1>2

\* The next definition is served if it is of the name and can be called.
LEMMA ServesNext ==
  ASSUME NEW q, NEW m \in Nat \ {0}, NEW n, NEW h
  PROVE  Serves(q, m, n, h) <=>
            IF q[m].name = n /\ q[m].handler # NoHandler THEN h = q[m].handler
            ELSE Serves(q, m - 1, n, h)
  <1>1. CASE q[m].name = n /\ q[m].handler # NoHandler
    <2>1. m \in Able(q, m, n) /\ \A j \in Able(q, m, n) : j <= m
      BY <1>1 DEF Able
    <2>2. \A i \in Able(q, m, n) : (\A j \in Able(q, m, n) : j <= i) => i = m
      BY <2>1 DEF Able
    <2> QED
      BY <1>1, <2>1, <2>2 DEF Serves
  <1>2. CASE ~(q[m].name = n /\ q[m].handler # NoHandler)
    <2>1. Able(q, m, n) = Able(q, m - 1, n)
      BY <1>2 DEF Able
    <2> QED
      BY <1>2, <2>1 DEF Serves
  <1> QED
    BY <1>1, <1>2

\* What is served depends on the list only.
LEMMA ServesSame ==
  ASSUME NEW q, NEW r, NEW m \in Nat, \A i \in 1..m : q[i] = r[i], NEW n, NEW h
  PROVE  Serves(q, m, n, h) <=> Serves(r, m, n, h)
  <1>1. Able(q, m, n) = Able(r, m, n)
    BY DEF Able
  <1>2. \A i \in Able(q, m, n) : q[i] = r[i]
    BY DEF Able
  <1> QED
    BY <1>1, <1>2 DEF Serves

\* A list with a definition more.
LEMMA ServesAppend ==
  ASSUME NEW q \in Seq(Definitions), NEW d \in Definitions, NEW n, NEW h
  PROVE  Serves(Append(q, d), Len(q) + 1, n, h) <=>
            IF d.name = n /\ d.handler # NoHandler THEN h = d.handler
            ELSE Serves(q, Len(q), n, h)
  <1> DEFINE p == Append(q, d)
             m == Len(q) + 1
  <1>1. Len(q) \in Nat /\ (\A i \in 1..Len(q) : p[i] = q[i]) /\ p[m] = d
    BY AppendProperties, LenProperties
  <1>2. m \in Nat \ {0} /\ m - 1 = Len(q)
    BY <1>1
  <1> HIDE DEF p, m
  <1>3. Serves(p, m, n, h) <=>
            IF p[m].name = n /\ p[m].handler # NoHandler THEN h = p[m].handler
            ELSE Serves(p, m - 1, n, h)
    BY <1>2, ServesNext
  <1>4. Serves(p, Len(q), n, h) <=> Serves(q, Len(q), n, h)
    BY <1>1, ServesSame
  <1>5. Serves(p, m, n, h) <=> IF d.name = n /\ d.handler # NoHandler THEN h = d.handler
                               ELSE Serves(q, Len(q), n, h)
    BY <1>1, <1>2, <1>3, <1>4
  <1> QED
    BY <1>5 DEF p, m

\* Remove takes a name out of the list and leaves what is served for others.
LEMMA KeptServes ==
  ASSUME NEW defs \in Seq(Definitions), NEW name
  PROVE  LET rest == KeptOf(defs, name)
         IN  /\ rest \in Seq(Definitions)
             /\ \A n, h : n # name =>
                   (Serves(rest, Len(rest), n, h) <=> Serves(defs, Len(defs), n, h))
             /\ \A h : Serves(rest, Len(rest), name, h) <=> h = NoHandler
  <1>1. Len(defs) \in Nat /\ \A i \in 1..Len(defs) : defs[i] \in Definitions
    BY LenProperties, ElementOfSeq
  <1>2. PICK kept : /\ IsLoop(kept, defs, name, Len(defs))
                    /\ KeptOf(defs, name) = kept[Len(defs)]
    BY <1>1, KeptIsLoop
  <1> DEFINE Good(i) == /\ kept[i] \in Seq(Definitions)
                        /\ \A n, h : n # name => (Serves(kept[i], Len(kept[i]), n, h)
                                                    <=> Serves(defs, i, n, h))
                        /\ \A h : Serves(kept[i], Len(kept[i]), name, h) <=> h = NoHandler
             Bad == {i \in 0..Len(defs) : ~Good(i)}
  <1>3. Bad = {}
    <2> SUFFICES ASSUME Bad # {} PROVE FALSE
      OBVIOUS
    <2>1. Bad \in SUBSET Nat
      BY <1>1
    <2> HIDE DEF Bad
    <2>2. PICK m \in Bad : \A k \in Bad : m <= k
      BY <2>1, LeastOne
    <2>3. m \in 0..Len(defs) /\ ~Good(m) /\ \A k \in 0..Len(defs) : k < m => Good(k)
      BY <1>1, <2>2 DEF Bad
    <2> HIDE DEF Good
    <2>4. kept[m] = IF m = 0 THEN <<>>
                    ELSE IF defs[m].name = name THEN kept[m - 1] ELSE Append(kept[m - 1], defs[m])
      BY <1>2, <2>3 DEF IsLoop
    <2>5. CASE m = 0
      <3>0. kept[0] = <<>>
        BY <2>4, <2>5
      <3>1. kept[0] = <<>> /\ Len(kept[0]) = 0 /\ kept[0] \in Seq(Definitions)
        BY <3>0, EmptySeq
      <3>2. \A q, n : Able(q, 0, n) = {}
        BY DEF Able
      <3>3. \A q, n, h : Serves(q, 0, n, h) <=> h = NoHandler
        BY <3>2 DEF Serves
      <3>4. Good(0)
        BY <3>1, <3>3 DEF Good
      <3> QED
        BY <2>3, <2>5, <3>4
    <2>6. CASE m # 0
      <3>1. m \in Nat \ {0} /\ m - 1 \in 0..Len(defs) /\ m \in 1..Len(defs)
        BY <1>1, <2>3, <2>6
      <3>2. Good(m - 1) /\ defs[m] \in Definitions
        BY <1>1, <2>3, <3>1
      <3>3. \A n, h : Serves(defs, m, n, h) <=>
                IF defs[m].name = n /\ defs[m].handler # NoHandler THEN h = defs[m].handler
                ELSE Serves(defs, m - 1, n, h)
        BY <3>1, ServesNext
      <3>4. CASE defs[m].name = name
        <4>1. kept[m] = kept[m - 1]
          BY <2>4, <2>6, <3>4
        <4>2. Good(m)
          BY <3>2, <3>3, <3>4, <4>1 DEF Good
        <4> QED
          BY <2>3, <4>2
      <3>5. CASE defs[m].name # name
        <4> DEFINE q == kept[m - 1]
                   d == defs[m]
        <4>1. kept[m] = Append(q, d) /\ q \in Seq(Definitions) /\ d \in Definitions
          BY <2>4, <2>6, <3>2, <3>5 DEF Good
        <4>2. Len(kept[m]) = Len(q) + 1 /\ kept[m] \in Seq(Definitions)
          BY <4>1, AppendProperties
        <4>3. \A n, h : Serves(kept[m], Len(kept[m]), n, h) <=>
                 IF d.name = n /\ d.handler # NoHandler THEN h = d.handler
                 ELSE Serves(q, Len(q), n, h)
          BY <4>1, <4>2, ServesAppend
        <4>4. Good(m)
          BY <3>2, <3>3, <3>5, <4>2, <4>3 DEF Good
        <4> QED
          BY <2>3, <4>4
      <3> QED
        BY <3>4, <3>5
    <2> QED
      BY <2>5, <2>6
  <1>4. Good(Len(defs))
    <2> HIDE DEF Good
    <2>1. Len(defs) \in 0..Len(defs) /\ Len(defs) \notin Bad
      BY <1>1, <1>3
    <2> QED
      BY <2>1
  <1> QED
    BY <1>2, <1>4

ContainerTypes ==
    /\ kind \in {"tools", "prompts"} /\ pageSize \in Nat \ {0}
    /\ listed \in Seq(Definitions)
    /\ walk \in [cursor : Nat \cup {NoCursor}, got : Seq(Definitions), undisturbed : BOOLEAN]

\* The dispatch table is what the list serves.
TableInv ==
    \A n : /\ n \in DOMAIN handlers => handlers[n] # NoHandler /\ Serves(listed, Len(listed), n, handlers[n])
           /\ n \notin DOMAIN handlers => Serves(listed, Len(listed), n, NoHandler)

\* An undisturbed walk has the list up to its cursor, which is inside it.
WalkInv ==
    walk.undisturbed /\ walk.cursor # NoCursor =>
        walk.cursor \in 0..Len(listed) /\ walk.got = SubSeq(listed, 1, walk.cursor)

ContainerInv == ContainerTypes /\ TableInv /\ WalkInv

\* HandlersOf builds the table of a list.
LEMMA TableOfList ==
  ASSUME NEW defs \in Seq(Definitions)
  PROVE  LET t == HandlersOf(defs)
         IN  \A n : /\ n \in DOMAIN t => t[n] # NoHandler /\ Serves(defs, Len(defs), n, t[n])
                    /\ n \notin DOMAIN t => Serves(defs, Len(defs), n, NoHandler)
  <1> DEFINE t == HandlersOf(defs)
  <1>1. Len(defs) \in Nat /\ DOMAIN defs = 1..Len(defs)
    BY LenProperties
  <1> SUFFICES ASSUME NEW n
               PROVE  /\ n \in DOMAIN t => t[n] # NoHandler /\ Serves(defs, Len(defs), n, t[n])
                      /\ n \notin DOMAIN t => Serves(defs, Len(defs), n, NoHandler)
    OBVIOUS
  <1> DEFINE A == Able(defs, Len(defs), n)
  <1>2. A = {i \in DOMAIN defs : defs[i].name = n /\ defs[i].handler # NoHandler}
    BY <1>1 DEF Able
  <1>3. DOMAIN t = {d.name : d \in {e \in ToSet(defs) : e.handler # NoHandler}}
    BY DEF HandlersOf
  <1>4. n \in DOMAIN t <=> A # {}
    <2>1. n \in DOMAIN t <=> \E e \in ToSet(defs) : e.handler # NoHandler /\ e.name = n
      BY <1>3
    <2>2. (\E e \in ToSet(defs) : e.handler # NoHandler /\ e.name = n) <=>
             \E i \in DOMAIN defs : defs[i].name = n /\ defs[i].handler # NoHandler
      BY DEF ToSet
    <2> QED
      BY <1>2, <2>1, <2>2
  <1>5. CASE A = {}
    BY <1>4, <1>5 DEF Serves
  <1>6. CASE A # {}
    <2> DEFINE IsLast(i) == /\ defs[i].name = n /\ defs[i].handler # NoHandler
                            /\ \A j \in DOMAIN defs :
                                  defs[j].name = n /\ defs[j].handler # NoHandler => j <= i
               k == CHOOSE i \in DOMAIN defs : IsLast(i)
    <2>1. A \in SUBSET (1..Len(defs))
      BY DEF Able
    <2>2. \E i \in A : \A j \in A : j <= i
      BY <1>1, <1>6, <2>1, LastOne
    <2>3. \E i \in DOMAIN defs : IsLast(i)
      BY <1>2, <2>2
    <2>4. k \in DOMAIN defs /\ IsLast(k)
      BY <2>3
    <2>5. t[n] = defs[k].handler
      BY <1>4, <1>6, <1>3 DEF HandlersOf
    <2> HIDE DEF k, t
    <2>6. k \in A /\ \A j \in A : j <= k
      BY <1>2, <2>4
    <2> QED
      BY <1>4, <1>6, <2>4, <2>5, <2>6 DEF Serves
  <1> QED
    BY <1>5, <1>6

\* A page is what follows the cursor, and ends where the next one starts.
LEMMA PageFollows ==
  ASSUME NEW all \in Seq(Definitions), NEW size \in Nat \ {0},
         NEW cursor \in Nat \cup {NoCursor}
  PROVE  LET p == PageOrRestart(all, size, cursor)
         IN  /\ p.items \in Seq(Definitions)
             /\ p.next \in Nat \cup {NoCursor}
             /\ p.next # NoCursor => p.next \in 0..Len(all)
             /\ p.next # NoCursor /\ cursor \in 0..Len(all) =>
                   SubSeq(all, 1, cursor) \o p.items = SubSeq(all, 1, p.next)
             /\ p.next # NoCursor /\ cursor = NoCursor => p.items = SubSeq(all, 1, p.next)
  <1> DEFINE start == IF ParseCursor(cursor) > Len(all) THEN 0 ELSE ParseCursor(cursor)
             end == IF start + size > Len(all) THEN Len(all) ELSE start + size
             items == SubSeq(all, start + 1, end)
             next == IF end < Len(all) THEN end ELSE NoCursor
  <1>1. Len(all) \in Nat /\ \A i \in 1..Len(all) : all[i] \in Definitions
    BY LenProperties, ElementOfSeq
  <1>2. start \in 0..Len(all) /\ (cursor \in 0..Len(all) => start = cursor)
        /\ (cursor = NoCursor => start = 0)
    BY <1>1 DEF ParseCursor, NoCursor
  <1> HIDE DEF start
  <1>3. end \in start..Len(all)
    BY <1>1, <1>2
  <1>4. PageOrRestart(all, size, cursor) = [items |-> items, next |-> next]
    BY DEF PageOrRestart, Items, start
  <1> HIDE DEF end
  <1>5. items \in Seq(Definitions)
    <2>1. \A i \in (start + 1)..end : all[i] \in Definitions
      BY <1>1, <1>2, <1>3
    <2>2. start + 1 \in Int /\ end \in Int
      BY <1>1, <1>2, <1>3
    <2> QED
      BY <2>1, <2>2, SubSeqProperties
  <1>6. SubSeq(all, 1, start) \o items = SubSeq(all, 1, end)
    <2>1. 1 \in 1..(Len(all) + 1) /\ start \in (1 - 1)..Len(all) /\ end \in start..Len(all)
      BY <1>1, <1>2, <1>3
    <2> QED
      BY <2>1, ConcatAdjacentSubSeq
  <1>7. start = 0 => items = SubSeq(all, 1, end)
    OBVIOUS
  <1>8. next \in Nat \cup {NoCursor} /\ (next # NoCursor => next = end /\ next \in 0..Len(all))
    BY <1>1, <1>2, <1>3
  <1> DEFINE p == PageOrRestart(all, size, cursor)
  <1>9. p.items = items /\ p.next = next
    <2>1. p = [items |-> items, next |-> next]
      BY <1>4
    <2> HIDE DEF p, items, next
    <2> QED
      BY <2>1
  <1> HIDE DEF items, next, p
  <1>10. p.items \in Seq(Definitions) /\ p.next \in Nat \cup {NoCursor}
         /\ (p.next # NoCursor => p.next \in 0..Len(all))
    BY <1>5, <1>8, <1>9
  <1>11. p.next # NoCursor /\ cursor \in 0..Len(all) =>
            SubSeq(all, 1, cursor) \o p.items = SubSeq(all, 1, p.next)
    BY <1>2, <1>6, <1>8, <1>9
  <1>12. p.next # NoCursor /\ cursor = NoCursor => p.items = SubSeq(all, 1, p.next)
    BY <1>2, <1>7, <1>8, <1>9
  <1> QED
    BY <1>10, <1>11, <1>12 DEF p

\* A walk that is disturbed has nothing to keep.
LEMMA DisturbedWalk ==
  ASSUME ContainerTypes
  PROVE  /\ Disturbed \in [cursor : Nat \cup {NoCursor}, got : Seq(Definitions),
                           undisturbed : BOOLEAN]
         /\ Disturbed.undisturbed => Disturbed.cursor = NoCursor
  BY DEF ContainerTypes, Disturbed

\* A new list with the table built from it keeps the invariant.
LEMMA ReplacedIsServed ==
  ASSUME ContainerInv, NEW defs \in Seq(Definitions), ReplaceDefinitions(defs)
  PROVE  ContainerInv'
  <1>1. /\ listed' = defs /\ handlers' = HandlersOf(defs) /\ walk' = Disturbed
        /\ kind' = kind /\ pageSize' = pageSize
    BY DEF ReplaceDefinitions
  <1>2. ContainerTypes'
    BY <1>1, DisturbedWalk DEF ContainerInv, ContainerTypes
  <1>3. TableInv'
    <2>1. \A n : /\ n \in DOMAIN HandlersOf(defs) =>
                      /\ HandlersOf(defs)[n] # NoHandler
                      /\ Serves(defs, Len(defs), n, HandlersOf(defs)[n])
                 /\ n \notin DOMAIN HandlersOf(defs) => Serves(defs, Len(defs), n, NoHandler)
      BY TableOfList
    <2> QED
      BY <1>1, <2>1 DEF TableInv
  <1>4. WalkInv'
    BY <1>1, DisturbedWalk DEF ContainerInv, WalkInv
  <1> QED
    BY <1>2, <1>3, <1>4 DEF ContainerInv

\* An added definition is served from then on, and no page is disturbed.
LEMMA AddedIsServed ==
  ASSUME ContainerInv, NEW d \in Definitions, AddDefinition(d)
  PROVE  ContainerInv'
  <1>1. /\ d.name \notin DOMAIN handlers
        /\ listed' = Append(listed, d)
        /\ handlers' = IF d.handler = NoHandler THEN handlers
                       ELSE [n \in DOMAIN handlers \cup {d.name} |->
                                IF n = d.name THEN d.handler ELSE handlers[n]]
        /\ walk' = walk /\ kind' = kind /\ pageSize' = pageSize
    BY DEF AddDefinition
  <1>2. listed \in Seq(Definitions) /\ Len(listed) \in Nat
    BY LenProperties DEF ContainerInv, ContainerTypes
  <1>3. listed' \in Seq(Definitions) /\ Len(listed') = Len(listed) + 1
        /\ \A i \in 1..Len(listed) : listed'[i] = listed[i]
    BY <1>1, <1>2, AppendProperties
  <1>4. ContainerTypes'
    BY <1>1, <1>3 DEF ContainerInv, ContainerTypes
  <1>5. \A n, h : Serves(listed', Len(listed'), n, h) <=>
            IF d.name = n /\ d.handler # NoHandler THEN h = d.handler
            ELSE Serves(listed, Len(listed), n, h)
    BY <1>1, <1>2, <1>3, ServesAppend
  <1>6. \A n : /\ n \in DOMAIN handlers => handlers[n] # NoHandler
                                           /\ Serves(listed, Len(listed), n, handlers[n])
               /\ n \notin DOMAIN handlers => Serves(listed, Len(listed), n, NoHandler)
    BY DEF ContainerInv, TableInv
  <1>7. \A n : /\ n \in DOMAIN handlers' => handlers'[n] # NoHandler
                                            /\ Serves(listed', Len(listed'), n, handlers'[n])
               /\ n \notin DOMAIN handlers' => Serves(listed', Len(listed'), n, NoHandler)
    <2>1. CASE d.handler = NoHandler
      BY <1>1, <1>5, <1>6, <2>1
    <2>2. CASE d.handler # NoHandler
      <3>1. DOMAIN handlers' = DOMAIN handlers \cup {d.name} /\ handlers'[d.name] = d.handler
            /\ \A n \in DOMAIN handlers : handlers'[n] = handlers[n]
        BY <1>1, <2>2
      <3> TAKE n
      <3>2. CASE n = d.name
        BY <1>5, <2>2, <3>1, <3>2
      <3>3. CASE n # d.name
        BY <1>5, <1>6, <3>1, <3>3
      <3> QED
        BY <3>2, <3>3
    <2> QED
      BY <2>1, <2>2
  <1>8. TableInv'
    BY <1>7 DEF TableInv
  <1>9. WalkInv'
    <2> SUFFICES ASSUME walk.undisturbed, walk.cursor # NoCursor
                 PROVE  walk.cursor \in 0..Len(listed') /\ walk.got = SubSeq(listed', 1, walk.cursor)
      BY <1>1 DEF WalkInv
    <2> DEFINE c == walk.cursor
    <2>1. c \in 0..Len(listed) /\ walk.got = SubSeq(listed, 1, c)
      BY DEF ContainerInv, WalkInv
    <2> HIDE DEF c
    <2>2. SubSeq(listed', 1, c) = SubSeq(listed, 1, c)
      <3>1. \A i \in 1..c : listed'[i] = listed[i]
        BY <1>2, <1>3, <2>1
      <3>2. c \in Nat
        BY <1>2, <2>1
      <3>3. \A i \in 1..c : listed[i] \in Definitions /\ listed'[i] \in Definitions
        BY <1>2, <1>3, <2>1, <3>1, ElementOfSeq
      <3> DEFINE p == SubSeq(listed', 1, c)
                 q == SubSeq(listed, 1, c)
      <3>4. q \in Seq(Definitions) /\ Len(q) = c /\ \A i \in 1..c : q[i] = listed[i]
        BY <1>2, <3>2, <3>3, SubSeqProperties
      <3>5. p \in Seq(Definitions) /\ Len(p) = c /\ \A i \in 1..c : p[i] = listed'[i]
        BY <1>3, <3>2, <3>3, SubSeqProperties
      <3> HIDE DEF p, q
      <3>6. p = q
        BY <3>1, <3>4, <3>5, SeqEqual
      <3> QED
        BY <3>6 DEF p, q
    <2>3. c \in 0..Len(listed')
      BY <1>2, <1>3, <2>1
    <2> QED
      BY <2>1, <2>2, <2>3 DEF c
  <1> QED
    BY <1>4, <1>8, <1>9 DEF ContainerInv

\* A removed name is neither listed nor dispatched; the others are as before.
LEMMA RemovedIsGone ==
  ASSUME ContainerInv, NEW name, RemoveDefinition(name)
  PROVE  ContainerInv'
  <1>1. /\ listed' = KeptOf(listed, name)
        /\ handlers' = [n \in DOMAIN handlers \ {name} |-> handlers[n]]
        /\ walk' = Disturbed /\ kind' = kind /\ pageSize' = pageSize
    BY DEF RemoveDefinition
  <1>2. listed \in Seq(Definitions)
    BY DEF ContainerInv, ContainerTypes
  <1>3. /\ listed' \in Seq(Definitions)
        /\ \A n, h : n # name =>
              (Serves(listed', Len(listed'), n, h) <=> Serves(listed, Len(listed), n, h))
        /\ \A h : Serves(listed', Len(listed'), name, h) <=> h = NoHandler
    BY <1>1, <1>2, KeptServes
  <1>4. ContainerTypes'
    BY <1>1, <1>3, DisturbedWalk DEF ContainerInv, ContainerTypes
  <1>5. \A n : /\ n \in DOMAIN handlers => handlers[n] # NoHandler
                                           /\ Serves(listed, Len(listed), n, handlers[n])
               /\ n \notin DOMAIN handlers => Serves(listed, Len(listed), n, NoHandler)
    BY DEF ContainerInv, TableInv
  <1>6. DOMAIN handlers' = DOMAIN handlers \ {name}
        /\ \A n \in DOMAIN handlers \ {name} : handlers'[n] = handlers[n]
    BY <1>1
  <1>7. TableInv'
    BY <1>3, <1>5, <1>6 DEF TableInv
  <1>8. WalkInv'
    BY <1>1, DisturbedWalk DEF ContainerInv, WalkInv
  <1> QED
    BY <1>4, <1>7, <1>8 DEF ContainerInv

\* A page extends what the client has by what follows its cursor.
LEMMA PageKeepsTheWalk ==
  ASSUME ContainerInv, ListPage
  PROVE  ContainerInv'
  <1> DEFINE size == IF kind = "tools" THEN pageSize ELSE PromptPageSize
             page == PageOrRestart(listed, size, walk.cursor)
             sofar == IF walk.cursor = NoCursor THEN <<>> ELSE walk.got
             next == page.next
             items == page.items
  <1>1. /\ walk' = [cursor |-> next, got |-> sofar \o items,
                    undisturbed |-> (walk.cursor = NoCursor \/ walk.undisturbed)]
        /\ kind' = kind /\ listed' = listed /\ handlers' = handlers /\ pageSize' = pageSize
    BY DEF ListPage
  <1>2. /\ size \in Nat \ {0} /\ listed \in Seq(Definitions)
        /\ walk.cursor \in Nat \cup {NoCursor} /\ walk.got \in Seq(Definitions)
        /\ walk.undisturbed \in BOOLEAN
    BY PageAssumption DEF ContainerInv, ContainerTypes
  <1> HIDE DEF size
  <1>3. /\ items \in Seq(Definitions)
        /\ next \in Nat \cup {NoCursor}
        /\ next # NoCursor => next \in 0..Len(listed)
        /\ next # NoCursor /\ walk.cursor \in 0..Len(listed) =>
              SubSeq(listed, 1, walk.cursor) \o items = SubSeq(listed, 1, next)
        /\ next # NoCursor /\ walk.cursor = NoCursor => items = SubSeq(listed, 1, next)
    BY <1>2, PageFollows
  <1> HIDE DEF page, next, items
  <1>4. sofar \in Seq(Definitions) /\ sofar \o items \in Seq(Definitions)
    <2>1. sofar \in Seq(Definitions)
      BY <1>2, EmptySeq
    <2> QED
      BY <1>3, <2>1, ConcatProperties
  <1>5. walk.cursor = NoCursor => sofar \o items = items
    BY <1>3, ConcatEmptySeq
  <1>6. walk.cursor # NoCursor => sofar = walk.got
    OBVIOUS
  <1> HIDE DEF sofar
  <1>7. walk'.cursor = next /\ walk'.got = sofar \o items
        /\ walk'.undisturbed = (walk.cursor = NoCursor \/ walk.undisturbed)
    BY <1>1
  <1>8. ContainerTypes'
    BY <1>1, <1>2, <1>3, <1>4 DEF ContainerInv, ContainerTypes
  <1>9. TableInv'
    BY <1>1 DEF ContainerInv, TableInv
  <1>10. WalkInv'
    <2> SUFFICES ASSUME walk'.undisturbed, next # NoCursor
                 PROVE  next \in 0..Len(listed) /\ sofar \o items = SubSeq(listed, 1, next)
      BY <1>1, <1>7 DEF WalkInv
    <2>1. CASE walk.cursor = NoCursor
      BY <1>3, <1>5, <2>1
    <2>2. CASE walk.cursor # NoCursor
      <3>1. walk.undisturbed
        BY <1>7, <2>2
      <3>2. walk.cursor \in 0..Len(listed) /\ walk.got = SubSeq(listed, 1, walk.cursor)
        BY <2>2, <3>1 DEF ContainerInv, WalkInv
      <3> QED
        BY <1>3, <1>6, <2>2, <3>2
    <2> QED
      BY <2>1, <2>2
  <1> QED
    BY <1>8, <1>9, <1>10 DEF ContainerInv

\* Every step keeps the invariant of the container.
LEMMA ContainerStepKeeps ==
  ASSUME ContainerInv, [ContainerNext]_containerVars
  PROVE  ContainerInv'
  <1>1. ASSUME NEW d \in Definitions, NEW e \in Definitions, ReplaceDefinitions(<<d, e>>)
        PROVE  ContainerInv'
    <2>1. <<d, e>> \in Seq(Definitions)
      OBVIOUS
    <2> QED
      BY <1>1, <2>1, ReplacedIsServed
  <1>2. CASE ReplaceDefinitions(<<>>)
    <2>1. <<>> \in Seq(Definitions)
      BY EmptySeq
    <2> QED
      BY <1>2, <2>1, ReplacedIsServed
  <1>3. ASSUME NEW d \in Definitions, AddDefinition(d) PROVE ContainerInv'
    BY <1>3, AddedIsServed
  <1>4. ASSUME NEW d \in Definitions, RemoveDefinition(d.name) PROVE ContainerInv'
    BY <1>4, RemovedIsGone
  <1>5. ASSUME NEW n \in PageSizes, SetPageSize(n) PROVE ContainerInv'
    BY <1>5, PageAssumption
       DEF SetPageSize, ContainerInv, ContainerTypes, TableInv, WalkInv
  <1>6. CASE ListPage
    BY <1>6, PageKeepsTheWalk
  <1>7. CASE UNCHANGED containerVars
    BY <1>7 DEF containerVars, ContainerInv, ContainerTypes, TableInv, WalkInv
  <1> QED
    BY <1>1, <1>2, <1>3, <1>4, <1>5, <1>6, <1>7 DEF ContainerNext

\* The constructors establish it.
LEMMA ContainerStarts ==
  ASSUME ContainerInit
  PROVE  ContainerInv
  <1>1. PICK defs \in {<<>>} \cup {<<d>> : d \in Definitions} :
           listed = defs /\ handlers = HandlersOf(defs)
    BY DEF ContainerInit
  <1>2. defs \in Seq(Definitions)
    <2>1. \A d \in Definitions : <<d>> \in Seq(Definitions)
      OBVIOUS
    <2>2. CASE defs = <<>>
      BY <2>2, EmptySeq
    <2>3. CASE defs # <<>>
      <3>1. PICK d \in Definitions : defs = <<d>>
        BY <2>3
      <3> QED
        BY <2>1, <3>1
    <2> QED
      BY <2>2, <2>3
  <1>3. walk = [cursor |-> NoCursor, got |-> <<>>, undisturbed |-> TRUE]
        /\ kind \in {"tools", "prompts"} /\ pageSize = PromptPageSize
    BY DEF ContainerInit
  <1>4. ContainerTypes
    <2>1. <<>> \in Seq(Definitions)
      BY EmptySeq
    <2> QED
      BY <1>1, <1>2, <1>3, <2>1, PageAssumption DEF ContainerTypes
  <1>5. TableInv
    <2>1. \A n : /\ n \in DOMAIN HandlersOf(defs) =>
                      /\ HandlersOf(defs)[n] # NoHandler
                      /\ Serves(defs, Len(defs), n, HandlersOf(defs)[n])
                 /\ n \notin DOMAIN HandlersOf(defs) => Serves(defs, Len(defs), n, NoHandler)
      BY <1>2, TableOfList
    <2> QED
      BY <1>1, <2>1 DEF TableInv
  <1>6. WalkInv
    BY <1>3 DEF WalkInv
  <1> QED
    BY <1>4, <1>5, <1>6 DEF ContainerInv

\* The invariant says that what is listed is served.
LEMMA ServedAsListed ==
  ASSUME ContainerInv
  PROVE  ListedIsServed
  <1>1. Len(listed) \in Nat /\ DOMAIN listed = 1..Len(listed)
    BY LenProperties DEF ContainerInv, ContainerTypes
  <1>2. ASSUME NEW d \in Definitions
        PROVE  LET able == {i \in Named(d.name) : listed[i].handler # NoHandler}
               IN  Call(d.name) =
                     IF able = {} \/ d.name = EmptyName THEN NoHandler
                     ELSE listed[CHOOSE i \in able : \A j \in able : j <= i].handler
    <2> DEFINE n == d.name
               able == {i \in Named(n) : listed[i].handler # NoHandler}
               k == CHOOSE i \in able : \A j \in able : j <= i
    <2>1. able = Able(listed, Len(listed), n)
      BY <1>1 DEF Named, Able
    <2>2. Serves(listed, Len(listed), n, IF n \in DOMAIN handlers THEN handlers[n] ELSE NoHandler)
      BY DEF ContainerInv, TableInv
    <2>3. CASE n = EmptyName
      BY <2>3 DEF Call
    <2>4. CASE n # EmptyName
      <3>1. Call(n) = IF n \in DOMAIN handlers THEN handlers[n] ELSE NoHandler
        BY <2>4 DEF Call
      <3>2. Serves(listed, Len(listed), n, Call(n))
        BY <2>2, <3>1
      <3> HIDE DEF n, able
      <3>3. CASE able = {}
        <4>1. Call(n) = NoHandler
          BY <2>1, <3>2, <3>3 DEF Serves
        <4> QED
          BY <3>3, <4>1 DEF n, able
      <3>4. CASE able # {}
        <4>1. PICK i \in able : (\A j \in able : j <= i) /\ Call(n) = listed[i].handler
          BY <2>1, <3>2, <3>4 DEF Serves
        <4>2. k \in able /\ \A j \in able : j <= k
          BY <4>1
        <4>3. i \in Nat /\ k \in Nat /\ i <= k /\ k <= i
          BY <2>1, <4>1, <4>2 DEF Able
        <4>4. Call(n) = listed[k].handler
          BY <4>1, <4>3
        <4> QED
          BY <2>4, <3>4, <4>4 DEF n, able
      <3> QED
        BY <3>3, <3>4
    <2> QED
      BY <2>3, <2>4
  <1>3. DispatchMatchesList
    BY <1>2 DEF DispatchMatchesList
  <1>4. WalkSkipsNothing
    BY DEF WalkSkipsNothing, ContainerInv, WalkInv
  <1> QED
    BY <1>3, <1>4 DEF ListedIsServed

\* Whatever replacing, adding, removing and changing of the page size a
\* container of tools or prompts goes through, a call reaches the handler of the
\* last listed definition of its name that has one, and a client that follows
\* the cursors undisturbed has exactly the list up to its cursor.
THEOREM ListedStaysServed == ContainerSpec => []ListedIsServed
  <1>1. ContainerInit => ContainerInv
    BY ContainerStarts
  <1>2. ContainerInv /\ [ContainerNext]_containerVars => ContainerInv'
    BY ContainerStepKeeps
  <1>3. ContainerInv => ListedIsServed
    BY ServedAsListed
  <1> QED
    BY <1>1, <1>2, <1>3, PTL DEF ContainerSpec

-----------------------------------------------------------------------------
(* The files and their watcher *)

FsEvents == ({"write"} \X Files) \cup ({"create", "remove"} \X (Files \cup Dirs))

ADebouncer == [pending : BOOLEAN, timer : BOOLEAN, flush : {"no", "started", "firing"}]

ASubscription == [at : {"out", "storing", "on", "cancelled"}, file : Files,
                  signal : BOOLEAN, told : Int, base : Int]

AList == [on : BOOLEAN, signal : BOOLEAN, seen : SUBSET Files, blind : SUBSET Files]

FsTypes ==
    /\ mode \in {"poll", "fsnotify"} /\ debounced \in BOOLEAN
    /\ dirs \subseteq Dirs \cup {Root} /\ Root \in dirs
    /\ content \in [Files -> Int] /\ lastSnap \in [Files -> Nat]
    /\ watching \in {"off", "starting", "on"} /\ watched \subseteq dirs
    /\ events \in Seq(FsEvents)
    /\ toMark \subseteq Files /\ listDue \in BOOLEAN
    /\ debouncer \in [Files -> ADebouncer] /\ sub \in [FileSubs -> ASubscription]
    /\ list \in AList

\* The last snapshot is not ahead of the tree, and files that are there, or
\* were when the client listed them, are in directories that are there.
TreeInv ==
    \A f \in Files :
        /\ lastSnap[f] <= Version(f)
        /\ content[f] > 0 \/ f \in list.seen => DirOf[f] \in dirs

\* A flush that is pending will come.
DebounceInv ==
    \A f \in Files : debouncer[f].pending => debouncer[f].timer \/ debouncer[f].flush = "started"

\* Before fsnotify runs nothing is watched; from then on a directory of the
\* root is watched, or its creation is an event to be handled.
WatchInv ==
    /\ mode = "poll" \/ watching # "on" => watched = {} /\ events = <<>>
    /\ mode = "fsnotify" /\ watching = "on" =>
          /\ Root \in watched
          /\ \A d \in dirs \ watched : Parent[d] = Root => Queued("create", d)

\* Why the poller will see that a client's list is wrong about a file.
PolledList ==
    mode = "poll" /\ watching = "on" /\ list.on /\ ~list.signal /\ ~listDue =>
        \A f \in Files :
            /\ lastSnap[f] > 0 /\ f \notin list.seen => content[f] # lastSnap[f] \/ f \in list.blind
            /\ lastSnap[f] = 0 /\ f \in list.seen => f \in list.blind

\* Why fsnotify will.
NotifiedList ==
    mode = "fsnotify" /\ watching = "on" /\ list.on /\ ~list.signal =>
        \A f \in Files :
            ~(f \in list.seen <=> content[f] > 0) =>
                Queued("create", f) \/ Queued("remove", f) \/ DirOf[f] \notin watched

FsInv ==
    /\ FsTypes /\ TreeInv /\ DebounceInv /\ WatchInv /\ PolledList /\ NotifiedList
    /\ FileUpdateReaches

\* A queued event stays when another is appended ...
LEMMA EventAppended == ASSUME NEW q \in Seq(FsEvents), NEW e \in FsEvents
                       PROVE  /\ Append(q, e) \in Seq(FsEvents) /\ Append(q, e) # <<>>
                              /\ Contains(Append(q, e), e)
                              /\ \A x : Contains(q, x) => Contains(Append(q, e), x)
  <1>1. /\ Append(q, e) \in Seq(FsEvents) /\ Append(q, e) # <<>>
        /\ Len(q) \in Nat /\ Len(Append(q, e)) = Len(q) + 1
        /\ \A i \in 1..Len(q) : Append(q, e)[i] = q[i]
        /\ Append(q, e)[Len(q) + 1] = e
    BY AppendProperties, LenProperties
  <1> QED
    BY <1>1 DEF Contains

\* ... and when another is taken.
LEMMA EventTaken == ASSUME NEW q \in Seq(FsEvents), q # <<>>
                    PROVE  /\ Tail(q) \in Seq(FsEvents) /\ Head(q) \in FsEvents
                           /\ \A x : Contains(q, x) => x = Head(q) \/ Contains(Tail(q), x)
  <1>1. /\ Tail(q) \in Seq(FsEvents) /\ Head(q) \in FsEvents /\ Head(q) = q[1]
        /\ Len(q) \in Nat \ {0} /\ Len(Tail(q)) = Len(q) - 1
        /\ \A i \in 1..Len(Tail(q)) : Tail(q)[i] = q[i + 1]
    BY HeadTailProperties, EmptySeq, LenProperties, ElementOfSeq
  <1>2. ASSUME NEW x, Contains(q, x), x # Head(q) PROVE Contains(Tail(q), x)
    <2>1. PICK i \in 1..Len(q) : q[i] = x
      BY <1>2 DEF Contains
    <2>2. i - 1 \in 1..Len(Tail(q)) /\ Tail(q)[i - 1] = x
      BY <1>1, <1>2, <2>1
    <2> QED
      BY <2>2 DEF Contains
  <1> QED
    BY <1>1, <1>2

\* What a change of the tree does to the queue.
LEMMA SeenKeeps ==
  ASSUME FsTypes, NEW dir, NEW op, NEW name, <<op, name>> \in FsEvents, Seen(dir, op, name)
  PROVE  /\ events' \in Seq(FsEvents)
         /\ \A x : Contains(events, x) => Contains(events', x)
         /\ dir \in watched => Contains(events', <<op, name>>) /\ events' # <<>>
         /\ events # <<>> => events' # <<>>
         /\ dir \notin watched => events' = events
  <1> DEFINE e == <<op, name>>
  <1>1. e \in FsEvents /\ events \in Seq(FsEvents)
    BY DEF FsTypes, FsEvents
  <1>2. events' = IF dir \in watched THEN Append(events, e) ELSE events
    BY DEF Seen
  <1> HIDE DEF e
  <1>3. /\ events' \in Seq(FsEvents)
        /\ \A x : Contains(events, x) => Contains(events', x)
        /\ dir \in watched => Contains(events', e) /\ events' # <<>>
        /\ events # <<>> => events' # <<>>
        /\ dir \notin watched => events' = events
    BY <1>1, <1>2, EventAppended
  <1> QED
    BY <1>3 DEF e

\* What a subscriber is after the watcher took a version for granted.
LEMMA BaselineKeeps ==
  ASSUME FsTypes, NEW new
  PROVE  /\ Baseline(new) \in [FileSubs -> ASubscription]
         /\ \A s \in FileSubs : /\ Baseline(new)[s].at = sub[s].at
                                /\ Baseline(new)[s].file = sub[s].file
                                /\ Baseline(new)[s].signal = sub[s].signal
                                /\ Baseline(new)[s].told = sub[s].told
                                /\ Baseline(new)[s].base =
                                      IF sub[s].at = "on" /\ sub[s].file \in new
                                      THEN content[sub[s].file] ELSE sub[s].base
  <1>1. ASSUME NEW s \in FileSubs
        PROVE  /\ Baseline(new)[s] \in ASubscription
               /\ Baseline(new)[s].at = sub[s].at
               /\ Baseline(new)[s].file = sub[s].file
               /\ Baseline(new)[s].signal = sub[s].signal
               /\ Baseline(new)[s].told = sub[s].told
               /\ Baseline(new)[s].base = IF sub[s].at = "on" /\ sub[s].file \in new
                                          THEN content[sub[s].file] ELSE sub[s].base
    <2>1. sub[s] \in ASubscription /\ content[sub[s].file] \in Int
      BY DEF FsTypes, ASubscription
    <2>2. Baseline(new)[s] = IF sub[s].at = "on" /\ sub[s].file \in new
                             THEN [sub[s] EXCEPT !.base = content[sub[s].file]] ELSE sub[s]
      BY DEF Baseline
    <2> QED
      BY <2>1, <2>2 DEF ASubscription
  <1>2. Baseline(new) = [s \in FileSubs |-> Baseline(new)[s]]
    BY DEF Baseline
  <1> QED
    BY <1>1, <1>2

\* What one is after the notifier of a file signalled.
LEMMA NotifiedKeeps ==
  ASSUME FsTypes, NEW g
  PROVE  /\ Notified(g) \in [FileSubs -> ASubscription]
         /\ \A s \in FileSubs : /\ Notified(g)[s].at = sub[s].at
                                /\ Notified(g)[s].file = sub[s].file
                                /\ Notified(g)[s].told = sub[s].told /\ Notified(g)[s].base = sub[s].base
                                /\ sub[s].signal => Notified(g)[s].signal
                                /\ sub[s].at = "on" /\ sub[s].file = g => Notified(g)[s].signal
  <1>1. ASSUME NEW s \in FileSubs
        PROVE  /\ Notified(g)[s] \in ASubscription
               /\ Notified(g)[s].at = sub[s].at
               /\ Notified(g)[s].file = sub[s].file
               /\ Notified(g)[s].told = sub[s].told /\ Notified(g)[s].base = sub[s].base
               /\ sub[s].signal => Notified(g)[s].signal
               /\ sub[s].at = "on" /\ sub[s].file = g => Notified(g)[s].signal
    <2>1. sub[s] \in ASubscription
      BY DEF FsTypes, ASubscription
    <2>2. Notified(g)[s] = IF sub[s].at = "on" /\ sub[s].file = g
                           THEN [sub[s] EXCEPT !.signal = TRUE] ELSE sub[s]
      BY DEF Notified
    <2> QED
      BY <2>1, <2>2 DEF ASubscription
  <1>2. Notified(g) = [s \in FileSubs |-> Notified(g)[s]]
    BY DEF Notified
  <1> QED
    BY <1>1, <1>2

\* What a trigger does: it signals the file's subscribers at once, or sees to
\* it that the debouncer will.
LEMMA TriggerKeeps ==
  ASSUME FsTypes, DebounceInv, NEW g \in Files, Trigger(g)
  PROVE  /\ debouncer' \in [Files -> ADebouncer] /\ sub' \in [FileSubs -> ASubscription]
         /\ DebounceInv'
         /\ \A s \in FileSubs : /\ sub'[s].at = sub[s].at /\ sub'[s].file = sub[s].file
                                /\ sub'[s].told = sub[s].told /\ sub'[s].base = sub[s].base
                                /\ sub[s].signal => sub'[s].signal
                                /\ sub[s].at = "on" /\ sub[s].file = g =>
                                      \/ sub'[s].signal
                                      \/ debouncer'[g].timer \/ debouncer'[g].flush # "no"
         /\ \A f \in Files : debouncer[f].timer \/ debouncer[f].flush # "no" =>
                                debouncer'[f].timer \/ debouncer'[f].flush # "no"
  <1>0. debouncer \in [Files -> ADebouncer] /\ sub \in [FileSubs -> ASubscription]
    BY DEF FsTypes, ADebouncer, ASubscription
  <1>1. CASE ~debounced
    <2>1. sub' = Notified(g) /\ debouncer' = debouncer
      BY <1>1 DEF Trigger
    <2> QED
      BY <1>0, <2>1, NotifiedKeeps DEF DebounceInv
  <1>2. CASE debounced
    <2>1. sub' = sub /\ debouncer' = [debouncer EXCEPT ![g] =
                IF @.pending THEN @ ELSE [@ EXCEPT !.pending = TRUE, !.timer = TRUE]]
      BY <1>2 DEF Trigger
    <2>2. /\ debouncer' \in [Files -> ADebouncer]
          /\ debouncer'[g].pending /\ (debouncer'[g].timer \/ debouncer'[g].flush = "started")
          /\ \A f \in Files \ {g} : debouncer'[f] = debouncer[f]
      <3>1. CASE debouncer[g].pending
        BY <1>0, <2>1, <3>1 DEF DebounceInv, ADebouncer
      <3>2. CASE ~debouncer[g].pending
        BY <1>0, <2>1, <3>2 DEF ADebouncer
      <3> QED
        BY <3>1, <3>2
    <2>3. debouncer'[g].timer \/ debouncer'[g].flush # "no"
      BY <2>2
    <2> QED
      BY <1>0, <2>1, <2>2, <2>3 DEF DebounceInv
  <1> QED
    BY <1>1, <1>2 DEF FsTypes

\* What the timer does to a debouncer ...
LEMMA DebouncerSteps ==
  ASSUME FsTypes, NEW f \in Files
  PROVE  /\ TimerExpires(f) \/ Flush(f) \/ Fire(f) =>
               /\ debouncer' \in [Files -> ADebouncer]
               /\ \A g \in Files \ {f} : debouncer'[g] = debouncer[g]
         /\ TimerExpires(f) => ~debouncer'[f].timer /\ debouncer'[f].flush = "started"
         /\ Flush(f) => ~debouncer'[f].pending /\ debouncer'[f].flush = "firing"
         /\ Fire(f) => /\ debouncer'[f].pending = debouncer[f].pending
                       /\ debouncer'[f].timer = debouncer[f].timer
                       /\ debouncer'[f].flush = "no"
  <1>0. debouncer \in [Files -> ADebouncer]
    BY DEF FsTypes
  <1>1. ASSUME TimerExpires(f)
        PROVE  /\ debouncer' \in [Files -> ADebouncer]
               /\ \A g \in Files \ {f} : debouncer'[g] = debouncer[g]
               /\ ~debouncer'[f].timer /\ debouncer'[f].flush = "started"
    <2>1. debouncer' = [debouncer EXCEPT ![f].timer = FALSE, ![f].flush = "started"]
      BY <1>1 DEF TimerExpires
    <2> QED
      BY <1>0, <2>1 DEF ADebouncer
  <1>2. ASSUME Flush(f)
        PROVE  /\ debouncer' \in [Files -> ADebouncer]
               /\ \A g \in Files \ {f} : debouncer'[g] = debouncer[g]
               /\ ~debouncer'[f].pending /\ debouncer'[f].flush = "firing"
    <2>1. debouncer' = [debouncer EXCEPT ![f].pending = FALSE, ![f].flush = "firing"]
      BY <1>2 DEF Flush
    <2> QED
      BY <1>0, <2>1 DEF ADebouncer
  <1>3. ASSUME Fire(f)
        PROVE  /\ debouncer' \in [Files -> ADebouncer]
               /\ \A g \in Files \ {f} : debouncer'[g] = debouncer[g]
               /\ debouncer'[f].pending = debouncer[f].pending
               /\ debouncer'[f].timer = debouncer[f].timer /\ debouncer'[f].flush = "no"
    <2>1. debouncer' = [debouncer EXCEPT ![f].flush = "no"]
      BY <1>3 DEF Fire
    <2> QED
      BY <1>0, <2>1 DEF ADebouncer
  <1> QED
    BY <1>1, <1>2, <1>3

\* ... and a caller to its subscription.
LEMMA SubscriberSteps ==
  ASSUME FsTypes, NEW s \in FileSubs
  PROVE  /\ \A f \in Files : Subscribe(s, f) =>
               /\ sub' \in [FileSubs -> ASubscription] /\ sub'[s].at = "storing"
               /\ \A t \in FileSubs \ {s} : sub'[t] = sub[t]
         /\ SubscribeStored(s) \/ CancelSubscription(s) \/ Forward(s) =>
               /\ sub' \in [FileSubs -> ASubscription]
               /\ sub'[s].at # "on" \/ sub'[s].told = content[sub'[s].file]
               /\ \A t \in FileSubs \ {s} : sub'[t] = sub[t]
  <1>0. sub \in [FileSubs -> ASubscription]
    BY DEF FsTypes
  <1>1. ASSUME NEW f \in Files, Subscribe(s, f)
        PROVE  /\ sub' \in [FileSubs -> ASubscription] /\ sub'[s].at = "storing"
               /\ \A t \in FileSubs \ {s} : sub'[t] = sub[t]
    <2>1. sub' = [sub EXCEPT ![s].at = "storing", ![s].file = f]
      BY <1>1 DEF Subscribe
    <2> QED
      BY <1>0, <2>1 DEF ASubscription
  <1> DEFINE c == content[sub[s].file]
  <1>2. c \in Int
    BY DEF FsTypes, ASubscription
  <1> DEFINE Kept == /\ sub' \in [FileSubs -> ASubscription]
                     /\ sub'[s].file = sub[s].file
                     /\ sub'[s].at = "cancelled" \/ sub'[s].told = c
                     /\ \A t \in FileSubs \ {s} : sub'[t] = sub[t]
  <1>4. CASE SubscribeStored(s)
    <2>1. sub' = [sub EXCEPT ![s].at = "on", ![s].told = c]
      BY <1>4 DEF SubscribeStored
    <2> HIDE DEF c
    <2>2. Kept
      BY <1>0, <1>2, <2>1 DEF ASubscription
    <2> QED
      BY <1>1, <2>2 DEF c
  <1>5. CASE CancelSubscription(s)
    <2>1. sub' = [sub EXCEPT ![s].at = "cancelled"]
      BY <1>5 DEF CancelSubscription
    <2>2. Kept
      BY <1>0, <2>1 DEF ASubscription
    <2> QED
      BY <1>1, <2>2 DEF c
  <1>6. CASE Forward(s)
    <2>1. sub' = [sub EXCEPT ![s].signal = FALSE, ![s].told = c]
      BY <1>6 DEF Forward
    <2> HIDE DEF c
    <2>2. Kept
      BY <1>0, <1>2, <2>1 DEF ASubscription
    <2> QED
      BY <1>1, <2>2 DEF c
  <1> QED
    BY <1>1, <1>4, <1>5, <1>6

\* ... and what the client's list is after each step that touches it.
LEMMA ListSteps ==
  ASSUME FsTypes
  PROVE  /\ RegisterList \/ ListAgain =>
               list'.seen = Present /\ list'.blind = Fleeting /\ ~list'.signal
         /\ ListAgain => list'.on = list.on
         /\ SignalList => /\ list'.on = list.on /\ list'.signal = list.on
                          /\ list'.seen = list.seen /\ list'.blind = list.blind
         /\ Prime => /\ list'.on = list.on
                     /\ mode = "poll" => list'.seen = list.seen /\ list'.blind = Differing
                     /\ mode = "fsnotify" => list'.signal = list.on /\ list'.seen = list.seen
  <1>0. list \in AList
    BY DEF FsTypes
  <1>1. ASSUME RegisterList
        PROVE  list'.seen = Present /\ list'.blind = Fleeting /\ ~list'.signal
    BY <1>1 DEF RegisterList
  <1>2. ASSUME ListAgain
        PROVE  /\ list'.seen = Present /\ list'.blind = Fleeting /\ ~list'.signal
               /\ list'.on = list.on
    <2>1. list' = [list EXCEPT !.signal = FALSE, !.seen = Present, !.blind = Fleeting]
      BY <1>2 DEF ListAgain
    <2> QED
      BY <1>0, <2>1 DEF AList
  <1>3. ASSUME SignalList
        PROVE  /\ list'.on = list.on /\ list'.signal = list.on
               /\ list'.seen = list.seen /\ list'.blind = list.blind
    BY <1>0, <1>3 DEF SignalList, AList
  <1>4. ASSUME Prime
        PROVE  /\ list'.on = list.on
               /\ mode = "poll" => list'.seen = list.seen /\ list'.blind = Differing
               /\ mode = "fsnotify" => list'.signal = list.on /\ list'.seen = list.seen
    <2>1. CASE mode = "poll"
      <3>1. list' = [list EXCEPT !.blind = Differing]
        BY <1>4, <2>1 DEF Prime
      <3> QED
        BY <1>0, <2>1, <3>1 DEF AList
    <2>2. CASE mode = "fsnotify"
      <3>1. list' = [list EXCEPT !.signal = list.on]
        BY <1>4, <2>2 DEF Prime
      <3> QED
        BY <1>0, <2>2, <3>1 DEF AList
    <2> QED
      BY <2>1, <2>2 DEF FsTypes
  <1> QED
    BY <1>1, <1>2, <1>3, <1>4

\* Every step keeps the types.
LEMMA FsTypesStep == FsTypes /\ DebounceInv /\ [FsNext]_fsVars => FsTypes'
  <1> SUFFICES ASSUME FsTypes, DebounceInv, [FsNext]_fsVars PROVE FsTypes'
    OBVIOUS
  <1>1. ASSUME NEW d \in Dirs, Mkdir(d) PROVE FsTypes'
    <2>1. events' \in Seq(FsEvents)
      BY <1>1, SeenKeeps DEF Mkdir, FsEvents
    <2> QED
      BY <1>1, <2>1 DEF Mkdir, FsTypes
  <1>2. ASSUME NEW f \in Files, WriteFile(f) PROVE FsTypes'
    <2> DEFINE op == IF content[f] > 0 THEN "write" ELSE "create"
    <2>0. Seen(DirOf[f], op, f) /\ <<op, f>> \in FsEvents
      BY <1>2 DEF WriteFile, FsEvents
    <2> HIDE DEF op
    <2>1. events' \in Seq(FsEvents)
      BY <2>0, SeenKeeps
    <2>2. content' \in [Files -> Int]
      BY <1>2 DEF WriteFile, FsTypes, Version
    <2> QED
      BY <1>2, <2>1, <2>2 DEF WriteFile, FsTypes
  <1>3. ASSUME NEW f \in Files, RemoveFile(f) PROVE FsTypes'
    <2>1. events' \in Seq(FsEvents)
      BY <1>3, SeenKeeps DEF RemoveFile, FsEvents
    <2>2. content' \in [Files -> Int]
      BY <1>3 DEF RemoveFile, FsTypes
    <2> QED
      BY <1>3, <2>1, <2>2 DEF RemoveFile, FsTypes
  <1>4. ASSUME NEW f \in Files, PollMarks(f) PROVE FsTypes'
    <2>1. debouncer' \in [Files -> ADebouncer] /\ sub' \in [FileSubs -> ASubscription]
      BY <1>4, TriggerKeeps DEF PollMarks
    <2> QED
      BY <1>4, <2>1 DEF PollMarks, FsTypes, treeVars
  <1>5. ASSUME NEW f \in Files, TimerExpires(f) \/ Flush(f) \/ Fire(f) PROVE FsTypes'
    <2>1. debouncer' \in [Files -> ADebouncer]
      BY <1>5, DebouncerSteps
    <2>2. sub' \in [FileSubs -> ASubscription]
      BY <1>5, NotifiedKeeps DEF TimerExpires, Flush, Fire, FsTypes
    <2> QED
      BY <1>5, <2>1, <2>2 DEF TimerExpires, Flush, Fire, FsTypes, treeVars, watcherVars
  <1>6. ASSUME NEW s \in FileSubs, NEW f \in Files, Subscribe(s, f) PROVE FsTypes'
    <2>1. sub' \in [FileSubs -> ASubscription]
      BY <1>6, SubscriberSteps
    <2> QED
      BY <1>6, <2>1 DEF Subscribe, StartWatcher, FsTypes, treeVars
  <1>7. ASSUME NEW s \in FileSubs, SubscribeStored(s) \/ CancelSubscription(s) \/ Forward(s)
        PROVE  FsTypes'
    <2>2. sub' \in [FileSubs -> ASubscription]
      BY <1>7, SubscriberSteps
    <2> QED
      BY <1>7, <2>2 DEF SubscribeStored, CancelSubscription, Forward, FsTypes, treeVars, watcherVars
  <1>8. CASE RegisterList \/ ListAgain
    <2>1. list' \in AList
      <3>1. Present \in SUBSET Files /\ Fleeting \in SUBSET Files
        BY DEF Present, Fleeting
      <3> QED
        <4>1. CASE RegisterList
          BY <4>1, <3>1 DEF RegisterList, AList
        <4>2. CASE ListAgain
          <5>1. list \in AList /\ list' = [list EXCEPT !.signal = FALSE, !.seen = Present,
                                                   !.blind = Fleeting]
            BY <4>2 DEF ListAgain, FsTypes
          <5> QED
            BY <5>1, <3>1 DEF AList
        <4> QED
          BY <1>8, <4>1, <4>2
    <2> QED
      BY <1>8, <2>1 DEF RegisterList, ListAgain, StartWatcher, FsTypes, treeVars, watcherVars
  <1>9. CASE Prime
    <2>1. list' \in AList
      <3>1. Differing \in SUBSET Files
        BY DEF Present, Differing, FsTypes, AList
      <3> QED
        BY <1>9, <3>1 DEF Prime, FsTypes, AList
    <2>2. lastSnap' \in [Files -> Nat] /\ sub' \in [FileSubs -> ASubscription]
      BY <1>9, BaselineKeeps DEF Prime, Snapshot, FsTypes
    <2> QED
      BY <1>9, <2>1, <2>2 DEF Prime, FsTypes, treeVars
  <1>10. CASE Poll
    <2>1. list' \in AList
      BY <1>10 DEF Poll, FsTypes
    <2>2. lastSnap' \in [Files -> Nat]
      BY <1>10 DEF Poll, Snapshot, FsTypes
    <2>3. sub' \in [FileSubs -> ASubscription] /\ toMark' \subseteq Files /\ listDue' = TRUE
      BY <1>10, BaselineKeeps DEF Poll
    <2> QED
      BY <1>10, <2>1, <2>2, <2>3 DEF Poll, FsTypes, treeVars
  <1>11. CASE PollNotifies
    BY <1>11 DEF PollNotifies, SignalList, FsTypes, AList, treeVars
  <1>12. CASE HandleEvent
    <2>1. events' \in Seq(FsEvents) /\ Head(events) \in FsEvents
      BY <1>12, EventTaken DEF HandleEvent, FsTypes
    <2> DEFINE op == Head(events)[1]
               name == Head(events)[2]
    <2>2. watched' \subseteq dirs
      BY <1>12 DEF HandleEvent, WatchedAfter, FsTypes
    <2>3. /\ debouncer' \in [Files -> ADebouncer] /\ sub' \in [FileSubs -> ASubscription]
          /\ list' \in AList
      <3>1. CASE op = "write"
        <4>1. Trigger(name) /\ list' = list
          BY <1>12, <3>1 DEF HandleEvent
        <4> QED
          BY <2>1, <3>1, <4>1, TriggerKeeps DEF FsTypes, FsEvents
      <3>2. CASE op # "write"
        <4>1. SignalList /\ sub' = Baseline({f \in Files : name \in {f, DirOf[f]}})
              /\ debouncer' = debouncer
          BY <1>12, <3>2 DEF HandleEvent
        <4> QED
          BY <4>1, BaselineKeeps DEF FsTypes, AList, SignalList
      <3> QED
        BY <3>1, <3>2
    <2> QED
      BY <1>12, <2>1, <2>2, <2>3 DEF HandleEvent, FsTypes, treeVars
  <1>13. CASE UNCHANGED fsVars
    BY <1>13 DEF fsVars, treeVars, watcherVars, FsTypes
  <1> QED
    BY <1>1, <1>2, <1>3, <1>4, <1>5, <1>6, <1>7, <1>8, <1>9, <1>10, <1>11, <1>12, <1>13 DEF FsNext

\* What an event does: its directory is watched from now on.
LEMMA EventHandled ==
  ASSUME FsTypes, HandleEvent
  PROVE  /\ events' \in Seq(FsEvents) /\ Head(events) \in FsEvents
         /\ \A x : Contains(events, x) => x = Head(events) \/ Contains(events', x)
         /\ watched \subseteq watched'
         /\ \A d \in dirs : Head(events) = <<"create", d>> => d \in watched'
  <1>1. /\ events' \in Seq(FsEvents) /\ Head(events) \in FsEvents
        /\ \A x : Contains(events, x) => x = Head(events) \/ Contains(events', x)
    BY EventTaken DEF HandleEvent, FsTypes
  <1>2. watched' = WatchedAfter(Head(events)[1], Head(events)[2])
    BY DEF HandleEvent
  <1> QED
    BY <1>1, <1>2 DEF WatchedAfter

\* Every step keeps the snapshot behind the tree, and files in directories.
LEMMA TreeStep == FsTypes /\ TreeInv /\ [FsNext]_fsVars => TreeInv'
  <1> SUFFICES ASSUME FsTypes, TreeInv, [FsNext]_fsVars PROVE TreeInv'
    OBVIOUS
  <1>1. ASSUME NEW d \in Dirs, Mkdir(d) PROVE TreeInv'
    BY <1>1 DEF Mkdir, TreeInv, Version
  <1>2. ASSUME NEW f \in Files, WriteFile(f) PROVE TreeInv'
    BY <1>2 DEF WriteFile, TreeInv, Version, FsTypes
  <1>3. ASSUME NEW f \in Files, RemoveFile(f) PROVE TreeInv'
    BY <1>3 DEF RemoveFile, TreeInv, Version, FsTypes
  <1>4. CASE UNCHANGED <<dirs, content, lastSnap, list>>
    BY <1>4 DEF TreeInv, Version
  <1>5. CASE RegisterList \/ ListAgain \/ PollNotifies
    <2>1. list'.seen = Present \/ list'.seen = list.seen
      BY <1>5, ListSteps DEF PollNotifies
    <2> QED
      BY <1>5, <2>1 DEF RegisterList, ListAgain, PollNotifies, TreeInv, Version, Present,
                        treeVars, watcherVars
  <1>6. CASE Prime \/ Poll
    <2>1. list'.seen = list.seen
      BY <1>6, ListSteps DEF FsTypes, Poll
    <2>2. lastSnap' = lastSnap \/ lastSnap' = Snapshot
      BY <1>6 DEF Prime, Poll
    <2>3. \A f \in Files : Snapshot[f] <= Version(f)
      BY DEF FsTypes, Snapshot, Version
    <2>4. UNCHANGED <<dirs, content>>
      BY <1>6 DEF Prime, Poll, treeVars
    <2> QED
      BY <2>1, <2>2, <2>3, <2>4 DEF TreeInv, Version
  <1>7. CASE HandleEvent
    <2>1. list'.seen = list.seen /\ UNCHANGED <<dirs, content, lastSnap>>
      BY <1>7 DEF HandleEvent, SignalList, FsTypes, AList, treeVars
    <2> QED
      BY <2>1 DEF TreeInv, Version
  <1>8. ASSUME NEW f \in Files, PollMarks(f) \/ TimerExpires(f) \/ Flush(f) \/ Fire(f)
        PROVE  UNCHANGED <<dirs, content, lastSnap, list>>
    BY <1>8 DEF PollMarks, TimerExpires, Flush, Fire, treeVars, watcherVars
  <1>9. ASSUME NEW s \in FileSubs, NEW f \in Files, Subscribe(s, f)
        PROVE  UNCHANGED <<dirs, content, lastSnap, list>>
    BY <1>9 DEF Subscribe, treeVars
  <1>10. ASSUME NEW s \in FileSubs, SubscribeStored(s) \/ CancelSubscription(s) \/ Forward(s)
         PROVE  UNCHANGED <<dirs, content, lastSnap, list>>
    BY <1>10 DEF SubscribeStored, CancelSubscription, Forward, treeVars, watcherVars
  <1>11. CASE UNCHANGED fsVars
    BY <1>11, <1>4 DEF fsVars, treeVars, watcherVars
  <1> QED
    BY <1>1, <1>2, <1>3, <1>4, <1>5, <1>6, <1>7, <1>8, <1>9, <1>10, <1>11 DEF FsNext

\* A pending flush is never forgotten.
LEMMA DebounceStep == FsTypes /\ DebounceInv /\ [FsNext]_fsVars => DebounceInv'
  <1> SUFFICES ASSUME FsTypes, DebounceInv, [FsNext]_fsVars PROVE DebounceInv'
    OBVIOUS
  <1>1. CASE UNCHANGED debouncer
    BY <1>1 DEF DebounceInv
  <1>2. ASSUME NEW f \in Files, PollMarks(f) PROVE DebounceInv'
    BY <1>2, TriggerKeeps DEF PollMarks
  <1>3. CASE HandleEvent
    <2>1. Head(events) \in FsEvents
      BY <1>3, EventHandled
    <2>2. CASE Head(events)[1] = "write"
      BY <1>3, <2>1, <2>2, TriggerKeeps DEF HandleEvent, FsEvents
    <2>3. CASE Head(events)[1] # "write"
      BY <1>1, <1>3, <2>3 DEF HandleEvent
    <2> QED
      BY <2>2, <2>3
  <1>4. ASSUME NEW f \in Files, TimerExpires(f) \/ Flush(f) \/ Fire(f) PROVE DebounceInv'
    <2>1. \A g \in Files \ {f} : debouncer'[g] = debouncer[g]
      BY <1>4, DebouncerSteps
    <2>2. debouncer'[f].pending => debouncer'[f].timer \/ debouncer'[f].flush = "started"
      BY <1>4, DebouncerSteps DEF Fire, DebounceInv
    <2> QED
      BY <2>1, <2>2 DEF DebounceInv
  <1>5. ASSUME NEW s \in FileSubs, NEW f \in Files, Subscribe(s, f) PROVE DebounceInv'
    BY <1>1, <1>5 DEF Subscribe
  <1>6. ASSUME NEW s \in FileSubs, SubscribeStored(s) \/ CancelSubscription(s) \/ Forward(s)
        PROVE  DebounceInv'
    BY <1>1, <1>6 DEF SubscribeStored, CancelSubscription, Forward
  <1>7. ASSUME NEW f \in Files, WriteFile(f) \/ RemoveFile(f) PROVE DebounceInv'
    BY <1>1, <1>7 DEF WriteFile, RemoveFile
  <1>8. ASSUME NEW d \in Dirs, Mkdir(d) PROVE DebounceInv'
    BY <1>1, <1>8 DEF Mkdir
  <1>9. CASE RegisterList \/ ListAgain \/ Prime \/ Poll \/ PollNotifies \/ UNCHANGED fsVars
    BY <1>1, <1>9 DEF RegisterList, ListAgain, Prime, Poll, PollNotifies, fsVars
  <1> QED
    BY <1>2, <1>3, <1>4, <1>5, <1>6, <1>7, <1>8, <1>9 DEF FsNext

\* A directory of the root is never lost sight of.
LEMMA WatchStep == FsTypes /\ WatchInv /\ [FsNext]_fsVars => WatchInv'
  <1> SUFFICES ASSUME FsTypes, WatchInv, [FsNext]_fsVars PROVE WatchInv'
    OBVIOUS
  <1>1. CASE UNCHANGED <<mode, dirs, watching, watched, events>>
    BY <1>1 DEF WatchInv, Queued
  <1>2. ASSUME NEW d \in Dirs, Mkdir(d) PROVE WatchInv'
    <2>1. Seen(Parent[d], "create", d) /\ <<"create", d>> \in FsEvents
      BY <1>2 DEF Mkdir, FsEvents
    <2>2. /\ \A x : Contains(events, x) => Contains(events', x)
          /\ Parent[d] \in watched => Contains(events', <<"create", d>>)
          /\ Parent[d] \notin watched => events' = events
      BY <2>1, SeenKeeps
    <2> QED
      BY <1>2, <2>2 DEF Mkdir, WatchInv, Queued
  <1>3. ASSUME NEW f \in Files, WriteFile(f) \/ RemoveFile(f) PROVE WatchInv'
    <2>1. PICK op : Seen(DirOf[f], op, f) /\ <<op, f>> \in FsEvents
      BY <1>3 DEF WriteFile, RemoveFile, FsEvents
    <2>2. /\ \A x : Contains(events, x) => Contains(events', x)
          /\ DirOf[f] \notin watched => events' = events
      BY <2>1, SeenKeeps
    <2> QED
      BY <1>3, <2>2 DEF WriteFile, RemoveFile, WatchInv, Queued
  <1>4. CASE Prime
    BY <1>4 DEF Prime, WatchInv, Queued, FsTypes, treeVars
  <1>5. CASE HandleEvent
    <2>1. /\ UNCHANGED <<mode, dirs, watching>> /\ events # <<>>
          /\ watched' = WatchedAfter(Head(events)[1], Head(events)[2])
      BY <1>5 DEF HandleEvent, treeVars
    <2> QED
      BY <2>1, <1>5, EventHandled DEF WatchInv, Queued
  <1>6. CASE RegisterList
    BY <1>6 DEF RegisterList, StartWatcher, WatchInv, Queued, treeVars, FsTypes
  <1>7. ASSUME NEW s \in FileSubs, NEW f \in Files, Subscribe(s, f) PROVE WatchInv'
    BY <1>7 DEF Subscribe, StartWatcher, WatchInv, Queued, treeVars, FsTypes
  <1>8. ASSUME NEW s \in FileSubs, SubscribeStored(s) \/ CancelSubscription(s) \/ Forward(s)
        PROVE  WatchInv'
    BY <1>1, <1>8 DEF SubscribeStored, CancelSubscription, Forward, treeVars, watcherVars
  <1>9. ASSUME NEW f \in Files, PollMarks(f) \/ TimerExpires(f) \/ Flush(f) \/ Fire(f)
        PROVE  WatchInv'
    BY <1>1, <1>9 DEF PollMarks, TimerExpires, Flush, Fire, treeVars, watcherVars
  <1>10. CASE ListAgain \/ Poll \/ PollNotifies \/ UNCHANGED fsVars
    BY <1>1, <1>10 DEF ListAgain, Poll, PollNotifies, fsVars, treeVars, watcherVars
  <1> QED
    BY <1>2, <1>3, <1>4, <1>5, <1>6, <1>7, <1>8, <1>9, <1>10 DEF FsNext

\* A list that is wrong about a file is put right by the poller.
LEMMA PolledStep == FsTypes /\ TreeInv /\ PolledList /\ [FsNext]_fsVars => PolledList'
  <1> SUFFICES ASSUME FsTypes, TreeInv, PolledList, [FsNext]_fsVars,
                      (mode = "poll" /\ watching = "on" /\ list.on /\ ~list.signal /\ ~listDue)',
                      NEW f \in Files
               PROVE  /\ (lastSnap[f] > 0 /\ f \notin list.seen => content[f] # lastSnap[f] \/ f \in list.blind)'
                      /\ (lastSnap[f] = 0 /\ f \in list.seen => f \in list.blind)'
    BY DEF PolledList
  <1> DEFINE Goal == /\ (lastSnap[f] > 0 /\ f \notin list.seen => content[f] # lastSnap[f] \/ f \in list.blind)'
                     /\ (lastSnap[f] = 0 /\ f \in list.seen => f \in list.blind)'
  <1> USE DEF PolledList
  <1>1. CASE UNCHANGED <<mode, content, watching, lastSnap, listDue, list>>
    BY <1>1
  <1>2. ASSUME NEW g \in Files, WriteFile(g) \/ RemoveFile(g) PROVE Goal
    <2>1. UNCHANGED <<mode, watching, lastSnap, listDue, list>>
      BY <1>2 DEF WriteFile, RemoveFile
    <2>2. \/ content'[f] = content[f]
          \/ content'[f] = Version(f) + 1 \/ (content'[f] = -content[f] /\ content[f] > 0)
      BY <1>2 DEF WriteFile, RemoveFile, FsTypes
    <2> QED
      BY <2>1, <2>2 DEF FsTypes, TreeInv, Version
  <1>3. CASE RegisterList \/ ListAgain
    <2>1. /\ UNCHANGED <<mode, content, lastSnap, listDue>>
          /\ list'.seen = Present /\ list'.blind = Fleeting
      BY <1>3, ListSteps DEF RegisterList, ListAgain, treeVars, watcherVars
    <2> QED
      BY <2>1 DEF Present, Fleeting, FsTypes
  <1>4. CASE Prime
    <2>1. /\ UNCHANGED <<mode, content>> /\ lastSnap' = Snapshot
          /\ list'.seen = list.seen /\ list'.blind = Differing
      BY <1>4, ListSteps DEF Prime, treeVars
    <2> QED
      BY <2>1 DEF Present, Differing, Snapshot, FsTypes
  <1>5. CASE Poll
    BY <1>5 DEF Poll
  <1>6. CASE PollNotifies
    BY <1>6, ListSteps DEF PollNotifies
  <1>7. CASE HandleEvent
    <2>1. UNCHANGED <<mode, content, watching, lastSnap, listDue>>
      BY <1>7 DEF HandleEvent, treeVars
    <2>2. list' = list \/ SignalList
      BY <1>7 DEF HandleEvent
    <2> QED
      BY <2>1, <2>2, ListSteps
  <1>8. ASSUME NEW s \in FileSubs, NEW g \in Files, Subscribe(s, g) PROVE Goal
    BY <1>8 DEF Subscribe, StartWatcher, treeVars, FsTypes
  <1>9. ASSUME NEW s \in FileSubs, SubscribeStored(s) \/ CancelSubscription(s) \/ Forward(s)
        PROVE  Goal
    BY <1>1, <1>9 DEF SubscribeStored, CancelSubscription, Forward, treeVars, watcherVars
  <1>10. ASSUME NEW g \in Files, PollMarks(g) \/ TimerExpires(g) \/ Flush(g) \/ Fire(g)
         PROVE  Goal
    BY <1>1, <1>10 DEF PollMarks, TimerExpires, Flush, Fire, treeVars, watcherVars
  <1>11. ASSUME NEW d \in Dirs, Mkdir(d) PROVE Goal
    BY <1>1, <1>11 DEF Mkdir
  <1>12. CASE UNCHANGED fsVars
    BY <1>1, <1>12 DEF fsVars, treeVars, watcherVars
  <1> QED
    BY <1>2, <1>3, <1>4, <1>5, <1>6, <1>7, <1>8, <1>9, <1>10, <1>11, <1>12 DEF FsNext

\* Or by fsnotify.
LEMMA NotifiedStep == FsTypes /\ WatchInv /\ NotifiedList /\ [FsNext]_fsVars => NotifiedList'
  <1> SUFFICES ASSUME FsTypes, WatchInv, NotifiedList, [FsNext]_fsVars,
                      (mode = "fsnotify" /\ watching = "on" /\ list.on /\ ~list.signal)',
                      NEW f \in Files, ~(f \in list.seen <=> content[f] > 0)'
               PROVE  (Queued("create", f) \/ Queued("remove", f) \/ DirOf[f] \notin watched)'
    BY DEF NotifiedList
  <1> DEFINE Goal == (Queued("create", f) \/ Queued("remove", f) \/ DirOf[f] \notin watched)'
  <1> USE DEF NotifiedList
  <1>1. CASE UNCHANGED <<mode, content, watching, watched, events, list>>
    BY <1>1 DEF Queued
  <1>2. ASSUME NEW d \in Dirs, Mkdir(d) PROVE Goal
    <2>1. Seen(Parent[d], "create", d) /\ <<"create", d>> \in FsEvents
      BY <1>2 DEF Mkdir, FsEvents
    <2>2. \A x : Contains(events, x) => Contains(events', x)
      BY <2>1, SeenKeeps
    <2> QED
      BY <1>2, <2>2 DEF Mkdir, Queued
  <1>3. ASSUME NEW g \in Files, WriteFile(g) \/ RemoveFile(g) PROVE Goal
    <2>0. UNCHANGED <<mode, watching, watched, list>>
      BY <1>3 DEF WriteFile, RemoveFile
    <2>1. PICK op : /\ Seen(DirOf[g], op, g) /\ <<op, g>> \in FsEvents
                    /\ op = "write" => content[g] > 0 /\ WriteFile(g)
      BY <1>3 DEF WriteFile, RemoveFile, FsEvents
    <2>2. /\ \A x : Contains(events, x) => Contains(events', x)
          /\ DirOf[g] \in watched => Contains(events', <<op, g>>)
      BY <2>1, SeenKeeps
    <2>3. CASE f # g \/ op = "write"
      <3>1. content'[f] > 0 <=> content[f] > 0
        BY <1>3, <2>1, <2>3 DEF WriteFile, RemoveFile, FsTypes, Version
      <3> QED
        BY <2>0, <2>2, <3>1 DEF Queued
    <2>4. CASE f = g /\ op # "write"
      <3>1. op = "create" \/ op = "remove"
        BY <2>1, <2>4 DEF FsEvents
      <3> QED
        BY <2>0, <2>2, <2>4, <3>1 DEF Queued
    <2> QED
      BY <2>3, <2>4
  <1>4. CASE RegisterList \/ ListAgain
    <2>1. list'.seen = Present /\ content' = content
      BY <1>4, ListSteps DEF RegisterList, ListAgain, treeVars
    <2> QED
      BY <2>1 DEF Present
  <1>5. CASE Prime \/ PollNotifies
    <2>1. SignalList \/ (mode = "fsnotify" /\ Prime)
      BY <1>5 DEF Prime, PollNotifies, treeVars
    <2> QED
      BY <2>1, ListSteps
  <1>6. CASE HandleEvent
    <2>1. CASE Head(events)[1] = "write"
      <3>1. /\ UNCHANGED <<mode, content, watching, list>>
            /\ watched' = watched
        BY <1>6, <2>1 DEF HandleEvent, treeVars, WatchedAfter
      <3>2. \A x : Contains(events, x) => x = Head(events) \/ Contains(events', x)
        BY <1>6, EventHandled
      <3>3. Head(events) # <<"create", f>> /\ Head(events) # <<"remove", f>>
        BY <2>1
      <3> QED
        BY <3>1, <3>2, <3>3 DEF Queued
    <2>2. CASE Head(events)[1] # "write"
      BY <1>6, <2>2, ListSteps DEF HandleEvent
    <2> QED
      BY <2>1, <2>2
  <1>7. CASE Poll
    <2>1. UNCHANGED mode /\ mode = "poll"
      BY <1>7 DEF Poll, treeVars
    <2> QED
      BY <2>1
  <1>8. ASSUME NEW s \in FileSubs, NEW g \in Files, Subscribe(s, g) PROVE Goal
    BY <1>8 DEF Subscribe, StartWatcher, treeVars, Queued, FsTypes
  <1>9. ASSUME NEW s \in FileSubs, SubscribeStored(s) \/ CancelSubscription(s) \/ Forward(s)
        PROVE  Goal
    BY <1>1, <1>9 DEF SubscribeStored, CancelSubscription, Forward, treeVars, watcherVars
  <1>10. ASSUME NEW g \in Files, PollMarks(g) \/ TimerExpires(g) \/ Flush(g) \/ Fire(g)
         PROVE  Goal
    BY <1>1, <1>10 DEF PollMarks, TimerExpires, Flush, Fire, treeVars, watcherVars
  <1>11. CASE UNCHANGED fsVars
    BY <1>1, <1>11 DEF fsVars, treeVars, watcherVars
  <1> QED
    BY <1>2, <1>3, <1>4, <1>5, <1>6, <1>7, <1>8, <1>9, <1>10, <1>11 DEF FsNext

\* The client of a subscriber has an old version of a file ...
Behind(s, f) ==
    /\ watching = "on" /\ sub[s].at = "on" /\ sub[s].file = f
    /\ content[f] > 0 /\ content[f] \notin {sub[s].told, sub[s].base}

\* ... but will hear of the new one.
Coming(s, f) ==
    \/ sub[s].signal
    \/ mode = "poll" /\ lastSnap[f] # content[f]
    \/ Queued("write", f) \/ Queued("create", f)
    \/ mode = "fsnotify" /\ DirOf[f] \notin watched
    \/ f \in toMark
    \/ debouncer[f].timer \/ debouncer[f].flush # "no"

\* FileUpdateReaches, for a subscriber and a file.
LEMMA ReachesEach ==
  FsTypes => (FileUpdateReaches <=>
                \A s \in FileSubs, f \in Files : Behind(s, f) => Coming(s, f))
  <1> SUFFICES ASSUME FsTypes
               PROVE  FileUpdateReaches <=>
                        \A s \in FileSubs, f \in Files : Behind(s, f) => Coming(s, f)
    OBVIOUS
  <1>1. \A s \in FileSubs : sub[s].file \in Files
    BY DEF FsTypes, ASubscription
  <1> QED
    BY <1>1 DEF FileUpdateReaches, Behind, Coming

\* No step loses the update of a file.
LEMMA ReachStep ==
  FsTypes /\ TreeInv /\ DebounceInv /\ WatchInv /\ FileUpdateReaches /\ [FsNext]_fsVars
      => FileUpdateReaches'
  <1> SUFFICES ASSUME FsTypes, TreeInv, DebounceInv, WatchInv, FileUpdateReaches, [FsNext]_fsVars
               PROVE  FileUpdateReaches'
    OBVIOUS
  <1>t. FsTypes'
    BY FsTypesStep
  <1> SUFFICES ASSUME NEW s \in FileSubs, NEW f \in Files, Behind(s, f)'
               PROVE  Coming(s, f)'
    <2>1. FileUpdateReaches' <=> \A s \in FileSubs, f \in Files : Behind(s, f)' => Coming(s, f)'
      <3>1. \A s \in FileSubs : sub'[s].file \in Files
        BY <1>t DEF FsTypes, ASubscription
      <3> QED
        BY <3>1 DEF FileUpdateReaches, Behind, Coming
    <2> QED
      BY <2>1
  <1>a. Behind(s, f) => Coming(s, f)
    BY ReachesEach
  <1> USE DEF Behind, Coming
  <1>1. CASE UNCHANGED <<mode, content, watching, watched, events, lastSnap, toMark, debouncer>>
             /\ sub'[s] = sub[s]
    BY <1>1, <1>a DEF Queued
  <1>2. ASSUME NEW d \in Dirs, Mkdir(d) PROVE Coming(s, f)'
    <2>1. Seen(Parent[d], "create", d) /\ <<"create", d>> \in FsEvents
      BY <1>2 DEF Mkdir, FsEvents
    <2>2. \A x : Contains(events, x) => Contains(events', x)
      BY <2>1, SeenKeeps
    <2> QED
      BY <1>2, <2>2, <1>a DEF Mkdir, Queued
  <1>3. ASSUME NEW g \in Files, WriteFile(g) \/ RemoveFile(g) PROVE Coming(s, f)'
    <2>0. UNCHANGED <<mode, watching, watched, lastSnap, toMark, debouncer, sub>>
      BY <1>3 DEF WriteFile, RemoveFile
    <2>1. PICK op : /\ Seen(DirOf[g], op, g) /\ <<op, g>> \in FsEvents
                    /\ WriteFile(g) => op \in {"write", "create"}
      BY <1>3 DEF WriteFile, RemoveFile, FsEvents
    <2>2. /\ \A x : Contains(events, x) => Contains(events', x)
          /\ DirOf[g] \in watched => Contains(events', <<op, g>>)
      BY <2>1, SeenKeeps
    <2>3. CASE f # g
      <3>1. content'[f] = content[f]
        BY <1>3, <2>3 DEF WriteFile, RemoveFile, FsTypes
      <3> QED
        BY <2>0, <2>2, <3>1, <1>a DEF Queued
    <2>4. CASE f = g
      <3>1. WriteFile(g)
        BY <1>3, <2>4 DEF RemoveFile, FsTypes
      <3>2. content'[f] = Version(f) + 1 /\ lastSnap'[f] <= Version(f) /\ Version(f) \in Int
            /\ lastSnap'[f] \in Int
        BY <3>1, <2>4, <2>0 DEF WriteFile, FsTypes, TreeInv, Version
      <3>3. lastSnap'[f] # content'[f]
        BY <3>2
      <3> QED
        BY <2>0, <2>1, <2>2, <2>4, <3>1, <3>3 DEF Queued, FsTypes
    <2> QED
      BY <2>3, <2>4
  <1>4. CASE Prime
    <2>1. content' = content /\ sub' = Baseline(Files)
      BY <1>4 DEF Prime, treeVars
    <2>2. sub'[s].base = content[f]
      BY <2>1, BaselineKeeps
    <2> QED
      BY <2>1, <2>2
  <1>5. CASE Poll
    <2>1. /\ UNCHANGED <<mode, content, watching, watched, events, debouncer>>
          /\ toMark' = {g \in Files : lastSnap[g] > 0 /\ content[g] > 0 /\ lastSnap[g] # content[g]}
          /\ sub' = Baseline({g \in Files : lastSnap[g] = 0}) /\ toMark = {}
      BY <1>5 DEF Poll, treeVars
    <2>2. CASE lastSnap[f] = 0
      <3>1. sub'[s].base = content[f]
        BY <2>1, <2>2, BaselineKeeps
      <3> QED
        BY <2>1, <3>1
    <2>3. CASE lastSnap[f] # 0
      <3>1. /\ sub'[s].at = sub[s].at /\ sub[s].file = f /\ sub'[s].signal = sub[s].signal
            /\ sub'[s].told = sub[s].told /\ sub'[s].base = sub[s].base
        BY <2>1, <2>3, BaselineKeeps
      <3>2. lastSnap[f] # content[f] => f \in toMark'
        BY <2>1, <2>3 DEF FsTypes
      <3> QED
        BY <1>a, <2>1, <3>1, <3>2 DEF Queued
    <2> QED
      BY <2>2, <2>3
  <1>6. ASSUME NEW g \in Files, PollMarks(g) PROVE Coming(s, f)'
    <2>1. /\ UNCHANGED <<mode, content, watching, watched, events, lastSnap>>
          /\ toMark' = toMark \ {g} /\ Trigger(g)
      BY <1>6 DEF PollMarks, treeVars
    <2>2. /\ sub'[s].at = sub[s].at /\ sub[s].file = f
          /\ sub'[s].told = sub[s].told /\ sub'[s].base = sub[s].base
          /\ sub[s].signal => sub'[s].signal
          /\ f = g /\ sub[s].at = "on" => \/ sub'[s].signal
                                          \/ debouncer'[f].timer \/ debouncer'[f].flush # "no"
          /\ debouncer[f].timer \/ debouncer[f].flush # "no" =>
                debouncer'[f].timer \/ debouncer'[f].flush # "no"
      BY <2>1, TriggerKeeps
    <2> QED
      BY <1>a, <2>1, <2>2 DEF Queued
  <1>7. CASE HandleEvent
    <2>0. /\ UNCHANGED <<mode, content, watching, lastSnap, toMark>>
          /\ watched' = WatchedAfter(Head(events)[1], Head(events)[2])
      BY <1>7 DEF HandleEvent, treeVars
    <2>1. /\ Head(events) \in FsEvents
          /\ \A x : Contains(events, x) => x = Head(events) \/ Contains(events', x)
      BY <1>7, EventHandled
    <2>2. CASE Head(events)[1] = "write"
      <3> DEFINE g == Head(events)[2]
      <3>1. g \in Files /\ Trigger(g) /\ watched' = watched /\ Head(events) = <<"write", g>>
        BY <1>7, <2>0, <2>1, <2>2 DEF HandleEvent, FsEvents, WatchedAfter
      <3> HIDE DEF g
      <3>2. /\ sub'[s].at = sub[s].at /\ sub[s].file = f
            /\ sub'[s].told = sub[s].told /\ sub'[s].base = sub[s].base
            /\ sub[s].signal => sub'[s].signal
            /\ f = g /\ sub[s].at = "on" => \/ sub'[s].signal
                                            \/ debouncer'[f].timer \/ debouncer'[f].flush # "no"
            /\ debouncer[f].timer \/ debouncer[f].flush # "no" =>
                  debouncer'[f].timer \/ debouncer'[f].flush # "no"
        BY <3>1, TriggerKeeps
      <3>3. /\ Queued("write", f) => f = g \/ Queued("write", f)'
            /\ Queued("create", f) => Queued("create", f)'
        BY <2>1, <3>1 DEF Queued
      <3> QED
        BY <1>a, <2>0, <3>1, <3>2, <3>3
    <2>3. CASE Head(events)[1] # "write"
      <3> DEFINE name == Head(events)[2]
      <3>1. /\ sub' = Baseline({g \in Files : name \in {g, DirOf[g]}}) /\ debouncer' = debouncer
        BY <1>7, <2>3 DEF HandleEvent
      <3>2. CASE name \in {f, DirOf[f]}
        <4>1. sub'[s].base = content[f]
          BY <3>1, <3>2, BaselineKeeps, SMTT(40)
        <4> QED
          BY <2>0, <4>1
      <3>3. CASE name \notin {f, DirOf[f]}
        <4>1. /\ sub'[s].at = sub[s].at /\ sub[s].file = f /\ sub'[s].signal = sub[s].signal
              /\ sub'[s].told = sub[s].told /\ sub'[s].base = sub[s].base
          BY <3>1, <3>3, BaselineKeeps
        <4>2. DirOf[f] \notin watched => DirOf[f] \notin watched'
          BY <2>0, <3>3 DEF WatchedAfter
        <4>3. /\ Queued("write", f) => Queued("write", f)'
              /\ Queued("create", f) => Queued("create", f)'
          <5>1. Head(events) # <<"write", f>> /\ Head(events) # <<"create", f>>
            BY <3>3
          <5> QED
            BY <2>1, <5>1 DEF Queued
        <4> QED
          BY <1>a, <2>0, <3>1, <4>1, <4>2, <4>3
      <3> QED
        BY <3>2, <3>3
    <2> QED
      BY <2>2, <2>3
  <1>8. ASSUME NEW g \in Files, TimerExpires(g) \/ Flush(g) PROVE Coming(s, f)'
    <2>1. UNCHANGED <<mode, content, watching, watched, events, lastSnap, toMark, sub>>
      BY <1>8 DEF TimerExpires, Flush, treeVars, watcherVars
    <2>2. debouncer[f].timer \/ debouncer[f].flush # "no" =>
             debouncer'[f].timer \/ debouncer'[f].flush # "no"
      BY <1>8, DebouncerSteps
    <2> QED
      BY <1>a, <2>1, <2>2 DEF Queued
  <1>9. ASSUME NEW g \in Files, Fire(g) PROVE Coming(s, f)'
    <2>1. UNCHANGED <<mode, content, watching, watched, events, lastSnap, toMark>>
          /\ sub' = Notified(g)
      BY <1>9 DEF Fire, treeVars, watcherVars
    <2>2. /\ sub'[s].at = sub[s].at /\ sub[s].file = f
          /\ sub'[s].told = sub[s].told /\ sub'[s].base = sub[s].base
          /\ sub[s].signal => sub'[s].signal
          /\ f = g /\ sub[s].at = "on" => sub'[s].signal
      BY <2>1, NotifiedKeeps
    <2>3. f # g => debouncer'[f] = debouncer[f]
      BY <1>9, DebouncerSteps
    <2> QED
      BY <1>a, <2>1, <2>2, <2>3 DEF Queued
  <1>10. ASSUME NEW t \in FileSubs, NEW g \in Files, Subscribe(t, g) PROVE Coming(s, f)'
    <2>1. /\ UNCHANGED <<mode, content, watched, events, lastSnap, toMark, debouncer>>
          /\ watching' = "on" => watching = "on"
      BY <1>10 DEF Subscribe, StartWatcher, treeVars
    <2>2. s # t /\ sub'[s] = sub[s]
      BY <1>10, SubscriberSteps
    <2> QED
      BY <1>a, <2>1, <2>2 DEF Queued
  <1>11. ASSUME NEW t \in FileSubs, SubscribeStored(t) \/ CancelSubscription(t) \/ Forward(t)
         PROVE  Coming(s, f)'
    <2>1. UNCHANGED <<mode, content, watching, watched, events, lastSnap, toMark, debouncer>>
      BY <1>11 DEF SubscribeStored, CancelSubscription, Forward, treeVars, watcherVars
    <2>2. s # t /\ sub'[s] = sub[s]
      BY <1>11, <2>1, SubscriberSteps
    <2> QED
      BY <1>1, <2>1, <2>2
  <1>12. CASE RegisterList
    <2>1. /\ UNCHANGED <<mode, content, watched, events, lastSnap, toMark, debouncer, sub>>
          /\ watching' = "on" => watching = "on"
      BY <1>12 DEF RegisterList, StartWatcher, treeVars
    <2> QED
      BY <1>a, <2>1 DEF Queued
  <1>13. CASE ListAgain \/ PollNotifies \/ UNCHANGED fsVars
    BY <1>1, <1>13 DEF ListAgain, PollNotifies, fsVars, treeVars, watcherVars
  <1> QED
    BY <1>2, <1>3, <1>4, <1>5, <1>6, <1>7, <1>8, <1>9, <1>10, <1>11, <1>12, <1>13 DEF FsNext

\* The invariant and what it says of the listing.
LEMMA ListingFollows == FsInv => ListingRefreshed
  <1> SUFFICES ASSUME FsInv, watching = "on", list.on, list.seen # Present, ~list.signal
               PROVE  \/ mode = "poll" /\ (listDue \/ lastSnap # Snapshot \/ Differing \subseteq list.blind)
                      \/ mode = "fsnotify" /\ (events # <<>> \/ MissedBelow)
    BY DEF ListingRefreshed
  <1>0. FsTypes
    BY DEF FsInv
  <1>1. CASE mode = "poll"
    <2> SUFFICES ASSUME ~listDue, lastSnap = Snapshot PROVE Differing \subseteq list.blind
      BY <1>1
    <2>1. ASSUME NEW f \in Files
          PROVE  ~(f \in Present <=> f \in list.seen) => f \in list.blind
      <3>1. /\ lastSnap[f] > 0 /\ f \notin list.seen => content[f] # lastSnap[f] \/ f \in list.blind
            /\ lastSnap[f] = 0 /\ f \in list.seen => f \in list.blind
        BY <1>1 DEF FsInv, PolledList
      <3>2. lastSnap[f] = IF content[f] > 0 THEN content[f] ELSE 0
        BY DEF Snapshot
      <3> QED
        BY <3>1, <3>2, <1>0 DEF Present, FsTypes
    <2>2. Present \subseteq Files /\ list.seen \subseteq Files
      BY <1>0 DEF FsTypes, AList, Present
    <2> QED
      BY <2>1, <2>2 DEF Differing
  <1>2. CASE mode = "fsnotify"
    <2> SUFFICES ASSUME events = <<>> PROVE MissedBelow
      BY <1>2
    <2>1. \A x : ~Contains(events, x)
      BY DEF Contains
    <2>2. Root \in watched /\ \A d \in dirs \ watched : Parent[d] # Root
      BY <1>2, <2>1 DEF FsInv, WatchInv, Queued
    <2>3. list.seen \subseteq Files /\ Present \subseteq Files
      BY <1>0 DEF FsTypes, AList, Present
    <2>4. PICK f \in Files : ~(f \in list.seen <=> f \in Present)
      BY <2>3
    <2>5. ~(f \in list.seen <=> content[f] > 0)
      BY <2>4 DEF Present
    <2>6. DirOf[f] \notin watched
      BY <1>2, <2>1, <2>5 DEF FsInv, NotifiedList, Queued
    <2>7. DirOf[f] \in dirs
      BY <2>5 DEF FsInv, TreeInv
    <2> QED
      BY <2>2, <2>6, <2>7 DEF MissedBelow
  <1> QED
    BY <1>0, <1>1, <1>2 DEF FsTypes

\* Every step keeps it.
LEMMA FsStepKeeps == FsInv /\ [FsNext]_fsVars => FsInv'
  BY FsTypesStep, TreeStep, DebounceStep, WatchStep, PolledStep, NotifiedStep, ReachStep DEF FsInv

\* However writers, the watcher, debouncers and clients interleave, an update
\* of a watched file reaches its subscribers and a change of the tree the
\* listing, or is still to be handled.
THEOREM ChangesAreSeen == FsSpec => []NoChangeUnseen
  <1>1. FsInit => FsInv
    <2> SUFFICES ASSUME FsInit PROVE FsInv
      OBVIOUS
    <2>0. /\ content \in [Files -> Int] /\ lastSnap \in [Files -> Nat]
          /\ \A f \in Files : lastSnap[f] <= Version(f) /\ (content[f] > 0 => DirOf[f] = Root)
      BY DEF FsInit, Snapshot, Version
    <2>1. (CHOOSE f \in Files : TRUE) \in Files
      BY FsAssumption
    <2>2. FsTypes
      <3>1. sub \in [FileSubs -> ASubscription]
        BY <2>1 DEF FsInit, ASubscription
      <3>2. debouncer \in [Files -> ADebouncer]
        BY DEF FsInit, ADebouncer
      <3>3. list \in AList
        BY DEF FsInit, AList
      <3>4. events \in Seq(FsEvents)
        BY DEF FsInit
      <3> QED
        BY <2>0, <3>1, <3>2, <3>3, <3>4 DEF FsInit, FsTypes
    <2>3. TreeInv
      BY <2>0 DEF FsInit, TreeInv
    <2> QED
      BY <2>2, <2>3 DEF FsInit, FsInv, DebounceInv, WatchInv, PolledList, NotifiedList,
                        FileUpdateReaches
  <1>2. FsInv => NoChangeUnseen
    BY ListingFollows DEF FsInv, NoChangeUnseen
  <1> QED
    BY <1>1, <1>2, FsStepKeeps, PTL DEF FsSpec

-----------------------------------------------------------------------------
(* Elicitation *)

ElicitValue == [type : {"string", "number", "boolean", "null"}, v : Int]

AProperty == [type : {"string", "number", "integer", "boolean", NoType}, required : BOOLEAN,
              enum : SUBSET ElicitValue, min : Int, max : Int,
              default : ElicitValue \cup {NoValue}]

ElicitTypes ==
    /\ maker \in {"builder", "reflection"} /\ late \in BOOLEAN
    /\ phase \in {"define", "bound", "asked", "decoding", "done"}
    /\ outcome \in {"none", "accept", "decline", "cancel", "error"}
    /\ field \in Structs \cup {AnyField} /\ (maker = "reflection" => field \in Structs)
    /\ props \in [Names -> AProperty] /\ published \in [Names -> AProperty]
    /\ DOMAIN given \subseteq Names /\ \A n \in DOMAIN given : given[n] \in ElicitValue
    /\ todo \subseteq DOMAIN given
    /\ fresh \in [Names -> ElicitValue \cup {NoValue}]
    /\ DOMAIN dst = Names

\* Only strings have an enum, and reflection has given the types.
PropsInv ==
    \A n \in Names : /\ props[n].enum # {} => props[n].type = "string"
                     /\ maker = "reflection" => props[n].type = ReflectedType(field[n].kind)

\* A default is one the property allows: at once for the builder, from the
\* check of the tags on for reflection.
DefaultsInv ==
    ~late /\ (maker = "builder" \/ phase \notin {"define", "done"}) =>
        \A n \in Names : props[n].default # NoValue => DefaultOk(props[n], props[n].default)

\* Without a late option the published properties are the ones that count.
BoundInv == ~late /\ phase # "define" => props = published

\* There is no answer before the client was asked, and what Decode has looked
\* at is valid and copied.
DecodingInv ==
    /\ phase \in {"define", "bound", "asked"} => DOMAIN given = {}
    /\ phase = "decoding" =>
          \A n \in DOMAIN given \ todo :
             /\ fresh[n] = Convert(field[n].kind, given[n])
             /\ ~late /\ Mapped(n) => Valuable(props[n], given[n])

\* Nothing is reported or written before the end.
OutcomeInv ==
    /\ phase # "done" => outcome = "none" /\ \A n \in Names : dst[n] = OldValue
    /\ AcceptMeansValid /\ TruthfulAnswerIsDecoded

ElicitInv == ElicitTypes /\ PropsInv /\ DefaultsInv /\ BoundInv /\ DecodingInv /\ OutcomeInv

\* A conversion gives a value, and an integer field holds whole numbers only.
LEMMA ConvertedValue ==
  ASSUME NEW kind0, NEW v \in ElicitValue
  PROVE  /\ Convert(kind0, v) \in ElicitValue
         /\ kind0 \in {"int", "uint"} /\ v.type = "number" /\ Convert(kind0, v) = v => v.v % 2 = 0
  <1> DEFINE w == v.v
  <1>1. w \in Int /\ v.type \in {"string", "number", "boolean", "null"}
    BY DEF ElicitValue
  <1>2. TowardZero(w) \in Int /\ (w >= 0 => TowardZero(w) \in Nat)
    BY <1>1 DEF TowardZero
  <1> DEFINE m == 2 ^ Width
             h == 2 ^ (Width - 1)
  <1>3. m \in Nat \ {0} /\ h \in Nat
    BY ElicitationAssumption
  <1> DEFINE i == ((TowardZero(w) + h) % m) - h
             u == TowardZero(w) % m
  <1> HIDE DEF m, h, w
  <1>4. i \in Int /\ u \in Int
    BY <1>2, <1>3
  <1>5. i = Wrapped(TowardZero(w)) /\ u = TowardZero(w) % 2 ^ Width
    BY DEF Wrapped, m, h
  <1> HIDE DEF i, u
  <1>6. CASE v.type # "number"
    BY <1>6 DEF Convert
  <1>7. CASE v.type = "number" /\ kind0 = "int"
    <2>1. Convert(kind0, v) = [v EXCEPT !.v = 2 * i]
      BY <1>5, <1>7 DEF Convert, w
    <2>2. Convert(kind0, v) \in ElicitValue /\ Convert(kind0, v).v = 2 * i
      BY <1>4, <2>1 DEF ElicitValue
    <2>3. (2 * i) % 2 = 0
      BY <1>4
    <2> QED
      BY <2>2, <2>3
  <1>8. CASE v.type = "number" /\ kind0 = "uint"
    <2>1. Convert(kind0, v) = [v EXCEPT !.v = IF w < 0 THEN 0 ELSE 2 * u]
      BY <1>5, <1>8 DEF Convert, w
    <2>2. /\ Convert(kind0, v) \in ElicitValue
          /\ Convert(kind0, v).v = 0 \/ Convert(kind0, v).v = 2 * u
      BY <1>4, <2>1 DEF ElicitValue
    <2>3. (2 * u) % 2 = 0 /\ 0 % 2 = 0
      BY <1>4
    <2> QED
      BY <2>2, <2>3
  <1>9. CASE v.type = "number" /\ kind0 = "string"
    BY <1>9 DEF Convert, ElicitValue
  <1>10. CASE v.type = "number" /\ kind0 \notin {"int", "uint", "string"}
    BY <1>10 DEF Convert
  <1> QED
    BY <1>6, <1>7, <1>8, <1>9, <1>10

\* A default that may stand meets the property.
LEMMA DefaultFulfils ==
  ASSUME NEW p \in AProperty, NEW v \in ElicitValue, DefaultOk(p, v),
         p.enum # {} => p.type = "string"
  PROVE  Fulfils(p, v)
  BY DEF DefaultOk, Fulfils, InEnum, Within, AProperty, ElicitValue, NoType

\* A value that passes the check and fits into its field meets the property.
LEMMA ValuableFulfils ==
  ASSUME NEW p \in AProperty, NEW v \in ElicitValue, Valuable(p, v), p.type # NoType,
         maker \in {"builder", "reflection"},
         maker = "reflection" /\ p.type = "integer" => v.v % 2 = 0
  PROVE  Fulfils(p, v)
  <1>1. p.type \in {"string", "number", "integer", "boolean"} /\ p.min \in Int /\ p.max \in Int
        /\ v.v \in Int
    BY DEF AProperty, ElicitValue
  <1>2. CASE p.type = "string"
    BY <1>1, <1>2 DEF Valuable, validateDynamicValue, assignPrimitive, Fulfils, InEnum, Within
  <1>3. CASE p.type = "number"
    BY <1>1, <1>3 DEF Valuable, validateDynamicValue, assignPrimitive, Fulfils, InEnum, Within
  <1>4. CASE p.type = "integer"
    BY <1>1, <1>4 DEF Valuable, validateDynamicValue, assignPrimitive, Fulfils, InEnum, Within
  <1>5. CASE p.type = "boolean"
    BY <1>1, <1>5 DEF Valuable, validateDynamicValue, assignPrimitive, Fulfils, InEnum, Within
  <1> QED
    BY <1>1, <1>2, <1>3, <1>4, <1>5

\* A value that meets the property passes the check, except for the integers
\* of the builder.
LEMMA FulfilsValuable ==
  ASSUME NEW p \in AProperty, NEW v \in ElicitValue, Fulfils(p, v), p.type # NoType,
         ~(maker = "builder" /\ p.type = "integer")
  PROVE  Valuable(p, v)
  <1>1. p.type \in {"string", "number", "integer", "boolean"} /\ p.min \in Int /\ p.max \in Int
        /\ v.v \in Int
    BY DEF AProperty, ElicitValue
  <1>2. CASE p.type = "string"
    BY <1>1, <1>2 DEF Valuable, validateDynamicValue, assignPrimitive, Fulfils, InEnum, Within
  <1>3. CASE p.type = "number"
    BY <1>1, <1>3 DEF Valuable, validateDynamicValue, assignPrimitive, Fulfils, InEnum, Within
  <1>4. CASE p.type = "integer"
    BY <1>1, <1>4 DEF Valuable, validateDynamicValue, assignPrimitive, Fulfils, InEnum, Within
  <1>5. CASE p.type = "boolean"
    BY <1>1, <1>5 DEF Valuable, validateDynamicValue, assignPrimitive, Fulfils, InEnum, Within
  <1> QED
    BY <1>1, <1>2, <1>3, <1>4, <1>5

\* What an option makes of a property.
LEMMA OptionsAreSound ==
  ASSUME ElicitInv, NEW n \in Names, DefineProperty(n)
  PROVE  \E p \in AProperty :
            /\ Change(n, p)
            /\ p.enum # {} => p.type = "string"
            /\ maker = "reflection" => p.type = props[n].type
            /\ maker = "builder" /\ props[n].default = NoValue /\ p.default # NoValue =>
                  DefaultOk(p, p.default)
  <1> DEFINE q == props[n]
             Sound == \E p \in AProperty :
                        /\ Change(n, p)
                        /\ p.enum # {} => p.type = "string"
                        /\ maker = "reflection" => p.type = q.type
                        /\ maker = "builder" /\ q.default = NoValue /\ p.default # NoValue =>
                              DefaultOk(p, p.default)
  <1>1. q \in AProperty /\ (q.enum # {} => q.type = "string")
    BY DEF ElicitInv, ElicitTypes, PropsInv
  <1>2. BoundValues \subseteq Int /\ Types[n] \subseteq {"string", "number", "integer", "boolean"}
    BY ElicitationAssumption
  <1> HIDE DEF q
  <1>3. ASSUME NEW t \in Types[n], Add(n, t)
        PROVE  Sound
    <2> DEFINE p == [q EXCEPT !.type = t]
    <2>1. Change(n, p) /\ maker = "builder" /\ q.type = NoType
      BY <1>3 DEF Add, q
    <2>2. /\ p \in AProperty /\ p.default = q.default /\ p.enum = {}
      BY <1>1, <1>2, <2>1 DEF AProperty, NoType
    <2> HIDE DEF p
    <2> QED
      BY <2>1, <2>2
  <1>4. ASSUME NEW r \in BOOLEAN, Required(n, r)
        PROVE  Sound
    <2> DEFINE p == [q EXCEPT !.required = r]
    <2>1. Change(n, p)
      BY <1>4 DEF Required, q
    <2>2. p \in AProperty /\ p.default = q.default /\ p.enum = q.enum /\ p.type = q.type
      BY <1>1 DEF AProperty
    <2> HIDE DEF p
    <2> QED
      BY <1>1, <2>1, <2>2
  <1>5. ASSUME NEW l \in BoundValues, EnumString(n, {[type |-> "string", v |-> l]})
        PROVE  Sound
    <2> DEFINE e == {[type |-> "string", v |-> l]}
               p == [q EXCEPT !.enum = e]
    <2>0. e \in SUBSET ElicitValue
      BY <1>2 DEF ElicitValue
    <2>1. Change(n, p) /\ q.type = "string"
      BY <1>5 DEF EnumString, q
    <2> HIDE DEF e
    <2>2. p \in AProperty /\ p.default = q.default /\ p.type = q.type
      BY <1>1, <2>0 DEF AProperty
    <2> HIDE DEF p
    <2> QED
      BY <2>1, <2>2
  <1>6. ASSUME NEW w \in BoundValues, Minimum(n, w) \/ Maximum(n, w)
        PROVE  Sound
    <2> DEFINE lo == [q EXCEPT !.min = w]
               hi == [q EXCEPT !.max = w]
    <2>1. Change(n, lo) \/ Change(n, hi)
      BY <1>6 DEF Minimum, Maximum, q
    <2>2. lo \in AProperty /\ lo.default = q.default /\ lo.enum = q.enum /\ lo.type = q.type
      BY <1>1, <1>2 DEF AProperty
    <2>3. hi \in AProperty /\ hi.default = q.default /\ hi.enum = q.enum /\ hi.type = q.type
      BY <1>1, <1>2 DEF AProperty
    <2> HIDE DEF lo, hi
    <2> QED
      BY <1>1, <2>1, <2>2, <2>3
  <1>7. ASSUME NEW t \in {"string", "number", "boolean"}, NEW w \in BoundValues,
               Default(n, [type |-> t, v |-> w])
        PROVE  Sound
    <2> DEFINE d == [type |-> t, v |-> w]
               p == [q EXCEPT !.default = d]
    <2>0. d \in ElicitValue
      BY <1>2 DEF ElicitValue
    <2>1. Change(n, p) /\ (maker = "builder" => DefaultOk(q, d))
      BY <1>7 DEF Default, q
    <2> HIDE DEF d
    <2>2. p \in AProperty /\ p.default = d /\ p.enum = q.enum /\ p.type = q.type
          /\ p.min = q.min /\ p.max = q.max
      BY <1>1, <2>0 DEF AProperty
    <2> HIDE DEF p
    <2>3. DefaultOk(q, d) => DefaultOk(p, d)
      BY <2>2 DEF DefaultOk, InEnum, Within
    <2> QED
      BY <1>1, <2>1, <2>2, <2>3
  <1> QED
    BY <1>3, <1>4, <1>5, <1>6, <1>7 DEF DefineProperty, q

\* Before the end there is nothing to judge.
LEMMA NothingYet ==
  ASSUME phase' # "done", outcome' = "none", \A n \in Names : dst'[n] = OldValue
  PROVE  OutcomeInv'
  BY DEF OutcomeInv, AcceptMeansValid, AllOrNothing, DecodedMeetsSchema, TruthfulAnswerIsDecoded

\* An end that is not accept leaves the destination alone.
LEMMA NothingWritten ==
  ASSUME phase' = "done", outcome' # "accept", \A n \in Names : dst'[n] = OldValue,
         TruthfulAnswerIsDecoded'
  PROVE  OutcomeInv'
  BY DEF OutcomeInv, AcceptMeansValid, AllOrNothing, DecodedMeetsSchema

\* An option keeps the invariant: what it could spoil is excluded as late.
LEMMA OptionKeeps ==
  ASSUME ElicitInv, NEW n \in Names, DefineProperty(n)
  PROVE  ElicitInv'
  <1>1. PICK p \in AProperty :
            /\ Change(n, p)
            /\ p.enum # {} => p.type = "string"
            /\ maker = "reflection" => p.type = props[n].type
            /\ maker = "builder" /\ props[n].default = NoValue /\ p.default # NoValue =>
                  DefaultOk(p, p.default)
    BY OptionsAreSound
  <1>2. /\ phase # "done" /\ props' = [props EXCEPT ![n] = p]
        /\ maker = "reflection" => phase = "define"
        /\ late' = (late \/ phase # "define"
                         \/ (maker = "builder" /\ props[n].default # NoValue))
        /\ maker' = maker /\ field' = field /\ phase' = phase /\ published' = published
        /\ told' = told /\ given' = given /\ todo' = todo /\ fresh' = fresh /\ dst' = dst
        /\ outcome' = outcome
    BY <1>1 DEF Change
  <1>3. props \in [Names -> AProperty] /\ late \in BOOLEAN
    BY DEF ElicitInv, ElicitTypes
  <1>4. props'[n] = p /\ \A m \in Names : m # n => props'[m] = props[m]
    BY <1>2, <1>3
  <1>5. ElicitTypes'
    <2>1. props' \in [Names -> AProperty] /\ late' \in BOOLEAN
      BY <1>2, <1>3
    <2> QED
      BY <1>2, <2>1 DEF ElicitInv, ElicitTypes, AnyField
  <1>6. PropsInv'
    BY <1>1, <1>2, <1>4 DEF ElicitInv, PropsInv
  <1>7. DefaultsInv'
    <2> SUFFICES ASSUME ~late', maker = "builder", NEW m \in Names, props'[m].default # NoValue
                 PROVE  DefaultOk(props'[m], props'[m].default)
      BY <1>2 DEF DefaultsInv
    <2>1. ~late /\ phase = "define" /\ props[n].default = NoValue
      BY <1>2
    <2>2. CASE m = n
      BY <1>1, <1>4, <2>1, <2>2
    <2>3. CASE m # n
      BY <1>4, <2>1, <2>3 DEF ElicitInv, DefaultsInv
    <2> QED
      BY <2>2, <2>3
  <1>8. BoundInv'
    BY <1>2 DEF BoundInv
  <1>9. DecodingInv'
    <2>1. phase = "decoding" => late'
      BY <1>2
    <2> QED
      BY <1>2, <2>1 DEF ElicitInv, DecodingInv
  <1>10. OutcomeInv'
    BY <1>2, NothingYet DEF ElicitInv, OutcomeInv
  <1> QED
    BY <1>5, <1>6, <1>7, <1>8, <1>9, <1>10 DEF ElicitInv

\* Binding publishes the properties with defaults that may stand.
LEMMA BindKeeps ==
  ASSUME ElicitInv, Bind
  PROVE  ElicitInv'
  <1>1. /\ phase = "define" /\ phase' \in {"bound", "done"}
        /\ phase' = "bound" /\ maker = "reflection" => IsMap \/ TagsOk
        /\ outcome' = IF phase' = "bound" THEN outcome ELSE "error"
        /\ published' = props /\ props' = props /\ late' = late
        /\ maker' = maker /\ field' = field
        /\ told' = told /\ given' = given /\ todo' = todo /\ fresh' = fresh /\ dst' = dst
    BY DEF Bind
  <1>2. DOMAIN given = {} /\ outcome = "none" /\ \A n \in Names : dst[n] = OldValue
    BY <1>1 DEF ElicitInv, DecodingInv, OutcomeInv
  <1>3. ElicitTypes'
    BY <1>1 DEF ElicitInv, ElicitTypes, AnyField
  <1>4. PropsInv'
    BY <1>1 DEF ElicitInv, PropsInv
  <1>5. DefaultsInv'
    <2>1. CASE maker = "builder"
      BY <1>1, <2>1 DEF ElicitInv, DefaultsInv
    <2>2. CASE maker = "reflection" /\ phase' = "done"
      BY <1>1, <2>2 DEF DefaultsInv
    <2>3. CASE maker = "reflection" /\ phase' = "bound"
      <3>1. field \in Structs
        BY <2>3 DEF ElicitInv, ElicitTypes
      <3>2. \A n \in Names : ~IsMap
        BY <3>1, ElicitationAssumption DEF IsMap, AnyField
      <3>3. \A n \in Names : props[n].default # NoValue => DefaultOk(props[n], props[n].default)
        BY <1>1, <2>3, <3>2 DEF TagsOk
      <3> QED
        BY <1>1, <3>3 DEF DefaultsInv
    <2> QED
      BY <1>1, <2>1, <2>2, <2>3 DEF ElicitInv, ElicitTypes
  <1>6. BoundInv'
    BY <1>1 DEF BoundInv
  <1>7. DecodingInv'
    BY <1>1, <1>2 DEF DecodingInv
  <1>8. OutcomeInv'
    <2>1. CASE phase' = "bound"
      BY <1>1, <1>2, <2>1, NothingYet
    <2>2. CASE phase' = "done"
      <3>1. TruthfulAnswerIsDecoded'
        BY <1>1, <1>2 DEF TruthfulAnswerIsDecoded
      <3> QED
        BY <1>1, <1>2, <2>2, <3>1, NothingWritten
    <2> QED
      BY <1>1, <2>1, <2>2
  <1> QED
    BY <1>3, <1>4, <1>5, <1>6, <1>7, <1>8 DEF ElicitInv

\* Asking, and every end without an accepted answer.
LEMMA ExchangeKeeps ==
  ASSUME ElicitInv,
         Elicit \/ ElicitFails \/ \E a \in {"decline", "cancel", "other"} : NotAccepted(a)
  PROVE  ElicitInv'
  <1>1. /\ phase \in {"bound", "asked"} /\ phase' \in {"asked", "done"}
        /\ phase' = "asked" => outcome' = outcome
        /\ outcome' # "accept" \/ outcome' = outcome
        /\ outcome' \in {"decline", "cancel", "error", outcome}
        /\ published' = published /\ props' = props /\ late' = late
        /\ maker' = maker /\ field' = field
        /\ given' = given /\ todo' = todo /\ fresh' = fresh /\ dst' = dst
    <2>1. CASE Elicit
      BY <2>1 DEF Elicit
    <2>2. CASE ElicitFails
      BY <2>2 DEF ElicitFails
    <2>3. CASE \E a \in {"decline", "cancel", "other"} : NotAccepted(a)
      BY <2>3 DEF NotAccepted
    <2> QED
      BY <2>1, <2>2, <2>3
  <1>2. DOMAIN given = {} /\ outcome = "none" /\ \A n \in Names : dst[n] = OldValue
    BY <1>1 DEF ElicitInv, DecodingInv, OutcomeInv
  <1>3. ElicitTypes' /\ PropsInv'
    BY <1>1 DEF ElicitInv, ElicitTypes, PropsInv, AnyField
  <1>4. DefaultsInv' /\ BoundInv'
    BY <1>1 DEF ElicitInv, DefaultsInv, BoundInv
  <1>5. DecodingInv'
    BY <1>1, <1>2 DEF DecodingInv
  <1>6. OutcomeInv'
    <2>1. CASE phase' = "asked"
      BY <1>1, <1>2, <2>1, NothingYet
    <2>2. CASE phase' = "done"
      <3>1. TruthfulAnswerIsDecoded'
        BY <1>1, <1>2 DEF TruthfulAnswerIsDecoded
      <3> QED
        BY <1>1, <1>2, <2>2, <3>1, NothingWritten
    <2> QED
      BY <1>1, <2>1, <2>2
  <1> QED
    BY <1>3, <1>4, <1>5, <1>6 DEF ElicitInv

\* An accepted answer is still to be looked at as a whole.
LEMMA AcceptedKeeps ==
  ASSUME ElicitInv, NEW c \in Contents, Accepted(c)
  PROVE  ElicitInv'
  <1>1. /\ phase = "asked" /\ phase' = "decoding" /\ given' = c /\ todo' = DOMAIN c
        /\ published' = published /\ props' = props /\ late' = late
        /\ maker' = maker /\ field' = field /\ outcome' = outcome
        /\ fresh' = fresh /\ dst' = dst
    BY DEF Accepted
  <1>2. DOMAIN c \subseteq Names /\ \A n \in DOMAIN c : c[n] \in ElicitValue
    BY ElicitationAssumption DEF ElicitValue
  <1>3. ElicitTypes' /\ PropsInv'
    BY <1>1, <1>2 DEF ElicitInv, ElicitTypes, PropsInv, AnyField
  <1>4. DefaultsInv' /\ BoundInv'
    BY <1>1 DEF ElicitInv, DefaultsInv, BoundInv
  <1>5. DecodingInv'
    BY <1>1 DEF DecodingInv
  <1>6. OutcomeInv'
    BY <1>1, NothingYet DEF ElicitInv, OutcomeInv
  <1> QED
    BY <1>3, <1>4, <1>5, <1>6 DEF ElicitInv

\* Without a late option, a value that is refused or missing breaks the
\* schema the client was sent.
LEMMA RefusedForAReason ==
  ASSUME ElicitInv, phase # "define", ~late,
         NEW n \in Names,
         \/ n \in DOMAIN given /\ Mapped(n) /\ ~Valuable(props[n], given[n])
         \/ n \notin DOMAIN given /\ published[n].required,
         told[n] = [published[n] EXCEPT !.default = NoValue],
         ~(maker = "builder" /\ published[n].type = "integer")
  PROVE  IF n \in DOMAIN given THEN told[n].type # NoType /\ ~Fulfils(told[n], given[n])
         ELSE told[n].required
  <1> DEFINE p == published[n]
             t == told[n]
  <1>1. p \in AProperty /\ props[n] = p
    BY DEF ElicitInv, ElicitTypes, BoundInv
  <1>2. /\ t.type = p.type /\ t.required = p.required /\ t.enum = p.enum
        /\ t.min = p.min /\ t.max = p.max
    BY <1>1 DEF AProperty
  <1>3. CASE n \in DOMAIN given
    <2> DEFINE v == given[n]
    <2>1. v \in ElicitValue
      BY <1>3 DEF ElicitInv, ElicitTypes
    <2>2. p.type # NoType /\ ~Valuable(p, v)
      BY <1>1, <1>3 DEF Mapped
    <2>3. ~(maker = "builder" /\ p.type = "integer")
      OBVIOUS
    <2> HIDE DEF p, t, v
    <2>4. ~Fulfils(p, v)
      BY <1>1, <2>1, <2>2, <2>3, FulfilsValuable
    <2>5. ~Fulfils(t, v)
      BY <1>2, <2>4 DEF Fulfils
    <2> QED
      BY <1>2, <1>3, <2>2, <2>5 DEF t, v
  <1>4. CASE n \notin DOMAIN given
    BY <1>2, <1>4
  <1> QED
    BY <1>3, <1>4

\* One round of Decode copies a valid value, or ends with an error for which
\* the answer is to blame.
LEMMA DecodeKeyKeeps ==
  ASSUME ElicitInv, NEW n \in Names, DecodeKey(n)
  PROVE  ElicitInv'
  <1>1. /\ phase = "decoding" /\ n \in todo /\ todo' = todo \ {n}
        /\ published' = published /\ props' = props /\ late' = late
        /\ maker' = maker /\ field' = field /\ told' = told /\ given' = given /\ dst' = dst
    BY DEF DecodeKey
  <1>2. /\ n \in DOMAIN given /\ given[n] \in ElicitValue
        /\ outcome = "none" /\ \A m \in Names : dst[m] = OldValue
    BY <1>1 DEF ElicitInv, ElicitTypes, OutcomeInv
  <1>3. PropsInv'
    BY <1>1 DEF ElicitInv, PropsInv
  <1>4. CASE Mapped(n) /\ ~Valuable(props[n], given[n])
    <2>1. phase' = "done" /\ outcome' = "error" /\ fresh' = fresh
      BY <1>4 DEF DecodeKey
    <2>2. ElicitTypes'
      BY <1>1, <2>1 DEF ElicitInv, ElicitTypes, AnyField
    <2>3. DefaultsInv' /\ BoundInv'
      BY <1>1, <2>1 DEF ElicitInv, DefaultsInv, BoundInv
    <2>4. DecodingInv'
      BY <2>1 DEF DecodingInv
    <2>5. TruthfulAnswerIsDecoded'
      <3>1. ~late /\ told[n] = [published[n] EXCEPT !.default = NoValue]
              /\ ~(maker = "builder" /\ published[n].type = "integer") =>
                told[n].type # NoType /\ ~Fulfils(told[n], given[n])
        BY <1>1, <1>2, <1>4, RefusedForAReason
      <3> QED
        BY <1>1, <1>2, <3>1 DEF TruthfulAnswerIsDecoded
    <2>6. OutcomeInv'
      BY <1>1, <1>2, <2>1, <2>5, NothingWritten
    <2> QED
      BY <1>3, <2>2, <2>3, <2>4, <2>6 DEF ElicitInv
  <1>5. CASE ~(Mapped(n) /\ ~Valuable(props[n], given[n]))
    <2>1. /\ fresh' = [fresh EXCEPT ![n] = Convert(field[n].kind, given[n])]
          /\ phase' = phase /\ outcome' = outcome
      BY <1>5 DEF DecodeKey
    <2>2. Convert(field[n].kind, given[n]) \in ElicitValue
      BY <1>2, ConvertedValue
    <2>3. fresh \in [Names -> ElicitValue \cup {NoValue}]
      BY DEF ElicitInv, ElicitTypes
    <2>4. /\ fresh' \in [Names -> ElicitValue \cup {NoValue}]
          /\ fresh'[n] = Convert(field[n].kind, given[n])
          /\ \A m \in Names : m # n => fresh'[m] = fresh[m]
      BY <2>1, <2>2, <2>3
    <2>5. ElicitTypes'
      BY <1>1, <2>1, <2>4 DEF ElicitInv, ElicitTypes, AnyField
    <2>6. DefaultsInv' /\ BoundInv'
      BY <1>1, <2>1 DEF ElicitInv, DefaultsInv, BoundInv
    <2>7. DecodingInv'
      <3>1. ASSUME NEW m \in DOMAIN given \ todo'
            PROVE  /\ fresh'[m] = Convert(field[m].kind, given[m])
                   /\ ~late /\ Mapped(m) => Valuable(props[m], given[m])
        <4>1. CASE m = n
          BY <1>5, <2>4, <4>1
        <4>2. CASE m # n
          <5>1. m \in DOMAIN given \ todo /\ m \in Names
            BY <1>1, <4>2 DEF ElicitInv, ElicitTypes
          <5> QED
            BY <1>1, <2>4, <4>2, <5>1 DEF ElicitInv, DecodingInv
        <4> QED
          BY <4>1, <4>2
      <3>2. \A m : (Mapped(m)' <=> Mapped(m)) /\ (Valuable(props[m], given[m])' <=> Valuable(props[m], given[m]))
        BY <1>1 DEF Mapped, IsMap, AnyField, Valuable
      <3> QED
        BY <1>1, <2>1, <3>1, <3>2 DEF DecodingInv
    <2>8. OutcomeInv'
      BY <1>1, <1>2, <2>1, NothingYet
    <2> QED
      BY <1>3, <2>5, <2>6, <2>7, <2>8 DEF ElicitInv
  <1> QED
    BY <1>4, <1>5

\* A zero value is no old value.
LEMMA ZeroIsNew ==
  ASSUME NEW n
  PROVE  Zero(n).type # "old"
  <1>1. field[n].kind \in {"string", "int", "uint", "float", "bool"} \/
        field[n].kind \notin {"string", "int", "uint", "float", "bool"}
    OBVIOUS
  <1> QED
    BY <1>1 DEF Zero, NoValue

\* What Decode stores at the end, name by name.
LEMMA StoredIsSound ==
  ASSUME ElicitInv, phase = "decoding", todo = {}, NEW n \in Names
  PROVE  LET d == IF IsMap THEN StoredInMap(n) ELSE StoredInStruct(n)
         IN  /\ d # OldValue
             /\ ~late /\ published[n].type # NoType /\ Mapped(n) =>
                   IF n \in DOMAIN given
                   THEN Fits(n, given[n]) => Fulfils(published[n], given[n]) /\ d = given[n]
                   ELSE d = Zero(n) \/ Fulfils(published[n], d) \/ ~Fits(n, published[n].default)
  <1> DEFINE d == IF IsMap THEN StoredInMap(n) ELSE StoredInStruct(n)
             k == field[n].kind
  <1>1. /\ props[n] \in AProperty /\ published[n] \in AProperty
        /\ fresh[n] \in ElicitValue \cup {NoValue}
        /\ n \in DOMAIN given => given[n] \in ElicitValue /\ fresh[n] = Convert(k, given[n])
    BY DEF ElicitInv, ElicitTypes, DecodingInv
  <1>2. props[n].default \in ElicitValue \cup {NoValue}
    BY <1>1 DEF AProperty
  <1>3. \A v \in ElicitValue \cup {NoValue} : v.type # "old"
    BY DEF ElicitValue, NoValue
  <1>4. props[n].default # NoValue => Convert(k, props[n].default) \in ElicitValue
    BY <1>2, ConvertedValue
  <1>5. d.type # "old"
    <2>1. \/ d = fresh[n] \/ d = props[n].default \/ d = Zero(n)
          \/ props[n].default # NoValue /\ d = Convert(k, props[n].default)
      BY DEF StoredInMap, StoredInStruct
    <2> HIDE DEF d
    <2> QED
      BY <1>1, <1>2, <1>3, <1>4, <2>1, ZeroIsNew
  <1>6. d # OldValue
    BY <1>5 DEF OldValue
  <1>7. ASSUME ~late, published[n].type # NoType, Mapped(n)
        PROVE  IF n \in DOMAIN given
               THEN Fits(n, given[n]) => Fulfils(published[n], given[n]) /\ d = given[n]
               ELSE d = Zero(n) \/ Fulfils(published[n], d) \/ ~Fits(n, published[n].default)
    <2>1. props = published
      BY <1>7 DEF ElicitInv, BoundInv
    <2>2. CASE n \in DOMAIN given
      <3> SUFFICES ASSUME Fits(n, given[n])
                   PROVE  Fulfils(published[n], given[n]) /\ d = given[n]
        BY <2>2
      <3> DEFINE v == given[n]
                 p == published[n]
      <3>1. Convert(k, v) = v /\ v \in ElicitValue /\ p \in AProperty
        BY <1>1, <2>2 DEF Fits
      <3>2. d = v
        BY <1>1, <1>7, <2>2, <3>1 DEF StoredInMap, StoredInStruct
      <3>3. Valuable(p, v)
        BY <1>7, <2>1, <2>2 DEF ElicitInv, DecodingInv
      <3>4. maker = "reflection" /\ p.type = "integer" => v.v % 2 = 0
        <4> SUFFICES ASSUME maker = "reflection", p.type = "integer"
                     PROVE  v.v % 2 = 0
          OBVIOUS
        <4>1. p.type = ReflectedType(k)
          BY <2>1 DEF ElicitInv, PropsInv
        <4>2. k \in {"int", "uint"}
          <5>1. k \in {"string", "int", "uint", "float", "bool"} \/
                k \notin {"string", "int", "uint", "float", "bool"}
            OBVIOUS
          <5> QED
            BY <4>1, <5>1 DEF ReflectedType, NoType
        <4>3. v.type = "number"
          BY <3>3 DEF Valuable, assignPrimitive
        <4> HIDE DEF v, k
        <4> QED
          BY <3>1, <4>2, <4>3, ConvertedValue
      <3>5. maker \in {"builder", "reflection"} /\ p.type # NoType
        BY <1>7 DEF ElicitInv, ElicitTypes
      <3> HIDE DEF v, p
      <3>6. Fulfils(p, v)
        BY <3>1, <3>3, <3>4, <3>5, ValuableFulfils
      <3> QED
        BY <3>2, <3>6 DEF v, p
    <2>3. CASE n \notin DOMAIN given
      <3> DEFINE p == published[n]
                 e == p.default
      <3>1. e # NoValue => e \in ElicitValue /\ Fulfils(p, e)
        <4> SUFFICES ASSUME e # NoValue PROVE e \in ElicitValue /\ Fulfils(p, e)
          OBVIOUS
        <4>1. DefaultOk(p, e) /\ (p.enum # {} => p.type = "string")
          BY <1>7, <2>1 DEF ElicitInv, DefaultsInv, PropsInv
        <4>2. e \in ElicitValue /\ p \in AProperty
          BY <1>1, <1>2, <2>1
        <4> HIDE DEF e, p
        <4> QED
          BY <4>1, <4>2, DefaultFulfils
      <3>2. CASE IsMap
        <4>1. d = e /\ Zero(n) = NoValue
          BY <2>1, <2>3, <3>2 DEF StoredInMap, Zero
        <4> HIDE DEF d
        <4> QED
          BY <2>3, <3>1, <4>1
      <3>3. CASE ~IsMap
        <4>1. d = IF field[n].ptr /\ e # NoValue THEN Convert(k, e) ELSE Zero(n)
          BY <1>7, <2>1, <2>3, <3>3 DEF StoredInStruct
        <4>2. Convert(k, e) = e \/ ~Fits(n, e)
          BY DEF Fits
        <4> HIDE DEF d
        <4> QED
          BY <2>3, <3>1, <4>1, <4>2
      <3> QED
        BY <3>2, <3>3
    <2> QED
      BY <2>2, <2>3
  <1> QED
    BY <1>6, <1>7

\* The end of Decode: a destination that meets the schema, or an error because
\* something that is required is missing.
LEMMA DecodedKeeps ==
  ASSUME ElicitInv, Decoded
  PROVE  ElicitInv'
  <1> DEFINE missing == \E n \in Names : published[n].required /\ n \notin DOMAIN given
  <1>1. /\ phase = "decoding" /\ todo = {} /\ phase' = "done"
        /\ published' = published /\ props' = props /\ late' = late /\ todo' = todo
        /\ maker' = maker /\ field' = field /\ told' = told /\ given' = given /\ fresh' = fresh
    BY DEF Decoded
  <1>2. /\ missing => outcome' = "error" /\ dst' = dst
        /\ ~missing => /\ outcome' = "accept"
                       /\ dst' = [n \in Names |-> IF IsMap THEN StoredInMap(n)
                                                  ELSE StoredInStruct(n)]
    BY DEF Decoded
  <1>3. outcome = "none" /\ DOMAIN dst = Names /\ \A m \in Names : dst[m] = OldValue
    BY <1>1 DEF ElicitInv, OutcomeInv, ElicitTypes
  <1>4. outcome' \in {"error", "accept"} /\ DOMAIN dst' = Names
    BY <1>2, <1>3
  <1>5. ElicitTypes' /\ PropsInv'
    BY <1>1, <1>4 DEF ElicitInv, ElicitTypes, PropsInv, AnyField
  <1>6. DefaultsInv' /\ BoundInv'
    BY <1>1 DEF ElicitInv, DefaultsInv, BoundInv
  <1>7. DecodingInv'
    BY <1>1 DEF DecodingInv
  <1>8. CASE missing
    <2>1. PICK n \in Names : published[n].required /\ n \notin DOMAIN given
      BY <1>8
    <2>2. ~late /\ told[n] = [published[n] EXCEPT !.default = NoValue]
            /\ ~(maker = "builder" /\ published[n].type = "integer") => told[n].required
      BY <1>1, <2>1, RefusedForAReason
    <2>3. TruthfulAnswerIsDecoded'
      BY <1>1, <2>1, <2>2 DEF TruthfulAnswerIsDecoded
    <2>4. OutcomeInv'
      BY <1>1, <1>2, <1>3, <1>8, <2>3, NothingWritten
    <2> QED
      BY <1>5, <1>6, <1>7, <2>4 DEF ElicitInv
  <1>9. CASE ~missing
    <2>1. \A n \in Names : dst'[n] = IF IsMap THEN StoredInMap(n) ELSE StoredInStruct(n)
      BY <1>2, <1>9
    <2>2. ASSUME NEW n \in Names
          PROVE  /\ dst'[n] # OldValue
                 /\ ~late /\ published[n].type # NoType /\ Mapped(n) =>
                      IF n \in DOMAIN given
                      THEN Fits(n, given[n]) => Fulfils(published[n], given[n]) /\ dst'[n] = given[n]
                      ELSE /\ ~published[n].required
                           /\ dst'[n] = Zero(n) \/ Fulfils(published[n], dst'[n])
                              \/ ~Fits(n, published[n].default)
      BY <1>1, <1>9, <2>1, StoredIsSound
    <2>3. \A n : /\ Mapped(n)' <=> Mapped(n)
                 /\ Zero(n)' = Zero(n)
      BY <1>1 DEF Mapped, IsMap, AnyField, Zero
    <2>4. \A n, v : Fits(n, v)' <=> Fits(n, v)
      BY <1>1 DEF Fits
    <2>5. DecodedMeetsSchema'
      BY <1>1, <2>2, <2>3, <2>4 DEF DecodedMeetsSchema
    <2>6. AllOrNothing'
      BY <1>2, <1>9, <2>2 DEF AllOrNothing
    <2>7. TruthfulAnswerIsDecoded'
      BY <1>2, <1>9 DEF TruthfulAnswerIsDecoded
    <2>8. OutcomeInv'
      BY <1>1, <2>5, <2>6, <2>7 DEF OutcomeInv, AcceptMeansValid
    <2> QED
      BY <1>5, <1>6, <1>7, <2>8 DEF ElicitInv
  <1> QED
    BY <1>8, <1>9

\* Every step keeps the invariant of an elicitation.
LEMMA ElicitStepKeeps ==
  ASSUME ElicitInv, [ElicitationNext]_elicitVars
  PROVE  ElicitInv'
  <1>1. ASSUME NEW n \in Names, DefineProperty(n) PROVE ElicitInv'
    BY <1>1, OptionKeeps
  <1>2. ASSUME NEW n \in Names, DecodeKey(n) PROVE ElicitInv'
    BY <1>2, DecodeKeyKeeps
  <1>3. CASE Bind
    BY <1>3, BindKeeps
  <1>4. CASE Elicit \/ ElicitFails \/ \E a \in {"decline", "cancel", "other"} : NotAccepted(a)
    BY <1>4, ExchangeKeeps
  <1>5. CASE Decoded
    BY <1>5, DecodedKeeps
  <1>6. ASSUME NEW c \in Contents, Accepted(c) PROVE ElicitInv'
    BY <1>6, AcceptedKeeps
  <1>7. CASE UNCHANGED elicitVars
    <2>1. /\ maker' = maker /\ field' = field /\ props' = props /\ late' = late /\ phase' = phase
          /\ published' = published /\ told' = told /\ given' = given /\ todo' = todo
          /\ fresh' = fresh /\ dst' = dst /\ outcome' = outcome
      BY <1>7 DEF elicitVars
    <2>2. ElicitTypes' /\ PropsInv' /\ DefaultsInv' /\ BoundInv'
      BY <2>1 DEF ElicitInv, ElicitTypes, PropsInv, DefaultsInv, BoundInv, AnyField
    <2>3. \A n : /\ Mapped(n)' <=> Mapped(n)
                 /\ Zero(n)' = Zero(n)
      BY <2>1 DEF Mapped, IsMap, AnyField, Zero
    <2>4. \A p, v, n : (Valuable(p, v)' <=> Valuable(p, v)) /\ (Fits(n, v)' <=> Fits(n, v))
      BY <2>1 DEF Valuable, Fits
    <2>5. DecodingInv'
      BY <2>1, <2>3, <2>4 DEF ElicitInv, DecodingInv, Valuable
    <2>6. OutcomeInv'
      BY <2>1, <2>3, <2>4
         DEF ElicitInv, OutcomeInv, AcceptMeansValid, AllOrNothing, DecodedMeetsSchema,
             TruthfulAnswerIsDecoded
    <2> QED
      BY <2>2, <2>5, <2>6 DEF ElicitInv
  <1> QED
    BY <1>1, <1>2, <1>3, <1>4, <1>5, <1>6, <1>7 DEF ElicitationNext

\* A schema starts empty or as the struct says.
LEMMA ElicitStarts ==
  ASSUME ElicitationInit
  PROVE  ElicitInv
  <1>1. /\ late = FALSE /\ phase = "define" /\ published = props
        /\ given = [n \in {} |-> NoValue] /\ todo = {}
        /\ fresh = [n \in Names |-> NoValue] /\ dst = [n \in Names |-> OldValue]
        /\ outcome = "none"
        /\ maker \in {"builder", "reflection"} /\ field \in Structs \cup {AnyField}
        /\ maker = "reflection" => field \in Structs
    BY DEF ElicitationInit
  <1>2. Undefined \in AProperty /\ Undefined.enum = {} /\ Undefined.default = NoValue
    BY DEF Undefined, AProperty, NoType, NoMin, NoMax
  <1>3. \A k : ReflectedType(k) \in {"string", "number", "integer", "boolean", NoType}
    <2> TAKE k
    <2>1. k \in {"string", "int", "uint", "float", "bool"} \/
          k \notin {"string", "int", "uint", "float", "bool"}
      OBVIOUS
    <2> QED
      BY <2>1 DEF ReflectedType
  <1>4. /\ props \in [Names -> AProperty]
        /\ \A n \in Names : /\ props[n].enum = {} /\ props[n].default = NoValue
                            /\ maker = "reflection" => props[n].type = ReflectedType(field[n].kind)
    <2>1. CASE maker = "builder"
      <3>1. props = [n \in Names |-> Undefined]
        BY <2>1 DEF ElicitationInit
      <3> QED
        BY <1>2, <2>1, <3>1
    <2>2. CASE maker = "reflection"
      <3> DEFINE P(n) == [Undefined EXCEPT !.type = ReflectedType(field[n].kind),
                                           !.required = ReflectedType(field[n].kind) # NoType
                                                        /\ ~field[n].ptr]
      <3>1. props = [n \in Names |-> P(n)]
        BY <2>2 DEF ElicitationInit
      <3>2. ASSUME NEW n \in Names
            PROVE  /\ P(n) \in AProperty /\ P(n).enum = {} /\ P(n).default = NoValue
                   /\ P(n).type = ReflectedType(field[n].kind)
        BY <1>2, <1>3 DEF AProperty
      <3> HIDE DEF P
      <3> QED
        BY <3>1, <3>2
    <2> QED
      BY <1>1, <2>1, <2>2
  <1>5. ElicitTypes
    BY <1>1, <1>4 DEF ElicitTypes
  <1>6. PropsInv /\ DefaultsInv
    BY <1>4 DEF PropsInv, DefaultsInv
  <1>7. BoundInv /\ DecodingInv
    BY <1>1 DEF BoundInv, DecodingInv
  <1>8. OutcomeInv
    BY <1>1 DEF OutcomeInv, AcceptMeansValid, AllOrNothing, DecodedMeetsSchema,
                TruthfulAnswerIsDecoded
  <1> QED
    BY <1>5, <1>6, <1>7, <1>8 DEF ElicitInv

\* In every elicitation, with any schema, struct and answer: the destination is
\* written exactly when accept is reported, then as a whole, and with values
\* that meet the published schema, up to the exceptions the property names.
THEOREM AcceptedAnswersAreValid == ElicitationSpec => []AcceptMeansValid
  <1>1. ElicitationInit => ElicitInv
    BY ElicitStarts
  <1>2. ElicitInv /\ [ElicitationNext]_elicitVars => ElicitInv'
    BY ElicitStepKeeps
  <1>3. ElicitInv => AcceptMeansValid
    BY DEF ElicitInv, OutcomeInv
  <1> QED
    BY <1>1, <1>2, <1>3, PTL DEF ElicitationSpec

\* And an answer that is refused breaks the schema the client was sent, or the
\* schema had something the wire or the validation does not know.
THEOREM HonestAnswersAreDecoded == ElicitationSpec => []TruthfulAnswerIsDecoded
  <1>1. ElicitationInit => ElicitInv
    BY ElicitStarts
  <1>2. ElicitInv /\ [ElicitationNext]_elicitVars => ElicitInv'
    BY ElicitStepKeeps
  <1>3. ElicitInv => TruthfulAnswerIsDecoded
    BY DEF ElicitInv, OutcomeInv
  <1> QED
    BY <1>1, <1>2, <1>3, PTL DEF ElicitationSpec
=============================================================================
