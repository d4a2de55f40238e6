--------------------------- MODULE EventBusProofs ---------------------------
(***************************************************************************)
(* The safety properties of EventBus for any number of publishers,         *)
(* subscribers and events and any capacity of the channels.                *)
(***************************************************************************)
EXTENDS EventBus, SequenceTheorems, TLAPS

\* A subscription's line is what it has seen and what waits in its channel.
\* Events of one publisher are in order in each half, and across the two; all
\* of them were begun, and published to this subscription.
SeenInv(s) ==
    \A i \in 1..Len(seen[s]) :
        /\ s \in audience[seen[s][i]]
        /\ seen[s][i][2] <= count[seen[s][i][1]]
        /\ s \in targets[seen[s][i][1]] => seen[s][i][2] < count[seen[s][i][1]]
        /\ \A j \in 1..Len(seen[s]) :
              i < j /\ seen[s][i][1] = seen[s][j][1] => seen[s][i][2] < seen[s][j][2]

ChanInv(s) ==
    \A i \in 1..Len(chan[s]) :
        /\ s \in audience[chan[s][i]]
        /\ chan[s][i][2] <= count[chan[s][i][1]]
        /\ s \in targets[chan[s][i][1]] => chan[s][i][2] < count[chan[s][i][1]]
        /\ \A j \in 1..Len(chan[s]) :
              i < j /\ chan[s][i][1] = chan[s][j][1] => chan[s][i][2] < chan[s][j][2]

CrossInv(s) ==
    \A i \in 1..Len(seen[s]), j \in 1..Len(chan[s]) :
        seen[s][i][1] = chan[s][j][1] => seen[s][i][2] < chan[s][j][2]

LineInv == \A s \in Subscribers : SeenInv(s) /\ ChanInv(s) /\ CrossInv(s)

\* A publisher that has targets left is running, on an event that was published
\* to them.
TargetsInv ==
    \A p \in EventPublishers :
        /\ targets[p] # {} => sending[p]
        /\ sending[p] => count[p] \in 1..MaxPerPub
        /\ \A s \in targets[p] : s \in audience[Publishing(p)]

\* Every event that was begun has reached each of its subscribers, was dropped
\* there, or is still to be sent.
FateInv ==
    \A e \in Events : \A s \in audience[e] :
        /\ e[2] <= count[e[1]]
        /\ \/ \E i \in 1..Len(seen[s]) : seen[s][i] = e
           \/ \E i \in 1..Len(chan[s]) : chan[s][i] = e
           \/ e \in dropped[s]
           \/ e = Publishing(e[1]) /\ s \in targets[e[1]]

BusInv == BusTypeOK /\ LineInv /\ TargetsInv /\ FateInv

-----------------------------------------------------------------------------
\* The initial states satisfy the invariant.
LEMMA InitBus == BusInit => BusInv
<1> SUFFICES ASSUME BusInit PROVE BusInv
  OBVIOUS
<1> USE BusAssumption
<1>1. <<>> \in Seq(Events) /\ Len(<<>>) = 0
  BY EmptySeq
<1>2. BusTypeOK
  <2>1. /\ chan \in [Subscribers -> Seq(Events)] /\ seen \in [Subscribers -> Seq(Events)]
        /\ \A s \in Subscribers : Len(chan[s]) <= ChanCap
    BY <1>1 DEF BusInit
  <2>2. /\ dropped \in [Subscribers -> SUBSET Events]
        /\ audience \in [Events -> SUBSET Subscribers]
        /\ targets \in [EventPublishers -> SUBSET Subscribers]
    BY DEF BusInit
  <2> QED
    BY <2>1, <2>2 DEF BusInit, BusTypeOK
<1>3. LineInv
  BY <1>1 DEF BusInit, LineInv, SeenInv, ChanInv, CrossInv
<1>4. TargetsInv /\ FateInv
  BY DEF BusInit, TargetsInv, FateInv
<1> QED
  BY <1>2, <1>3, <1>4 DEF BusInv

\* What an append and a removal do to a sequence of events.
LEMMA Appended ==
  ASSUME NEW q \in Seq(Events), NEW e \in Events
  PROVE  /\ Append(q, e) \in Seq(Events)
         /\ Len(Append(q, e)) = Len(q) + 1 /\ Len(q) \in Nat
         /\ \A i \in 1..Len(q) : Append(q, e)[i] = q[i]
         /\ Append(q, e)[Len(q) + 1] = e
BY AppendProperties, LenProperties

\* What taking the first event off a channel leaves.
LEMMA Removed ==
  ASSUME NEW q \in Seq(Events), q # <<>>
  PROVE  /\ Tail(q) \in Seq(Events)
         /\ Len(Tail(q)) = Len(q) - 1 /\ Len(q) \in Nat \ {0}
         /\ \A i \in 1..Len(Tail(q)) : Tail(q)[i] = q[i + 1]
         /\ Head(q) = q[1] /\ Head(q) \in Events
BY HeadTailProperties, LenProperties, EmptySeq

\* The elements of a sequence of events are events: pairs of a publisher and a
\* number.
LEMMA EventParts ==
  ASSUME NEW e \in Events
  PROVE  /\ e[1] \in EventPublishers /\ e[2] \in 1..MaxPerPub /\ e[2] \in Nat
         /\ e = <<e[1], e[2]>>
BY BusAssumption DEF Events

-----------------------------------------------------------------------------
\* Copying the channels keeps the invariant: the new event is in nobody's line.
LEMMA PublishKeeps ==
  ASSUME BusInv, NEW p \in EventPublishers, PublishEvent(p)
  PROVE  BusInv'
<1> USE BusAssumption DEF BusInv
<1> DEFINE e == <<p, count[p] + 1>>
<1>1. count[p] \in 0..MaxPerPub /\ count[p] + 1 \in 1..MaxPerPub /\ e \in Events
  BY DEF BusTypeOK, PublishEvent, Events
<1>2. /\ count' = [count EXCEPT ![p] = count[p] + 1]
      /\ targets' = [targets EXCEPT ![p] = subs]
      /\ audience' = [audience EXCEPT ![e] = subs]
      /\ sending' = [sending EXCEPT ![p] = TRUE]
      /\ UNCHANGED <<subs, chan, state, ctxDone, seen, dropped>>
  BY DEF PublishEvent, subVars, BusTypeOK
<1>3. BusTypeOK'
  BY <1>1, <1>2 DEF BusTypeOK
<1>4. LineInv'
  <2> SUFFICES ASSUME NEW s \in Subscribers PROVE (SeenInv(s) /\ ChanInv(s) /\ CrossInv(s))'
    BY DEF LineInv
  <2>0. SeenInv(s) /\ ChanInv(s) /\ CrossInv(s)
    BY DEF LineInv
  <2>1. /\ \A i \in 1..Len(seen[s]) : seen[s][i] \in Events
        /\ \A i \in 1..Len(chan[s]) : chan[s][i] \in Events
    BY ElementOfSeq DEF BusTypeOK
  <2>2. ASSUME NEW x \in Events, x[2] <= count[x[1]], s \in audience[x]
        PROVE  /\ s \in audience'[x] /\ x[2] <= count'[x[1]]
               /\ s \in targets'[x[1]] =>
                     x[2] < count'[x[1]] \/ (s \in targets[x[1]] /\ count'[x[1]] = count[x[1]])
    <3>1. x[1] \in EventPublishers /\ x[2] \in Nat /\ x = <<x[1], x[2]>>
      BY EventParts
    <3>2. CASE x[1] = p
      <4>1. x # e
        BY <1>1, <2>2, <3>1, <3>2
      <4> QED
        BY <1>1, <1>2, <2>2, <3>1, <3>2, <4>1 DEF BusTypeOK
    <3>3. CASE x[1] # p
      <4>1. x # e
        BY <3>3
      <4> QED
        BY <1>1, <1>2, <2>2, <3>1, <3>3, <4>1 DEF BusTypeOK
    <3> QED
      BY <3>2, <3>3
  <2>3. SeenInv(s)'
    BY <1>2, <2>0, <2>1, <2>2 DEF SeenInv
  <2>4. ChanInv(s)'
    BY <1>2, <2>0, <2>1, <2>2 DEF ChanInv
  <2>5. CrossInv(s)'
    BY <1>2, <2>0 DEF CrossInv
  <2> QED
    BY <2>3, <2>4, <2>5
<1>5. TargetsInv'
  <2> SUFFICES ASSUME NEW q \in EventPublishers
               PROVE (/\ targets[q] # {} => sending[q]
                      /\ sending[q] => count[q] \in 1..MaxPerPub
                      /\ \A s \in targets[q] : s \in audience[Publishing(q)])'
    BY DEF TargetsInv
  <2>1. CASE q = p
    BY <1>1, <1>2, <2>1 DEF BusTypeOK, Publishing
  <2>2. CASE q # p
    <3>1. <<q, count[q]>> # e
      BY <2>2
    <3>2. targets[q] # {} => <<q, count[q]>> \in Events
      BY DEF TargetsInv, Events
    <3> QED
      BY <1>1, <1>2, <2>2, <3>1, <3>2 DEF BusTypeOK, TargetsInv, Publishing
  <2> QED
    BY <2>1, <2>2
<1>6. FateInv'
  <2> SUFFICES ASSUME NEW x \in Events, NEW s \in audience'[x]
               PROVE (/\ x[2] <= count[x[1]]
                      /\ \/ \E i \in 1..Len(seen[s]) : seen[s][i] = x
                         \/ \E i \in 1..Len(chan[s]) : chan[s][i] = x
                         \/ x \in dropped[s]
                         \/ x = Publishing(x[1]) /\ s \in targets[x[1]])'
    BY DEF FateInv
  <2>0. x[1] \in EventPublishers /\ x[2] \in Nat /\ x = <<x[1], x[2]>>
    BY EventParts
  <2>1. CASE x = e
    BY <1>1, <1>2, <2>0, <2>1 DEF BusTypeOK, Publishing
  <2>2. CASE x # e
    <3>1. s \in audience[x]
      BY <1>2, <2>2 DEF BusTypeOK
    <3>2. CASE x[1] = p
      <4>1. ~(x = Publishing(x[1]) /\ s \in targets[x[1]])
        BY <3>2 DEF TargetsInv, PublishEvent
      <4>2. /\ x[2] <= count[x[1]]
            /\ \/ \E i \in 1..Len(seen[s]) : seen[s][i] = x
               \/ \E i \in 1..Len(chan[s]) : chan[s][i] = x
               \/ x \in dropped[s]
        BY <3>1, <4>1 DEF FateInv
      <4>3. count'[x[1]] = count[p] + 1 /\ count[p] \in Nat
        BY <1>1, <1>2, <3>2 DEF BusTypeOK
      <4> QED
        BY <1>2, <2>0, <3>2, <4>2, <4>3
    <3>3. CASE x[1] # p
      BY <1>1, <1>2, <2>0, <3>1, <3>3 DEF BusTypeOK, FateInv, Publishing
    <3> QED
      BY <3>2, <3>3
  <2> QED
    BY <2>1, <2>2
<1> QED
  BY <1>3, <1>4, <1>5, <1>6

\* A send takes the target off and puts the event at the end of the line, or
\* drops it.
LEMMA SendKeeps ==
  ASSUME BusInv, NEW p \in EventPublishers, NEW t \in Subscribers, SendEvent(p, t)
  PROVE  BusInv'
<1> USE BusAssumption DEF BusInv
<1> DEFINE e == Publishing(p)
<1>1. /\ t \in targets[p] /\ sending[p] /\ count[p] \in 1..MaxPerPub
      /\ e \in Events /\ e = <<p, count[p]>> /\ t \in audience[e]
      /\ e[1] = p /\ e[2] = count[p]
  BY DEF SendEvent, TargetsInv, Publishing, Events
<1>2. /\ targets' = [targets EXCEPT ![p] = targets[p] \ {t}]
      /\ UNCHANGED <<subs, state, ctxDone, count, sending, seen, audience>>
  BY DEF SendEvent, BusTypeOK
<1>3. \A s \in Subscribers, q \in EventPublishers :
         s \in targets'[q] => s \in targets[q] /\ (q = p => s # t)
  BY <1>2 DEF BusTypeOK
<1>4. /\ chan[t] \in Seq(Events) /\ Len(chan[t]) \in Nat
      /\ \A s \in Subscribers : \A i \in 1..Len(seen[s]) : seen[s][i] \in Events
      /\ \A s \in Subscribers : \A i \in 1..Len(chan[s]) : chan[s][i] \in Events
  BY ElementOfSeq, LenProperties DEF BusTypeOK
<1>5. TargetsInv'
  BY <1>2, <1>3 DEF BusTypeOK, TargetsInv, Publishing
<1>6. CASE Len(chan[t]) < ChanCap
  <2> DEFINE c == Append(chan[t], e)
  <2>1. chan' = [chan EXCEPT ![t] = c] /\ dropped' = dropped
    BY <1>6 DEF SendEvent, BusTypeOK
  <2>2. /\ c \in Seq(Events) /\ Len(c) = Len(chan[t]) + 1
        /\ \A i \in 1..Len(chan[t]) : c[i] = chan[t][i]
        /\ c[Len(chan[t]) + 1] = e
    BY <1>1, <1>4, Appended
  <2> HIDE DEF c, e
  <2>3. BusTypeOK'
    BY <1>2, <1>4, <1>6, <2>1, <2>2 DEF BusTypeOK
  <2>4. LineInv'
    <3> SUFFICES ASSUME NEW s \in Subscribers PROVE (SeenInv(s) /\ ChanInv(s) /\ CrossInv(s))'
      BY DEF LineInv
    <3>0. SeenInv(s) /\ ChanInv(s) /\ CrossInv(s)
      BY DEF LineInv
    <3>1. SeenInv(s)'
      BY <1>2, <1>3, <1>4, <3>0, EventParts DEF SeenInv
    <3>2. CASE s # t
      <4>1. chan'[s] = chan[s]
        BY <2>1, <3>2 DEF BusTypeOK
      <4> QED
        BY <1>2, <1>3, <1>4, <3>0, <3>1, <4>1, EventParts DEF ChanInv, CrossInv
    <3>3. CASE s = t
      <4>1. chan'[s] = c
        BY <2>1, <3>3 DEF BusTypeOK
      <4>2. \A i \in 1..Len(c) :
               \/ i \in 1..Len(chan[s]) /\ c[i] = chan[s][i]
               \/ i = Len(chan[s]) + 1 /\ c[i] = e
        BY <1>4, <2>2, <3>3
      <4>3. \A i \in 1..Len(chan[s]) :
               chan[s][i][1] = p => chan[s][i][2] < count[p]
        BY <1>1, <3>0, <3>3 DEF ChanInv
      <4>4. \A i \in 1..Len(seen[s]) :
               seen[s][i][1] = p => seen[s][i][2] < count[p]
        BY <1>1, <3>0, <3>3 DEF SeenInv
      <4>5. ChanInv(s)'
        <5> SUFFICES ASSUME NEW i \in 1..Len(c)
                     PROVE  /\ s \in audience[c[i]]
                            /\ c[i][2] <= count[c[i][1]]
                            /\ s \in targets'[c[i][1]] => c[i][2] < count[c[i][1]]
                            /\ \A j \in 1..Len(c) :
                                  i < j /\ c[i][1] = c[j][1] => c[i][2] < c[j][2]
          BY <1>2, <4>1 DEF ChanInv
        <5>1. CASE i \in 1..Len(chan[s]) /\ c[i] = chan[s][i]
          <6>1. \A j \in 1..Len(c) : i < j /\ c[i][1] = c[j][1] => c[i][2] < c[j][2]
            BY <1>1, <3>0, <4>2, <4>3, <5>1 DEF ChanInv
          <6>2. chan[s][i][1] \in EventPublishers
            BY <1>4, <5>1, EventParts
          <6> QED
            BY <1>3, <3>0, <5>1, <6>1, <6>2 DEF ChanInv
        <5>2. CASE i = Len(chan[s]) + 1 /\ c[i] = e
          <6>1. \A j \in 1..Len(c) : ~(i < j)
            BY <1>4, <2>2, <3>3, <5>2
          <6> QED
            BY <1>1, <1>3, <3>3, <5>2, <6>1
        <5> QED
          BY <4>2, <5>1, <5>2
      <4>6. CrossInv(s)'
        <5> SUFFICES ASSUME NEW i \in 1..Len(seen[s]), NEW j \in 1..Len(c),
                            seen[s][i][1] = c[j][1]
                     PROVE  seen[s][i][2] < c[j][2]
          BY <1>2, <4>1 DEF CrossInv
        <5>1. CASE j \in 1..Len(chan[s]) /\ c[j] = chan[s][j]
          BY <3>0, <5>1 DEF CrossInv
        <5>2. CASE c[j] = e
          BY <1>1, <4>4, <5>2
        <5> QED
          BY <4>2, <5>1, <5>2
      <4> QED
        BY <3>1, <4>5, <4>6
    <3> QED
      BY <3>2, <3>3
  <2>5. FateInv'
    <3> SUFFICES ASSUME NEW x \in Events, NEW s \in audience[x]
                 PROVE /\ x[2] <= count[x[1]]
                       /\ \/ \E i \in 1..Len(seen[s]) : seen[s][i] = x
                          \/ \E i \in 1..Len(chan'[s]) : chan'[s][i] = x
                          \/ x \in dropped[s]
                          \/ x = Publishing(x[1]) /\ s \in targets'[x[1]]
      BY <1>2, <2>1 DEF FateInv, Publishing
    <3>0. s \in Subscribers /\ x[1] \in EventPublishers
      BY EventParts DEF BusTypeOK
    <3>1. \A i \in 1..Len(chan[s]) : \E j \in 1..Len(chan'[s]) : chan'[s][j] = chan[s][i]
      <4> SUFFICES ASSUME NEW i \in 1..Len(chan[s])
                   PROVE  i \in 1..Len(chan'[s]) /\ chan'[s][i] = chan[s][i]
        OBVIOUS
      <4>1. CASE s = t
        <5>1. chan'[s] = c /\ i \in 1..Len(chan[t])
          BY <2>1, <3>0, <4>1 DEF BusTypeOK
        <5>2. i \in 1..Len(c)
          BY <1>4, <2>2, <5>1
        <5> QED
          BY <2>2, <4>1, <5>1, <5>2
      <4>2. CASE s # t
        BY <2>1, <3>0, <4>2 DEF BusTypeOK
      <4> QED
        BY <4>1, <4>2
    <3>2. CASE x = Publishing(x[1]) /\ s \in targets[x[1]] /\ x[1] = p /\ s = t
      <4>1. Len(chan[t]) + 1 \in 1..Len(chan'[t]) /\ chan'[t][Len(chan[t]) + 1] = e
        BY <1>4, <2>1, <2>2 DEF BusTypeOK
      <4> QED
        BY <3>2, <4>1 DEF FateInv, e
    <3>3. CASE x = Publishing(x[1]) /\ s \in targets[x[1]] /\ ~(x[1] = p /\ s = t)
      <4>1. s \in targets'[x[1]]
        BY <1>2, <3>0, <3>3 DEF BusTypeOK
      <4> QED
        BY <3>3, <4>1 DEF FateInv
    <3>4. CASE ~(x = Publishing(x[1]) /\ s \in targets[x[1]])
      BY <3>1, <3>4 DEF FateInv
    <3> QED
      BY <3>2, <3>3, <3>4
  <2> QED
    BY <1>5, <2>3, <2>4, <2>5
<1>7. CASE Len(chan[t]) = ChanCap
  <2>1. chan' = chan /\ dropped' = [dropped EXCEPT ![t] = dropped[t] \cup {e}]
    BY <1>7 DEF SendEvent, BusTypeOK
  <2>2. BusTypeOK'
    BY <1>1, <1>2, <2>1 DEF BusTypeOK
  <2> HIDE DEF e
  <2>3. LineInv'
    BY <1>2, <1>3, <1>4, <2>1, EventParts, ZenonT(60) DEF LineInv, SeenInv, ChanInv, CrossInv
  <2>4. FateInv'
    <3> SUFFICES ASSUME NEW x \in Events, NEW s \in audience[x]
                 PROVE /\ x[2] <= count[x[1]]
                       /\ \/ \E i \in 1..Len(seen[s]) : seen[s][i] = x
                          \/ \E i \in 1..Len(chan[s]) : chan[s][i] = x
                          \/ x \in dropped'[s]
                          \/ x = Publishing(x[1]) /\ s \in targets'[x[1]]
      BY <1>2, <2>1 DEF FateInv, Publishing
    <3>0. s \in Subscribers /\ x[1] \in EventPublishers
      BY EventParts DEF BusTypeOK
    <3>1. dropped[s] \subseteq dropped'[s] /\ e \in dropped'[t]
      BY <2>1, <3>0 DEF BusTypeOK
    <3>2. s \in targets[x[1]] => s \in targets'[x[1]] \/ (x[1] = p /\ s = t)
      BY <1>2, <3>0 DEF BusTypeOK
    <3> QED
      BY <3>1, <3>2 DEF FateInv, e
  <2> QED
    BY <1>5, <2>2, <2>3, <2>4
<1> QED
  BY <1>6, <1>7 DEF SendEvent

\* A receive moves the head of the channel to the end of what was seen: the
\* order across the two halves of the line becomes the order within one.
LEMMA ReceiveKeeps ==
  ASSUME BusInv, NEW t \in Subscribers, Receive(t)
  PROVE  BusInv'
<1> USE BusAssumption DEF BusInv
<1> DEFINE e == Head(chan[t])
           c == Tail(chan[t])
           d == Append(seen[t], e)
<1>1. /\ chan' = [chan EXCEPT ![t] = c]
      /\ seen' = [seen EXCEPT ![t] = d]
      /\ state' = [state EXCEPT ![t] = "handling"]
      /\ UNCHANGED <<subs, ctxDone, count, sending, targets, dropped, audience>>
  BY DEF Receive, sendVars
<1>2. /\ chan[t] \in Seq(Events) /\ seen[t] \in Seq(Events) /\ chan[t] # <<>>
      /\ Len(chan[t]) <= ChanCap
  BY DEF BusTypeOK, Receive
<1>3. /\ c \in Seq(Events) /\ Len(c) = Len(chan[t]) - 1 /\ Len(chan[t]) \in Nat \ {0}
      /\ \A i \in 1..Len(c) : c[i] = chan[t][i + 1]
      /\ e = chan[t][1] /\ e \in Events
  BY <1>2, Removed
<1>4. /\ d \in Seq(Events) /\ Len(d) = Len(seen[t]) + 1 /\ Len(seen[t]) \in Nat
      /\ \A i \in 1..Len(seen[t]) : d[i] = seen[t][i]
      /\ d[Len(seen[t]) + 1] = e
  BY <1>2, <1>3, Appended
<1> HIDE DEF e, c, d
<1>5. chan'[t] = c /\ seen'[t] = d
  BY <1>1 DEF BusTypeOK
<1>6. /\ \A i \in 1..Len(c) : i + 1 \in 1..Len(chan[t]) /\ 1 < i + 1
      /\ 1 \in 1..Len(chan[t])
      /\ \A i \in 1..Len(d) : \/ i \in 1..Len(seen[t]) /\ d[i] = seen[t][i]
                              \/ i = Len(seen[t]) + 1 /\ d[i] = e
  BY <1>3, <1>4
<1>7. BusTypeOK'
  BY <1>1, <1>2, <1>3, <1>4 DEF BusTypeOK
<1>8. TargetsInv'
  BY <1>1 DEF TargetsInv, Publishing
<1>9. LineInv'
  <2> SUFFICES ASSUME NEW s \in Subscribers PROVE (SeenInv(s) /\ ChanInv(s) /\ CrossInv(s))'
    BY DEF LineInv
  <2>0. SeenInv(s) /\ ChanInv(s) /\ CrossInv(s)
    BY DEF LineInv
  <2>1. CASE s # t
    <3>1. chan'[s] = chan[s] /\ seen'[s] = seen[s]
      BY <1>1, <2>1 DEF BusTypeOK
    <3> QED
      BY <1>1, <2>0, <3>1 DEF SeenInv, ChanInv, CrossInv
  <2>2. CASE s = t
    <3>1. ChanInv(t)'
      <4> SUFFICES ASSUME NEW i \in 1..Len(c)
                   PROVE  /\ t \in audience[c[i]]
                          /\ c[i][2] <= count[c[i][1]]
                          /\ t \in targets[c[i][1]] => c[i][2] < count[c[i][1]]
                          /\ \A j \in 1..Len(c) :
                                i < j /\ c[i][1] = c[j][1] => c[i][2] < c[j][2]
        BY <1>1, <1>5 DEF ChanInv
      <4>1. c[i] = chan[t][i + 1] /\ i + 1 \in 1..Len(chan[t])
        BY <1>3, <1>6
      <4>2. ASSUME NEW j \in 1..Len(c), i < j, c[i][1] = c[j][1] PROVE c[i][2] < c[j][2]
        <5>1. c[j] = chan[t][j + 1] /\ j + 1 \in 1..Len(chan[t]) /\ i + 1 < j + 1
          BY <1>3, <1>6, <4>2
        <5> QED
          BY <2>0, <2>2, <4>1, <4>2, <5>1 DEF ChanInv
      <4> QED
        BY <2>0, <2>2, <4>1, <4>2 DEF ChanInv
    <3>2. SeenInv(t)'
      <4> SUFFICES ASSUME NEW i \in 1..Len(d)
                   PROVE  /\ t \in audience[d[i]]
                          /\ d[i][2] <= count[d[i][1]]
                          /\ t \in targets[d[i][1]] => d[i][2] < count[d[i][1]]
                          /\ \A j \in 1..Len(d) :
                                i < j /\ d[i][1] = d[j][1] => d[i][2] < d[j][2]
        BY <1>1, <1>5 DEF SeenInv
      <4>1. CASE i \in 1..Len(seen[t]) /\ d[i] = seen[t][i]
        <5>1. ASSUME NEW j \in 1..Len(d), i < j, d[i][1] = d[j][1] PROVE d[i][2] < d[j][2]
          <6>1. CASE j \in 1..Len(seen[t]) /\ d[j] = seen[t][j]
            BY <2>0, <2>2, <4>1, <5>1, <6>1 DEF SeenInv
          <6>2. CASE d[j] = chan[t][1]
            BY <1>6, <2>0, <2>2, <4>1, <5>1, <6>2 DEF CrossInv
          <6> QED
            BY <1>3, <1>6, <6>1, <6>2
        <5> QED
          BY <2>0, <2>2, <4>1, <5>1 DEF SeenInv
      <4>2. CASE i = Len(seen[t]) + 1 /\ d[i] = e
        <5>1. \A j \in 1..Len(d) : ~(i < j)
          BY <1>4, <4>2
        <5> QED
          BY <1>3, <1>6, <2>0, <2>2, <4>2, <5>1 DEF ChanInv
      <4> QED
        BY <1>6, <4>1, <4>2
    <3>3. CrossInv(t)'
      <4> SUFFICES ASSUME NEW i \in 1..Len(d), NEW j \in 1..Len(c), d[i][1] = c[j][1]
                   PROVE  d[i][2] < c[j][2]
        BY <1>5 DEF CrossInv
      <4>1. c[j] = chan[t][j + 1] /\ j + 1 \in 1..Len(chan[t]) /\ 1 < j + 1
        BY <1>3, <1>6
      <4>2. CASE i \in 1..Len(seen[t]) /\ d[i] = seen[t][i]
        BY <2>0, <2>2, <4>1, <4>2 DEF CrossInv
      <4>3. CASE d[i] = chan[t][1]
        BY <1>6, <2>0, <2>2, <4>1, <4>3 DEF ChanInv
      <4> QED
        BY <1>3, <1>6, <4>2, <4>3
    <3> QED
      BY <2>2, <3>1, <3>2, <3>3
  <2> QED
    BY <2>1, <2>2
<1>10. FateInv'
  <2> SUFFICES ASSUME NEW x \in Events, NEW s \in audience[x]
               PROVE /\ x[2] <= count[x[1]]
                     /\ \/ \E i \in 1..Len(seen'[s]) : seen'[s][i] = x
                        \/ \E i \in 1..Len(chan'[s]) : chan'[s][i] = x
                        \/ x \in dropped[s]
                        \/ x = Publishing(x[1]) /\ s \in targets[x[1]]
    BY <1>1 DEF FateInv, Publishing
  <2>0. s \in Subscribers
    BY DEF BusTypeOK
  <2>1. CASE s # t
    <3>1. chan'[s] = chan[s] /\ seen'[s] = seen[s]
      BY <1>1, <2>0, <2>1 DEF BusTypeOK
    <3> QED
      BY <3>1 DEF FateInv
  <2>2. CASE s = t
    <3>1. ASSUME NEW i \in 1..Len(seen[t]), seen[t][i] = x
          PROVE  \E k \in 1..Len(d) : d[k] = x
      <4>1. i \in 1..Len(d) /\ d[i] = x
        BY <1>4, <3>1
      <4> QED
        BY <4>1
    <3>2. ASSUME NEW i \in 1..Len(chan[t]), chan[t][i] = x
          PROVE  \/ \E k \in 1..Len(d) : d[k] = x
                 \/ \E k \in 1..Len(c) : c[k] = x
      <4>1. CASE i = 1
        <5>1. Len(seen[t]) + 1 \in 1..Len(d) /\ d[Len(seen[t]) + 1] = x
          BY <1>3, <1>4, <3>2, <4>1
        <5> QED
          BY <5>1
      <4>2. CASE i # 1
        <5>1. i - 1 \in 1..Len(c) /\ c[i - 1] = chan[t][(i - 1) + 1] /\ (i - 1) + 1 = i
          BY <1>3, <4>2
        <5> QED
          BY <3>2, <5>1
      <4> QED
        BY <4>1, <4>2
    <3> QED
      BY <1>5, <2>2, <3>1, <3>2 DEF FateInv
  <2> QED
    BY <2>1, <2>2
<1> QED
  BY <1>7, <1>8, <1>9, <1>10

\* The other steps move neither events nor targets; a PublishEvent returns only
\* when it has nothing left to send.
LEMMA OthersKeep ==
  ASSUME BusInv,
         UNCHANGED <<chan, count, targets, seen, dropped, audience>>,
         subs' \subseteq Subscribers,
         state' \in [Subscribers -> {"new", "receiving", "handling", "leaving", "gone"}],
         ctxDone' \in [Subscribers -> BOOLEAN],
         sending' \in [EventPublishers -> BOOLEAN],
         \A p \in EventPublishers : sending'[p] # sending[p] => targets[p] = {} /\ ~sending'[p]
  PROVE  BusInv'
<1>1. BusTypeOK'
  BY DEF BusInv, BusTypeOK
<1>2. LineInv' /\ FateInv'
  BY DEF BusInv, LineInv, SeenInv, ChanInv, CrossInv, FateInv, Publishing
<1>3. TargetsInv'
  BY DEF BusInv, TargetsInv, Publishing
<1> QED
  BY <1>1, <1>2, <1>3 DEF BusInv

\* Every step keeps the invariant.
LEMMA NextBus == BusInv /\ [BusNext]_busVars => BusInv'
<1> SUFFICES ASSUME BusInv, [BusNext]_busVars PROVE BusInv'
  OBVIOUS
<1> USE DEF subVars, sendVars, busHistVars
<1>1. CASE UNCHANGED busVars
  BY <1>1, OthersKeep DEF busVars, BusInv, BusTypeOK
<1>2. ASSUME NEW p \in EventPublishers, PublishEvent(p) PROVE BusInv'
  BY <1>2, PublishKeeps
<1>3. ASSUME NEW p \in EventPublishers, PublishReturns(p) PROVE BusInv'
  BY <1>3, OthersKeep DEF PublishReturns, BusInv, BusTypeOK
<1>4. ASSUME NEW p \in EventPublishers, NEW s \in Subscribers, SendEvent(p, s) PROVE BusInv'
  BY <1>4, SendKeeps
<1>5. ASSUME NEW s \in Subscribers, Receive(s) PROVE BusInv'
  BY <1>5, ReceiveKeeps
<1>6. ASSUME NEW s \in Subscribers, SubscribeEvents(s) PROVE BusInv'
  BY <1>6, OthersKeep DEF SubscribeEvents, BusInv, BusTypeOK
<1>7. ASSUME NEW s \in Subscribers, HandlerReturns(s) \/ EventHandlerFails(s) PROVE BusInv'
  BY <1>7, OthersKeep DEF HandlerReturns, EventHandlerFails, BusInv, BusTypeOK
<1>8. ASSUME NEW s \in Subscribers, Stop(s) \/ Leave(s) PROVE BusInv'
  BY <1>8, OthersKeep DEF Stop, Leave, BusInv, BusTypeOK
<1>9. ASSUME NEW s \in Subscribers, CancelCtx(s) PROVE BusInv'
  BY <1>9, OthersKeep DEF CancelCtx, BusInv, BusTypeOK
<1> QED
  BY <1>1, <1>2, <1>3, <1>4, <1>5, <1>6, <1>7, <1>8, <1>9 DEF BusNext

-----------------------------------------------------------------------------
\* The inductive invariant holds throughout: lines in order, targets of running
\* calls only, no event of PublishEvent astray.
THEOREM BusInvariant == BusSpec => []BusInv
BY InitBus, NextBus, PTL DEF BusSpec

\* Every variable keeps its type, and no subscriber's channel ever holds more
\* than its capacity, whatever PublishEvent is called with.
THEOREM BusTypes == BusSpec => []BusTypeOK
<1>1. BusInv => BusTypeOK
  BY DEF BusInv
<1> QED
  BY <1>1, BusInvariant, PTL

\* A subscription's handler gets one publisher's events in the order of its
\* PublishEvent calls, at most once, and none from before SubscribeEvents.
THEOREM PublisherOrderHolds == BusSpec => []PublisherOrder
<1>1. BusInv => PublisherOrder
  <2> SUFFICES ASSUME BusInv, NEW s \in Subscribers,
                      NEW i \in DOMAIN seen[s], NEW j \in DOMAIN seen[s]
               PROVE  /\ s \in audience[seen[s][i]]
                      /\ i < j /\ seen[s][i][1] = seen[s][j][1] =>
                            seen[s][i][2] < seen[s][j][2]
    BY DEF PublisherOrder
  <2>1. DOMAIN seen[s] = 1..Len(seen[s])
    BY LenProperties DEF BusInv, BusTypeOK
  <2> QED
    BY <2>1 DEF BusInv, LineInv, SeenInv
<1> QED
  BY <1>1, BusInvariant, PTL

\* What a subscriber has got, in numbers: nothing changes, or one more waits.
LEMMA Growth ==
  ASSUME NEW a \in Nat, NEW b \in Nat, NEW k \in Nat, NEW x, NEW y,
         a + b >= k,
         x = a /\ (y = b \/ y = b + 1)
  PROVE  x + y >= k
OBVIOUS

\* ... or one that waited has been seen.
LEMMA Moved ==
  ASSUME NEW a \in Nat, NEW b \in Nat, NEW k \in Nat, a + b >= k
  PROVE  (a + 1) + (b - 1) >= k
OBVIOUS

\* A send drops an event only at a channel that is full, and what a subscriber
\* has got, seen or waiting, never becomes less.
LEMMA StepBacklog ==
  BusInv /\ LossNeedsBacklog /\ [BusNext]_busVars => LossNeedsBacklog'
<1> SUFFICES ASSUME BusInv, LossNeedsBacklog, [BusNext]_busVars,
                    NEW s \in Subscribers, dropped'[s] # {}
             PROVE  Len(seen'[s]) + Len(chan'[s]) >= ChanCap
  BY DEF LossNeedsBacklog
<1> USE DEF subVars, sendVars, busHistVars
<1>c. ChanCap \in Nat
  BY BusAssumption
<1>0. Len(seen[s]) \in Nat /\ Len(chan[s]) \in Nat
  BY LenProperties DEF BusInv, BusTypeOK
<1>1. seen[s] \in Seq(Events) /\ chan[s] \in Seq(Events)
  BY DEF BusInv, BusTypeOK
<1>2. CASE UNCHANGED <<seen, chan, dropped>>
  BY <1>2 DEF LossNeedsBacklog
<1>3. ASSUME NEW p \in EventPublishers, NEW t \in Subscribers, SendEvent(p, t)
      PROVE  Len(seen'[s]) + Len(chan'[s]) >= ChanCap
  <2>0. seen' = seen
    BY <1>3 DEF SendEvent
  <2>1. CASE s # t
    <3>1. chan'[s] = chan[s] /\ dropped'[s] = dropped[s]
      BY <1>3, <2>1 DEF SendEvent, BusInv, BusTypeOK
    <3> QED
      BY <2>0, <3>1 DEF LossNeedsBacklog
  <2>2. CASE s = t /\ Len(chan[s]) < ChanCap
    <3>1. chan'[s] = Append(chan[s], Publishing(p)) /\ dropped'[s] = dropped[s]
      BY <1>3, <2>2 DEF SendEvent, BusInv, BusTypeOK
    <3>2. Publishing(p) \in Events
      BY <1>3 DEF SendEvent, BusInv, TargetsInv, Publishing, Events
    <3> DEFINE e == Publishing(p)
    <3> HIDE DEF e
    <3>3. Len(Append(chan[s], e)) = Len(chan[s]) + 1
      BY <1>1, <3>2, Appended DEF e
    <3>4. Len(seen[s]) + Len(chan[s]) >= ChanCap
      BY <3>1 DEF LossNeedsBacklog
    <3>5. Len(chan'[s]) = Len(chan[s]) + 1
      BY <3>1, <3>3 DEF e
    <3> QED
      BY <1>0, <1>c, <2>0, <3>4, <3>5, Growth
  <2>3. CASE s = t /\ Len(chan[s]) = ChanCap
    <3>1. chan'[s] = chan[s]
      BY <1>3, <2>3 DEF SendEvent
    <3>2. Len(seen[s]) + Len(chan[s]) >= ChanCap
      BY <1>0, <1>c, <2>3
    <3> QED
      BY <1>0, <1>c, <2>0, <3>1, <3>2, Growth
  <2> QED
    BY <1>3, <2>1, <2>2, <2>3 DEF SendEvent
<1>4. ASSUME NEW t \in Subscribers, Receive(t)
      PROVE  Len(seen'[s]) + Len(chan'[s]) >= ChanCap
  <2>1. CASE s # t
    <3>1. chan'[s] = chan[s] /\ seen'[s] = seen[s] /\ dropped' = dropped
      BY <1>4, <2>1 DEF Receive, BusInv, BusTypeOK
    <3> QED
      BY <3>1 DEF LossNeedsBacklog
  <2>2. CASE s = t
    <3>1. /\ chan[s] # <<>> /\ dropped' = dropped
          /\ chan'[s] = Tail(chan[s]) /\ seen'[s] = Append(seen[s], Head(chan[s]))
      BY <1>4, <2>2 DEF Receive, BusInv, BusTypeOK
    <3>2. Len(Tail(chan[s])) = Len(chan[s]) - 1 /\ Head(chan[s]) \in Events
      BY <1>1, <3>1, Removed
    <3>3. Len(Append(seen[s], Head(chan[s]))) = Len(seen[s]) + 1
      BY <1>1, <3>2, Appended
    <3>4. Len(seen[s]) + Len(chan[s]) >= ChanCap
      BY <3>1 DEF LossNeedsBacklog
    <3>5. Len(chan'[s]) = Len(chan[s]) - 1 /\ Len(seen'[s]) = Len(seen[s]) + 1
      BY <3>1, <3>2, <3>3
    <3>6. (Len(seen[s]) + 1) + (Len(chan[s]) - 1) >= ChanCap
      BY <1>0, <1>c, <3>4, Moved
    <3> QED
      BY <3>5, <3>6, Zenon
  <2> QED
    BY <2>1, <2>2
<1>5. ASSUME NEW p \in EventPublishers, PublishEvent(p) \/ PublishReturns(p)
      PROVE  UNCHANGED <<seen, chan, dropped>>
  BY <1>5 DEF PublishEvent, PublishReturns
<1>6. ASSUME NEW t \in Subscribers,
             \/ SubscribeEvents(t) \/ HandlerReturns(t) \/ EventHandlerFails(t)
             \/ Stop(t) \/ Leave(t) \/ CancelCtx(t)
      PROVE  UNCHANGED <<seen, chan, dropped>>
  BY <1>6 DEF SubscribeEvents, HandlerReturns, EventHandlerFails, Stop, Leave, CancelCtx
<1>7. CASE UNCHANGED busVars
  BY <1>2, <1>7 DEF busVars
<1> QED
  BY <1>2, <1>3, <1>4, <1>5, <1>6, <1>7 DEF BusNext

\* When PublishEvent has returned, its event has reached, waits for or was
\* dropped at every subscriber it copied, and one is dropped only at a
\* subscriber that has got as many events as its channel holds.
THEOREM EventsAccountedFor == BusSpec => []AccountedFor
<1>1. BusInv /\ LossNeedsBacklog => AccountedFor
  <2> SUFFICES ASSUME BusInv, LossNeedsBacklog, NEW e \in Events, Returned(e), NEW s \in audience[e]
               PROVE  Saw(s, e) \/ Contains(chan[s], e) \/ e \in dropped[s]
    BY DEF AccountedFor
  <2>1. e[1] \in EventPublishers /\ e[2] \in Nat
    BY EventParts
  <2>2. ~(e = Publishing(e[1]) /\ s \in targets[e[1]])
    <3> SUFFICES ASSUME e = Publishing(e[1]), s \in targets[e[1]] PROVE FALSE
      OBVIOUS
    <3>1. sending[e[1]] /\ e[2] = count[e[1]]
      BY <2>1 DEF BusInv, TargetsInv, Publishing
    <3> QED
      BY <2>1, <3>1 DEF Returned
  <2> QED
    BY <2>2 DEF BusInv, FateInv, Saw, Contains
<1>2. BusInit => LossNeedsBacklog
  BY DEF BusInit, LossNeedsBacklog
<1>3. BusSpec => []LossNeedsBacklog
  BY <1>2, StepBacklog, BusInvariant, PTL DEF BusSpec
<1> QED
  BY <1>1, <1>3, BusInvariant, PTL
=============================================================================
