--------------------------- MODULE TransportProofs ---------------------------
(***************************************************************************)
(* Proofs about HttpTransport and StdioTransport, for any number of        *)
(* goroutines, connections, requests and messages: what they write to the  *)
(* client is whole, and a message has one fate.                            *)
(***************************************************************************)
EXTENDS HttpTransport, StdioTransport, FiniteSetTheorems, SequenceTheorems, TLAPS

-----------------------------------------------------------------------------
(* The streaming HTTP transport.                                           *)

InFrame == {"prefix", "payload", "end"}
Places == InFrame \cup {"idle", "waiting", "failed", "written", "lost", "publish", "published"}
Frames == Writers \X InFrame

\* How many pieces of its frame a goroutine has written.
Written(w) == CASE write[w] = "prefix" -> 0 [] write[w] = "payload" -> 1
                [] write[w] = "end" -> 2 [] OTHER -> 0

HttpTypes ==
    /\ write \in [Writers -> Places]
    /\ holder \in Writers \cup {NoWriter}
    /\ wire \in Seq(Frames)
    /\ connUp \in BOOLEAN /\ writeErr \in BOOLEAN
    /\ \A w \in Writers : write[w] \in InFrame <=> holder = w

\* Until a write fails, the response is whole frames and then the pieces that
\* the holder of the lock has written.
FramesInv ==
    ~writeErr =>
        IF holder = NoWriter THEN \E k \in Nat : Len(wire) = 3 * k
        ELSE \E k \in Nat : /\ Len(wire) = 3 * k + Written(holder)
                            /\ Written(holder) > 0 => wire[3 * k + 1][1] = holder

\* The index of a frame.
LEMMA FrameIndex ==
  ASSUME NEW k \in Nat, NEW r \in 0..2
  PROVE  (3 * k + r) \div 3 = k
OBVIOUS

\* Every step keeps the types, and the lock with the goroutine in a frame.
LEMMA StepHttpTypes ==
  ASSUME HttpTypes, [HttpNext]_httpVars
  PROVE  HttpTypes'
<1> USE HttpAssumption DEF InFrame, Places, postVars, To
<1>1. ASSUME NEW w \in Writers, WriteMessageID(w) PROVE HttpTypes'
  BY <1>1 DEF WriteMessageID, HttpTypes
<1>2. ASSUME NEW w \in Writers, Lock(w) PROVE HttpTypes'
  BY <1>2 DEF Lock, HttpTypes
<1>3. ASSUME NEW w \in Writers, WritePiece(w) PROVE HttpTypes'
  <2>1. wire' \in Seq(Frames)
    <3>1. <<w, write[w]>> \in Frames
      BY <1>3 DEF WritePiece, Frames
    <3> QED
      BY <1>3, <3>1, AppendProperties DEF WritePiece, HttpTypes
  <2>2. holder = w
    BY <1>3 DEF WritePiece, HttpTypes
  <2>3. CASE write[w] = "end"
    BY <1>3, <2>1, <2>2, <2>3 DEF WritePiece, AfterPiece, HttpTypes
  <2>4. CASE write[w] # "end"
    BY <1>3, <2>1, <2>2, <2>4 DEF WritePiece, AfterPiece, HttpTypes
  <2> QED
    BY <2>3, <2>4
<1>4. ASSUME NEW w \in Writers, WriteFails(w) PROVE HttpTypes'
  BY <1>4 DEF WriteFails, HttpTypes
<1>5. ASSUME NEW w \in Writers, FallBack(w) \/ PublishToSession(w) \/ FallBackRefused(w)
      PROVE  HttpTypes'
  BY <1>5 DEF FallBack, PublishToSession, FallBackRefused, HttpTypes
<1>6. CASE PostBreaks \/ PostContextEnds
  BY <1>6 DEF PostBreaks, PostContextEnds, HttpTypes
<1>7. CASE UNCHANGED postVars
  BY <1>7 DEF HttpTypes
<1> QED
  BY <1>1, <1>2, <1>3, <1>4, <1>5, <1>6, <1>7
  DEF HttpNext, httpVars, PublishNote, DeleteMCP, GetMCP, GetClaims, GetWrites,
      GetWriteFails, GetBreaks, ClientReads

\* Where a piece that the holder of the lock writes goes in its frame.
LEMMA NextPiece ==
  ASSUME HttpTypes, FramesInv, NEW w \in Writers, WritePiece(w)
  PROVE  \E k \in Nat :
            /\ holder = w /\ Len(wire) = 3 * k + Written(w) /\ Written(w) \in 0..2
            /\ Written(w) > 0 => wire[3 * k + 1][1] = w
            /\ Pieces[Written(w) + 1] = write[w]
<1>1. write[w] \in InFrame /\ ~writeErr /\ holder = w /\ holder # NoWriter
  BY HttpAssumption DEF WritePiece, InFrame, HttpTypes
<1>2. Written(w) \in 0..2 /\ Pieces[Written(w) + 1] = write[w]
  BY <1>1 DEF InFrame, Written, Pieces
<1> QED
  BY <1>1, <1>2 DEF FramesInv

\* Every step keeps the response made of frames.
LEMMA StepFrames ==
  ASSUME HttpTypes, HttpTypes', FramesInv, WholeFrames, [HttpNext]_httpVars
  PROVE  FramesInv' /\ WholeFrames'
<1> USE HttpAssumption DEF postVars, To
<1>1. ASSUME NEW w \in Writers, WritePiece(w) PROVE FramesInv' /\ WholeFrames'
  <2>1. PICK k \in Nat : /\ holder = w /\ Len(wire) = 3 * k + Written(w) /\ Written(w) \in 0..2
                         /\ Written(w) > 0 => wire[3 * k + 1][1] = w
                         /\ Pieces[Written(w) + 1] = write[w]
    BY <1>1, NextPiece
  <2> DEFINE n == Len(wire)
  <2>2. <<w, write[w]>> \in Frames /\ wire \in Seq(Frames)
    BY <1>1 DEF WritePiece, Frames, InFrame, HttpTypes
  <2>3. /\ n \in Nat /\ Len(wire') = n + 1 /\ wire'[n + 1] = <<w, write[w]>>
        /\ \A i \in 1..n : wire'[i] = wire[i]
    BY <1>1, <2>2, AppendProperties, LenProperties DEF WritePiece
  <2>4. wire'[3 * k + 1][1] = w
    <3>1. CASE Written(w) = 0
      BY <2>1, <2>3, <3>1
    <3>2. CASE Written(w) # 0
      <4>1. 3 * k + 1 \in 1..n /\ wire[3 * k + 1][1] = w
        BY <2>1, <2>3, <3>2
      <4> QED
        BY <2>3, <4>1
    <3> QED
      BY <3>1, <3>2
  <2>5. FramesInv'
    <3>1. CASE write[w] = "end"
      <4>1. holder' = NoWriter /\ Len(wire') = 3 * (k + 1) /\ k + 1 \in Nat
        <5>1. Written(w) = 2 /\ holder' = NoWriter
          BY <1>1, <3>1 DEF WritePiece, Written
        <5>2. Len(wire') = 3 * k + 2 + 1
          BY <5>1, <2>1, <2>3
        <5> QED
          BY <5>1, <5>2
      <4> QED
        BY <4>1 DEF FramesInv
    <3>2. CASE write[w] # "end"
      <4>1. holder' = w /\ w # NoWriter
        BY <1>1, <2>1, <3>2 DEF WritePiece
      <4>2. Written(w)' = Written(w) + 1
        BY <1>1, <3>2 DEF WritePiece, AfterPiece, Written, HttpTypes
      <4>3. Written(holder)' = Written(w)'
        BY <4>1
      <4>4. Len(wire') = 3 * k + Written(holder)' /\ wire'[3 * k + 1][1] = holder'
        BY <2>1, <2>3, <2>4, <4>1, <4>2, <4>3
      <4> QED
        BY <4>1, <4>4 DEF FramesInv
    <3> QED
      BY <3>1, <3>2
  <2>6. WholeFrames'
    <3> SUFFICES ASSUME NEW i \in 1..(n + 1)
                 PROVE  LET first == 3 * ((i - 1) \div 3) + 1
                        IN wire'[i] = <<wire'[first][1], Pieces[i - first + 1]>>
      BY <2>3 DEF WholeFrames
    <3> DEFINE first == 3 * ((i - 1) \div 3) + 1
    <3>1. CASE i = n + 1
      <4>1. n \div 3 = k
        BY <2>1, FrameIndex
      <4>2. i - 1 = n
        BY <2>3, <3>1
      <4>3. first = 3 * k + 1
        BY <4>1, <4>2
      <4>4. i - (3 * k + 1) + 1 = Written(w) + 1
        <5>1. Written(w) \in Nat /\ n = 3 * k + Written(w)
          BY <2>1
        <5> QED
          BY <3>1, <5>1
      <4> QED
        BY <2>1, <2>3, <2>4, <3>1, <4>3, <4>4
    <3>2. CASE i # n + 1
      <4>1. i \in 1..n /\ first \in 1..n
        BY <2>3, <3>2
      <4>2. wire[i] = <<wire[first][1], Pieces[i - first + 1]>>
        BY <4>1 DEF WholeFrames
      <4> QED
        BY <2>3, <4>1, <4>2
    <3> QED
      BY <3>1, <3>2
  <2> QED
    BY <2>5, <2>6
<1>2. ASSUME UNCHANGED wire, writeErr' \/ (UNCHANGED <<holder, writeErr>> /\ (holder # NoWriter => write'[holder] = write[holder]))
      PROVE  FramesInv' /\ WholeFrames'
  <2>1. WholeFrames'
    BY <1>2 DEF WholeFrames
  <2>2. CASE writeErr'
    BY <2>1, <2>2 DEF FramesInv
  <2>3. CASE ~writeErr'
    <3>1. holder # NoWriter => Written(holder)' = Written(holder)
      BY <1>2, <2>3 DEF Written
    <3> QED
      BY <1>2, <2>1, <2>3, <3>1 DEF FramesInv
  <2> QED
    BY <2>2, <2>3
<1>3. ASSUME NEW w \in Writers, Lock(w) PROVE FramesInv' /\ WholeFrames'
  <2>1. CASE ctxEnded
    BY <1>2, <1>3, <2>1 DEF Lock
  <2>2. CASE ~ctxEnded
    <3>1. WholeFrames'
      BY <1>3 DEF Lock, WholeFrames
    <3>2. /\ holder' = w /\ holder = NoWriter /\ w # NoWriter /\ write'[w] = "prefix"
          /\ UNCHANGED <<writeErr, wire>>
      BY <1>3, <2>2 DEF Lock, HttpTypes
    <3>3. Written(holder)' = 0
      BY <3>2 DEF Written
    <3>4. ASSUME ~writeErr PROVE \E k \in Nat : Len(wire) = 3 * k
      BY <3>2, <3>4 DEF FramesInv
    <3> QED
      BY <3>1, <3>2, <3>3, <3>4 DEF FramesInv
  <2> QED
    BY <2>1, <2>2
<1>4. ASSUME NEW w \in Writers,
             WriteMessageID(w) \/ FallBack(w) \/ PublishToSession(w) \/ FallBackRefused(w)
      PROVE  FramesInv' /\ WholeFrames'
  <2>1. /\ UNCHANGED <<wire, holder, writeErr>>
        /\ holder # NoWriter => write'[holder] = write[holder]
    BY <1>4 DEF WriteMessageID, FallBack, FallBackRefused, PublishToSession, HttpTypes, InFrame
  <2> QED
    BY <1>2, <2>1
<1>5. ASSUME NEW w \in Writers, WriteFails(w) PROVE FramesInv' /\ WholeFrames'
  BY <1>2, <1>5 DEF WriteFails
<1>6. CASE PostBreaks \/ PostContextEnds
  BY <1>2, <1>6 DEF PostBreaks, PostContextEnds
<1>7. CASE UNCHANGED postVars
  BY <1>2, <1>7
<1> QED
  BY <1>1, <1>3, <1>4, <1>5, <1>6, <1>7
  DEF HttpNext, httpVars, PublishNote, DeleteMCP, GetMCP, GetClaims, GetWrites,
      GetWriteFails, GetBreaks, ClientReads

\* The goroutines of a POST never write into each other's frames.
THEOREM FramesStayWhole == HttpSpec => []WholeFrames
<1> DEFINE Inv == HttpTypes /\ FramesInv /\ WholeFrames
<1>1. HttpInit => Inv
  <2> SUFFICES ASSUME HttpInit PROVE Inv
    OBVIOUS
  <2>1. wire \in Seq(Frames) /\ Len(wire) = 0
    BY EmptySeq DEF HttpInit
  <2>2. HttpTypes
    BY <2>1, HttpAssumption DEF HttpInit, HttpTypes, InFrame, Places
  <2>3. Len(wire) = 3 * 0 /\ 0 \in Nat
    BY <2>1
  <2>4. FramesInv /\ WholeFrames
    BY <2>1, <2>3 DEF HttpInit, FramesInv, WholeFrames
  <2> QED
    BY <2>2, <2>4
<1>2. Inv /\ [HttpNext]_httpVars => Inv'
  BY StepHttpTypes, StepFrames
<1> QED
  BY <1>1, <1>2, PTL DEF HttpSpec

\* A frame was completed, or a message published, by the goroutine that says so.
FatesInv ==
    /\ \A i \in 1..Len(wire) : wire[i][2] = "end" => write[wire[i][1]] = "written"
    /\ \A i \in 1..Len(stream) :
          stream[i].of \in Writers => write[stream[i].of] = "published"

StreamTypes == stream \in Seq([of : Writers \cup {NoWriter}, as : {"json", "base64"}])

\* A goroutine that has written or published its message does nothing more.
LEMMA FinalPlaces ==
  ASSUME HttpTypes, [HttpNext]_httpVars, NEW w \in Writers,
         write[w] \in {"written", "published"}
  PROVE  write'[w] = write[w]
<1> USE DEF postVars, To, HttpTypes
<1>1. ASSUME NEW v \in Writers,
             WriteMessageID(v) \/ Lock(v) \/ WritePiece(v) \/ WriteFails(v)
      PROVE  write'[w] = write[w]
  BY <1>1 DEF WriteMessageID, Lock, WritePiece, WriteFails
<1>2. ASSUME NEW v \in Writers, FallBack(v) \/ PublishToSession(v) \/ FallBackRefused(v)
      PROVE  write'[w] = write[w]
  BY <1>2 DEF FallBack, PublishToSession, FallBackRefused
<1> QED
  BY <1>1, <1>2
  DEF HttpNext, httpVars, PostBreaks, PostContextEnds, PublishNote, DeleteMCP, GetMCP,
      GetClaims, GetWrites, GetWriteFails, GetBreaks, ClientReads

\* Every step keeps the fates of messages apart.
LEMMA StepFates ==
  ASSUME HttpTypes, HttpTypes', StreamTypes, FatesInv, [HttpNext]_httpVars
  PROVE  StreamTypes' /\ FatesInv'
<1> USE HttpAssumption DEF postVars, sessVars, To
<1>0. /\ Len(wire) \in Nat /\ \A i \in 1..Len(wire) : wire[i][1] \in Writers
      /\ Len(stream) \in Nat
  <2>1. wire \in Seq(Frames) /\ stream \in Seq([of : Writers \cup {NoWriter}, as : {"json", "base64"}])
    BY DEF HttpTypes, StreamTypes
  <2>2. \A i \in 1..Len(wire) : wire[i] \in Frames
    BY <2>1, ElementOfSeq
  <2> QED
    BY <2>1, <2>2, LenProperties DEF Frames
<1>1. ASSUME UNCHANGED <<wire, stream>> PROVE StreamTypes' /\ FatesInv'
  BY <1>0, <1>1, FinalPlaces DEF StreamTypes, FatesInv
<1>2. ASSUME NEW w \in Writers, WritePiece(w) PROVE StreamTypes' /\ FatesInv'
  <2>1. /\ wire' = Append(wire, <<w, write[w]>>) /\ UNCHANGED stream
        /\ write[w] = "end" => write'[w] = "written"
    BY <1>2 DEF WritePiece, AfterPiece, HttpTypes
  <2>2. <<w, write[w]>> \in Frames /\ wire \in Seq(Frames)
    BY <1>2 DEF WritePiece, Frames, InFrame, HttpTypes
  <2>3. /\ Len(wire') = Len(wire) + 1 /\ wire'[Len(wire) + 1] = <<w, write[w]>>
        /\ \A i \in 1..Len(wire) : wire'[i] = wire[i]
    BY <2>1, <2>2, AppendProperties
  <2>4. ASSUME NEW i \in 1..Len(wire'), wire'[i][2] = "end"
        PROVE  write'[wire'[i][1]] = "written"
    <3>1. CASE i = Len(wire) + 1
      BY <2>1, <2>3, <2>4, <3>1
    <3>2. CASE i # Len(wire) + 1
      <4>1. i \in 1..Len(wire)
        BY <1>0, <2>3, <3>2
      <4> QED
        BY <1>0, <2>3, <2>4, <4>1, FinalPlaces DEF FatesInv
    <3> QED
      BY <3>1, <3>2
  <2> QED
    BY <2>1, <2>4, FinalPlaces DEF FatesInv, StreamTypes
<1>3. ASSUME NEW m \in [of : Writers \cup {NoWriter}, as : {"json", "base64"}],
             stream' = Append(stream, m), UNCHANGED wire,
             m.of \in Writers => write'[m.of] = "published"
      PROVE  StreamTypes' /\ FatesInv'
  <2>1. /\ StreamTypes' /\ Len(stream') = Len(stream) + 1
        /\ stream'[Len(stream) + 1] = m
        /\ \A i \in 1..Len(stream) : stream'[i] = stream[i]
    BY <1>3, AppendProperties DEF StreamTypes
  <2>2. ASSUME NEW i \in 1..Len(stream'), stream'[i].of \in Writers
        PROVE  write'[stream'[i].of] = "published"
    <3>1. CASE i = Len(stream) + 1
      BY <1>3, <2>1, <2>2, <3>1
    <3>2. CASE i # Len(stream) + 1
      <4>1. i \in 1..Len(stream)
        BY <1>0, <2>1, <3>2
      <4> QED
        BY <2>1, <2>2, <4>1, FinalPlaces DEF FatesInv
    <3> QED
      BY <3>1, <3>2
  <2> QED
    BY <1>0, <1>3, <2>1, <2>2, FinalPlaces DEF FatesInv
<1>4. ASSUME NEW w \in Writers, PublishToSession(w) PROVE StreamTypes' /\ FatesInv'
  <2>1. CASE ctxEnded
    BY <1>1, <1>4, <2>1 DEF PublishToSession
  <2>2. CASE ~ctxEnded
    <3>1. /\ Published(w) \in [of : Writers \cup {NoWriter}, as : {"json", "base64"}]
          /\ Published(w).of = w
      BY DEF Published
    <3>2. stream' = Append(stream, Published(w)) /\ UNCHANGED wire /\ write'[w] = "published"
      BY <1>4, <2>2 DEF PublishToSession, HttpTypes
    <3> QED
      BY <1>3, <3>1, <3>2
  <2> QED
    BY <2>1, <2>2
<1>5. CASE PublishNote
  <2> DEFINE m == [of |-> NoWriter, as |-> "json"]
  <2>1. /\ m \in [of : Writers \cup {NoWriter}, as : {"json", "base64"}]
        /\ m.of \notin Writers /\ stream' = Append(stream, m) /\ UNCHANGED wire
    BY <1>5 DEF PublishNote
  <2> HIDE DEF m
  <2> QED
    BY <1>3, <2>1
<1>6. ASSUME NEW w \in Writers,
             WriteMessageID(w) \/ Lock(w) \/ WriteFails(w) \/ FallBack(w)
             \/ FallBackRefused(w)
      PROVE  StreamTypes' /\ FatesInv'
  BY <1>1, <1>6 DEF WriteMessageID, Lock, WriteFails, FallBack, FallBackRefused
<1> QED
  BY <1>1, <1>2, <1>4, <1>5, <1>6
  DEF HttpNext, httpVars, PostBreaks, PostContextEnds, DeleteMCP, GetMCP, GetClaims,
      GetWrites, GetWriteFails, GetBreaks, ClientReads

\* Every step keeps the reasons for which messages were given up.
LEMMA StepLost ==
  ASSUME HttpTypes, LostForAReason, [HttpNext]_httpVars
  PROVE  LostForAReason'
<1> USE DEF postVars, sessVars, To, HttpTypes, LostForAReason
<1>1. ASSUME NEW v \in Writers,
             WriteMessageID(v) \/ Lock(v) \/ WritePiece(v) \/ WriteFails(v)
      PROVE  LostForAReason'
  BY <1>1 DEF WriteMessageID, Lock, WritePiece, AfterPiece, WriteFails
<1>2. ASSUME NEW v \in Writers, FallBack(v) \/ PublishToSession(v) \/ FallBackRefused(v)
      PROVE  LostForAReason'
  BY <1>2 DEF FallBack, PublishToSession, FallBackRefused
<1> QED
  BY <1>1, <1>2
  DEF HttpNext, httpVars, PostBreaks, PostContextEnds, PublishNote, DeleteMCP, GetMCP,
      GetClaims, GetWrites, GetWriteFails, GetBreaks, ClientReads

\* A message of a POST is completed there, or published, or lost for a reason,
\* and what the host counts as delivered was written to a GET.
THEOREM MessagesHaveOneFate == HttpSpec => OneFate
<1> DEFINE Inv == HttpTypes /\ StreamTypes /\ FatesInv /\ LostForAReason
<1>1. HttpInit => Inv
  <2> SUFFICES ASSUME HttpInit PROVE Inv
    OBVIOUS
  <2>1. wire \in Seq(Frames) /\ Len(wire) = 0 /\ Len(stream) = 0 /\ StreamTypes
    BY EmptySeq DEF HttpInit, StreamTypes
  <2>2. HttpTypes
    BY <2>1, HttpAssumption DEF HttpInit, HttpTypes, InFrame, Places
  <2> QED
    BY <2>1, <2>2 DEF HttpInit, FatesInv, LostForAReason
<1>2. Inv /\ [HttpNext]_httpVars => Inv'
  BY StepHttpTypes, StepFates, StepLost
<1>3. Inv => NotSentTwice /\ LostForAReason
  BY DEF FatesInv, NotSentTwice
<1>4. [HttpNext]_httpVars => [\A m \in done' \ done : flying' = Append(flying, m)]_httpVars
  <2> SUFFICES ASSUME HttpNext, NEW m \in done' \ done PROVE flying' = Append(flying, m)
    OBVIOUS
  <2>1. GetWrites
    BY DEF HttpNext, postVars, sessVars, PostBreaks, PostContextEnds, WriteMessageID, Lock,
       WritePiece, WriteFails, FallBack, FallBackRefused, PublishToSession, PublishNote,
       DeleteMCP, GetMCP, GetClaims, GetWriteFails, GetBreaks, ClientReads
  <2> QED
    BY <2>1 DEF GetWrites
<1> HIDE DEF Inv
<1>5. HttpSpec => []Inv
  BY <1>1, <1>2, PTL DEF HttpSpec
<1>6. HttpSpec => [](NotSentTwice /\ LostForAReason)
  BY <1>3, <1>5, PTL
<1>7. HttpSpec => AcknowledgedWasWritten
  BY <1>4, PTL DEF HttpSpec, AcknowledgedWasWritten
<1> QED
  BY <1>6, <1>7 DEF OneFate

-----------------------------------------------------------------------------
(* The stdio transport.                                                    *)

\* What a goroutine may be about to write.
Lines == {NoLine} \cup ({"response", "ask"} \X Requests)
                  \cup ({"message", "error", "initialize"} \X Nat)

StdioTypes ==
    /\ reader \in {"reading", "initialize", "ended", "exited"}
    /\ req \in [Requests -> {"none", "spawned", "handling", "cancelled", "waiting", "resumed",
                         "done"}]
    /\ pump \in [Pumps -> {"none", "starting", "running", "cancelled", "gone"}]
    /\ current \in Pumps \cup {0}
    /\ position \in [Pumps -> Nat] /\ published \in Nat /\ taken \subseteq Nat
    /\ line \in [Actors -> Lines] /\ mu \in Actors \cup {Nobody}
    /\ out \in Seq(Lines \X {"body", "newline"})
    /\ lines \in Nat

\* stdout ends in the middle of a line exactly while someone holds writeMu, and
\* the line is the holder's.
MutexInv ==
    IF mu = Nobody THEN Len(out) % 2 = 0
    ELSE /\ Len(out) % 2 = 1 /\ line[mu] # NoLine
         /\ out[Len(out)] = <<line[mu], "body">>

\* The lines that must not be written twice.
Unique(l) == l[1] \in {"response", "message"}

\* Who says what, and when: an answer belongs to a request that is done, a
\* message to the pump that claimed it, and a goroutine goes on only when its
\* line is out.
LinesInv ==
    /\ \A r \in Requests : req[r] \in {"none", "spawned", "handling", "cancelled"} => line[r] = NoLine
    /\ reader = "initialize" => line[Reader] = NoLine
    /\ \A a \in Actors :
          /\ line[a][1] = "response" => a \in Requests /\ line[a] = <<"response", a>> /\ req[a] = "done"
          /\ line[a][1] = "message" => line[a][2] \in taken
    /\ \A a, b \in Actors : Unique(line[a]) /\ line[a] = line[b] => a = b

\* The same for what has been written: a line that is still to be written is
\* not on stdout yet, apart from the body that its writer has just put there.
OutInv ==
    \A i \in 1..Len(out) :
        /\ out[i][1][1] = "response" => req[out[i][1][2]] = "done"
        /\ out[i][1][1] = "message" => out[i][1][2] \in taken
        /\ \A a \in Actors : Unique(line[a]) /\ out[i][1] = line[a] =>
              mu = a /\ i = Len(out)

\* Only the pump that h.sessionCancel belongs to has not been cancelled.
PumpInv ==
    /\ \A p \in Pumps : pump[p] \in {"starting", "running"} => p = current
    /\ reader \in {"ended", "exited"} => current = 0

\* The goroutines are different ones, and no line is the empty one.
LEMMA Distinct ==
  /\ Reader \in Actors /\ Requests \subseteq Actors /\ Pumps \subseteq Actors
  /\ Reader \notin Requests /\ Reader \notin Pumps /\ Requests \cap Pumps = {}
  /\ Nobody \notin Actors /\ 0 \notin Pumps
  /\ NoLine[1] = "none" /\ ~Unique(NoLine)
<1>1. 0 \notin Pumps
  BY StdioAssumption, FS_CardinalityType
<1> QED
  BY <1>1, StdioAssumption DEF Actors, NoLine, Unique

\* The lines the code composes are lines.
LEMMA LineTypes ==
  /\ NoLine \in Lines
  /\ \A r \in Requests : <<"response", r>> \in Lines /\ <<"ask", r>> \in Lines
  /\ \A m \in Nat : /\ <<"message", m>> \in Lines /\ <<"error", m>> \in Lines
                    /\ <<"initialize", m>> \in Lines
BY DEF Lines

\* Every step keeps the types.
LEMMA StepStdioTypes ==
  ASSUME StdioTypes, [StdioNext]_stdioVars
  PROVE  StdioTypes'
<1> USE DEF actorVars, outVars, Says
<1>0. \A a \in Actors, l \in Lines : [line EXCEPT ![a] = l] \in [Actors -> Lines]
  BY DEF StdioTypes
<1>a. lines \in Nat /\ lines + 1 \in Nat
  BY DEF StdioTypes
<1>1. CASE ReadInvalid
  <2>1. lines' \in Nat /\ <<"error", lines'>> \in Lines
    BY <1>1, <1>a, LineTypes DEF ReadInvalid, ReadsOne
  <2>2. line' \in [Actors -> Lines]
    BY <1>0, <1>1, <2>1, Distinct DEF ReadInvalid
  <2> QED
    BY <1>1, <2>1, <2>2 DEF ReadInvalid, StdioTypes
<1>2. CASE ReadInitialize
  <2>1. lines' \in Nat /\ <<"error", lines'>> \in Lines
    BY <1>2, <1>a, LineTypes DEF ReadInitialize, ReadsOne
  <2>2. line' \in [Actors -> Lines]
    BY <1>0, <1>2, <2>1, Distinct DEF ReadInitialize, StdioTypes
  <2> QED
    BY <1>2, <2>1, <2>2 DEF ReadInitialize, StdioTypes
<1>3. CASE InitializeSession
  <2>1. <<"initialize", lines>> \in Lines
    BY <1>a, LineTypes
  <2>2. line' \in [Actors -> Lines]
    BY <1>0, <1>3, <2>1, Distinct DEF InitializeSession
  <2> QED
    BY <1>3, <2>2 DEF InitializeSession, StdioTypes
<1>4. CASE ReadInitialized
  BY <1>4, <1>a DEF ReadInitialized, ReadsOne, PumpsAfterStart, StdioTypes
<1>5. CASE ReadEnd
  BY <1>5 DEF ReadEnd, Reads, StdioTypes
<1>6. ASSUME NEW r \in Requests, ReadRequest(r) \/ ReadResponse(r) \/ ReadCancelled(r)
      PROVE  StdioTypes'
  BY <1>6 DEF ReadRequest, ReadResponse, ReadCancelled, StdioTypes
<1>7. ASSUME NEW r \in Requests, StartRequest(r) PROVE StdioTypes'
  <2>1. line' \in [Actors -> Lines]
    <3>1. r \in Actors /\ <<"response", r>> \in Lines
      BY Distinct, LineTypes
    <3> QED
      BY <1>0, <1>7, <3>1 DEF StartRequest, StdioTypes
  <2> QED
    BY <1>7, <2>1 DEF StartRequest, StdioTypes
<1>8. ASSUME NEW r \in Requests, Respond(r) \/ AskClient(r) PROVE StdioTypes'
  <2>1. line' \in [Actors -> Lines]
    <3>1. r \in Actors /\ <<"response", r>> \in Lines /\ <<"ask", r>> \in Lines
      BY Distinct, LineTypes
    <3> QED
      BY <1>0, <1>8, <3>1 DEF Respond, AskClient
  <2> QED
    BY <1>8, <2>1 DEF Respond, AskClient, StdioTypes
<1>9. CASE PublishMessage
  BY <1>9 DEF PublishMessage, StdioTypes
<1>10. ASSUME NEW p \in Pumps, PumpSubscribes(p) \/ PumpEnds(p) PROVE StdioTypes'
  BY <1>10 DEF PumpSubscribes, PumpEnds, StdioTypes
<1>11. ASSUME NEW p \in Pumps, PumpDelivers(p) PROVE StdioTypes'
  <2>1. PICK m \in (position[p] + 1)..published :
          /\ taken' = taken \cup {m}
          /\ position' = [position EXCEPT ![p] = m]
          /\ line' = [line EXCEPT ![p] = <<"message", m>>]
    BY <1>11 DEF PumpDelivers
  <2>2. m \in Nat
    BY DEF StdioTypes
  <2>3. line' \in [Actors -> Lines]
    BY <1>0, <2>1, <2>2, Distinct, LineTypes
  <2> QED
    BY <1>11, <2>1, <2>2, <2>3 DEF PumpDelivers, StdioTypes
<1>12. ASSUME NEW a \in Actors, WriteBody(a) PROVE StdioTypes'
  <2>1. <<line[a], "body">> \in Lines \X {"body", "newline"}
    BY DEF StdioTypes
  <2>2. out' \in Seq(Lines \X {"body", "newline"})
    BY <1>12, <2>1, AppendProperties DEF WriteBody, StdioTypes
  <2> QED
    BY <1>12, <2>2 DEF WriteBody, StdioTypes
<1>13. ASSUME NEW a \in Actors, WriteNewline(a) PROVE StdioTypes'
  <2>1. <<line[a], "newline">> \in Lines \X {"body", "newline"}
    BY DEF StdioTypes
  <2>2. out' \in Seq(Lines \X {"body", "newline"})
    BY <1>13, <2>1, AppendProperties DEF WriteNewline, StdioTypes
  <2>3. line' \in [Actors -> Lines]
    BY <1>0, <1>13, LineTypes DEF WriteNewline
  <2> QED
    BY <1>13, <2>2, <2>3 DEF WriteNewline, StdioTypes
<1>14. CASE UNCHANGED stdioVars
  BY <1>14 DEF stdioVars, StdioTypes
<1>15. CASE EngineSubscribes \/ ProcessExits
  BY <1>15 DEF EngineSubscribes, ProcessExits, StdioTypes
<1>16. CASE DeliverEvent
  BY <1>16 DEF DeliverEvent, StdioTypes
<1> QED
  BY <1>1, <1>2, <1>3, <1>4, <1>5, <1>6, <1>7, <1>8, <1>9, <1>10, <1>11, <1>12, <1>13, <1>14,
     <1>15, <1>16
  DEF StdioNext, RequestStep

\* What is on stdout.
LEMMA OutSeq ==
  ASSUME StdioTypes
  PROVE  Len(out) \in Nat /\ \A i \in 1..Len(out) : out[i] \in Lines \X {"body", "newline"}
BY LenProperties, ElementOfSeq DEF StdioTypes

\* A line appended to stdout.
LEMMA OutAppend ==
  ASSUME StdioTypes, NEW l \in Lines, NEW part \in {"body", "newline"},
         out' = Append(out, <<l, part>>)
  PROVE  /\ Len(out') = Len(out) + 1 /\ out'[Len(out) + 1] = <<l, part>>
         /\ \A i \in 1..Len(out) : out'[i] = out[i]
         /\ \A i \in 1..Len(out') : i = Len(out) + 1 \/ i \in 1..Len(out)
<1>1. <<l, part>> \in Lines \X {"body", "newline"}
  OBVIOUS
<1>2. /\ Len(out') = Len(out) + 1 /\ out'[Len(out) + 1] = <<l, part>>
      /\ \A i \in 1..Len(out) : out'[i] = out[i]
  BY <1>1, AppendProperties DEF StdioTypes
<1> QED
  BY <1>2, OutSeq

\* What is said about stdout alone.
OutputInv == MutexInv /\ WholeLines /\ OutInv /\ LineWrittenOnce

\* A step in which nobody writes and at most one goroutine that was silent gets
\* a line, one that is not on stdout yet, keeps what is said about stdout.
LEMMA SayKeeps ==
  ASSUME StdioTypes, OutputInv, UNCHANGED <<mu, out>>,
         \A r \in Requests : req[r] = "done" => req'[r] = "done", taken \subseteq taken',
         NEW a \in Actors, NEW l \in Lines, line[a] = NoLine \/ line[a] = l,
         line' = [line EXCEPT ![a] = l],
         line[a] # l /\ Unique(l) => \A i \in 1..Len(out) : out[i][1] # l
  PROVE  OutputInv'
<1> USE Distinct
<1>1. \A b \in Actors : b # a => line'[b] = line[b]
  BY DEF StdioTypes
<1>2. line'[a] = l
  BY DEF StdioTypes
<1>3. MutexInv' /\ WholeLines' /\ LineWrittenOnce'
  <2>1. mu # Nobody => mu \in Actors /\ line'[mu] = line[mu]
    BY <1>1, <1>2 DEF OutputInv, MutexInv, StdioTypes
  <2> QED
    BY <2>1 DEF OutputInv, MutexInv, WholeLines, LineWrittenOnce
<1>4. ASSUME NEW i \in 1..Len(out)
      PROVE  /\ out[i][1][1] = "response" => req'[out[i][1][2]] = "done"
             /\ out[i][1][1] = "message" => out[i][1][2] \in taken'
  <2>1. out[i][1] \in Lines
    BY OutSeq
  <2>2. out[i][1][1] = "response" => out[i][1][2] \in Requests
    BY <2>1 DEF Lines, NoLine
  <2> QED
    BY <2>2 DEF OutputInv, OutInv
<1>5. ASSUME NEW i \in 1..Len(out), NEW b \in Actors, Unique(line'[b]), out[i][1] = line'[b]
      PROVE  mu = b /\ i = Len(out)
  BY <1>1, <1>2, <1>5 DEF OutputInv, OutInv
<1> QED
  BY <1>3, <1>4, <1>5 DEF OutputInv, OutInv

\* A step in which nobody writes and no goroutine gets a line.
LEMMA SilentKeeps ==
  ASSUME StdioTypes, OutputInv, UNCHANGED <<mu, out, line>>,
         \A r \in Requests : req[r] = "done" => req'[r] = "done", taken \subseteq taken'
  PROVE  OutputInv'
<1>1. line[Reader] \in Lines /\ line' = [line EXCEPT ![Reader] = line[Reader]]
  BY Distinct DEF StdioTypes
<1> QED
  BY <1>1, Distinct, SayKeeps

\* Even and odd lengths alternate.
LEMMA Parity ==
  ASSUME NEW n \in Nat
  PROVE  (n % 2 = 0 => (n + 1) % 2 = 1) /\ (n % 2 = 1 => (n + 1) % 2 = 0)
OBVIOUS

\* The holder of writeMu begins a line: it was not on stdout.
LEMMA BodyKeeps ==
  ASSUME StdioTypes, OutputInv, LinesInv, NEW a \in Actors, WriteBody(a)
  PROVE  OutputInv'
<1> DEFINE n == Len(out)
<1>1. /\ line[a] \in Lines /\ line[a] # NoLine /\ mu = Nobody /\ mu' = a /\ a # Nobody
      /\ out' = Append(out, <<line[a], "body">>) /\ UNCHANGED <<line, req, taken>>
  BY Distinct DEF WriteBody, StdioTypes, actorVars
<1>2. /\ Len(out') = n + 1 /\ out'[n + 1] = <<line[a], "body">>
      /\ \A i \in 1..n : out'[i] = out[i]
      /\ \A i \in 1..Len(out') : i = n + 1 \/ i \in 1..n
  BY <1>1, OutAppend
<1>3. n \in Nat /\ n % 2 = 0 /\ (n + 1) % 2 = 1
  BY <1>1, OutSeq, Parity DEF OutputInv, MutexInv
<1>4. MutexInv'
  BY <1>1, <1>2, <1>3 DEF MutexInv
<1>5. WholeLines'
  <2> SUFFICES ASSUME NEW i \in 1..Len(out')
               PROVE  IF i % 2 = 1 THEN out'[i][2] = "body"
                      ELSE out'[i] = <<out'[i - 1][1], "newline">>
    BY DEF WholeLines
  <2>1. CASE i = n + 1
    BY <1>2, <1>3, <2>1
  <2>2. CASE i \in 1..n
    <3>1. i % 2 # 1 => i - 1 \in 1..n
      BY <1>3, <2>2
    <3> QED
      BY <1>2, <2>2, <3>1 DEF OutputInv, WholeLines
  <2> QED
    BY <1>2, <2>1, <2>2
<1>6. \A i \in 1..n : Unique(line[a]) => out[i][1] # line[a]
  BY <1>1 DEF OutputInv, OutInv
<1>7. OutInv'
  <2> SUFFICES ASSUME NEW i \in 1..Len(out')
               PROVE  /\ out'[i][1][1] = "response" => req[out'[i][1][2]] = "done"
                      /\ out'[i][1][1] = "message" => out'[i][1][2] \in taken
                      /\ \A b \in Actors : Unique(line[b]) /\ out'[i][1] = line[b] =>
                            b = a /\ i = n + 1
    BY <1>1, <1>2 DEF OutInv
  <2>1. CASE i = n + 1
    <3>1. out'[i][1] = line[a]
      BY <1>2, <2>1
    <3> QED
      BY <2>1, <3>1 DEF LinesInv
  <2>2. CASE i \in 1..n
    BY <1>1, <1>2, <2>2, Distinct DEF OutputInv, OutInv
  <2> QED
    BY <1>2, <2>1, <2>2
<1>8. LineWrittenOnce'
  <2> SUFFICES ASSUME NEW i \in 1..Len(out'), NEW j \in 1..Len(out'),
                      out'[i] = out'[j], out'[i][1][1] \in {"response", "message"}
               PROVE  i = j
    BY DEF LineWrittenOnce
  <2>1. CASE i \in 1..n /\ j \in 1..n
    BY <1>2, <2>1 DEF OutputInv, LineWrittenOnce
  <2>2. CASE i = n + 1 \/ j = n + 1
    <3>1. Unique(line[a])
      BY <1>2, <2>2 DEF Unique
    <3>2. \A k \in 1..n : out'[k] # out'[n + 1]
      <4>1. out'[n + 1][1] = line[a]
        BY <1>2
      <4> QED
        BY <1>2, <1>6, <3>1, <4>1
    <3> QED
      BY <1>2, <2>2, <3>2
  <2> QED
    BY <1>2, <2>1, <2>2
<1> QED
  BY <1>4, <1>5, <1>7, <1>8 DEF OutputInv

\* The holder of writeMu ends the line it began.
LEMMA NewlineKeeps ==
  ASSUME StdioTypes, OutputInv, LinesInv, NEW a \in Actors, WriteNewline(a)
  PROVE  OutputInv'
<1> DEFINE n == Len(out)
<1>1. /\ line[a] \in Lines /\ mu = a /\ mu' = Nobody /\ a # Nobody
      /\ out' = Append(out, <<line[a], "newline">>) /\ UNCHANGED <<req, taken>>
      /\ line'[a] = NoLine /\ \A b \in Actors : b # a => line'[b] = line[b]
  BY Distinct DEF WriteNewline, StdioTypes, actorVars
<1>2. /\ Len(out') = n + 1 /\ out'[n + 1] = <<line[a], "newline">>
      /\ \A i \in 1..n : out'[i] = out[i]
      /\ \A i \in 1..Len(out') : i = n + 1 \/ i \in 1..n
  BY <1>1, OutAppend
<1>3. /\ n \in Nat /\ n % 2 = 1 /\ (n + 1) % 2 = 0 /\ n \in 1..n
      /\ out[n] = <<line[a], "body">>
  <2>1. n \in Nat /\ n % 2 = 1 /\ out[n] = <<line[a], "body">>
    BY <1>1, OutSeq DEF OutputInv, MutexInv
  <2> QED
    BY <2>1, Parity
<1>4. MutexInv'
  BY <1>1, <1>2, <1>3 DEF MutexInv
<1>5. WholeLines'
  <2> SUFFICES ASSUME NEW i \in 1..Len(out')
               PROVE  IF i % 2 = 1 THEN out'[i][2] = "body"
                      ELSE out'[i] = <<out'[i - 1][1], "newline">>
    BY DEF WholeLines
  <2>1. CASE i = n + 1
    <3>1. i - 1 = n /\ out'[n][1] = line[a]
      BY <1>2, <1>3, <2>1
    <3> QED
      BY <1>2, <1>3, <2>1, <3>1
  <2>2. CASE i \in 1..n
    <3>1. i % 2 # 1 => i - 1 \in 1..n
      BY <1>3, <2>2
    <3> QED
      BY <1>2, <2>2, <3>1 DEF OutputInv, WholeLines
  <2> QED
    BY <1>2, <2>1, <2>2
<1>6. OutInv'
  <2> SUFFICES ASSUME NEW i \in 1..Len(out')
               PROVE  /\ out'[i][1][1] = "response" => req[out'[i][1][2]] = "done"
                      /\ out'[i][1][1] = "message" => out'[i][1][2] \in taken
                      /\ \A b \in Actors : ~(Unique(line'[b]) /\ out'[i][1] = line'[b])
    BY <1>1, <1>2 DEF OutInv
  <2>0. \A b \in Actors : Unique(line'[b]) => b # a /\ line'[b] = line[b]
    BY <1>1, Distinct
  <2>1. CASE i = n + 1
    <3>1. out'[i][1] = line[a]
      BY <1>2, <2>1
    <3> QED
      BY <2>0, <3>1 DEF LinesInv
  <2>2. CASE i \in 1..n
    BY <1>1, <1>2, <2>0, <2>2 DEF OutputInv, OutInv
  <2> QED
    BY <1>2, <2>1, <2>2
<1>7. LineWrittenOnce'
  <2> SUFFICES ASSUME NEW i \in 1..Len(out'), NEW j \in 1..Len(out'),
                      out'[i] = out'[j], out'[i][1][1] \in {"response", "message"}
               PROVE  i = j
    BY DEF LineWrittenOnce
  <2>1. CASE i \in 1..n /\ j \in 1..n
    BY <1>2, <2>1 DEF OutputInv, LineWrittenOnce
  <2>2. CASE i = n + 1 \/ j = n + 1
    <3>1. Unique(line[a])
      BY <1>2, <2>2 DEF Unique
    <3>2. \A k \in 1..n : out'[k] # out'[n + 1]
      <4> SUFFICES ASSUME NEW k \in 1..n, out'[k] = out'[n + 1] PROVE FALSE
        OBVIOUS
      <4>1. out[k] = <<line[a], "newline">>
        BY <1>2
      <4>2. k = n
        BY <3>1, <4>1 DEF OutputInv, OutInv
      <4> QED
        BY <1>3, <4>1, <4>2
    <3> QED
      BY <1>2, <2>2, <3>2
  <2> QED
    BY <1>2, <2>1, <2>2
<1> QED
  BY <1>4, <1>5, <1>6, <1>7 DEF OutputInv

\* A goroutine that was silent gets a line of its own.
LEMMA LinesSay ==
  ASSUME StdioTypes, LinesInv, NEW a \in Actors, NEW l \in Lines,
         line' = [line EXCEPT ![a] = l],
         reader' = "initialize" => a # Reader /\ reader = "initialize",
         \A r \in Requests : req'[r] \in {"none", "spawned", "handling", "cancelled"} =>
            r # a /\ req[r] \in {"none", "spawned", "handling", "cancelled"},
         \A r \in Requests : req[r] = "done" => req'[r] = "done", taken \subseteq taken',
         l[1] = "response" => a \in Requests /\ l = <<"response", a>> /\ req'[a] = "done",
         l[1] = "message" => l[2] \in taken' \ taken
  PROVE  LinesInv'
<1>1. line'[a] = l /\ \A b \in Actors : b # a => line'[b] = line[b]
  BY DEF StdioTypes
<1>2. \A r \in Requests : req'[r] \in {"none", "spawned", "handling", "cancelled"} => line'[r] = NoLine
  BY <1>1, Distinct DEF LinesInv
<1>3. ASSUME NEW b \in Actors
      PROVE  /\ line'[b][1] = "response" => b \in Requests /\ line'[b] = <<"response", b>> /\ req'[b] = "done"
             /\ line'[b][1] = "message" => line'[b][2] \in taken'
  BY <1>1 DEF LinesInv
<1>4. ASSUME NEW b \in Actors, NEW c \in Actors, Unique(line'[b]), line'[b] = line'[c]
      PROVE  b = c
  <2>1. CASE line'[b][1] = "response"
    <3>1. line'[b] = <<"response", b>> /\ line'[c] = <<"response", c>>
      BY <1>3, <1>4, <2>1
    <3> QED
      BY <1>4, <3>1
  <2>2. CASE line'[b][1] = "message"
    BY <1>1, <1>4, <2>2 DEF LinesInv
  <2> QED
    BY <1>4, <2>1, <2>2 DEF Unique
<1>5. reader' = "initialize" => line'[Reader] = NoLine
  BY <1>1, Distinct DEF LinesInv
<1> QED
  BY <1>2, <1>3, <1>4, <1>5 DEF LinesInv

\* A step in which no goroutine gets a line.
LEMMA LinesSilent ==
  ASSUME StdioTypes, LinesInv, UNCHANGED line,
         reader' = "initialize" => line[Reader] = NoLine,
         \A r \in Requests : req'[r] \in {"none", "spawned", "handling", "cancelled"} => line[r] = NoLine,
         \A r \in Requests : req[r] = "done" => req'[r] = "done", taken \subseteq taken'
  PROVE  LinesInv'
BY DEF LinesInv

\* Every step keeps stdout and the lines to come in order.
LEMMA StepOutput ==
  ASSUME StdioTypes, OutputInv, LinesInv, [StdioNext]_stdioVars
  PROVE  OutputInv' /\ LinesInv'
<1> USE DEF actorVars, outVars, Says
<1>a. lines \in Nat /\ lines + 1 \in Nat
  BY DEF StdioTypes
<1>1. ASSUME NEW l \in Lines, line' = [line EXCEPT ![Reader] = l], line[Reader] = NoLine,
             UNCHANGED <<mu, out, req, taken>>, reader' # "initialize",
             l[1] \in {"error", "initialize"}
      PROVE  OutputInv' /\ LinesInv'
  <2>1. ~Unique(l) /\ Reader \in Actors /\ Reader \notin Requests
    BY <1>1, Distinct DEF Unique
  <2>2. OutputInv'
    BY <1>1, <2>1, SayKeeps
  <2>3. LinesInv'
    BY <1>1, <2>1, LinesSay
  <2> QED
    BY <2>2, <2>3
<1>2. ASSUME UNCHANGED <<mu, out, line>>, taken \subseteq taken',
             reader' = "initialize" => line[Reader] = NoLine,
             \A r \in Requests : req[r] = "done" => req'[r] = "done",
             \A r \in Requests : req'[r] \in {"none", "spawned", "handling", "cancelled"} => line[r] = NoLine
      PROVE  OutputInv' /\ LinesInv'
  BY <1>2, SilentKeeps, LinesSilent
<1>3. CASE ReadInvalid
  <2>1. <<"error", lines + 1>> \in Lines
    BY <1>a, LineTypes
  <2> QED
    BY <1>1, <1>3, <2>1 DEF ReadInvalid, ReadsOne, Reads, Ready
<1>4. CASE ReadInitialize
  <2>1. <<"error", lines + 1>> \in Lines
    BY <1>a, LineTypes
  <2>2. CASE initialized
    BY <1>1, <1>4, <2>1, <2>2 DEF ReadInitialize, ReadsOne, Reads, Ready
  <2>3. CASE ~initialized
    BY <1>2, <1>4, <2>3 DEF ReadInitialize, ReadsOne, Reads, Ready, LinesInv
  <2> QED
    BY <2>2, <2>3
<1>5. CASE InitializeSession
  <2>1. <<"initialize", lines>> \in Lines
    BY <1>a, LineTypes
  <2> QED
    BY <1>1, <1>5, <2>1 DEF InitializeSession, LinesInv
<1>6. CASE ReadInitialized \/ ReadEnd
  BY <1>2, <1>6 DEF ReadInitialized, ReadEnd, ReadsOne, Reads, LinesInv
<1>7. ASSUME NEW r \in Requests, ReadRequest(r) \/ ReadResponse(r) \/ ReadCancelled(r)
      PROVE  OutputInv' /\ LinesInv'
  <2>1. /\ UNCHANGED <<mu, out, line, taken, reader>>
        /\ \A q \in Requests : req[q] = "done" => req'[q] = "done"
        /\ \A q \in Requests : req'[q] \in {"none", "spawned", "handling", "cancelled"} =>
              req[q] \in {"none", "spawned", "handling", "cancelled"}
    BY <1>7 DEF ReadRequest, ReadResponse, ReadCancelled, StdioTypes
  <2> QED
    BY <1>2, <2>1 DEF LinesInv
<1>8. ASSUME NEW r \in Requests, line[r] = NoLine, req[r] # "done", req' = [req EXCEPT ![r] = "done"],
             line' = [line EXCEPT ![r] = <<"response", r>>],
             UNCHANGED <<mu, out, taken, reader>>
      PROVE  OutputInv' /\ LinesInv'
  <2> DEFINE l == <<"response", r>>
  <2>1. l \in Lines /\ l[1] = "response" /\ l[2] = r /\ r \in Actors
    BY Distinct, LineTypes
  <2>2. /\ \A q \in Requests : req[q] = "done" => req'[q] = "done"
        /\ req'[r] = "done"
        /\ \A q \in Requests : q # r => req'[q] = req[q]
    BY <1>8 DEF StdioTypes
  <2>3. \A i \in 1..Len(out) : out[i][1] # l
    BY <1>8, <2>1 DEF OutputInv, OutInv
  <2> HIDE DEF l
  <2>4. OutputInv'
    BY <1>8, <2>1, <2>2, <2>3, SayKeeps DEF l
  <2>5. LinesInv'
    BY <1>8, <2>1, <2>2, Distinct, LinesSay DEF l
  <2> QED
    BY <2>4, <2>5
<1>9. ASSUME NEW r \in Requests, StartRequest(r) PROVE OutputInv' /\ LinesInv'
  <2>1. line[r] = NoLine
    BY <1>9 DEF StartRequest, LinesInv
  <2>2. CASE initialized
    <3>1. /\ UNCHANGED <<mu, out, line, taken, reader>>
          /\ \A q \in Requests : req[q] = "done" => req'[q] = "done"
          /\ \A q \in Requests : req'[q] \in {"none", "spawned", "handling", "cancelled"} =>
                req[q] \in {"none", "spawned", "handling", "cancelled"}
      BY <1>9, <2>2 DEF StartRequest, StdioTypes
    <3> QED
      BY <1>2, <3>1 DEF LinesInv
  <2>3. CASE ~initialized
    BY <1>8, <1>9, <2>1, <2>3 DEF StartRequest
  <2> QED
    BY <2>2, <2>3
<1>10. ASSUME NEW r \in Requests, Respond(r) PROVE OutputInv' /\ LinesInv'
  BY <1>8, <1>10 DEF Respond, Ready
<1>11. ASSUME NEW r \in Requests, AskClient(r) PROVE OutputInv' /\ LinesInv'
  <2> DEFINE l == <<"ask", r>>
  <2>1. /\ l \in Lines /\ l[1] = "ask" /\ r \in Actors /\ r # Reader /\ line[r] = NoLine
        /\ ~Unique(l)
    BY <1>11, Distinct, LineTypes DEF AskClient, LinesInv, Unique
  <2>2. /\ line' = [line EXCEPT ![r] = l] /\ UNCHANGED <<mu, out, taken, reader>>
        /\ \A q \in Requests : req[q] = "done" => req'[q] = "done"
        /\ \A q \in Requests : req'[q] \in {"none", "spawned", "handling", "cancelled"} =>
              q # r /\ req[q] \in {"none", "spawned", "handling", "cancelled"}
    BY <1>11 DEF AskClient, StdioTypes
  <2> HIDE DEF l
  <2>3. OutputInv'
    BY <2>1, <2>2, SayKeeps
  <2>4. LinesInv'
    BY <2>1, <2>2, LinesSay
  <2> QED
    BY <2>3, <2>4
<1>12. ASSUME NEW p \in Pumps, PumpDelivers(p) PROVE OutputInv' /\ LinesInv'
  <2>1. PICK m \in (position[p] + 1)..published :
          /\ m \notin taken /\ taken' = taken \cup {m}
          /\ line' = [line EXCEPT ![p] = <<"message", m>>]
    BY <1>12 DEF PumpDelivers
  <2> DEFINE l == <<"message", m>>
  <2>2. m \in Nat
    BY DEF StdioTypes
  <2>3. /\ l \in Lines /\ l[1] = "message" /\ l[2] = m
        /\ p \in Actors /\ p # Reader /\ p \notin Requests
    BY <2>2, Distinct, LineTypes
  <2>4. UNCHANGED <<mu, out, reader, req>> /\ line[p] = NoLine
    BY <1>12 DEF PumpDelivers, Ready
  <2>5. \A i \in 1..Len(out) : out[i][1] # l
    BY <2>1, <2>3 DEF OutputInv, OutInv
  <2>6. line' = [line EXCEPT ![p] = l] /\ taken \subseteq taken' /\ m \in taken' \ taken
    BY <2>1
  <2> HIDE DEF l
  <2>7. OutputInv'
    BY <2>3, <2>4, <2>5, <2>6, SayKeeps
  <2>8. LinesInv'
    BY <2>3, <2>4, <2>6, LinesSay
  <2> QED
    BY <2>7, <2>8
<1>13. ASSUME NEW p \in Pumps, PumpSubscribes(p) \/ PumpEnds(p)
       PROVE  OutputInv' /\ LinesInv'
  BY <1>2, <1>13 DEF PumpSubscribes, PumpEnds, LinesInv
<1>14. ASSUME NEW a \in Actors, WriteBody(a) PROVE OutputInv' /\ LinesInv'
  <2>1. LinesInv'
    BY <1>14, LinesSilent DEF WriteBody, LinesInv
  <2> QED
    BY <1>14, <2>1, BodyKeeps
<1>15. ASSUME NEW a \in Actors, WriteNewline(a) PROVE OutputInv' /\ LinesInv'
  <2>1. /\ line'[a] = NoLine /\ \A b \in Actors : b # a => line'[b] = line[b]
        /\ UNCHANGED <<req, reader, taken>>
    BY <1>15 DEF WriteNewline, StdioTypes
  <2>2. LinesInv'
    BY <2>1, Distinct DEF LinesInv
  <2> QED
    BY <1>15, <2>2, NewlineKeeps
<1>16. CASE PublishMessage \/ EngineSubscribes \/ ProcessExits \/ UNCHANGED stdioVars
  BY <1>2, <1>16 DEF PublishMessage, EngineSubscribes, ProcessExits, stdioVars, LinesInv
<1>17. CASE DeliverEvent
  <2>1. /\ UNCHANGED <<mu, out, line, taken, reader>>
        /\ \A q \in Requests : req[q] = "done" => req'[q] = "done"
        /\ \A q \in Requests : req'[q] \in {"none", "spawned", "handling", "cancelled"} =>
              req[q] \in {"none", "spawned", "handling", "cancelled"}
    BY <1>17 DEF DeliverEvent, StdioTypes
  <2> QED
    BY <1>2, <2>1 DEF LinesInv
<1> QED
  BY <1>3, <1>4, <1>5, <1>6, <1>7, <1>9, <1>10, <1>11, <1>12, <1>13, <1>14, <1>15, <1>16, <1>17
  DEF StdioNext, RequestStep

\* Every step keeps one pump at most going.
LEMMA StepPumps ==
  ASSUME StdioTypes, PumpInv, [StdioNext]_stdioVars
  PROVE  PumpInv'
<1> USE DEF actorVars, outVars, PumpInv
<1>1. CASE ReadInitialized
  BY <1>1, SMTT(40) DEF ReadInitialized, ReadsOne, Reads, PumpsAfterStart, StdioTypes
<1>2. CASE ReadEnd
  BY <1>2 DEF ReadEnd, StdioTypes
<1>3. CASE ReadInitialize
  BY <1>3 DEF ReadInitialize, ReadsOne, Reads
<1>4. ASSUME NEW p \in Pumps, PumpSubscribes(p) \/ PumpEnds(p) PROVE PumpInv'
  BY <1>4 DEF PumpSubscribes, PumpEnds, StdioTypes
<1>5. CASE UNCHANGED <<pump, current, reader>> \/ InitializeSession \/ ProcessExits
  BY <1>5 DEF InitializeSession, ProcessExits
<1> QED
  BY <1>1, <1>2, <1>3, <1>4, <1>5
  DEF StdioNext, RequestStep, stdioVars, ReadInvalid, ReadRequest, ReadResponse,
      ReadCancelled, EngineSubscribes, DeliverEvent, StartRequest, Respond, AskClient, PublishMessage, PumpDelivers, WriteBody,
      WriteNewline

\* A message that is on stdout or about to be written stays so.
LEMMA StepTaken ==
  ASSUME StdioTypes, OutputInv, LinesInv, TakenIsWritten, [StdioNext]_stdioVars
  PROVE  TakenIsWritten'
<1> USE DEF actorVars, outVars, Says
<1>1. ASSUME UNCHANGED <<out, taken>>, \A p \in Pumps : line'[p] = line[p]
      PROVE  TakenIsWritten'
  BY <1>1 DEF TakenIsWritten
<1>2. ASSUME NEW a \in Requests \cup {Reader}, NEW l, line' = [line EXCEPT ![a] = l],
             UNCHANGED <<out, taken>>
      PROVE  TakenIsWritten'
  <2>1. \A p \in Pumps : line'[p] = line[p]
    BY <1>2, Distinct DEF StdioTypes
  <2> QED
    BY <1>1, <1>2, <2>1
<1>3. CASE ReadInvalid \/ ReadInitialize \/ InitializeSession
  BY <1>1, <1>2, <1>3 DEF ReadInvalid, ReadInitialize, InitializeSession
<1>4. ASSUME NEW r \in Requests, StartRequest(r) \/ Respond(r) \/ AskClient(r)
      PROVE  TakenIsWritten'
  BY <1>1, <1>2, <1>4 DEF StartRequest, Respond, AskClient
<1>5. ASSUME NEW p \in Pumps, PumpDelivers(p) PROVE TakenIsWritten'
  <2>1. PICK m \in (position[p] + 1)..published :
          /\ taken' = taken \cup {m} /\ line' = [line EXCEPT ![p] = <<"message", m>>]
    BY <1>5 DEF PumpDelivers
  <2>2. UNCHANGED out /\ line[p] = NoLine
    BY <1>5 DEF PumpDelivers, Ready
  <2>3. line'[p] = <<"message", m>> /\ \A q \in Pumps : q # p => line'[q] = line[q]
    BY <2>1, Distinct DEF StdioTypes
  <2>4. \A k : line[p] # <<"message", k>>
    BY <2>2 DEF NoLine
  <2> QED
    BY <2>1, <2>2, <2>3, <2>4 DEF TakenIsWritten
<1>6. ASSUME NEW a \in Actors, NEW part \in {"body", "newline"},
             out' = Append(out, <<line[a], part>>), UNCHANGED taken,
             \A b \in Actors : b # a => line'[b] = line[b],
             line'[a] # line[a] =>
                out[Len(out)] = <<line[a], "body">> /\ Len(out) \in 1..Len(out)
      PROVE  TakenIsWritten'
  <2>1. line[a] \in Lines
    BY DEF StdioTypes
  <2>2. \A i \in 1..Len(out) : i \in 1..Len(out') /\ out'[i] = out[i]
    BY <1>6, <2>1, OutAppend, OutSeq
  <2> SUFFICES ASSUME NEW m \in taken
               PROVE  \/ \E i \in 1..Len(out') : out'[i] = <<<<"message", m>>, "body">>
                      \/ \E p \in Pumps : line'[p] = <<"message", m>>
    BY <1>6 DEF TakenIsWritten
  <2>3. CASE \E i \in 1..Len(out) : out[i] = <<<<"message", m>>, "body">>
    BY <2>2, <2>3
  <2>4. CASE \E p \in Pumps : line[p] = <<"message", m>>
    <3>1. PICK p \in Pumps : line[p] = <<"message", m>>
      BY <2>4
    <3>2. CASE line'[p] = line[p]
      BY <3>1, <3>2
    <3>3. CASE line'[p] # line[p]
      <4>1. p = a /\ out[Len(out)] = <<line[p], "body">> /\ Len(out) \in 1..Len(out)
        BY <1>6, <3>3, Distinct
      <4>2. out[Len(out)] = <<<<"message", m>>, "body">>
        BY <3>1, <4>1
      <4> QED
        BY <2>2, <4>1, <4>2
    <3> QED
      BY <3>2, <3>3
  <2> QED
    BY <2>3, <2>4 DEF TakenIsWritten
<1>7. ASSUME NEW a \in Actors, WriteBody(a) PROVE TakenIsWritten'
  <2>1. /\ out' = Append(out, <<line[a], "body">>) /\ UNCHANGED taken
        /\ \A b \in Actors : line'[b] = line[b]
    BY <1>7 DEF WriteBody
  <2>2. line'[a] = line[a] /\ \A b \in Actors : b # a => line'[b] = line[b]
    BY <2>1
  <2>3. "body" \in {"body", "newline"}
    OBVIOUS
  <2> HIDE DEF TakenIsWritten
  <2> QED
    BY <1>6, <2>1, <2>2, <2>3
<1>8. ASSUME NEW a \in Actors, WriteNewline(a) PROVE TakenIsWritten'
  <2>1. /\ out' = Append(out, <<line[a], "newline">>) /\ UNCHANGED taken
        /\ \A b \in Actors : b # a => line'[b] = line[b]
    BY <1>8 DEF WriteNewline, StdioTypes
  <2>2. Len(out) \in Nat /\ Len(out) % 2 = 1 /\ out[Len(out)] = <<line[a], "body">>
    BY <1>8, OutSeq, Distinct DEF WriteNewline, OutputInv, MutexInv
  <2>3. Len(out) \in 1..Len(out)
    BY <2>2
  <2> QED
    BY <1>6, <2>1, <2>2, <2>3
<1>9. CASE UNCHANGED <<out, taken, line>>
  BY <1>1, <1>9
<1> QED
  BY <1>3, <1>4, <1>5, <1>7, <1>8, <1>9
  DEF StdioNext, RequestStep, stdioVars, ReadInitialized, ReadRequest, ReadResponse, ReadCancelled,
      EngineSubscribes, DeliverEvent, ReadEnd, ProcessExits, PublishMessage, PumpSubscribes, PumpEnds

\* No answer and no message is on stdout twice, every line is whole, a message
\* that a pump has claimed is there or about to be, and one pump at most copies
\* the session's stream; for any number of requests, pumps and messages.
THEOREM StdoutStaysExact == StdioSpec => []StdoutExact
<1> DEFINE Inv == StdioTypes /\ OutputInv /\ LinesInv /\ TakenIsWritten /\ PumpInv
<1>1. StdioInit => Inv
  <2> SUFFICES ASSUME StdioInit PROVE Inv
    OBVIOUS
  <2>1. out \in Seq(Lines \X {"body", "newline"}) /\ Len(out) = 0
    BY EmptySeq DEF StdioInit
  <2>2. StdioTypes
    BY <2>1, LineTypes DEF StdioInit, StdioTypes
  <2>3. \A a \in Actors : line[a] = NoLine
    BY DEF StdioInit
  <2>4. OutputInv
    BY <2>1 DEF StdioInit, OutputInv, MutexInv, WholeLines, OutInv, LineWrittenOnce
  <2>5. LinesInv
    BY <2>3, Distinct DEF LinesInv
  <2> QED
    BY <2>2, <2>4, <2>5 DEF StdioInit, PumpInv, TakenIsWritten
<1>2. Inv /\ [StdioNext]_stdioVars => Inv'
  BY StepStdioTypes, StepOutput, StepTaken, StepPumps
<1>3. Inv => StdoutExact
  <2> SUFFICES ASSUME Inv PROVE OnePump
    BY DEF StdoutExact, OutputInv
  <2> DEFINE going == {p \in Pumps : pump[p] \in {"starting", "running"}}
  <2>1. CASE going = {}
    <3>1. Cardinality(going) = 0
      BY <2>1, FS_EmptySet
    <3> QED
      BY <3>1 DEF OnePump
  <2>2. CASE going # {}
    <3>1. going = {current} /\ reader \notin {"ended", "exited"}
      BY <2>2, Distinct DEF PumpInv
    <3>2. Cardinality(going) = 1
      BY <3>1, FS_Singleton
    <3> QED
      BY <3>1, <3>2 DEF OnePump
  <2> QED
    BY <2>1, <2>2
<1> HIDE DEF Inv
<1> QED
  BY <1>1, <1>2, <1>3, PTL DEF StdioSpec
=============================================================================
