------------------------- MODULE CommandOutputProofs -------------------------
(***************************************************************************)
(* What Executor.Run returns, for any number of chunks and any lengths of  *)
(* a chunk and of the prefix.                                              *)
(*                                                                         *)
(* A chunk is counted by how far it has got.  The two goroutines share     *)
(* combinedOutput: its length is bounded by what both have added to it,    *)
(* and known exactly of a command that writes to one stream only.          *)
(***************************************************************************)
EXTENDS CommandOutput, SequenceTheorems, TLAPS

Less(n, late) == IF late THEN n - 1 ELSE n

\* The chunks of a stream in its buffer, added to the length of combinedOutput,
\* and past the attempt to copy them to it.
Buffered(s) == Less(shown[s], pc[s] = "buffer")
Added(s)    == Less(shown[s], pc[s] \in {"buffer", "combine", "extend"})
Copied(s)   == Less(shown[s], pc[s] \in {"buffer", "combine", "extend", "copy"})

Echoes   == IF echoed THEN 1 ELSE 0
Total    == Echoes + Added("stdout") + Added("stderr")

\* TypeOK, but for the bounds of combinedOutput.
ShapeOK ==
  /\ written \in [Streams -> 0 .. Chunks]
  /\ shown \in [Streams -> 0 .. Chunks]
  /\ seen \in [Streams -> {"whole", "part", "nothing"}]
  /\ echoed \in BOOLEAN
  /\ buf \in [Streams -> Seq(ChunkType)]
  /\ array \in [1 .. Capacity -> ChunkType \cup {NoChunk}]
  /\ len \in Nat
  /\ pos \in [Streams -> Nat]
  /\ pc \in [Streams -> {"read", "buffer", "combine", "extend", "copy", "eof", "broken"}]
  /\ main \in {"start", "running", "exited", "done", "dry", "not started", "panicked"}

\* Nothing is shown that was not written, and a chunk in flight is one of those
\* shown; a stream at its end has nothing left.
FlowInv ==
  /\ \A s \in Streams :
       /\ shown[s] <= written[s]
       /\ pc[s] \in {"buffer", "combine", "extend", "copy"} => shown[s] > 0
       /\ pc[s] = "eof" => shown[s] = written[s] /\ main # "running"
       /\ pc[s] \notin {"read", "eof"} => written[s] > 0
       /\ seen[s] # "whole" => pc[s] = "broken"
  /\ main = "start" => ~echoed /\ buf["stderr"] = <<>> /\ len = 0
  /\ main \in {"start", "dry", "not started"} =>
       \A s \in Streams : pc[s] = "read" /\ shown[s] = 0
  /\ main = "done" => \A s \in Streams : pc[s] \in {"eof", "broken"}

\* A stale position is never further than what has been added since.
LengthInv ==
  /\ len <= Total
  /\ \A s \in Streams :
       /\ pc[s] = "extend" => pos[s] \in 1 .. Total + 1
       /\ pc[s] = "copy" => pos[s] \in 1 .. Total
       /\ pos[s] <= Capacity

\* The buffer of a stream is the line of Run and the chunks that passed it.
BufferInv ==
  \A s \in Streams : buf[s] = Heard(s) \o UpTo(s, 1, Buffered(s))

\* combinedOutput, while only s has written.
AloneInv(s) ==
  /\ len = Echoes + Added(s)
  /\ pc[s] = "extend" => pos[s] = len + 1
  /\ pc[s] = "copy" => pos[s] = len
  /\ pc[s] = "broken" => seen[s] # "whole"
  /\ echoed => array[1] = Banner
  /\ \A j \in 1 .. Copied(s) : array[Echoes + j] = <<s, j>>

CombinedInv ==
  /\ written["stdout"] = 0 => AloneInv("stderr")
  /\ written["stderr"] = 0 => AloneInv("stdout")

IInv == ShapeOK /\ FlowInv /\ LengthInv /\ BufferInv /\ CombinedInv

\* The counters of ShapeOK.
LEMMA Typed ==
  ASSUME ShapeOK
  PROVE  /\ len \in Nat
         /\ \A s \in Streams :
              /\ shown[s] \in Nat /\ shown[s] \in 0 .. Chunks
              /\ written[s] \in Nat /\ written[s] \in 0 .. Chunks
              /\ pos[s] \in Nat
<1>1. /\ len \in Nat
      /\ shown \in [Streams -> 0 .. Chunks]
      /\ written \in [Streams -> 0 .. Chunks]
      /\ pos \in [Streams -> Nat]
  BY DEF ShapeOK
<1> QED BY <1>1, CommandOutputAssumption

-----------------------------------------------------------------------------
(* The terminal, and counting *)

\* A chunk goes on exactly if the terminal took all of it and of the prefix.
LEMMA AcceptedAll ==
  ASSUME NEW n \in 0 .. Bytes + Prefix
  PROVE  Accepted(n) <=> n = Bytes + Prefix
BY CommandOutputAssumption DEF Accepted, Count

LEMMA CountsNat ==
  ASSUME ShapeOK, FlowInv, NEW s \in Streams
  PROVE  /\ Buffered(s) \in 0 .. Chunks
         /\ Added(s) \in 0 .. Chunks
         /\ Copied(s) \in 0 .. Chunks
         /\ Copied(s) <= Added(s) /\ Added(s) <= Buffered(s)
         /\ pc[s] \in {"combine", "extend"} => Added(s) < Chunks
         /\ Echoes \in 0 .. 1
<1>1. /\ shown[s] \in 0 .. Chunks
      /\ pc[s] \in {"buffer", "combine", "extend", "copy"} => shown[s] \in 1 .. Chunks
  <2>1. shown[s] \in 0 .. Chunks
    BY DEF ShapeOK
  <2>2. pc[s] \in {"buffer", "combine", "extend", "copy"} => shown[s] > 0
    BY DEF FlowInv
  <2> QED BY <2>1, <2>2, CommandOutputAssumption
<1>2. Echoes \in 0 .. 1
  BY DEF Echoes
<1> DEFINE n == shown[s]
           p == pc[s]
<1> HIDE DEF n, p
<1>3. CASE p = "buffer"
  BY <1>1, <1>2, <1>3, CommandOutputAssumption DEF Buffered, Added, Copied, Less, n, p
<1>4. CASE p \in {"combine", "extend"}
  BY <1>1, <1>2, <1>4, CommandOutputAssumption DEF Buffered, Added, Copied, Less, n, p
<1>5. CASE p = "copy"
  BY <1>1, <1>2, <1>5, CommandOutputAssumption DEF Buffered, Added, Copied, Less, n, p
<1>6. CASE p \notin {"buffer", "combine", "extend", "copy"}
  BY <1>1, <1>2, <1>6, CommandOutputAssumption DEF Buffered, Added, Copied, Less, n, p
<1> QED BY <1>3, <1>4, <1>5, <1>6

\* The bounds of TypeOK.
LEMMA Bounds ==
  ASSUME ShapeOK, FlowInv, LengthInv
  PROVE  /\ Total \in 0 .. Capacity
         /\ len <= Capacity
         /\ \A s \in Streams :
              /\ pc[s] \in {"combine", "extend"} => Total < Capacity
              /\ pos[s] <= Capacity
              /\ pc[s] \in {"extend", "copy"} => pos[s] \in 1 .. Capacity
<1>1. /\ Added("stdout") \in 0 .. Chunks
      /\ Added("stderr") \in 0 .. Chunks
      /\ pc["stdout"] \in {"combine", "extend"} => Added("stdout") < Chunks
      /\ pc["stderr"] \in {"combine", "extend"} => Added("stderr") < Chunks
      /\ Echoes \in 0 .. 1
  BY CountsNat DEF Streams
<1> DEFINE a == Added("stdout")
           b == Added("stderr")
           e == Echoes
<1>2. Total = e + a + b
  BY DEF Total
<1> HIDE DEF a, b, e
<1>3. Total \in 0 .. Capacity
  BY <1>1, <1>2, CommandOutputAssumption DEF a, b, e, Capacity
<1>4. \A s \in Streams : pc[s] \in {"combine", "extend"} => Total < Capacity
  BY <1>1, <1>2, CommandOutputAssumption DEF a, b, e, Capacity, Streams
<1>5. Capacity \in Nat
  BY CommandOutputAssumption DEF Capacity
<1>6. len <= Capacity
  BY <1>3, <1>5, Typed DEF LengthInv
<1>7. ASSUME NEW s \in Streams
      PROVE  /\ pos[s] <= Capacity
             /\ pc[s] \in {"extend", "copy"} => pos[s] \in 1 .. Capacity
  BY <1>3, <1>4, <1>5 DEF LengthInv
<1> QED BY <1>3, <1>4, <1>6, <1>7

-----------------------------------------------------------------------------
(* Sequences of chunks *)

Items == Streams \X Nat

LEMMA UpToSeq ==
  ASSUME NEW s \in Streams, NEW n \in Nat
  PROVE  /\ UpTo(s, 1, n) \in Seq(Items)
         /\ Len(UpTo(s, 1, n)) = n
         /\ \A j \in 1 .. n : UpTo(s, 1, n)[j] = <<s, j>>
<1>1. UpTo(s, 1, n) = [i \in 1 .. n |-> <<s, i>>]
  BY DEF UpTo
<1>2. \A i \in 1 .. n : <<s, i>> \in Items
  BY DEF Items
<1> QED BY <1>1, <1>2

LEMMA HeardSeq ==
  ASSUME NEW s \in Streams
  PROVE  /\ Heard(s) \in Seq(Items) /\ Echo \in Seq(Items)
         /\ Len(Echo) = Echoes
         /\ echoed => Echo[1] = Banner
BY DEF Heard, Echo, Echoes, Items, Banner, Streams

LEMMA UpToNext ==
  ASSUME NEW s \in Streams, NEW n \in Nat \ {0}
  PROVE  UpTo(s, 1, n) = Append(UpTo(s, 1, n - 1), <<s, n>>)
<1> DEFINE u == UpTo(s, 1, n - 1)
           v == UpTo(s, 1, n)
<1>1. u \in Seq(Items) /\ Len(u) = n - 1 /\ \A j \in 1 .. n - 1 : u[j] = <<s, j>>
  BY UpToSeq
<1>2. v \in Seq(Items) /\ Len(v) = n /\ \A j \in 1 .. n : v[j] = <<s, j>>
  BY UpToSeq
<1>3. <<s, n>> \in Items
  BY DEF Items
<1> DEFINE e == <<s, n>>
<1> HIDE DEF u, v, e
<1>4. e \in Items /\ v[n] = e
  BY <1>2, <1>3 DEF e
<1>5. /\ Append(u, e) \in Seq(Items)
      /\ Len(Append(u, e)) = n
      /\ \A j \in 1 .. n - 1 : Append(u, e)[j] = u[j]
      /\ Append(u, e)[n] = e
  BY <1>1, <1>4, AppendProperties
<1>6. \A j \in 1 .. n : Append(u, e)[j] = v[j]
  <2>1. ASSUME NEW j \in 1 .. n - 1
        PROVE  u[j] = v[j]
    <3>1. u[j] = <<s, j>>
      BY <1>1, Zenon
    <3>2. j \in 1 .. n
      OBVIOUS
    <3>3. v[j] = <<s, j>>
      BY <3>2, <1>2, Zenon
    <3> QED BY <3>1, <3>3, Zenon
  <2>2. ASSUME NEW j \in 1 .. n, j # n
        PROVE  j \in 1 .. n - 1
    BY <2>2
  <2> QED BY <1>4, <1>5, <2>1, <2>2
<1>7. v = Append(u, e)
  BY <1>2, <1>5, <1>6, SeqEqual
<1> QED BY <1>7 DEF u, v, e

\* A chunk that is appended to a buffer is the next one.
LEMMA HeardNext ==
  ASSUME NEW s \in Streams, NEW n \in Nat \ {0}
  PROVE  Append(Heard(s) \o UpTo(s, 1, n - 1), <<s, n>>) = Heard(s) \o UpTo(s, 1, n)
<1> DEFINE h == Heard(s)
           u == UpTo(s, 1, n - 1)
           e == <<s, n>>
<1>1. h \in Seq(Items) /\ u \in Seq(Items) /\ e \in Items /\ <<e>> \in Seq(Items)
  <2>1. h \in Seq(Items)
    BY HeardSeq
  <2>2. n - 1 \in Nat
    OBVIOUS
  <2>3. u \in Seq(Items)
    BY <2>2, UpToSeq
  <2>4. e \in Items
    BY DEF Items
  <2> HIDE DEF h, u, e
  <2> QED BY <2>1, <2>3, <2>4
<1>2. UpTo(s, 1, n) = Append(u, e)
  BY UpToNext
<1> HIDE DEF h, u, e
<1>3. Append(u, e) = u \o <<e>>
  BY <1>1, AppendIsConcat
<1>4. h \o u \in Seq(Items)
  BY <1>1, ConcatProperties
<1>5. Append(h \o u, e) = (h \o u) \o <<e>>
  BY <1>1, <1>4, AppendIsConcat
<1>6. (h \o u) \o <<e>> = h \o (u \o <<e>>)
  BY <1>1, ConcatAssociative
<1>7. Append(h \o u, e) = h \o UpTo(s, 1, n)
  BY <1>2, <1>3, <1>5, <1>6
<1> QED BY <1>7 DEF h, u, e

LEMMA EmptyUpTo ==
  ASSUME NEW s \in Streams
  PROVE  UpTo(s, 1, 0) = <<>> /\ Heard(s) \o UpTo(s, 1, 0) = Heard(s)
<1>1. UpTo(s, 1, 0) = <<>>
  BY DEF UpTo
<1>2. Heard(s) \in Seq(Items)
  BY HeardSeq
<1> QED BY <1>1, <1>2, ConcatEmptySeq

-----------------------------------------------------------------------------
(* Steps *)

LEMMA ChunkTypes ==
  ASSUME ShapeOK, NEW s \in Streams
  PROVE  Chunk(s) \in ChunkType /\ Banner \in ChunkType
<1>1. shown[s] \in 0 .. Chunks /\ 0 \in 0 .. Chunks
  BY Typed, CommandOutputAssumption
<1>2. "stderr" \in Streams
  BY DEF Streams
<1> QED BY <1>1, <1>2 DEF Chunk, ChunkType, Banner

\* The two ways Start and Show go.
LEMMA StartCases ==
  ASSUME Start
  PROVE  \/ /\ echoed' = TRUE
            /\ buf' = [buf EXCEPT !["stderr"] = <<Banner>>]
            /\ array' = [array EXCEPT ![1] = Banner]
            /\ len' = 1
         \/ UNCHANGED <<echoed, buf, array, len>>
BY Zenon DEF Start

LEMMA ShowCases ==
  ASSUME NEW s \in Streams, Show(s)
  PROVE  \/ /\ pc' = [pc EXCEPT ![s] = "buffer"]
            /\ shown' = [shown EXCEPT ![s] = @ + 1]
            /\ seen' = [seen EXCEPT ![s] = "whole"]
         \/ /\ pc' = [pc EXCEPT ![s] = "broken"]
            /\ UNCHANGED shown
            /\ \E t \in {"part", "nothing"} : seen' = [seen EXCEPT ![s] = t]
<1>1. PICK n \in 0 .. Bytes + Prefix :
        /\ Step(s, "read", IF Accepted(n) THEN "buffer" ELSE "broken")
        /\ shown' = IF n = Bytes + Prefix THEN [shown EXCEPT ![s] = @ + 1] ELSE shown
        /\ seen' = [seen EXCEPT ![s] = Taken(n)]
  BY DEF Show
<1>2. Accepted(n) <=> n = Bytes + Prefix
  BY AcceptedAll
<1>3. IF n = Bytes + Prefix THEN Taken(n) = "whole" ELSE Taken(n) \in {"part", "nothing"}
  BY CommandOutputAssumption DEF Taken
<1>4. CASE n = Bytes + Prefix
  BY <1>1, <1>2, <1>3, <1>4 DEF Step
<1>5. CASE n # Bytes + Prefix
  <2>1. PICK t \in {"part", "nothing"} : Taken(n) = t
    BY <1>3, <1>5
  <2> QED BY <1>1, <1>2, <1>5, <2>1 DEF Step
<1> QED BY <1>4, <1>5

LEMMA ShapeStep ==
  ASSUME ShapeOK, [Next]_vars
  PROVE  ShapeOK'
<1>1. CASE Start
  <2>1. Banner \in ChunkType /\ <<Banner>> \in Seq(ChunkType)
    BY CommandOutputAssumption DEF ChunkType, Banner, Streams
  <2>2. CASE UNCHANGED <<echoed, buf, array, len>>
    BY <1>1, <2>2 DEF Start, ShapeOK
  <2>3. CASE /\ echoed' = TRUE
             /\ buf' = [buf EXCEPT !["stderr"] = <<Banner>>]
             /\ array' = [array EXCEPT ![1] = Banner]
             /\ len' = 1
    <3>1. buf' \in [Streams -> Seq(ChunkType)]
      BY <2>1, <2>3 DEF ShapeOK
    <3>2. array' \in [1 .. Capacity -> ChunkType \cup {NoChunk}]
      BY <2>1, <2>3 DEF ShapeOK
    <3> QED BY <1>1, <2>3, <3>1, <3>2 DEF Start, ShapeOK
  <2> QED BY <1>1, <2>2, <2>3, StartCases
<1>2. ASSUME NEW s \in Streams, CommandWrites(s)
      PROVE  ShapeOK'
  BY <1>2, CommandOutputAssumption DEF CommandWrites, ShapeOK
<1>3. CASE CommandExits
  BY <1>3 DEF CommandExits, ShapeOK
<1>4. CASE Wait
  BY <1>4 DEF Wait, ShapeOK
<1>5. ASSUME NEW s \in Streams, Show(s)
      PROVE  ShapeOK'
  <2>1. shown[s] + 1 \in 0 .. Chunks
    <3>1. shown[s] \in 0 .. Chunks /\ written[s] \in 0 .. Chunks
      BY DEF ShapeOK
    <3> QED BY <1>5, <3>1, CommandOutputAssumption DEF Show
  <2>2. shown' \in [Streams -> 0 .. Chunks]
    BY <1>5, <2>1, ShowCases DEF ShapeOK
  <2>3. pc' \in [Streams -> {"read", "buffer", "combine", "extend", "copy", "eof", "broken"}]
    BY <1>5, ShowCases DEF ShapeOK
  <2>4. seen' \in [Streams -> {"whole", "part", "nothing"}]
    BY <1>5, ShowCases DEF ShapeOK
  <2> QED BY <1>5, <2>2, <2>3, <2>4 DEF Show, ShapeOK
<1>6. ASSUME NEW s \in Streams, CopyToBuffer(s)
      PROVE  ShapeOK'
  <2>1. Append(buf[s], Chunk(s)) \in Seq(ChunkType)
    <3>1. buf[s] \in Seq(ChunkType) /\ Chunk(s) \in ChunkType
      BY ChunkTypes DEF ShapeOK
    <3> QED BY <3>1, AppendProperties
  <2>2. buf' = [buf EXCEPT ![s] = Append(buf[s], Chunk(s))]
    BY <1>6 DEF CopyToBuffer
  <2>3. buf' \in [Streams -> Seq(ChunkType)]
    BY <2>1, <2>2 DEF ShapeOK
  <2> QED BY <1>6, <2>3 DEF CopyToBuffer, Step, ShapeOK
<1>7. ASSUME NEW s \in Streams, ReadLength(s)
      PROVE  ShapeOK'
  <2>1. len + 1 \in Nat
    BY Typed
  <2>2. pos' \in [Streams -> Nat]
    BY <1>7, <2>1 DEF ReadLength, ShapeOK
  <2> QED BY <1>7, <2>2 DEF ReadLength, Step, ShapeOK
<1>8. ASSUME NEW s \in Streams, Extend(s)
      PROVE  ShapeOK'
  BY <1>8 DEF Extend, Step, ShapeOK
<1>9. ASSUME NEW s \in Streams, CopyToCombined(s)
      PROVE  ShapeOK'
  <2>1. array' \in [1 .. Capacity -> ChunkType \cup {NoChunk}]
    BY <1>9, ChunkTypes DEF CopyToCombined, ShapeOK
  <2> QED BY <1>9, <2>1 DEF CopyToCombined, Step, ShapeOK
<1>10. ASSUME NEW s \in Streams, EndOfStream(s)
       PROVE  ShapeOK'
  BY <1>10 DEF EndOfStream, Step, ShapeOK
<1>12. ASSUME NEW s \in Streams, ShortCopy(s) \/ CopyPanics(s)
       PROVE  ShapeOK'
  BY <1>12 DEF ShortCopy, CopyPanics, Step, ShapeOK
<1>11. CASE UNCHANGED vars
  BY <1>11 DEF vars, ShapeOK
<1> QED
  BY <1>1, <1>2, <1>3, <1>4, <1>5, <1>6, <1>7, <1>8, <1>9, <1>10, <1>11, <1>12
  DEF Next, Copier, Terminated

LEMMA FlowStep ==
  ASSUME ShapeOK, FlowInv, [Next]_vars
  PROVE  FlowInv'
<1>1. CASE Start
  BY <1>1 DEF Start, ShapeOK, FlowInv
<1>2. ASSUME NEW s \in Streams, CommandWrites(s)
      PROVE  FlowInv'
  BY <1>2, CommandOutputAssumption DEF CommandWrites, ShapeOK, FlowInv
<1>3. CASE CommandExits
  BY <1>3 DEF CommandExits, FlowInv
<1>4. CASE Wait
  BY <1>4 DEF Wait, FlowInv
<1>5. ASSUME NEW s \in Streams, Show(s)
      PROVE  FlowInv'
  <2>1. /\ shown[s] < written[s] /\ pc[s] = "read"
        /\ main \in {"running", "exited"}
        /\ UNCHANGED <<written, echoed, buf, len, main>>
    BY <1>5 DEF Show, Step
  <2>2. shown[s] \in Nat /\ written[s] \in Nat
    BY Typed
  <2>3. CASE /\ pc' = [pc EXCEPT ![s] = "broken"]
             /\ UNCHANGED shown
             /\ \E t \in {"part", "nothing"} : seen' = [seen EXCEPT ![s] = t]
    <3>1. written[s] > 0
      BY <2>1, <2>2
    <3>2. /\ pc'[s] = "broken" /\ shown' = shown
          /\ \A r \in Streams \ {s} : pc'[r] = pc[r] /\ seen'[r] = seen[r]
      BY <2>3 DEF ShapeOK
    <3> QED BY <2>1, <3>1, <3>2 DEF FlowInv
  <2>4. CASE /\ pc' = [pc EXCEPT ![s] = "buffer"]
             /\ shown' = [shown EXCEPT ![s] = @ + 1]
             /\ seen' = [seen EXCEPT ![s] = "whole"]
    <3>1. /\ pc'[s] = "buffer" /\ shown'[s] = shown[s] + 1 /\ seen'[s] = "whole"
          /\ \A r \in Streams \ {s} :
               pc'[r] = pc[r] /\ shown'[r] = shown[r] /\ seen'[r] = seen[r]
      BY <2>4 DEF ShapeOK
    <3>2. shown'[s] <= written[s] /\ shown'[s] > 0 /\ written[s] > 0
      BY <2>1, <2>2, <3>1
    <3> QED BY <2>1, <3>1, <3>2 DEF FlowInv
  <2> QED BY <1>5, <2>3, <2>4, ShowCases
<1>6. ASSUME NEW s \in Streams, CopyToBuffer(s)
      PROVE  FlowInv'
  BY <1>6 DEF CopyToBuffer, Step, ShapeOK, FlowInv
<1>7. ASSUME NEW s \in Streams, ReadLength(s)
      PROVE  FlowInv'
  BY <1>7 DEF ReadLength, Step, ShapeOK, FlowInv
<1>8. ASSUME NEW s \in Streams, Extend(s)
      PROVE  FlowInv'
  BY <1>8 DEF Extend, Step, ShapeOK, FlowInv
<1>9. ASSUME NEW s \in Streams, CopyToCombined(s)
      PROVE  FlowInv'
  BY <1>9 DEF CopyToCombined, Step, ShapeOK, FlowInv
<1>10. ASSUME NEW s \in Streams, EndOfStream(s)
       PROVE  FlowInv'
  BY <1>10 DEF EndOfStream, Step, ShapeOK, FlowInv
<1>12. ASSUME NEW s \in Streams, ShortCopy(s) \/ CopyPanics(s)
       PROVE  FlowInv'
  BY <1>12 DEF ShortCopy, CopyPanics, Step, ShapeOK, FlowInv
<1>11. CASE UNCHANGED vars
  BY <1>11 DEF vars, FlowInv
<1> QED
  BY <1>1, <1>2, <1>3, <1>4, <1>5, <1>6, <1>7, <1>8, <1>9, <1>10, <1>11, <1>12
  DEF Next, Copier, Terminated

\* A step of one goroutine counts for its own chunks only.
LEMMA OthersCount ==
  ASSUME ShapeOK, NEW s \in Streams, Copier(s), NEW r \in Streams \ {s}
  PROVE  /\ pc'[r] = pc[r] /\ shown'[r] = shown[r]
         /\ Buffered(r)' = Buffered(r)
         /\ Added(r)' = Added(r)
         /\ Copied(r)' = Copied(r)
<1>1. pc'[r] = pc[r] /\ shown'[r] = shown[r]
  <2>1. CASE Show(s)
    <3>1. pc'[r] = pc[r]
      BY <2>1 DEF Show, Step, ShapeOK
    <3>2. shown' = shown \/ shown' = [shown EXCEPT ![s] = @ + 1]
      BY <2>1, ShowCases
    <3> QED BY <3>1, <3>2 DEF ShapeOK
  <2>2. CASE ~Show(s)
    BY <2>2
    DEF Copier, CopyToBuffer, ReadLength, Extend, CopyToCombined, ShortCopy, CopyPanics,
        EndOfStream, Step, ShapeOK
  <2> QED BY <2>1, <2>2
<1> QED BY <1>1 DEF Buffered, Added, Copied

\* What each step counts for.
LEMMA OwnCount ==
  ASSUME ShapeOK, NEW s \in Streams, Copier(s)
  PROVE  /\ Buffered(s)' = Buffered(s) + IF CopyToBuffer(s) THEN 1 ELSE 0
         /\ Added(s)' = Added(s) + IF Extend(s) THEN 1 ELSE 0
         /\ ~ShortCopy(s) => Copied(s)' = Copied(s) + IF CopyToCombined(s) THEN 1 ELSE 0
<1>1. shown[s] \in Nat
  BY Typed
<1>2. CASE Show(s)
  <2>1. pc[s] = "read" /\ ~CopyToBuffer(s) /\ ~Extend(s) /\ ~CopyToCombined(s)
    BY <1>2 DEF Show, CopyToBuffer, Extend, CopyToCombined, Step
  <2>2. CASE pc'[s] = "buffer" /\ shown'[s] = shown[s] + 1
    BY <1>1, <2>1, <2>2 DEF Buffered, Added, Copied, Less
  <2>3. CASE pc'[s] = "broken" /\ shown'[s] = shown[s]
    BY <1>1, <2>1, <2>3 DEF Buffered, Added, Copied, Less
  <2> QED BY <1>2, <2>2, <2>3, ShowCases DEF ShapeOK
<1>3. CASE CopyToBuffer(s)
  <2>1. /\ pc[s] = "buffer" /\ pc'[s] = "combine" /\ shown'[s] = shown[s]
        /\ ~Extend(s) /\ ~CopyToCombined(s)
    BY <1>3 DEF CopyToBuffer, Extend, CopyToCombined, Step, ShapeOK
  <2> QED BY <1>1, <1>3, <2>1 DEF Buffered, Added, Copied, Less
<1>4. CASE ReadLength(s)
  <2>1. /\ pc[s] = "combine" /\ pc'[s] = "extend" /\ shown'[s] = shown[s]
        /\ ~CopyToBuffer(s) /\ ~Extend(s) /\ ~CopyToCombined(s)
    BY <1>4 DEF ReadLength, CopyToBuffer, Extend, CopyToCombined, Step, ShapeOK
  <2> QED BY <1>1, <2>1 DEF Buffered, Added, Copied, Less
<1>5. CASE Extend(s)
  <2>1. /\ pc[s] = "extend" /\ pc'[s] = "copy" /\ shown'[s] = shown[s]
        /\ ~CopyToBuffer(s) /\ ~CopyToCombined(s)
    BY <1>5 DEF CopyToBuffer, Extend, CopyToCombined, Step, ShapeOK
  <2> QED BY <1>1, <1>5, <2>1 DEF Buffered, Added, Copied, Less
<1>6. CASE CopyToCombined(s)
  <2>1. /\ pc[s] = "copy" /\ pc'[s] = "read" /\ shown'[s] = shown[s]
        /\ ~CopyToBuffer(s) /\ ~Extend(s)
    BY <1>6 DEF CopyToBuffer, Extend, CopyToCombined, Step, ShapeOK
  <2> QED BY <1>1, <1>6, <2>1 DEF Buffered, Added, Copied, Less
<1>7. CASE EndOfStream(s)
  <2>1. /\ pc[s] = "read" /\ pc'[s] = "eof" /\ shown'[s] = shown[s]
        /\ ~CopyToBuffer(s) /\ ~Extend(s) /\ ~CopyToCombined(s)
    BY <1>7 DEF EndOfStream, CopyToBuffer, Extend, CopyToCombined, Step, ShapeOK
  <2> QED BY <1>1, <2>1 DEF Buffered, Added, Copied, Less
<1>8. CASE ShortCopy(s)
  <2>1. /\ pc[s] = "copy" /\ pc'[s] = "broken" /\ shown'[s] = shown[s]
        /\ ~CopyToBuffer(s) /\ ~Extend(s)
    BY <1>8 DEF ShortCopy, CopyToBuffer, Extend, Step, ShapeOK
  <2> QED BY <1>1, <1>8, <2>1 DEF Buffered, Added, Less
<1>9. CASE CopyPanics(s)
  <2>1. /\ pc[s] = "copy" /\ pc'[s] = "copy" /\ shown'[s] = shown[s]
        /\ ~CopyToBuffer(s) /\ ~Extend(s) /\ ~CopyToCombined(s)
    <3>1. ~(pos[s] <= len)
      BY <1>9, Typed DEF CopyPanics
    <3> QED BY <1>9, <3>1
        DEF CopyPanics, CopyToBuffer, Extend, CopyToCombined, Step, ShapeOK
  <2> QED BY <1>1, <2>1 DEF Buffered, Added, Copied, Less
<1> QED BY <1>2, <1>3, <1>4, <1>5, <1>6, <1>7, <1>8, <1>9 DEF Copier

LEMMA TotalCount ==
  ASSUME ShapeOK, FlowInv, NEW s \in Streams, Copier(s)
  PROVE  Total' = Total + IF Extend(s) THEN 1 ELSE 0
<1>1. Echoes' = Echoes /\ Echoes \in Nat
  BY DEF Echoes, Copier, Show, CopyToBuffer, ReadLength, Extend, CopyToCombined, ShortCopy,
      CopyPanics, EndOfStream
<1>2. Added("stdout") \in Nat /\ Added("stderr") \in Nat
  BY CountsNat, CommandOutputAssumption DEF Streams
<1>3. \A r \in Streams : Added(r)' = Added(r) + IF r = s /\ Extend(s) THEN 1 ELSE 0
  BY <1>2, OthersCount, OwnCount DEF Streams
<1> DEFINE a == Added("stdout")
           b == Added("stderr")
           x == IF "stdout" = s /\ Extend(s) THEN 1 ELSE 0
           y == IF "stderr" = s /\ Extend(s) THEN 1 ELSE 0
<1>4. a' = a + x /\ b' = b + y
  BY <1>3 DEF Streams
<1>5. x + y = IF Extend(s) THEN 1 ELSE 0
  BY DEF Streams
<1>6. x \in Nat /\ y \in Nat
  OBVIOUS
<1>7. Total = Echoes + a + b /\ Total' = Echoes' + a' + b'
  BY DEF Total
<1> HIDE DEF a, b, x, y
<1>8. Total' = Total + (x + y)
  BY <1>1, <1>2, <1>4, <1>6, <1>7 DEF a, b
<1> QED BY <1>5, <1>8

\* While the line of Run is all there is, nothing has been counted.
LEMMA StartCount ==
  ASSUME ShapeOK, FlowInv, Start
  PROVE  /\ \A s \in Streams :
              /\ Buffered(s) = 0 /\ Added(s) = 0 /\ Copied(s) = 0
              /\ Buffered(s)' = 0 /\ Added(s)' = 0 /\ Copied(s)' = 0
              /\ pc[s] = "read" /\ pc'[s] = "read" /\ shown[s] = 0
         /\ Total' = Echoes'
         /\ len' = Echoes' /\ Echoes' \in 0 .. 1
<1>1. \A s \in Streams : pc[s] = "read" /\ shown[s] = 0 /\ pc' = pc /\ shown' = shown
  BY DEF Start, FlowInv
<1>2. \A s \in Streams :
        /\ Buffered(s) = 0 /\ Added(s) = 0 /\ Copied(s) = 0
        /\ Buffered(s)' = 0 /\ Added(s)' = 0 /\ Copied(s)' = 0
  BY <1>1 DEF Buffered, Added, Copied, Less
<1>3. Echoes' \in 0 .. 1
  BY DEF Echoes
<1>4. Total' = Echoes'
  <2>1. Added("stdout")' = 0 /\ Added("stderr")' = 0
    BY <1>2 DEF Streams
  <2> QED BY <1>3, <2>1 DEF Total
<1>5. len' = Echoes'
  <2>1. main = "start" /\ ~echoed /\ len = 0
    BY DEF Start, FlowInv
  <2>2. CASE echoed' = TRUE /\ len' = 1
    BY <2>2 DEF Echoes
  <2>3. CASE UNCHANGED <<echoed, len>>
    BY <2>1, <2>3 DEF Echoes
  <2> QED BY <2>2, <2>3, StartCases
<1> QED BY <1>1, <1>2, <1>3, <1>4, <1>5

LEMMA LengthStep ==
  ASSUME ShapeOK, FlowInv, LengthInv, [Next]_vars
  PROVE  LengthInv'
<1>0. /\ Total \in Nat /\ Total \in 0 .. Capacity /\ Capacity \in Nat
      /\ len \in Nat /\ \A s \in Streams : pos[s] \in Nat
  BY Bounds, Typed, CommandOutputAssumption DEF Capacity
<1>1. CASE Start
  <2>1. \A s \in Streams : pc'[s] = "read" /\ pos'[s] = pos[s]
    BY <1>1, StartCount DEF Start
  <2> QED BY <1>0, <1>1, <2>1, StartCount DEF LengthInv
<1>2. ASSUME NEW s \in Streams, Copier(s)
      PROVE  LengthInv'
  <2>1. \A r \in Streams \ {s} : pc'[r] = pc[r]
    BY <1>2, OthersCount
  <2>2. CASE Extend(s)
    <3>1. Total' = Total + 1
      BY <1>2, <2>2, TotalCount
    <3>2. pc[s] = "extend" /\ pc'[s] = "copy" /\ len' = pos[s] /\ pos' = pos
      BY <2>2 DEF Extend, Step, ShapeOK
    <3>3. pos[s] \in 1 .. Total + 1
      BY <3>2 DEF LengthInv
    <3> QED BY <1>0, <2>1, <3>1, <3>2, <3>3 DEF LengthInv
  <2>3. CASE ReadLength(s)
    <3>1. Total' = Total
      <4>1. ~Extend(s)
        BY <2>3 DEF ReadLength, Extend, Step
      <4> QED BY <1>0, <1>2, <4>1, TotalCount
    <3>2. /\ pc[s] = "combine" /\ pc'[s] = "extend" /\ len' = len
          /\ pos' = [pos EXCEPT ![s] = len + 1]
      BY <2>3 DEF ReadLength, Step, ShapeOK
    <3>3. pos'[s] = len + 1 /\ \A r \in Streams \ {s} : pos'[r] = pos[r]
      BY <3>2 DEF ShapeOK
    <3>4. len + 1 \in 1 .. Total + 1
      BY <1>0 DEF LengthInv
    <3>5. len + 1 <= Capacity
      <4>1. Total < Capacity
        BY <3>2, Bounds
      <4> QED BY <1>0, <4>1 DEF LengthInv
    <3> QED BY <1>0, <2>1, <3>1, <3>2, <3>3, <3>4, <3>5 DEF LengthInv
  <2>4. CASE ~Extend(s) /\ ~ReadLength(s)
    <3>1. Total' = Total
      BY <1>0, <1>2, <2>4, TotalCount
    <3>2. /\ pos' = pos /\ len' = len
          /\ pc'[s] \notin {"extend", "copy"} \/ pc'[s] = pc[s]
      BY <1>2, <2>4, ShowCases
      DEF Copier, Show, CopyToBuffer, CopyToCombined, ShortCopy, CopyPanics, EndOfStream,
          Step, ShapeOK
    <3> QED BY <1>0, <2>1, <3>1, <3>2 DEF LengthInv
  <2> QED BY <2>2, <2>3, <2>4
<1>3. CASE UNCHANGED <<echoed, shown, len, pos, pc>>
  BY <1>3 DEF LengthInv, Total, Added, Echoes
<1> QED
  BY <1>1, <1>2, <1>3 DEF Next, CommandExits, Wait, CommandWrites, Terminated, vars

LEMMA BufferStep ==
  ASSUME ShapeOK, FlowInv, BufferInv, [Next]_vars
  PROVE  BufferInv'
<1>1. CASE Start
  <2>1. \A s \in Streams : Buffered(s) = 0 /\ Buffered(s)' = 0
    BY <1>1, StartCount
  <2>2. ~echoed /\ buf["stderr"] = <<>>
    BY <1>1 DEF Start, FlowInv
  <2>3. CASE UNCHANGED <<echoed, buf>>
    BY <2>1, <2>3 DEF BufferInv, Heard, Echo
  <2>4. CASE echoed' = TRUE /\ buf' = [buf EXCEPT !["stderr"] = <<Banner>>]
    <3>1. buf["stdout"] = <<>>
      BY <2>1, EmptyUpTo DEF BufferInv, Heard, Streams
    <3>2. /\ Heard("stdout")' = <<>> /\ Heard("stderr")' = <<Banner>>
          /\ buf'["stdout"] = <<>> /\ buf'["stderr"] = <<Banner>>
      BY <2>4, <3>1 DEF Heard, Echo, ShapeOK, Streams
    <3>3. <<Banner>> \in Seq(Items)
      BY DEF Items, Banner, Streams
    <3>4. <<Banner>> \o <<>> = <<Banner>> /\ <<>> \o <<>> = <<>>
      BY <3>3, ConcatEmptySeq, EmptySeq
    <3>5. UpTo("stdout", 1, 0) = <<>> /\ UpTo("stderr", 1, 0) = <<>>
      BY EmptyUpTo DEF Streams
    <3>6. Buffered("stdout")' = 0 /\ Buffered("stderr")' = 0
      BY <2>1 DEF Streams
    <3> QED BY <3>2, <3>4, <3>5, <3>6 DEF BufferInv, Streams
  <2> QED BY <1>1, <2>3, <2>4, StartCases
<1>2. ASSUME NEW s \in Streams, Copier(s)
      PROVE  BufferInv'
  <2>1. echoed' = echoed /\ \A r \in Streams : Heard(r)' = Heard(r)
    BY <1>2
    DEF Heard, Echo, Copier, Show, CopyToBuffer, ReadLength, Extend, CopyToCombined,
        ShortCopy, CopyPanics, EndOfStream
  <2>2. \A r \in Streams \ {s} : buf'[r] = buf[r] /\ Buffered(r)' = Buffered(r)
    <3>1. \A r \in Streams \ {s} : Buffered(r)' = Buffered(r)
      BY <1>2, OthersCount
    <3>2. \A r \in Streams \ {s} : buf'[r] = buf[r]
      BY <1>2
      DEF Copier, Show, CopyToBuffer, ReadLength, Extend, CopyToCombined, ShortCopy,
          CopyPanics, EndOfStream, ShapeOK
    <3> QED BY <3>1, <3>2
  <2>3. buf'[s] = Heard(s) \o UpTo(s, 1, Buffered(s)')
    <3>1. CASE CopyToBuffer(s)
      <4>1. pc[s] = "buffer" /\ buf'[s] = Append(buf[s], <<s, shown[s]>>)
        BY <3>1 DEF CopyToBuffer, Step, Chunk, ShapeOK
      <4>2. shown[s] \in Nat \ {0} /\ Buffered(s) = shown[s] - 1
        <5>1. shown[s] \in Nat
          BY Typed
        <5>2. shown[s] > 0
          BY <4>1 DEF FlowInv
        <5> QED BY <4>1, <5>1, <5>2 DEF Buffered, Less
      <4>3. Buffered(s)' = shown[s]
        BY <1>2, <3>1, <4>2, OwnCount
      <4>4. buf'[s] = Append(Heard(s) \o UpTo(s, 1, shown[s] - 1), <<s, shown[s]>>)
        BY <4>1, <4>2 DEF BufferInv
      <4> QED BY <4>2, <4>3, <4>4, HeardNext
    <3>2. CASE ~CopyToBuffer(s)
      <4>1. buf'[s] = buf[s]
        BY <1>2, <3>2
        DEF Copier, Show, ReadLength, Extend, CopyToCombined, ShortCopy, CopyPanics,
            EndOfStream
      <4>2. Buffered(s)' = Buffered(s)
        BY <1>2, <3>2, OwnCount, CountsNat
      <4> QED BY <4>1, <4>2 DEF BufferInv
    <3> QED BY <3>1, <3>2
  <2> QED BY <2>1, <2>2, <2>3 DEF BufferInv
<1>3. CASE UNCHANGED <<echoed, shown, buf, pc>>
  BY <1>3 DEF BufferInv, Buffered, Heard, Echo
<1> QED
  BY <1>1, <1>2, <1>3 DEF Next, CommandExits, Wait, CommandWrites, Terminated, vars

LEMMA AloneStep ==
  ASSUME ShapeOK, FlowInv, LengthInv, [Next]_vars,
         NEW r \in Streams, NEW o \in Streams \ {r},
         written[o] = 0 => AloneInv(r), written'[o] = 0
  PROVE  AloneInv(r)'
<1>1. CASE Start
  <2>1. /\ Added(r)' = 0 /\ Copied(r)' = 0 /\ pc'[r] = "read"
        /\ len' = Echoes' /\ Echoes' \in 0 .. 1
    BY <1>1, StartCount
  <2>2. echoed' => array'[1] = Banner
    <3>1. 1 \in 1 .. Capacity
      BY CommandOutputAssumption DEF Capacity
    <3>2. ~echoed
      BY <1>1 DEF Start, FlowInv
    <3> QED BY <1>1, <3>1, <3>2, StartCases DEF ShapeOK
  <2>3. len' = Echoes' + Added(r)'
    <3>1. Echoes' + 0 = Echoes'
      BY DEF Echoes
    <3> QED BY <2>1, <3>1, Zenon
  <2>4. \A j \in 1 .. Copied(r)' : array'[Echoes' + j] = <<r, j>>
    BY <2>1
  <2> QED BY <2>1, <2>2, <2>3, <2>4 DEF AloneInv
<1>2. CASE Copier(r)
  <2>0. ~ShortCopy(r) /\ ~CopyPanics(r)
    <3>1. ASSUME pc[r] = "copy"
          PROVE  pos[r] = len /\ len \in Nat
      BY <1>2, <3>1, Typed
      DEF AloneInv, Copier, Show, CopyToBuffer, ReadLength, Extend, CopyToCombined,
          ShortCopy, CopyPanics, EndOfStream
    <3> QED BY <3>1 DEF ShortCopy, CopyPanics, Step
  <2>1. /\ written' = written /\ echoed' = echoed /\ Echoes' = Echoes
        /\ AloneInv(r) /\ Echoes \in Nat
    BY <1>2
    DEF Echoes, Copier, Show, CopyToBuffer, ReadLength, Extend, CopyToCombined, ShortCopy,
        CopyPanics, EndOfStream
  <2>2. Added(r) \in Nat /\ Copied(r) \in Nat /\ len \in Nat /\ shown[r] \in Nat
    BY CountsNat, Typed, CommandOutputAssumption
  <2>3. CASE Extend(r)
    <3>1. /\ pc[r] = "extend" /\ pc'[r] = "copy" /\ len' = pos[r] /\ pos' = pos
          /\ array' = array /\ ~CopyToCombined(r)
      BY <2>3 DEF Extend, CopyToCombined, Step, ShapeOK
    <3>2. Added(r)' = Added(r) + 1 /\ Copied(r)' = Copied(r)
      BY <1>2, <2>0, <2>2, <2>3, <3>1, OwnCount
    <3> QED BY <2>1, <2>2, <3>1, <3>2 DEF AloneInv
  <2>4. CASE CopyToCombined(r)
    <3>1. /\ pc[r] = "copy" /\ pc'[r] = "read" /\ len' = len /\ ~Extend(r)
          /\ array' = [array EXCEPT ![pos[r]] = <<r, shown[r]>>]
      BY <2>4 DEF Extend, CopyToCombined, Step, Chunk, ShapeOK
    <3>2. Added(r) = shown[r] /\ Copied(r) = shown[r] - 1 /\ shown[r] > 0
      BY <2>2, <3>1 DEF Added, Copied, Less, FlowInv
    <3>3. Added(r)' = shown[r] /\ Copied(r)' = shown[r]
      BY <1>2, <2>0, <2>2, <2>4, <3>1, <3>2, OwnCount
    <3>4. pos[r] = Echoes + shown[r] /\ pos[r] \in 1 .. Capacity
      BY <2>1, <3>1, <3>2, Bounds DEF AloneInv
    <3>5. array'[Echoes + shown[r]] = <<r, shown[r]>>
      BY <3>1, <3>4 DEF ShapeOK
    <3>6. \A j \in 1 .. Capacity : j # pos[r] => array'[j] = array[j]
      BY <3>1 DEF ShapeOK
    <3>7. \A j \in 1 .. shown[r] - 1 : array'[Echoes + j] = <<r, j>>
      <4>1. \A j \in 1 .. shown[r] - 1 : array[Echoes + j] = <<r, j>>
        BY <2>1, <3>2 DEF AloneInv
      <4>2. \A j \in 1 .. shown[r] - 1 :
              Echoes + j \in 1 .. Capacity /\ Echoes + j # pos[r]
        BY <2>1, <2>2, <3>4, CommandOutputAssumption DEF Capacity
      <4> QED BY <3>6, <4>1, <4>2
    <3>8. \A j \in 1 .. shown[r] : array'[Echoes + j] = <<r, j>>
      <4>1. \A j \in 1 .. shown[r] : j = shown[r] \/ j \in 1 .. shown[r] - 1
        BY <2>2
      <4> QED BY <3>5, <3>7, <4>1
    <3>9. echoed' => array'[1] = Banner
      <4>1. echoed => pos[r] # 1
        BY <2>2, <3>2, <3>4 DEF Echoes
      <4>2. 1 \in 1 .. Capacity
        BY CommandOutputAssumption DEF Capacity
      <4> QED BY <2>1, <3>6, <4>1, <4>2 DEF AloneInv
    <3> QED BY <2>1, <3>1, <3>2, <3>3, <3>8, <3>9 DEF AloneInv
  <2>5. CASE ~Extend(r) /\ ~CopyToCombined(r)
    <3>1. Added(r)' = Added(r) /\ Copied(r)' = Copied(r)
      BY <1>2, <2>0, <2>2, <2>5, OwnCount
    <3>2. /\ array' = array /\ len' = len /\ pc'[r] # "copy"
          /\ pc'[r] = "extend" => pos'[r] = len + 1
          /\ pc'[r] = "broken" => seen'[r] # "whole"
      BY <1>2, <2>0, <2>5, ShowCases
      DEF Copier, Show, CopyToBuffer, ReadLength, EndOfStream, Step, ShapeOK
    <3> QED BY <2>1, <3>1, <3>2 DEF AloneInv
  <2> QED BY <2>3, <2>4, <2>5
<1>3. CASE Copier(o)
  <2>1. written' = written
    BY <1>3
    DEF Copier, Show, CopyToBuffer, ReadLength, Extend, CopyToCombined, ShortCopy,
        CopyPanics, EndOfStream
  <2>2. shown[o] = 0 /\ pc[o] \notin {"buffer", "combine", "extend", "copy"}
    <3>1. written[o] = 0 /\ shown[o] <= written[o] /\ shown[o] \in Nat
      BY <2>1, Typed DEF FlowInv
    <3>2. shown[o] = 0
      BY <3>1
    <3>3. pc[o] \in {"buffer", "combine", "extend", "copy"} => shown[o] > 0
      BY DEF FlowInv
    <3> QED BY <3>2, <3>3
  <2>3. EndOfStream(o)
    BY <1>3, <2>1, <2>2
    DEF Copier, Show, CopyToBuffer, ReadLength, Extend, CopyToCombined, ShortCopy,
        CopyPanics,
        Step
  <2>4. AloneInv(r) /\ UNCHANGED <<seen, echoed, array, len, pos>>
    BY <2>1, <2>3 DEF EndOfStream
  <2>5. Added(r)' = Added(r) /\ Copied(r)' = Copied(r) /\ pc'[r] = pc[r]
    BY <1>3, OthersCount
  <2> QED BY <2>4, <2>5 DEF AloneInv, Echoes
<1>4. ASSUME UNCHANGED <<shown, seen, echoed, array, len, pos, pc>>, AloneInv(r)
      PROVE  AloneInv(r)'
  BY <1>4 DEF AloneInv, Added, Copied, Echoes
<1>5. ASSUME NEW s \in Streams, CommandWrites(s)
      PROVE  AloneInv(r)'
  <2>1. written[o] = 0
    BY <1>5, Typed DEF CommandWrites, ShapeOK
  <2> QED BY <1>4, <1>5, <2>1 DEF CommandWrites
<1>6. CASE CommandExits \/ Wait \/ UNCHANGED vars
  BY <1>4, <1>6 DEF CommandExits, Wait, vars
<1>7. \A s \in Streams : Copier(s) => s = r \/ s = o
  BY DEF Streams
<1> QED
  BY <1>1, <1>2, <1>3, <1>5, <1>6, <1>7 DEF Next, Terminated

-----------------------------------------------------------------------------
(* The invariant *)

LEMMA Initial == Init => IInv
<1> SUFFICES ASSUME Init
             PROVE  IInv
  OBVIOUS
<1>1. ShapeOK
  <2>1. 0 \in 0 .. Chunks
    BY CommandOutputAssumption
  <2>2. written \in [Streams -> 0 .. Chunks] /\ shown \in [Streams -> 0 .. Chunks]
    BY <2>1 DEF Init
  <2>3. buf \in [Streams -> Seq(ChunkType)]
    BY DEF Init
  <2>4. array \in [1 .. Capacity -> ChunkType \cup {NoChunk}]
    BY DEF Init
  <2> QED BY <2>2, <2>3, <2>4 DEF Init, ShapeOK
<1>2. /\ Echoes = 0 /\ ~echoed
      /\ \A s \in Streams : Buffered(s) = 0 /\ Added(s) = 0 /\ Copied(s) = 0
      /\ \A s \in Streams : pc[s] = "read" /\ pos[s] = 0 /\ shown[s] = 0 /\ buf[s] = <<>>
      /\ len = 0 /\ main = "start"
  BY DEF Init, Echoes, Buffered, Added, Copied, Less
<1>3. FlowInv
  BY <1>2, CommandOutputAssumption DEF Init, FlowInv, Streams
<1>4. LengthInv
  <2>1. Total = 0
    BY <1>2 DEF Total, Streams
  <2>2. Capacity \in Nat
    BY CommandOutputAssumption DEF Capacity
  <2> QED BY <1>2, <2>1, <2>2 DEF LengthInv
<1>5. BufferInv
  BY <1>2, EmptyUpTo DEF BufferInv, Heard, Echo
<1>6. CombinedInv
  BY <1>2 DEF CombinedInv, AloneInv, Streams
<1> QED BY <1>1, <1>3, <1>4, <1>5, <1>6 DEF IInv

LEMMA Inductive == IInv /\ [Next]_vars => IInv'
<1> SUFFICES ASSUME IInv, [Next]_vars
             PROVE  IInv'
  OBVIOUS
<1>1. CombinedInv'
  <2>1. "stdout" \in Streams \ {"stderr"} /\ "stderr" \in Streams \ {"stdout"}
    BY DEF Streams
  <2>2. written'["stdout"] = 0 => AloneInv("stderr")'
    BY <2>1, AloneStep DEF IInv, CombinedInv
  <2>3. written'["stderr"] = 0 => AloneInv("stdout")'
    BY <2>1, AloneStep DEF IInv, CombinedInv
  <2> QED BY <2>2, <2>3 DEF CombinedInv
<1> QED BY <1>1, ShapeStep, FlowStep, LengthStep, BufferStep DEF IInv

\* What is shown, buffered and combined of each stream agrees, whatever order
\* the two goroutines run in (Executor.Run).
THEOREM Invariance == Spec => []IInv
BY Initial, Inductive, PTL DEF Spec

-----------------------------------------------------------------------------
(* The properties *)

\* Types; combinedOutput never has more places than there are chunks and the
\* line of Run, wherever a stale length puts them (Executor.Run).
THEOREM TypeOKHolds == Spec => []TypeOK
<1>1. IInv => TypeOK
  <2> SUFFICES ASSUME IInv
               PROVE  TypeOK
    OBVIOUS
  <2>1. len \in 0 .. Capacity /\ \A s \in Streams : pos[s] \in 0 .. Capacity
    BY Bounds, Typed DEF IInv
  <2> QED BY <2>1 DEF IInv, ShapeOK, TypeOK
<1> QED BY <1>1, Invariance, PTL

\* Every stream is in its buffer as far as it has been shown once Run is over.
LEMMA AllBuffered ==
  ASSUME IInv, main \in {"done", "not started"}, NEW s \in Streams
  PROVE  /\ buf[s] = Heard(s) \o UpTo(s, 1, shown[s])
         /\ Added(s) = shown[s] /\ Copied(s) = shown[s]
<1>1. pc[s] \in {"read", "eof", "broken"}
  BY DEF IInv, FlowInv
<1>2. Buffered(s) = shown[s] /\ Added(s) = shown[s] /\ Copied(s) = shown[s]
  BY <1>1 DEF Buffered, Added, Copied, Less
<1> QED BY <1>2 DEF IInv, BufferInv

\* What a script gets of a stream is the chunks that the terminal has shown
\* whole, and one that it has shown in part is its last, for any number and
\* length of chunks and any terminal (Writer.Write, io.MultiWriter).
THEOREM ShownIsKeptHolds == Spec => []ShownIsKept
<1>1. IInv => ShownIsKept
  BY AllBuffered DEF ShownIsKept, IInv, FlowInv
<1> QED BY <1>1, Invariance, PTL

\* Nothing is missing of a stream that was copied to its end; the copying ends
\* early only if the terminal fails or both streams are written to
\* (Executor.Run).
THEOREM StreamsCompleteHolds == Spec => []StreamsComplete
<1>1. IInv => StreamsComplete
  <2> SUFFICES ASSUME IInv, main = "done", NEW s \in Streams
               PROVE  /\ pc[s] # "broken" => buf[s] = Heard(s) \o UpTo(s, 1, written[s])
                      /\ pc[s] = "broken" =>
                           seen[s] # "whole" \/ \A o \in Streams : written[o] > 0
    BY DEF StreamsComplete
  <2>1. pc[s] # "broken" => buf[s] = Heard(s) \o UpTo(s, 1, written[s])
    BY AllBuffered DEF IInv, FlowInv
  <2>2. ASSUME pc[s] = "broken", seen[s] = "whole", NEW o \in Streams
        PROVE  written[o] > 0
    <3>1. ~AloneInv(s)
      BY <2>2 DEF AloneInv
    <3>2. CASE o # s
      <4>1. written[o] # 0
        BY <3>1, <3>2 DEF IInv, CombinedInv, Streams
      <4> QED BY <4>1, Typed DEF IInv
    <3>3. CASE o = s
      BY <2>2, <3>3 DEF IInv, FlowInv
    <3> QED BY <3>2, <3>3
  <2> QED BY <2>1, <2>2
<1> QED BY <1>1, Invariance, PTL

\* combinedOutput of a command that has written to s only.
LEMMA CombinedOfOne ==
  ASSUME IInv, main = "done", NEW s \in Streams, AloneInv(s)
  PROVE  Combined = Echo \o UpTo(s, 1, shown[s])
<1> DEFINE n == shown[s]
           u == UpTo(s, 1, n)
           S == Items \cup ChunkType \cup {NoChunk}
<1>1. n \in Nat /\ len \in Nat /\ Echoes \in 0 .. 1
  BY Typed, CountsNat DEF IInv
<1>2. len = Echoes + n /\ \A j \in 1 .. n : array[Echoes + j] = <<s, j>>
  BY AllBuffered DEF AloneInv
<1>3. /\ Echo \in Seq(S) /\ u \in Seq(S)
      /\ Len(Echo) = Echoes /\ Len(u) = n
      /\ \A j \in 1 .. n : u[j] = <<s, j>>
  <2>1. Echo \in Seq(Items) /\ u \in Seq(Items)
    BY <1>1, HeardSeq, UpToSeq
  <2>2. Echo \in Seq(S) /\ u \in Seq(S)
    BY <2>1, SeqMonotonic
  <2> QED BY <1>1, <2>2, HeardSeq, UpToSeq
<1>4. \A j \in 1 .. len : array[j] \in S
  <2>1. len <= Capacity /\ array \in [1 .. Capacity -> ChunkType \cup {NoChunk}]
    BY Bounds DEF IInv, ShapeOK
  <2>2. Capacity \in Nat
    BY CommandOutputAssumption DEF Capacity
  <2> QED BY <1>1, <2>1, <2>2
<1> HIDE DEF n, u, S
<1>5. /\ Combined \in Seq(S) /\ Len(Combined) = len
      /\ \A j \in 1 .. len : Combined[j] = array[j]
  BY <1>1, <1>4, SubSeqProperties DEF Combined
<1>6. /\ Echo \o u \in Seq(S) /\ Len(Echo \o u) = Echoes + n
      /\ \A j \in 1 .. Echoes + n :
           (Echo \o u)[j] = IF j <= Echoes THEN Echo[j] ELSE u[j - Echoes]
  BY <1>3, ConcatProperties
<1>7. ASSUME NEW j \in 1 .. Echoes + n
      PROVE  Combined[j] = (Echo \o u)[j]
  <2>1. Combined[j] = array[j]
    BY <1>2, <1>5
  <2>2. CASE j <= Echoes
    <3>1. j = 1 /\ echoed
      BY <1>1, <2>2 DEF Echoes
    <3>2. array[1] = Banner /\ Echo[1] = Banner
      BY <3>1 DEF AloneInv, Echo
    <3> QED BY <1>6, <2>1, <2>2, <3>1, <3>2
  <2>3. CASE ~(j <= Echoes)
    <3>1. j - Echoes \in 1 .. n /\ Echoes + (j - Echoes) = j
      BY <1>1, <2>3
    <3>2. array[j] = <<s, j - Echoes>> /\ u[j - Echoes] = <<s, j - Echoes>>
      <4>1. array[Echoes + (j - Echoes)] = <<s, j - Echoes>>
        BY <1>2, <3>1, Zenon
      <4>2. u[j - Echoes] = <<s, j - Echoes>>
        BY <1>3, <3>1, Zenon
      <4> QED BY <3>1, <4>1, <4>2
    <3> QED BY <1>6, <2>1, <2>3, <3>2
  <2> QED BY <2>2, <2>3
<1>8. Combined = Echo \o u
  BY <1>2, <1>5, <1>6, <1>7, SeqEqual
<1> QED BY <1>8 DEF u, n

\* The race needs both streams (Executor.Run).
THEOREM OneStreamCombinedHolds == Spec => []OneStreamCombined
<1>1. IInv => OneStreamCombined
  BY CombinedOfOne DEF OneStreamCombined, IInv, CombinedInv, Streams
<1> QED BY <1>1, Invariance, PTL
=============================================================================
