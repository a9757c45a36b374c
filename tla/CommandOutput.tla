---------------------------- MODULE CommandOutput ----------------------------
(***************************************************************************)
(* Executor.Run: what becomes of the output of a command.  os/exec copies  *)
(* its standard output and its standard error in a goroutine each; both    *)
(* are an io.MultiWriter that writes a chunk to the terminal, with a       *)
(* prefix (Writer), then to a buffer of the stream and then to             *)
(* combinedOutput, a bytes.Buffer the two share without a lock.  It stops  *)
(* at the first writer that fails or writes less than the chunk.           *)
(*                                                                         *)
(* A chunk is one write and takes one place of a buffer.  Buffer.Write     *)
(* reads the length, extends the slice, and copies to its end, where there *)
(* may be no room any more: the other goroutine may have cut the slice.    *)
(* Left out are the growing of the slice, by which a chunk copied to the   *)
(* old array is lost, and the reading of a slice header half written.      *)
(***************************************************************************)
EXTENDS Integers, Sequences

CONSTANTS
  Chunks,   \* how many chunks the command writes, at most, to a stream
  Bytes,    \* the length of a chunk, ...
  Prefix    \* ... and of what Writer adds to it

ASSUME CommandOutputAssumption ==
  /\ Chunks \in Nat \ {0}
  /\ Bytes \in Nat \ {0}
  /\ Prefix \in Nat \ {0}

Streams == {"stdout", "stderr"}

\* The line "+ sh -c ..." that Run writes to cmd.Stderr is chunk 0 of stderr.
ChunkType == Streams \X (0 .. Chunks)
Banner    == <<"stderr", 0>>
Capacity  == 2 * Chunks + 1
NoChunk   == <<>>

VARIABLES
  written,  \* what the command has written to each stream
  shown,    \* how many chunks of it the terminal has shown whole, ...
  seen,     \* ... and what it took of the last one
  echoed,   \* if it has shown the line of Run
  buf,      \* bufStdout and bufStderr
  array,    \* the array behind combinedOutput ...
  len,      \* ... and its length
  pos,      \* where each goroutine is about to copy its chunk
  pc,       \* where each goroutine is
  main      \* where Run is

vars == <<written, shown, seen, echoed, buf, array, len, pos, pc, main>>

TypeOK ==
  /\ written \in [Streams -> 0 .. Chunks]
  /\ shown \in [Streams -> 0 .. Chunks]
  /\ seen \in [Streams -> {"whole", "part", "nothing"}]
  /\ echoed \in BOOLEAN
  /\ buf \in [Streams -> Seq(ChunkType)]
  /\ array \in [1 .. Capacity -> ChunkType \cup {NoChunk}]
  /\ len \in 0 .. Capacity
  /\ pos \in [Streams -> 0 .. Capacity]
  /\ pc \in [Streams -> {"read", "buffer", "combine", "extend", "copy", "eof", "broken"}]
  /\ main \in {"start", "running", "exited", "done", "dry", "not started", "panicked"}

Init ==
  /\ written = [s \in Streams |-> 0]
  /\ shown = [s \in Streams |-> 0]
  /\ seen = [s \in Streams |-> "whole"]
  /\ echoed = FALSE
  /\ buf = [s \in Streams |-> <<>>]
  /\ array = [i \in 1 .. Capacity |-> NoChunk]
  /\ len = 0
  /\ pos = [s \in Streams |-> 0]
  /\ pc = [s \in Streams |-> "read"]
  /\ main = "start"

-----------------------------------------------------------------------------
(* Writer.Write, to the terminal *)

\* The count is that of the bytes the terminal took.
CountBug(n) == n

\* Of the n bytes the terminal took, those of the chunk.
Count(n) == IF n - Prefix < 0 THEN 0 ELSE n - Prefix

\* What MultiWriter makes of it: the terminal takes everything or fails.
Accepted(n) == n = Bytes + Prefix /\ Count(n) = Bytes

\* What the user sees of it.
Taken(n) ==
  CASE n = Bytes + Prefix -> "whole"
    [] n = 0              -> "nothing"
    [] OTHER              -> "part"

-----------------------------------------------------------------------------
(* Executor.Run and the command *)

\* The line goes to combinedOutput a second time.
StartBug ==
  /\ main = "start"
  /\ echoed' = TRUE
  /\ buf' = [buf EXCEPT !["stderr"] = <<Banner>>]
  /\ array' = [array EXCEPT ![1] = Banner, ![2] = Banner]
  /\ len' = 2
  /\ main' \in {"running", "dry", "not started"}
  /\ UNCHANGED <<written, shown, seen, pos, pc>>

\* Run echoes the command (no caller sets Quiet), whatever the terminal does,
\* and starts it, which may fail; ...
Start ==
  /\ main = "start"
  /\ \E n \in 0 .. Bytes + Prefix :
       IF Accepted(n)
       THEN /\ echoed' = TRUE
            /\ buf' = [buf EXCEPT !["stderr"] = <<Banner>>]
            /\ array' = [array EXCEPT ![1] = Banner]
            /\ len' = 1
       ELSE UNCHANGED <<echoed, buf, array, len>>
  /\ main' \in {"running", "dry", "not started"}
  /\ UNCHANGED <<written, shown, seen, pos, pc>>

\* ... the command writes, to a stream that is read, ...
CommandWrites(s) ==
  /\ main = "running"
  /\ pc[s] # "broken"
  /\ written[s] < Chunks
  /\ written' = [written EXCEPT ![s] = @ + 1]
  /\ UNCHANGED <<shown, seen, echoed, buf, array, len, pos, pc, main>>

CommandExits ==
  /\ main = "running"
  /\ main' = "exited"
  /\ UNCHANGED <<written, shown, seen, echoed, buf, array, len, pos, pc>>

WaitBug ==
  /\ main = "exited"
  /\ main' = "done"
  /\ UNCHANGED <<written, shown, seen, echoed, buf, array, len, pos, pc>>

\* ... and Wait returns when both goroutines are over.
Wait ==
  /\ main = "exited"
  /\ \A s \in Streams : pc[s] \in {"eof", "broken"}
  /\ main' = "done"
  /\ UNCHANGED <<written, shown, seen, echoed, buf, array, len, pos, pc>>

-----------------------------------------------------------------------------
(* The goroutines that copy *)

Step(s, here, there) ==
  /\ main \in {"running", "exited"}
  /\ pc[s] = here
  /\ pc' = [pc EXCEPT ![s] = there]

\* The chunk it copies.
Chunk(s) == <<s, shown[s]>>

Show(s) ==
  /\ shown[s] < written[s]
  /\ \E n \in 0 .. Bytes + Prefix :
       /\ Step(s, "read", IF Accepted(n) THEN "buffer" ELSE "broken")
       /\ shown' = IF n = Bytes + Prefix THEN [shown EXCEPT ![s] = @ + 1] ELSE shown
       /\ seen' = [seen EXCEPT ![s] = Taken(n)]
  /\ UNCHANGED <<written, echoed, buf, array, len, pos, main>>

CopyToBuffer(s) ==
  /\ Step(s, "buffer", "combine")
  /\ buf' = [buf EXCEPT ![s] = Append(@, Chunk(s))]
  /\ UNCHANGED <<written, shown, seen, echoed, array, len, pos, main>>

\* combinedOutput.Write: m is the length, ...
ReadLength(s) ==
  /\ Step(s, "combine", "extend")
  /\ pos' = [pos EXCEPT ![s] = len + 1]
  /\ UNCHANGED <<written, shown, seen, echoed, buf, array, len, main>>

\* ... the slice is extended to m + 1, and the chunk copied to its end.
Extend(s) ==
  /\ Step(s, "extend", "copy")
  /\ len' = pos[s]
  /\ UNCHANGED <<written, shown, seen, echoed, buf, array, pos, main>>

CopyToCombined(s) ==
  /\ pos[s] <= len
  /\ Step(s, "copy", "read")
  /\ array' = [array EXCEPT ![pos[s]] = Chunk(s)]
  /\ UNCHANGED <<written, shown, seen, echoed, buf, len, pos, main>>

\* The slice has been cut to the length m by the other goroutine: nothing is
\* copied, and for MultiWriter, and the goroutine, that is a short write.
ShortCopy(s) ==
  /\ pos[s] = len + 1
  /\ Step(s, "copy", "broken")
  /\ UNCHANGED <<written, shown, seen, echoed, buf, array, len, pos, main>>

\* It has been cut below m: slicing it from m panics, and buildflow ends.
CopyPanics(s) ==
  /\ pos[s] > len + 1
  /\ Step(s, "copy", "copy")
  /\ main' = "panicked"
  /\ UNCHANGED <<written, shown, seen, echoed, buf, array, len, pos>>

EndOfStream(s) ==
  /\ Step(s, "read", "eof")
  /\ main = "exited"
  /\ shown[s] = written[s]
  /\ UNCHANGED <<written, shown, seen, echoed, buf, array, len, pos, main>>

Copier(s) ==
  \/ Show(s)
  \/ CopyToBuffer(s)
  \/ ReadLength(s)
  \/ Extend(s)
  \/ CopyToCombined(s)
  \/ ShortCopy(s)
  \/ CopyPanics(s)
  \/ EndOfStream(s)

Terminated == main \in {"done", "dry", "not started", "panicked"} /\ UNCHANGED vars

Next ==
  \/ Start
  \/ CommandExits
  \/ Wait
  \/ \E s \in Streams : CommandWrites(s) \/ Copier(s)
  \/ Terminated

Spec == Init /\ [][Next]_vars

-----------------------------------------------------------------------------
(* Properties *)

UpTo(s, first, last) == [i \in 1 .. last - first + 1 |-> <<s, first + i - 1>>]

\* What Run itself has written to standard error.
Echo == IF echoed THEN <<Banner>> ELSE <<>>

Heard(s) == IF s = "stderr" THEN Echo ELSE <<>>

\* What scripts get of a stream when Run is over is the chunks that the terminal
\* has shown whole, in their order.  A chunk that it has shown in part is not
\* among them, and it is the last thing the user sees of the stream
\* (Writer.Write, io.MultiWriter).
ShownIsKept ==
  main \in {"done", "not started"} =>
    \A s \in Streams :
      /\ buf[s] = Heard(s) \o UpTo(s, 1, shown[s])
      /\ seen[s] = "part" => pc[s] = "broken"

\* When Run reads the buffers, nothing is missing of a stream, unless the copying
\* of it has ended early, which happens only if the terminal fails, or if the
\* command has written to both streams, which may cut one short in
\* combinedOutput (Executor.Run).
StreamsComplete ==
  main = "done" =>
    \A s \in Streams :
      /\ pc[s] # "broken" => buf[s] = Heard(s) \o UpTo(s, 1, written[s])
      /\ pc[s] = "broken" => seen[s] # "whole" \/ \A o \in Streams : written[o] > 0

Combined == SubSeq(array, 1, len)

\* The race needs both streams: of a command that writes to one of them only,
\* combinedOutput is the line of Run and then what was shown of that stream.
OneStreamCombined ==
  main = "done" =>
    /\ written["stdout"] = 0 =>
         Combined = Echo \o UpTo("stderr", 1, shown["stderr"])
    /\ written["stderr"] = 0 =>
         Combined = Echo \o UpTo("stdout", 1, shown["stdout"])

-----------------------------------------------------------------------------
(* What the documentation says and the code does not do *)

\* README: "CombinedOutput: ... command output (Stdout + Stderr)".
CombinedComplete ==
  main = "done" =>
    \A s \in Streams, n \in 1 .. Chunks :
      n <= shown[s] => \E j \in 1 .. len : Combined[j] = <<s, n>>

\* README: "Stderr: ... command's standard error output".
StderrIsTheCommands ==
  main = "done" => buf["stderr"] = UpTo("stderr", 1, shown["stderr"])

\* README: "Stdout: ... command's standard output".  The terminal has shown all.
StdoutIsTheCommands ==
  main = "done" /\ seen["stdout"] = "whole" =>
    buf["stdout"] = UpTo("stdout", 1, written["stdout"])

\* Run returns, with a result or an error.
NoPanic == main # "panicked"
=============================================================================
