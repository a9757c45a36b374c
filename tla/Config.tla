------------------------------- MODULE Config -------------------------------
(***************************************************************************)
(* pkg/config: what a configuration file may say of a build, and what the  *)
(* steps between the file and the first phase make of it.                  *)
(*                                                                         *)
(* A raw phase or task is what the file says.  A decoded one keeps that as *)
(* src, and has fields of its own for what later steps assign.             *)
(***************************************************************************)
EXTENDS Integers, Sequences, SequencesExt

CONSTANTS
  MaxItems,  \* how many items a task has at most
  Names      \* what the file may call a phase, a file, a shell or an owner

\* The empty string of Go: a field that is not set.
Unset == ""

ASSUME ConfigAssumption ==
  /\ MaxItems \in Nat \ {0}
  /\ Unset \in Names

-----------------------------------------------------------------------------
(* Bool: a condition that is a constant, a script, or not set *)

RawBools == {"absent", "null", "true", "false", "empty", "script"}

\* Where the script of a Bool comes from; none is the empty script.
Programs == {Unset, "user", "file", "default"}

Bool == [prog : Programs, initialized : BOOLEAN, fixed : BOOLEAN, value : BOOLEAN]

ZeroBool == [prog |-> Unset, initialized |-> FALSE, fixed |-> FALSE, value |-> FALSE]

\* Bool.UnmarshalYAML, which is not called for a key that is absent.
UnmarshalBool(raw) ==
  CASE raw = "absent" -> ZeroBool
    [] raw = "null"   -> [ZeroBool EXCEPT !.fixed = TRUE]
    [] raw \in {"true", "false"} ->
         [ZeroBool EXCEPT !.initialized = TRUE, !.fixed = TRUE, !.value = raw = "true"]
    [] raw = "empty"  -> [ZeroBool EXCEPT !.initialized = TRUE]
    [] raw = "script" -> [ZeroBool EXCEPT !.initialized = TRUE, !.prog = "user"]

\* The default is taken for a value of the user's.
SetDefaultBoolBug(b, v) ==
  IF b.initialized THEN b
  ELSE [b EXCEPT !.initialized = TRUE, !.fixed = TRUE, !.value = v]

SetDefaultBool(b, v) ==
  IF b.initialized THEN b ELSE [b EXCEPT !.fixed = TRUE, !.value = v]

SetBoolProgram(b, prog) ==
  [b EXCEPT !.prog = prog, !.fixed = FALSE, !.initialized = TRUE]

\* setDefault, for the two conditions "fail".
SetDefaultProgram(b) ==
  IF b.initialized THEN b ELSE SetBoolProgram(b, "default")

\* Bool.Match: a constant, or the answer of a script; the empty one says true.
Means(b) ==
  IF b.fixed THEN IF b.value THEN "true" ELSE "false"
  ELSE IF b.prog = Unset THEN "true"
  ELSE b.prog

-----------------------------------------------------------------------------
(* Tasks *)

TaskTypes == {"command", "read_file", "write_file", "http"}

RawItems == {"absent", "list", "nolist", "map", "nomap", "scalar", "script"}

\* What a file may say of a task; has is what it is to do.
RawTask ==
  [import : Names, unknown : BOOLEAN, has : SUBSET TaskTypes, commandFile : Names,
   shell : Names, opts : Names, when : RawBools, whenFile : Names, file : Names,
   items : RawItems]

\* A decoded task before anything is assigned to it.
DecodeTask(raw) ==
  [src     |-> raw,
   when    |-> UnmarshalBool(raw.when),
   type    |-> Unset,
   shell   |-> raw.shell,
   opts    |-> raw.opts,
   command |-> IF "command" \in raw.has THEN "inline" ELSE Unset]

IsCommand(t) == t.command # Unset \/ t.src.commandFile # Unset

\* Only the text of the command is looked at.
SetShellBug(t) ==
  IF t.command # Unset /\ t.shell = Unset
  THEN [t EXCEPT !.shell = "/bin/sh", !.opts = IF @ = Unset THEN "-c" ELSE @]
  ELSE t

\* Command.SetDefault, of a task that has a command.
SetShell(t) ==
  IF IsCommand(t) /\ t.shell = Unset
  THEN [t EXCEPT !.shell = "/bin/sh", !.opts = IF @ = Unset THEN "-c" ELSE @]
  ELSE t

\* setDefault, for one task.
DefaultTask(t) == [SetShell(t) EXCEPT !.when = SetDefaultBool(@, TRUE)]

\* Task.SetType; no type is an error.
TypeOf(t) ==
  IF IsCommand(t) THEN "command"
  ELSE IF "read_file" \in t.src.has THEN "read_file"
  ELSE IF "write_file" \in t.src.has THEN "write_file"
  ELSE IF "http" \in t.src.has THEN "http"
  ELSE Unset

SetType(t) == [t EXCEPT !.type = TypeOf(t)]

-----------------------------------------------------------------------------
(* Phases *)

RawPhase ==
  [name : Names, import : Names, skip : RawBools, exit : RawBools, fail : RawBools,
   tasks : Seq(RawTask)]

MapSeq(Op(_), seq) == [k \in DOMAIN seq |-> Op(seq[k])]

DecodePhase(raw) ==
  [src   |-> raw,
   skip  |-> UnmarshalBool(raw.skip),
   exit  |-> UnmarshalBool(raw.exit),
   fail  |-> UnmarshalBool(raw.fail),
   tasks |-> MapSeq(DecodeTask, raw.tasks)]

\* setDefault, for one phase.
DefaultPhase(p) ==
  [p EXCEPT !.skip  = SetDefaultBool(@, FALSE),
            !.exit  = SetDefaultBool(@, FALSE),
            !.fail  = SetDefaultProgram(SetDefaultBool(@, FALSE)),
            !.tasks = MapSeq(DefaultTask, @)]

\* Set refuses a name that is there already, the empty one included, and a
\* task without a type.
Acceptable(phases) ==
  /\ \A k, l \in DOMAIN phases : phases[k].src.name = phases[l].src.name => k = l
  /\ \A k \in DOMAIN phases : \A m \in DOMAIN phases[k].tasks :
       TypeOf(phases[k].tasks[m]) # Unset

SetPhase(p) == [p EXCEPT !.tasks = MapSeq(SetType, @)]

-----------------------------------------------------------------------------
(* Items: the keys of the tasks a task of the configuration stands for *)

\* What a key is for a task that has no items.
NoKey == -1

\* What expandItems is given: a list or a map of so many elements, "nil" for no
\* items at all, or an error (of the script, or for a value of another kind).
ItemValues(raw) ==
  CASE raw = "absent" -> {<<"nil", 0>>}
    [] raw = "list"   -> {"list"} \X (1 .. MaxItems)
    [] raw = "nolist" -> {<<"list", 0>>}
    [] raw = "map"    -> {"map"} \X (1 .. MaxItems)
    [] raw = "nomap"  -> {<<"map", 0>>}
    [] raw = "scalar" -> {<<"error", 0>>}
    [] raw = "script" -> {<<"nil", 0>>, <<"error", 0>>}
                           \cup ({"list", "map"} \X (0 .. MaxItems))

Keys(n) == 0 .. n - 1

ExpandSlice(n) == [k \in 1 .. n |-> k - 1]

\* The list is made with the size of the map and then appended to.
ExpandMapBug(n) ==
  {[k \in 1 .. n |-> NoKey] \o s : s \in SetToSeqs(Keys(n))}

\* reflect's MapKeys has no order.
ExpandMap(n) == SetToSeqs(Keys(n))

\* A list of tasks, or an error.
Got(list) == [ok |-> TRUE, list |-> list]
Failed    == [ok |-> FALSE, list |-> <<>>]

\* Expand: the keys of the tasks it returns, in their order.
Expand(raw) ==
  UNION {CASE v[1] = "nil"   -> {Got(<<NoKey>>)}
           [] v[1] = "list"  -> {Got(ExpandSlice(v[2]))}
           [] v[1] = "map"   -> {Got(s) : s \in ExpandMap(v[2])}
           [] v[1] = "error" -> {Failed} : v \in ItemValues(raw)}
=============================================================================
