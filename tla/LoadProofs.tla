----------------------------- MODULE LoadProofs -----------------------------
(***************************************************************************)
(* Proofs about Load, for any configuration and any files it may import or *)
(* name.                                                                   *)
(*                                                                         *)
(* At every step the configuration is a function of what the files say:    *)
(* Raws is the list of the phases, those of other files in their places,   *)
(* and each phase is what the steps so far make of its own entry there.    *)
(***************************************************************************)
EXTENDS Load, ConfigProofs, ConfigFileProofs

-----------------------------------------------------------------------------
(* Tasks and phases, as functions of what a file says of them *)

TaskSet ==
  [src : RawTask, when : Bool, type : TaskTypes \cup {Unset},
   shell : Names \cup {"/bin/sh"}, opts : Names \cup {"-c"},
   command : {Unset, "inline", "file"}]

PhaseSet ==
  [src : RawPhase, skip : Bool, exit : Bool, fail : Bool, tasks : Seq(TaskSet)]

\* A task when Set is done with it, and when its files are read.
SetTask(r) == SetType(DefaultTask(DecodeTask(r)))
ReadyTask(r) == ReadTask(SetTask(r))

\* The tasks of a phase, those of other files in their places.
TasksOf(r) == Spliced(r.tasks, TaskFiles)

\* A phase when its tasks are imported, when Set is done, when its files are read.
ImportedPhase(r) == [DecodePhase(r) EXCEPT !.tasks = MapSeq(DecodeTask, TasksOf(r))]
SetPhaseOf(r) == SetPhase(DefaultPhase(ImportedPhase(r)))
ReadyPhase(r) == [SetPhaseOf(r) EXCEPT !.tasks = MapSeq(ReadTask, @)]

\* The files a phase imports, and those its tasks name, are there.
ImportsThere(entries, files) ==
  \A m \in DOMAIN entries : entries[m].import \in DOMAIN files \cup {Unset}
FilesNamed(r) == {r.commandFile, r.whenFile, r.file} \ {Unset}
TextThere(r) == \A m \in DOMAIN TasksOf(r) : FilesNamed(TasksOf(r)[m]) \subseteq DOMAIN TextFiles

LEMMA DecodeTaskType ==
  ASSUME NEW r \in RawTask
  PROVE  DecodeTask(r) \in TaskSet
<1>1. r.when \in RawBools /\ r.shell \in Names /\ r.opts \in Names
  BY DEF RawTask
<1>2. UnmarshalBool(r.when) \in Bool
  BY <1>1, BoolTypes
<1>3. (IF "command" \in r.has THEN "inline" ELSE Unset) \in {Unset, "inline", "file"}
  OBVIOUS
<1> QED BY <1>1, <1>2, <1>3 DEF DecodeTask, TaskSet

LEMMA SetTaskFields ==
  ASSUME NEW r \in RawTask
  PROVE  /\ SetTask(r) \in TaskSet
         /\ SetTask(r).src = r
         /\ SetTask(r).when = SetDefaultBool(UnmarshalBool(r.when), TRUE)
         /\ SetTask(r).type = TypeOf(DecodeTask(r))
         /\ SetTask(r).command = DecodeTask(r).command
         /\ IsCommand(DecodeTask(r)) => SetTask(r).shell # Unset
         /\ IsCommand(DecodeTask(r)) /\ r.shell = Unset => SetTask(r).opts # Unset
<1> DEFINE t == DecodeTask(r)
           s == SetShell(t)
           d == DefaultTask(t)
<1>1. /\ t \in TaskSet /\ t.src = r /\ t.when = UnmarshalBool(r.when)
      /\ t.shell = r.shell
  BY DecodeTaskType DEF DecodeTask
<1> HIDE DEF t
<1>2. /\ s \in TaskSet /\ s.src = r /\ s.when = t.when /\ s.command = t.command
      /\ IsCommand(t) => s.shell # Unset
      /\ IsCommand(t) /\ r.shell = Unset => s.opts # Unset
  <2>1. CASE IsCommand(t) /\ t.shell = Unset
    <3>1. s = [t EXCEPT !.shell = "/bin/sh", !.opts = IF t.opts = Unset THEN "-c" ELSE t.opts]
      BY <2>1 DEF SetShell
    <3>2. (IF t.opts = Unset THEN "-c" ELSE t.opts) \in Names \cup {"-c"}
      BY <1>1 DEF TaskSet
    <3>3. (IF t.opts = Unset THEN "-c" ELSE t.opts) # Unset /\ "/bin/sh" # Unset
      BY DEF Unset
    <3> HIDE DEF s
    <3> QED BY <1>1, <2>1, <3>1, <3>2, <3>3 DEF TaskSet
  <2>2. CASE ~(IsCommand(t) /\ t.shell = Unset)
    <3>1. s = t
      BY <2>2 DEF SetShell
    <3> QED BY <1>1, <2>2, <3>1
  <2> QED BY <2>1, <2>2
<1> HIDE DEF s
<1>3. /\ d \in TaskSet /\ d.src = r /\ d.command = t.command
      /\ d.when = SetDefaultBool(t.when, TRUE)
      /\ IsCommand(t) => d.shell # Unset
      /\ IsCommand(t) /\ r.shell = Unset => d.opts # Unset
  <2>1. SetDefaultBool(s.when, TRUE) \in Bool
    BY <1>2, BoolTypes DEF TaskSet
  <2>2. d = [s EXCEPT !.when = SetDefaultBool(s.when, TRUE)]
    BY DEF DefaultTask, s
  <2> HIDE DEF d
  <2> QED BY <1>2, <2>1, <2>2 DEF TaskSet
<1> HIDE DEF d
<1>4. TypeOf(d) = TypeOf(t) /\ TypeOf(d) \in TaskTypes \cup {Unset}
  BY <1>1, <1>3 DEF TypeOf, IsCommand, TaskTypes
<1>5. SetTask(r) = [d EXCEPT !.type = TypeOf(d)]
  BY DEF SetTask, SetType, d, t
<1> QED BY <1>1, <1>3, <1>4, <1>5 DEF TaskSet, t

LEMMA ReadyTaskFields ==
  ASSUME NEW r \in RawTask, FilesNamed(r) \subseteq DOMAIN TextFiles
  PROVE  /\ ReadyTask(r) \in TaskSet
         /\ ReadyTask(r).src = r
         /\ ReadyTask(r).type = TypeOf(DecodeTask(r))
         /\ ReadyTask(r).shell = SetTask(r).shell
         /\ ReadyTask(r).opts = SetTask(r).opts
         /\ ReadyTask(r).command =
              IF r.commandFile = Unset THEN DecodeTask(r).command
              ELSE IF TextFiles[r.commandFile] = Unset THEN Unset ELSE "file"
         /\ Means(ReadyTask(r).when) = FileMeaning(r)
<1> DEFINE t == SetTask(r)
           when == IF r.whenFile = Unset THEN t.when
                   ELSE SetBoolProgram(t.when, IF TextFiles[r.whenFile] = Unset
                                               THEN Unset ELSE "file")
           command == IF r.commandFile = Unset THEN t.command
                      ELSE IF TextFiles[r.commandFile] = Unset THEN Unset ELSE "file"
<1>1. /\ t \in TaskSet /\ t.src = r /\ t.type = TypeOf(DecodeTask(r))
      /\ t.command = DecodeTask(r).command
      /\ t.when = SetDefaultBool(UnmarshalBool(r.when), TRUE)
  BY SetTaskFields
<1> HIDE DEF t
<1>2. when \in Bool
  BY <1>1, BoolTypes DEF TaskSet, Programs
<1>3. Means(when) = FileMeaning(r)
  <2>1. CASE r.whenFile = Unset
    BY <1>1, <2>1
    DEF Means, FileMeaning, Meaning, SetDefaultBool, UnmarshalBool, ZeroBool, RawTask,
        RawBools, Unset
  <2>2. CASE r.whenFile # Unset
    <3>1. t.when \in Bool
      BY <1>1 DEF TaskSet
    <3> QED BY <2>2, <3>1 DEF Means, FileMeaning, SetBoolProgram, Bool, Unset
  <2> QED BY <2>1, <2>2
<1>4. command \in {Unset, "inline", "file"}
  BY <1>1 DEF TaskSet
<1>5. ReadyTask(r) = [t EXCEPT !.command = command, !.when = when]
  BY <1>1 DEF ReadyTask, ReadTask, t
<1> HIDE DEF when, command
<1>6. /\ ReadyTask(r) \in TaskSet
      /\ ReadyTask(r).src = r /\ ReadyTask(r).type = t.type
      /\ ReadyTask(r).shell = t.shell /\ ReadyTask(r).opts = t.opts
      /\ ReadyTask(r).command = command /\ ReadyTask(r).when = when
  BY <1>1, <1>2, <1>4, <1>5 DEF TaskSet
<1> QED BY <1>1, <1>3, <1>6 DEF command, t

-----------------------------------------------------------------------------
(* Imports *)

\* What stands in the place of each entry.
Part(entry, files) == IF entry.import = Unset THEN <<entry>> ELSE files[entry.import]
Parts(entries, files) == [m \in DOMAIN entries |-> Part(entries[m], files)]

LEMMA PartsType ==
  ASSUME NEW S, NEW entries \in Seq(S), NEW files, files \in [DOMAIN files -> Seq(S)],
         ImportsThere(entries, files)
  PROVE  /\ Parts(entries, files) \in Seq(Seq(S))
         /\ Len(Parts(entries, files)) = Len(entries)
<1>1. DOMAIN entries = 1 .. Len(entries) /\ Len(entries) \in Nat
  OBVIOUS
<1>2. ASSUME NEW m \in 1 .. Len(entries)
      PROVE  Part(entries[m], files) \in Seq(S)
  <2>1. entries[m] \in S
    OBVIOUS
  <2>2. entries[m].import \in DOMAIN files \cup {Unset}
    BY <1>1 DEF ImportsThere
  <2> QED BY <2>1, <2>2 DEF Part
<1>3. Parts(entries, files) = [m \in 1 .. Len(entries) |-> Part(entries[m], files)]
  BY <1>1 DEF Parts
<1> QED BY <1>1, <1>2, <1>3

LEMMA SplicedParts ==
  ASSUME NEW entries, NEW files
  PROVE  Spliced(entries, files) = FlattenSeq(Parts(entries, files))
BY DEF Spliced, Parts, Part

LEMMA SplicedType ==
  ASSUME NEW S, NEW entries \in Seq(S), NEW files, files \in [DOMAIN files -> Seq(S)],
         ImportsThere(entries, files)
  PROVE  Spliced(entries, files) \in Seq(S)
<1>1. Parts(entries, files) \in Seq(Seq(S))
  BY PartsType
<1> QED BY <1>1, SplicedParts, FlattenType

LEMMA AppendIs ==
  ASSUME NEW S, NEW s \in Seq(S), NEW e \in S
  PROVE  Append(s, e) = [m \in 1 .. Len(s) + 1 |-> IF m = Len(s) + 1 THEN e ELSE s[m]]
<1>1. /\ Append(s, e) \in Seq(S) /\ DOMAIN Append(s, e) = 1 .. Len(s) + 1
      /\ \A m \in 1 .. Len(s) + 1 :
           Append(s, e)[m] = IF m = Len(s) + 1 THEN e ELSE s[m]
  OBVIOUS
<1> DEFINE t == Append(s, e)
<1>2. t \in Seq(S)
  BY <1>1
<1> HIDE DEF t
<1>3. t = [m \in DOMAIN t |-> t[m]]
  BY <1>2
<1> QED BY <1>1, <1>3 DEF t

LEMMA SplicedNext ==
  ASSUME NEW S, NEW entries \in Seq(S), NEW files, files \in [DOMAIN files -> Seq(S)],
         NEW n \in 0 .. Len(entries) - 1,
         \A m \in 1 .. n + 1 : entries[m].import \in DOMAIN files \cup {Unset}
  PROVE  /\ Spliced(SubSeq(entries, 1, n + 1), files)
              = Spliced(SubSeq(entries, 1, n), files) \o Part(entries[n + 1], files)
         /\ Spliced(SubSeq(entries, 1, n), files) \in Seq(S)
         /\ Part(entries[n + 1], files) \in Seq(S)
<1> DEFINE s == SubSeq(entries, 1, n)
           e == entries[n + 1]
<1>1. /\ s \in Seq(S) /\ Len(s) = n /\ e \in S /\ n \in Nat
      /\ SubSeq(entries, 1, n + 1) = Append(s, e)
      /\ \A m \in 1 .. n : s[m] = entries[m]
      /\ n + 1 \in 1 .. n + 1
  OBVIOUS
<1>2. e.import \in DOMAIN files \cup {Unset}
  BY <1>1
<1>3. ImportsThere(s, files)
  <2>1. \A m \in 1 .. n : entries[m].import \in DOMAIN files \cup {Unset}
    BY <1>1
  <2>2. DOMAIN s = 1 .. n
    BY <1>1
  <2> HIDE DEF s
  <2> QED BY <1>1, <2>1, <2>2 DEF ImportsThere
<1> HIDE DEF s, e
<1>4. Part(e, files) \in Seq(S)
  BY <1>1, <1>2 DEF Part
<1>5. Parts(s, files) \in Seq(Seq(S)) /\ Len(Parts(s, files)) = n
  BY <1>1, <1>3, PartsType
<1>6. Parts(Append(s, e), files) = Append(Parts(s, files), Part(e, files))
  <2>1. /\ DOMAIN Append(s, e) = 1 .. n + 1 /\ DOMAIN s = 1 .. n
        /\ \A m \in 1 .. n : Append(s, e)[m] = s[m]
        /\ Append(s, e)[n + 1] = e
    BY <1>1
  <2>2. Parts(Append(s, e), files) = [m \in 1 .. n + 1 |-> Part(Append(s, e)[m], files)]
    BY <2>1 DEF Parts
  <2>3. \A m \in 1 .. n : Parts(s, files)[m] = Part(s[m], files)
    BY <2>1 DEF Parts
  <2>4. Append(Parts(s, files), Part(e, files)) =
          [m \in 1 .. n + 1 |-> IF m = n + 1 THEN Part(e, files) ELSE Parts(s, files)[m]]
    BY <1>4, <1>5, AppendIs
  <2>5. ASSUME NEW m \in 1 .. n + 1
        PROVE  Part(Append(s, e)[m], files)
                 = IF m = n + 1 THEN Part(e, files) ELSE Parts(s, files)[m]
    <3>1. CASE m = n + 1
      BY <2>1, <3>1
    <3>2. CASE m # n + 1
      <4>1. m \in 1 .. n
        BY <1>1, <3>2
      <4> QED BY <2>1, <2>3, <3>2, <4>1
    <3> QED BY <3>1, <3>2
  <2> QED BY <2>2, <2>4, <2>5
<1>7. FlattenSeq(Append(Parts(s, files), Part(e, files)))
        = FlattenSeq(Parts(s, files)) \o Part(e, files)
  BY <1>4, <1>5, FlattenAppend
<1>8. FlattenSeq(Parts(s, files)) \in Seq(S)
  BY <1>5, FlattenType
<1> QED BY <1>1, <1>4, <1>6, <1>7, <1>8, SplicedParts DEF s, e

\* A list of tasks is decoded task by task.
DecodeFn == [r \in RawTask |-> DecodeTask(r)]

LEMMA DecodeAll ==
  ASSUME NEW s \in Seq(RawTask)
  PROVE  /\ MapSeq(DecodeTask, s) = Image(DecodeFn, s)
         /\ MapSeq(DecodeTask, s) \in Seq(TaskSet)
         /\ DOMAIN MapSeq(DecodeTask, s) = DOMAIN s
         /\ \A m \in DOMAIN s : MapSeq(DecodeTask, s)[m] = DecodeTask(s[m])
<1>1. DOMAIN s = 1 .. Len(s) /\ Len(s) \in Nat /\ \A m \in DOMAIN s : s[m] \in RawTask
  OBVIOUS
<1>2. \A m \in DOMAIN s : DecodeTask(s[m]) \in TaskSet /\ DecodeFn[s[m]] = DecodeTask(s[m])
  BY <1>1, DecodeTaskType DEF DecodeFn
<1>3. MapSeq(DecodeTask, s) = [m \in DOMAIN s |-> DecodeTask(s[m])]
  BY DEF MapSeq
<1>4. MapSeq(DecodeTask, s) \in Seq(TaskSet)
  BY <1>1, <1>2, <1>3
<1>5. MapSeq(DecodeTask, s) = Image(DecodeFn, s)
  BY <1>2, <1>3 DEF Image
<1> QED BY <1>3, <1>4, <1>5

\* What ImportTasks makes of the tasks of a phase.
LEMMA TasksImport ==
  ASSUME NEW r \in RawPhase, ImportsThere(r.tasks, TaskFiles)
  PROVE  /\ FlattenSeq(MapSeq(ImportedTasks, MapSeq(DecodeTask, r.tasks)))
              = MapSeq(DecodeTask, TasksOf(r))
         /\ TasksOf(r) \in Seq(RawTask)
<1> DEFINE parts == Parts(r.tasks, TaskFiles)
           decoded == MapSeq(DecodeTask, r.tasks)
<1>1. /\ r.tasks \in Seq(RawTask) /\ TaskFiles \in [DOMAIN TaskFiles -> Seq(RawTask)]
      /\ \A m \in DOMAIN r.tasks : r.tasks[m] \in RawTask
  <2>1. r.tasks \in Seq(RawTask)
    BY DEF RawPhase
  <2>2. \A m \in DOMAIN r.tasks : r.tasks[m] \in RawTask
    BY <2>1
  <2>3. TaskFiles \in [DOMAIN TaskFiles -> Seq(RawTask)]
    BY LoadAssumption
  <2> QED BY <2>1, <2>2, <2>3
<1>2. parts \in Seq(Seq(RawTask))
  BY <1>1, PartsType
<1>3. TasksOf(r) \in Seq(RawTask) /\ TasksOf(r) = FlattenSeq(parts)
  BY <1>1, SplicedType, SplicedParts DEF TasksOf
<1>4. /\ DOMAIN decoded = DOMAIN r.tasks
      /\ \A m \in DOMAIN r.tasks : decoded[m] = DecodeTask(r.tasks[m])
  BY <1>1, DecodeAll
<1>5. ASSUME NEW m \in DOMAIN r.tasks
      PROVE  ImportedTasks(decoded[m]) = Image(DecodeFn, Part(r.tasks[m], TaskFiles))
  <2> DEFINE t == r.tasks[m]
  <2>1. t \in RawTask /\ decoded[m] = DecodeTask(t) /\ DecodeTask(t).src = t
    BY <1>1, <1>4 DEF DecodeTask
  <2> HIDE DEF t
  <2>2. CASE t.import = Unset
    <3>1. ImportedTasks(decoded[m]) = <<DecodeTask(t)>> /\ Part(t, TaskFiles) = <<t>>
      BY <2>1, <2>2 DEF ImportedTasks, Part
    <3>2. Image(DecodeFn, <<t>>) = <<DecodeFn[t]>> /\ DecodeFn[t] = DecodeTask(t)
      BY <2>1 DEF Image, DecodeFn
    <3> QED BY <3>1, <3>2 DEF t
  <2>3. CASE t.import # Unset
    <3>1. t.import \in DOMAIN TaskFiles
      BY <2>3 DEF ImportsThere, t
    <3>2. /\ ImportedTasks(decoded[m]) = MapSeq(DecodeTask, TaskFiles[t.import])
          /\ Part(t, TaskFiles) = TaskFiles[t.import]
      BY <2>1, <2>3 DEF ImportedTasks, Part
    <3>3. TaskFiles[t.import] \in Seq(RawTask)
      BY <1>1, <3>1
    <3> QED BY <3>2, <3>3, DecodeAll DEF t
  <2> QED BY <2>2, <2>3
<1>6. MapSeq(ImportedTasks, decoded) = [m \in DOMAIN parts |-> Image(DecodeFn, parts[m])]
  <2>1. DOMAIN parts = DOMAIN r.tasks
    BY DEF Parts
  <2>2. \A m \in DOMAIN r.tasks : parts[m] = Part(r.tasks[m], TaskFiles)
    BY DEF Parts
  <2>3. MapSeq(ImportedTasks, decoded) = [m \in DOMAIN decoded |-> ImportedTasks(decoded[m])]
    BY DEF MapSeq
  <2> HIDE DEF parts, decoded
  <2> QED BY <1>4, <1>5, <2>1, <2>2, <2>3
<1>7. DecodeFn \in [RawTask -> TaskSet]
  BY DecodeTaskType DEF DecodeFn
<1>8. FlattenSeq([m \in DOMAIN parts |-> Image(DecodeFn, parts[m])])
        = Image(DecodeFn, FlattenSeq(parts))
  <2> HIDE DEF parts
  <2> QED BY <1>2, <1>7, FlattenImage
<1> QED BY <1>3, <1>6, <1>8, DecodeAll

LEMMA DecodePhaseFields ==
  ASSUME NEW r \in RawPhase
  PROVE  /\ DecodePhase(r) \in PhaseSet
         /\ DecodePhase(r).src = r
         /\ DecodePhase(r).tasks = MapSeq(DecodeTask, r.tasks)
         /\ DecodePhase(r).skip = UnmarshalBool(r.skip)
         /\ DecodePhase(r).exit = UnmarshalBool(r.exit)
         /\ DecodePhase(r).fail = UnmarshalBool(r.fail)
<1>1. /\ UnmarshalBool(r.skip) \in Bool /\ UnmarshalBool(r.exit) \in Bool
      /\ UnmarshalBool(r.fail) \in Bool
  BY BoolTypes DEF RawPhase
<1>2. MapSeq(DecodeTask, r.tasks) \in Seq(TaskSet)
  BY DecodeAll DEF RawPhase
<1> HIDE DEF MapSeq
<1> QED BY <1>1, <1>2 DEF DecodePhase, PhaseSet

LEMMA ImportedPhaseFields ==
  ASSUME NEW r \in RawPhase, ImportsThere(r.tasks, TaskFiles)
  PROVE  /\ ImportedPhase(r) \in PhaseSet
         /\ ImportedPhase(r).src = r
         /\ ImportedPhase(r).tasks = MapSeq(DecodeTask, TasksOf(r))
         /\ ImportedPhase(r).skip = UnmarshalBool(r.skip)
         /\ ImportedPhase(r).exit = UnmarshalBool(r.exit)
         /\ ImportedPhase(r).fail = UnmarshalBool(r.fail)
<1> DEFINE tasks == MapSeq(DecodeTask, TasksOf(r))
           p == DecodePhase(r)
<1>1. tasks \in Seq(TaskSet)
  BY TasksImport, DecodeAll
<1>2. p \in PhaseSet /\ p.src = r /\ p.skip = UnmarshalBool(r.skip)
      /\ p.exit = UnmarshalBool(r.exit) /\ p.fail = UnmarshalBool(r.fail)
  BY DecodePhaseFields
<1>3. ImportedPhase(r) = [p EXCEPT !.tasks = tasks]
  BY DEF ImportedPhase
<1> HIDE DEF tasks, p
<1> QED BY <1>1, <1>2, <1>3 DEF PhaseSet, tasks

LEMMA SetPhaseFields ==
  ASSUME NEW r \in RawPhase, ImportsThere(r.tasks, TaskFiles)
  PROVE  /\ SetPhaseOf(r) \in PhaseSet
         /\ SetPhaseOf(r).src = r
         /\ DOMAIN SetPhaseOf(r).tasks = DOMAIN TasksOf(r)
         /\ \A m \in DOMAIN TasksOf(r) : SetPhaseOf(r).tasks[m] = SetTask(TasksOf(r)[m])
         /\ SetPhaseOf(r).skip = SetDefaultBool(UnmarshalBool(r.skip), FALSE)
         /\ SetPhaseOf(r).exit = SetDefaultBool(UnmarshalBool(r.exit), FALSE)
         /\ SetPhaseOf(r).fail
              = SetDefaultProgram(SetDefaultBool(UnmarshalBool(r.fail), FALSE))
<1> DEFINE p == ImportedPhase(r)
           d == DefaultPhase(p)
           defaults == MapSeq(DefaultTask, p.tasks)
           typed == MapSeq(SetType, defaults)
           skip == SetDefaultBool(UnmarshalBool(r.skip), FALSE)
           exit == SetDefaultBool(UnmarshalBool(r.exit), FALSE)
           fail == SetDefaultProgram(SetDefaultBool(UnmarshalBool(r.fail), FALSE))
<1>1. /\ p \in PhaseSet /\ p.src = r /\ p.tasks = MapSeq(DecodeTask, TasksOf(r))
      /\ p.skip = UnmarshalBool(r.skip) /\ p.exit = UnmarshalBool(r.exit)
      /\ p.fail = UnmarshalBool(r.fail)
  BY ImportedPhaseFields
<1>2. TasksOf(r) \in Seq(RawTask)
  BY TasksImport
<1>3. skip \in Bool /\ exit \in Bool /\ fail \in Bool
  BY BoolTypes DEF RawPhase
<1>4. /\ DOMAIN defaults = DOMAIN TasksOf(r)
      /\ \A m \in DOMAIN TasksOf(r) : defaults[m] = DefaultTask(DecodeTask(TasksOf(r)[m]))
  <2>1. /\ DOMAIN p.tasks = DOMAIN TasksOf(r)
        /\ \A m \in DOMAIN TasksOf(r) : p.tasks[m] = DecodeTask(TasksOf(r)[m])
    BY <1>1, <1>2, DecodeAll
  <2>2. defaults = [m \in DOMAIN p.tasks |-> DefaultTask(p.tasks[m])]
    BY DEF MapSeq
  <2> HIDE DEF p, defaults
  <2> QED BY <2>1, <2>2
<1>5. /\ DOMAIN typed = DOMAIN TasksOf(r)
      /\ \A m \in DOMAIN TasksOf(r) : typed[m] = SetTask(TasksOf(r)[m])
  <2>1. typed = [m \in DOMAIN defaults |-> SetType(defaults[m])]
    BY DEF MapSeq
  <2> HIDE DEF typed, defaults
  <2> QED BY <1>4, <2>1 DEF SetTask
<1>6. typed \in Seq(TaskSet)
  <2>1. /\ DOMAIN TasksOf(r) = 1 .. Len(TasksOf(r)) /\ Len(TasksOf(r)) \in Nat
        /\ \A m \in DOMAIN TasksOf(r) : TasksOf(r)[m] \in RawTask
    BY <1>2
  <2>2. \A m \in DOMAIN TasksOf(r) : typed[m] \in TaskSet
    <3> HIDE DEF typed
    <3> QED BY <1>5, <2>1, SetTaskFields
  <2>3. typed = [m \in DOMAIN TasksOf(r) |-> typed[m]]
    <3>1. typed = [m \in DOMAIN defaults |-> SetType(defaults[m])]
      BY DEF MapSeq
    <3> HIDE DEF defaults, typed
    <3> QED BY <1>4, <3>1
  <2> HIDE DEF typed
  <2> QED BY <2>1, <2>2, <2>3
<1>7. d = [p EXCEPT !.skip = skip, !.exit = exit, !.fail = fail, !.tasks = defaults]
  BY <1>1 DEF DefaultPhase
<1>8. SetPhaseOf(r) = [d EXCEPT !.tasks = MapSeq(SetType, d.tasks)]
  BY DEF SetPhaseOf, SetPhase
<1> HIDE DEF p, d, skip, exit, fail
<1>9. d.tasks = defaults
  <2> HIDE DEF defaults
  <2> QED BY <1>1, <1>7 DEF PhaseSet
<1>10. SetPhaseOf(r) =
         [p EXCEPT !.skip = skip, !.exit = exit, !.fail = fail, !.tasks = typed]
  <2>1. SetPhaseOf(r) = [d EXCEPT !.tasks = typed]
    BY <1>8, <1>9
  <2> HIDE DEF typed, defaults
  <2> QED BY <1>1, <1>7, <2>1 DEF PhaseSet
<1> HIDE DEF typed
<1>11. /\ SetPhaseOf(r) \in PhaseSet /\ SetPhaseOf(r).src = r
       /\ SetPhaseOf(r).tasks = typed /\ SetPhaseOf(r).skip = skip
       /\ SetPhaseOf(r).exit = exit /\ SetPhaseOf(r).fail = fail
  BY <1>1, <1>3, <1>6, <1>10 DEF PhaseSet
<1> QED BY <1>5, <1>11 DEF skip, exit, fail

LEMMA ReadyPhaseFields ==
  ASSUME NEW r \in RawPhase, ImportsThere(r.tasks, TaskFiles), TextThere(r)
  PROVE  /\ ReadyPhase(r) \in PhaseSet
         /\ ReadyPhase(r).src = r
         /\ DOMAIN ReadyPhase(r).tasks = DOMAIN TasksOf(r)
         /\ \A m \in DOMAIN TasksOf(r) : ReadyPhase(r).tasks[m] = ReadyTask(TasksOf(r)[m])
         /\ ReadyPhase(r).skip = SetPhaseOf(r).skip
         /\ ReadyPhase(r).exit = SetPhaseOf(r).exit
         /\ ReadyPhase(r).fail = SetPhaseOf(r).fail
<1> DEFINE p == SetPhaseOf(r)
           read == MapSeq(ReadTask, p.tasks)
<1>1. /\ p \in PhaseSet /\ p.src = r /\ DOMAIN p.tasks = DOMAIN TasksOf(r)
      /\ \A m \in DOMAIN TasksOf(r) : p.tasks[m] = SetTask(TasksOf(r)[m])
  BY SetPhaseFields
<1>2. read = [m \in DOMAIN p.tasks |-> ReadTask(p.tasks[m])]
  BY DEF MapSeq
<1>3. ReadyPhase(r) = [p EXCEPT !.tasks = read]
  BY DEF ReadyPhase
<1> HIDE DEF p, read
<1>4. /\ DOMAIN read = DOMAIN TasksOf(r)
      /\ \A m \in DOMAIN TasksOf(r) : read[m] = ReadyTask(TasksOf(r)[m])
      /\ read = [m \in DOMAIN TasksOf(r) |-> read[m]]
  BY <1>1, <1>2 DEF ReadyTask
<1>5. read \in Seq(TaskSet)
  <2>1. TasksOf(r) \in Seq(RawTask)
    BY TasksImport
  <2>2. /\ DOMAIN TasksOf(r) = 1 .. Len(TasksOf(r)) /\ Len(TasksOf(r)) \in Nat
        /\ \A m \in DOMAIN TasksOf(r) : TasksOf(r)[m] \in RawTask
    BY <2>1
  <2>3. \A m \in DOMAIN TasksOf(r) : read[m] \in TaskSet
    BY <1>4, <2>2, ReadyTaskFields DEF TextThere
  <2> QED BY <1>4, <2>2, <2>3
<1> QED BY <1>1, <1>3, <1>4, <1>5 DEF PhaseSet, p

LEMMA DefaultMeans ==
  ASSUME NEW b \in RawBools
  PROVE  /\ Means(SetDefaultBool(UnmarshalBool(b), FALSE)) = Meaning(b, "false")
         /\ Means(SetDefaultProgram(SetDefaultBool(UnmarshalBool(b), FALSE)))
              = Meaning(b, "default")
         /\ Means(SetDefaultProgram(UnmarshalBool(b))) = Meaning(b, "default")
<1> DEFINE u == UnmarshalBool(b)
           d == SetDefaultBool(u, FALSE)
<1>1. /\ u \in Bool
      /\ u.initialized <=> b \in {"true", "false", "empty", "script"}
      /\ u.fixed <=> b \in {"null", "true", "false"}
      /\ u.value <=> b = "true"
      /\ u.prog = IF b = "script" THEN "user" ELSE Unset
  BY BoolTypes DEF UnmarshalBool, RawBools, ZeroBool
<1> HIDE DEF u
<1>2. /\ d \in Bool /\ d.initialized = u.initialized /\ d.prog = u.prog
      /\ u.initialized => d.fixed = u.fixed /\ d.value = u.value
      /\ ~u.initialized => d.fixed /\ ~d.value
  BY <1>1 DEF SetDefaultBool, Bool
<1> HIDE DEF d
<1>3. Means(d) = Meaning(b, "false")
  BY <1>1, <1>2 DEF Means, Meaning, RawBools, Unset
<1>4. ASSUME NEW x \in Bool, x.initialized = u.initialized,
             u.initialized => x.fixed = u.fixed /\ x.value = u.value /\ x.prog = u.prog
      PROVE  Means(SetDefaultProgram(x)) = Meaning(b, "default")
  <2>1. CASE x.initialized
    BY <1>1, <1>4, <2>1 DEF SetDefaultProgram, Means, Meaning, RawBools, Unset
  <2>2. CASE ~x.initialized
    <3>1. SetDefaultProgram(x)
            = [x EXCEPT !.prog = "default", !.fixed = FALSE, !.initialized = TRUE]
      BY <2>2 DEF SetDefaultProgram, SetBoolProgram
    <3>2. SetDefaultProgram(x).prog = "default" /\ ~SetDefaultProgram(x).fixed
      BY <3>1 DEF Bool
    <3>3. b \in {"absent", "null"}
      BY <1>1, <1>4, <2>2 DEF RawBools
    <3> QED BY <3>2, <3>3 DEF Means, Meaning, Unset
  <2> QED BY <2>1, <2>2
<1>5. Means(SetDefaultProgram(d)) = Meaning(b, "default")
  BY <1>2, <1>4
<1>6. Means(SetDefaultProgram(u)) = Meaning(b, "default")
  BY <1>1, <1>4
<1> QED BY <1>3, <1>5, <1>6 DEF d, u

\* What the conditions of a phase and of its tasks mean when the files are read.
LEMMA PhaseMeans ==
  ASSUME NEW r \in RawPhase, ImportsThere(r.tasks, TaskFiles), TextThere(r)
  PROVE  /\ Means(ReadyPhase(r).skip) = Meaning(r.skip, "false")
         /\ Means(ReadyPhase(r).exit) = Meaning(r.exit, "false")
         /\ Means(ReadyPhase(r).fail) = Meaning(r.fail, "default")
         /\ \A m \in DOMAIN ReadyPhase(r).tasks :
              Means(ReadyPhase(r).tasks[m].when) = FileMeaning(ReadyPhase(r).tasks[m].src)
<1>1. r.skip \in RawBools /\ r.exit \in RawBools /\ r.fail \in RawBools
  BY DEF RawPhase
<1>2. /\ ReadyPhase(r).skip = SetDefaultBool(UnmarshalBool(r.skip), FALSE)
      /\ ReadyPhase(r).exit = SetDefaultBool(UnmarshalBool(r.exit), FALSE)
      /\ ReadyPhase(r).fail
           = SetDefaultProgram(SetDefaultBool(UnmarshalBool(r.fail), FALSE))
  BY ReadyPhaseFields, SetPhaseFields
<1>3. /\ Means(ReadyPhase(r).skip) = Meaning(r.skip, "false")
      /\ Means(ReadyPhase(r).exit) = Meaning(r.exit, "false")
      /\ Means(ReadyPhase(r).fail) = Meaning(r.fail, "default")
  BY <1>1, <1>2, DefaultMeans
<1>4. ASSUME NEW m \in DOMAIN ReadyPhase(r).tasks
      PROVE  Means(ReadyPhase(r).tasks[m].when) = FileMeaning(ReadyPhase(r).tasks[m].src)
  <2>1. /\ m \in DOMAIN TasksOf(r)
        /\ ReadyPhase(r).tasks[m] = ReadyTask(TasksOf(r)[m])
    BY ReadyPhaseFields
  <2>2. TasksOf(r)[m] \in RawTask /\ FilesNamed(TasksOf(r)[m]) \subseteq DOMAIN TextFiles
    BY <2>1, TasksImport DEF TextThere
  <2> QED BY <2>1, <2>2, ReadyTaskFields
<1> QED BY <1>3, <1>4

LEMMA TaskRunnable ==
  ASSUME NEW r \in RawTask, FilesNamed(r) \subseteq DOMAIN TextFiles,
         TypeOf(DecodeTask(r)) # Unset
  PROVE  Runnable(ReadyTask(r))
<1> DEFINE t == ReadyTask(r)
           raw == DecodeTask(r)
<1>1. /\ t \in TaskSet /\ t.src = r /\ t.type = TypeOf(raw)
      /\ IsCommand(raw) => t.shell # Unset
      /\ IsCommand(raw) /\ r.shell = Unset => t.opts # Unset
      /\ t.command = IF r.commandFile = Unset THEN raw.command
                     ELSE IF TextFiles[r.commandFile] = Unset THEN Unset ELSE "file"
  BY ReadyTaskFields, SetTaskFields
<1>2. /\ raw.command \in {Unset, "inline"} /\ raw.src = r
  BY DEF DecodeTask
<1> HIDE DEF t, raw
<1>3. TypeOf(raw) \in TaskTypes /\ (IsCommand(raw) <=> TypeOf(raw) = "command")
  BY DEF TypeOf, TaskTypes, raw, Unset
<1>4. IsCommand(raw) /\ r.commandFile = Unset => raw.command = "inline"
  BY <1>2 DEF IsCommand
<1> QED BY <1>1, <1>2, <1>3, <1>4 DEF Runnable, t, raw

LEMMA PhaseRunnable ==
  ASSUME NEW r \in RawPhase, ImportsThere(r.tasks, TaskFiles), TextThere(r),
         \A m \in DOMAIN TasksOf(r) : TypeOf(DecodeTask(TasksOf(r)[m])) # Unset
  PROVE  \A m \in DOMAIN ReadyPhase(r).tasks : Runnable(ReadyPhase(r).tasks[m])
<1> SUFFICES ASSUME NEW m \in DOMAIN ReadyPhase(r).tasks
             PROVE  Runnable(ReadyPhase(r).tasks[m])
  OBVIOUS
<1>1. /\ m \in DOMAIN TasksOf(r)
      /\ ReadyPhase(r).tasks[m] = ReadyTask(TasksOf(r)[m])
  BY ReadyPhaseFields
<1>2. TasksOf(r)[m] \in RawTask /\ FilesNamed(TasksOf(r)[m]) \subseteq DOMAIN TextFiles
  BY <1>1, TasksImport DEF TextThere
<1> QED BY <1>1, <1>2, TaskRunnable

-----------------------------------------------------------------------------
(* Expansion *)

Expansions == [ok : BOOLEAN, list : Seq(Nat \X Int)]

\* The keys of the m-th task in a list of tasks.
KeysOf(list, m) == {list[l][2] : l \in {n \in DOMAIN list : list[n][1] = m}}

\* What ExpandedInOrder says of the tasks that come of the first m.
InOrder(tasks, m, list) ==
  /\ list \in Seq((1 .. m) \X Int)
  /\ \A l, n \in DOMAIN list : l < n =>
       /\ list[l][1] <= list[n][1]
       /\ list[l] # list[n]
       /\ list[l][1] = list[n][1] /\ Listed(tasks[list[l][1]].src.items) =>
            list[l][2] < list[n][2]
  /\ \A p \in 1 .. m :
       \/ KeysOf(list, p) = {NoKey} /\ tasks[p].src.items \in {"absent", "script"}
       \/ /\ tasks[p].src.items # "absent"
          /\ tasks[p].src.items \in {"list", "map"} => KeysOf(list, p) # {}
          /\ \E n \in Nat : KeysOf(list, p) = Keys(n)

Paired(m, keys) == [n \in DOMAIN keys |-> <<m, keys[n]>>]

LEMMA ConcatType ==
  ASSUME NEW S, NEW s \in Seq(S), NEW t \in Seq(S)
  PROVE  s \o t \in Seq(S) /\ DOMAIN (s \o t) = 1 .. Len(s) + Len(t)
OBVIOUS

\* The keys of the next task come after those there are.
LEMMA OrderNext ==
  ASSUME NEW tasks, NEW m \in Nat, NEW list, NEW keys, InOrder(tasks, m, list),
         KeysOK(tasks[m + 1].src.items, keys)
  PROVE  InOrder(tasks, m + 1, list \o Paired(m + 1, keys))
<1> DEFINE new == Paired(m + 1, keys)
           all == list \o new
           N == Len(list)
           K == Len(keys)
           S == (1 .. m + 1) \X Int
<1>1. /\ N \in Nat /\ DOMAIN list = 1 .. N
      /\ \A l \in 1 .. N : list[l] \in (1 .. m) \X Int
      /\ list \in Seq(S)
  <2>1. list \in Seq((1 .. m) \X Int)
    BY DEF InOrder
  <2>2. (1 .. m) \X Int \subseteq S
    OBVIOUS
  <2> HIDE DEF S
  <2> QED BY <2>1, <2>2
<1>2. /\ K \in Nat /\ DOMAIN keys = 1 .. K /\ \A n \in 1 .. K : keys[n] \in Int
  <2>1. keys \in Seq(Int)
    BY DEF KeysOK
  <2> QED BY <2>1
<1>3. /\ DOMAIN new = 1 .. K /\ new = [n \in 1 .. K |-> new[n]]
      /\ \A n \in 1 .. K : new[n] = <<m + 1, keys[n]>> /\ new[n] \in S
  BY <1>2 DEF Paired
<1>4. new \in Seq(S) /\ Len(new) = K
  <2> HIDE DEF new, S, K
  <2> QED BY <1>2, <1>3
<1> HIDE DEF new
<1>5. all \in Seq(S) /\ DOMAIN all = 1 .. N + K
  <2> HIDE DEF S, K
  <2> QED BY <1>1, <1>4, ConcatType
<1>6. \A l \in 1 .. N : all[l] = list[l] /\ all[l][1] \in 1 .. m
  <2>1. \A l \in 1 .. N : all[l] = list[l]
    BY <1>1, <1>4
  <2>2. \A l \in 1 .. N : list[l][1] \in 1 .. m
    BY <1>1
  <2> HIDE DEF all, N
  <2> QED BY <2>1, <2>2
<1>7. \A n \in 1 .. K : N + n \in 1 .. N + K /\ all[N + n] = <<m + 1, keys[n]>>
  BY <1>1, <1>2, <1>3, <1>4
<1> HIDE DEF all, N, K, S
<1>8. ASSUME NEW l \in 1 .. N + K, l \notin 1 .. N
      PROVE  l - N \in 1 .. K /\ all[l] = <<m + 1, keys[l - N]>>
  <2>1. l - N \in 1 .. K /\ N + (l - N) = l
    BY <1>1, <1>2, <1>8
  <2> QED BY <1>7, <2>1
<1>9. ASSUME NEW l \in DOMAIN all, NEW n \in DOMAIN all, l < n
      PROVE  /\ all[l][1] <= all[n][1]
             /\ all[l] # all[n]
             /\ all[l][1] = all[n][1] /\ Listed(tasks[all[l][1]].src.items) =>
                  all[l][2] < all[n][2]
  <2>1. CASE n \in 1 .. N
    <3>1. l \in 1 .. N
      BY <1>1, <1>2, <1>5, <1>9, <2>1
    <3>2. /\ list[l][1] <= list[n][1] /\ list[l] # list[n]
          /\ list[l][1] = list[n][1] /\ Listed(tasks[list[l][1]].src.items) =>
               list[l][2] < list[n][2]
      BY <1>1, <1>9, <2>1, <3>1 DEF InOrder
    <3>3. all[l] = list[l] /\ all[n] = list[n]
      BY <1>6, <2>1, <3>1
    <3> QED BY <3>2, <3>3
  <2>2. CASE n \notin 1 .. N /\ l \in 1 .. N
    <3>1. all[n][1] = m + 1 /\ all[l][1] \in 1 .. m
      BY <1>5, <1>6, <1>8, <2>2
    <3>2. all[l][1] <= all[n][1] /\ all[l][1] # all[n][1]
      BY <3>1
    <3> QED BY <3>2
  <2>3. CASE n \notin 1 .. N /\ l \notin 1 .. N
    <3>1. /\ l - N \in 1 .. K /\ all[l] = <<m + 1, keys[l - N]>>
          /\ n - N \in 1 .. K /\ all[n] = <<m + 1, keys[n - N]>>
      BY <1>5, <1>8, <2>3
    <3>2. l - N < n - N
      BY <1>1, <1>2, <1>5, <1>9
    <3>3. /\ keys[l - N] # keys[n - N]
          /\ Listed(tasks[m + 1].src.items) => keys[l - N] < keys[n - N]
      BY <1>2, <3>1, <3>2 DEF KeysOK, Listed
    <3> QED BY <3>1, <3>3
  <2> QED BY <2>1, <2>2, <2>3
<1>10. ASSUME NEW p \in 1 .. m
       PROVE  KeysOf(all, p) = KeysOf(list, p)
  <2>1. \A l \in DOMAIN all : all[l][1] = p => l \in 1 .. N
    <3>1. \A l \in DOMAIN all : l \notin 1 .. N => all[l][1] = m + 1
      BY <1>5, <1>8
    <3> QED BY <3>1
  <2>2. {l \in DOMAIN all : all[l][1] = p} = {l \in DOMAIN list : list[l][1] = p}
    <3>1. \A l \in 1 .. N : l \in 1 .. N + K
      BY <1>1, <1>2
    <3> QED BY <1>1, <1>5, <1>6, <2>1, <3>1
  <2> QED BY <1>1, <1>6, <2>2 DEF KeysOf
<1>11. KeysOf(all, m + 1) = {keys[n] : n \in DOMAIN keys}
  <2>1. \A l \in DOMAIN all : all[l][1] = m + 1 => l \notin 1 .. N
    <3>1. m + 1 \notin 1 .. m
      OBVIOUS
    <3> QED BY <1>6, <3>1
  <2>2. ASSUME NEW l \in DOMAIN all, all[l][1] = m + 1
        PROVE  all[l][2] \in {keys[n] : n \in DOMAIN keys}
    <3>1. l - N \in DOMAIN keys /\ all[l][2] = keys[l - N]
      BY <1>2, <1>5, <1>8, <2>1, <2>2
    <3> QED BY <3>1
  <2>3. ASSUME NEW n \in DOMAIN keys
        PROVE  keys[n] \in KeysOf(all, m + 1)
    <3>1. N + n \in DOMAIN all /\ all[N + n][1] = m + 1 /\ all[N + n][2] = keys[n]
      BY <1>2, <1>5, <1>7
    <3> QED BY <3>1 DEF KeysOf
  <2> QED BY <2>2, <2>3 DEF KeysOf
<1>12. ASSUME NEW p \in 1 .. m + 1
       PROVE  \/ KeysOf(all, p) = {NoKey} /\ tasks[p].src.items \in {"absent", "script"}
              \/ /\ tasks[p].src.items # "absent"
                 /\ tasks[p].src.items \in {"list", "map"} => KeysOf(all, p) # {}
                 /\ \E n \in Nat : KeysOf(all, p) = Keys(n)
  <2>1. CASE p \in 1 .. m
    BY <1>10, <2>1 DEF InOrder
  <2>2. CASE p = m + 1
    BY <1>11, <2>2 DEF KeysOK
  <2> QED BY <2>1, <2>2
<1> QED BY <1>5, <1>9, <1>12 DEF InOrder, all, new, S

\* f is the function by which TasksUpTo is defined, up to the n-th task.
Longer(tasks, m, before) ==
  {IF ts.ok /\ keys.ok THEN Got(ts.list \o Paired(m, keys.list)) ELSE Failed :
     ts \in before, keys \in Expand(tasks[m].src.items)}

UpTo(f, tasks, n) ==
  f = [m \in 0 .. n |-> IF m = 0 THEN {Got(<<>>)} ELSE Longer(tasks, m, f[m - 1])]

LEMMA UpToAt ==
  ASSUME NEW f, NEW tasks, NEW n \in Nat, UpTo(f, tasks, n)
  PROVE  /\ f[0] = {Got(<<>>)}
         /\ \A m \in 1 .. n : f[m] = Longer(tasks, m, f[m - 1])
<1> DEFINE Value(m) == IF m = 0 THEN {Got(<<>>)} ELSE Longer(tasks, m, f[m - 1])
<1>1. f = [m \in 0 .. n |-> Value(m)]
  BY DEF UpTo
<1> HIDE DEF Value
<1>2. \A m \in 0 .. n : f[m] = Value(m)
  BY <1>1
<1>3. f[0] = Value(0) /\ \A m \in 1 .. n : f[m] = Value(m) /\ m # 0
  BY <1>2
<1> QED BY <1>3 DEF Value

LEMMA UpToExists ==
  ASSUME NEW tasks, NEW N \in Nat
  PROVE  \E f : UpTo(f, tasks, N)
<1> DEFINE D == {n \in 0 .. N : \E f : UpTo(f, tasks, n)}
<1>1. 0 \in D
  <2>1. UpTo([m \in 0 .. 0 |-> {Got(<<>>)}], tasks, 0)
    BY DEF UpTo
  <2> QED BY <2>1
<1>2. ASSUME NEW n \in 0 .. N - 1, n \in D
      PROVE  n + 1 \in D
  <2>1. PICK f : UpTo(f, tasks, n)
    BY <1>2
  <2> DEFINE Value(m) == IF m = 0 THEN {Got(<<>>)} ELSE Longer(tasks, m, f[m - 1])
             g == [m \in 0 .. n + 1 |-> Value(m)]
  <2>2. ASSUME NEW m \in 0 .. n + 1, m # 0
        PROVE  g[m - 1] = f[m - 1]
    <3>1. m - 1 \in 0 .. n /\ m - 1 \in 0 .. n + 1 /\ n \in Nat
      BY <2>2
    <3>2. f = [l \in 0 .. n |-> Value(l)]
      BY <2>1 DEF UpTo
    <3> HIDE DEF Value
    <3> QED BY <3>1, <3>2
  <2>3. \A m \in 0 .. n + 1 :
          Value(m) = IF m = 0 THEN {Got(<<>>)} ELSE Longer(tasks, m, g[m - 1])
    <3> HIDE DEF g
    <3> QED BY <2>2
  <2>4. UpTo(g, tasks, n + 1)
    BY <2>3, Zenon DEF UpTo
  <2> QED BY <2>4
<1> HIDE DEF D
<1>3. N \in D
  BY <1>1, <1>2, Induction
<1> QED BY <1>3 DEF D

LEMMA TasksUnfold ==
  ASSUME NEW tasks, Len(tasks) \in Nat
  PROVE  \E f : UpTo(f, tasks, Len(tasks)) /\ TasksUpTo(tasks) = f[Len(tasks)]
<1> DEFINE f == CHOOSE f : UpTo(f, tasks, Len(tasks))
<1>1. TasksUpTo(tasks) = f[Len(tasks)]
  BY DEF TasksUpTo, UpTo, Longer, Paired
<1>2. UpTo(f, tasks, Len(tasks))
  BY UpToExists
<1> QED BY <1>1, <1>2

LEMMA TasksInOrder ==
  ASSUME NEW tasks, Len(tasks) \in Nat,
         \A m \in 1 .. Len(tasks) : tasks[m].src.items \in RawItems,
         NEW ts \in TasksUpTo(tasks)
  PROVE  /\ ts = Failed \/ ts = Got(ts.list)
         /\ ts.ok => InOrder(tasks, Len(tasks), ts.list)
<1> DEFINE N == Len(tasks)
           Right(x, m) == \/ x = Failed
                          \/ x = Got(x.list) /\ InOrder(tasks, m, x.list)
<1>1. PICK f : UpTo(f, tasks, N) /\ ts \in f[N]
  BY TasksUnfold
<1> DEFINE D == {m \in 0 .. N : \A x \in f[m] : Right(x, m)}
<1> HIDE DEF N
<1>2. N \in Nat /\ \A m \in 1 .. N : tasks[m].src.items \in RawItems
  BY DEF N
<1>3. f[0] = {Got(<<>>)} /\ \A m \in 1 .. N : f[m] = Longer(tasks, m, f[m - 1])
  BY <1>1, <1>2, UpToAt
<1>4. 0 \in D
  <2>1. Got(<<>>).list = <<>>
    BY DEF Got
  <2>2. InOrder(tasks, 0, <<>>)
    BY DEF InOrder
  <2> QED BY <1>2, <1>3, <2>1, <2>2
<1>5. ASSUME NEW m \in 0 .. N - 1, m \in D
      PROVE  m + 1 \in D
  <2>1. m + 1 \in 1 .. N /\ m + 1 \in 0 .. N /\ (m + 1) - 1 = m /\ m \in Nat
    BY <1>2
  <2>2. f[m + 1] = Longer(tasks, m + 1, f[m])
    BY <1>3, <2>1
  <2>3. ASSUME NEW x \in f[m + 1]
        PROVE  Right(x, m + 1)
    <3>1. PICK y \in f[m], keys \in Expand(tasks[m + 1].src.items) :
            x = IF y.ok /\ keys.ok THEN Got(y.list \o Paired(m + 1, keys.list)) ELSE Failed
      BY <2>2 DEF Longer
    <3>2. CASE y.ok /\ keys.ok
      <4>1. InOrder(tasks, m, y.list)
        BY <1>5, <3>2 DEF Failed
      <4>2. KeysOK(tasks[m + 1].src.items, keys.list)
        BY <1>2, <2>1, <3>2, ExpandKeys
      <4>3. InOrder(tasks, m + 1, y.list \o Paired(m + 1, keys.list))
        BY <2>1, <4>1, <4>2, OrderNext
      <4>4. x = Got(y.list \o Paired(m + 1, keys.list))
        BY <3>1, <3>2
      <4>5. x.list = y.list \o Paired(m + 1, keys.list)
        BY <4>4 DEF Got
      <4> QED BY <4>3, <4>4, <4>5
    <3>3. CASE ~(y.ok /\ keys.ok)
      BY <3>1, <3>3
    <3> QED BY <3>2, <3>3
  <2> QED BY <2>1, <2>3
<1> HIDE DEF D
<1>6. N \in D
  <2>1. \A m \in 0 .. N : m \in D
    BY <1>2, <1>4, <1>5, Induction
  <2> QED BY <1>2, <2>1
<1>7. Right(ts, N)
  BY <1>1, <1>6 DEF D
<1> QED BY <1>7 DEF N, Failed

-----------------------------------------------------------------------------
(* The inductive invariant *)

Values == Names \cup Sources

Conf ==
  [phases : Seq(PhaseSet), skip : Bool, fail : Bool,
   owner : Values, token : Values]

DataInv ==
  /\ input \in Inputs /\ doc \in Document /\ conf \in Conf /\ at \in Steps
  /\ k \in Nat \ {0}
  /\ expanded \in Seq(Expansions)
  /\ at \in {"start", "find", "not found", "read"} => k = 1
  /\ at = "read" => place \in Places

\* The phases, those of other files in their places.
Raws == Spliced(doc.phases, PhaseFiles)

\* The settings as the file has them, and as Set leaves them.
Undecided ==
  /\ conf.skip = UnmarshalBool(doc.skip) /\ conf.fail = UnmarshalBool(doc.fail)
  /\ conf.owner = doc.owner /\ conf.token = doc.token

Decided ==
  /\ conf.skip = SetDefaultBool(UnmarshalBool(doc.skip), FALSE)
  /\ conf.fail = SetDefaultProgram(UnmarshalBool(doc.fail))
  /\ conf.owner = First(<<From("cli owner"), doc.owner, From("ci owner")>>)
  /\ conf.token = First(<<From("cli token"), doc.token, From("GITHUB_TOKEN"),
                          From("GITHUB_ACCESS_TOKEN")>>)

\* What Set has checked.
Checked ==
  /\ \A l, m \in DOMAIN Raws : Raws[l].name = Raws[m].name => l = m
  /\ \A l \in DOMAIN Raws : \A m \in DOMAIN TasksOf(Raws[l]) :
       TypeOf(DecodeTask(TasksOf(Raws[l])[m])) # Unset

\* The phases up to k-1 are imported.
AtPhases ==
  /\ k \in 1 .. Len(doc.phases) + 1
  /\ \A m \in 1 .. k - 1 : doc.phases[m].import \in DOMAIN PhaseFiles \cup {Unset}
  /\ conf.phases = Decoded(Spliced(SubSeq(doc.phases, 1, k - 1), PhaseFiles))
  /\ Undecided

\* All are, and there are as many as in Raws.
Listing ==
  /\ ImportsThere(doc.phases, PhaseFiles)
  /\ DOMAIN conf.phases = DOMAIN Raws
  /\ k \in 1 .. Len(Raws) + 1

AtTasks ==
  /\ Listing /\ Undecided
  /\ \A m \in DOMAIN Raws :
       IF m < k
       THEN ImportsThere(Raws[m].tasks, TaskFiles) /\ conf.phases[m] = ImportedPhase(Raws[m])
       ELSE conf.phases[m] = DecodePhase(Raws[m])

AtSet ==
  /\ Listing /\ Undecided /\ k = 1
  /\ \A m \in DOMAIN Raws :
       ImportsThere(Raws[m].tasks, TaskFiles) /\ conf.phases[m] = ImportedPhase(Raws[m])

AtFiles ==
  /\ Listing /\ Decided /\ Checked
  /\ \A m \in DOMAIN Raws :
       /\ ImportsThere(Raws[m].tasks, TaskFiles)
       /\ IF m < k THEN TextThere(Raws[m]) /\ conf.phases[m] = ReadyPhase(Raws[m])
          ELSE conf.phases[m] = SetPhaseOf(Raws[m])

Ready ==
  /\ Listing /\ Decided /\ Checked
  /\ \A m \in DOMAIN Raws :
       /\ ImportsThere(Raws[m].tasks, TaskFiles) /\ TextThere(Raws[m])
       /\ conf.phases[m] = ReadyPhase(Raws[m])

StageInv ==
  /\ at = "phases" => AtPhases
  /\ at = "tasks" => AtTasks
  /\ at = "set" => AtSet
  /\ at = "files" => AtFiles
  /\ at \in {"expand", "done"} => Ready

\* What is expanded is expanded of the configuration as it is from then on.
ExpandInv ==
  /\ at \notin {"expand", "done", "failed"} => expanded = <<>>
  /\ at = "expand" => Len(expanded) = k - 1
  /\ Len(expanded) <= Len(conf.phases)
  /\ \A p \in DOMAIN expanded :
       expanded[p] \in TasksUpTo(conf.phases[p].tasks) \cup {Failed}

LInv == FInv /\ DataInv /\ StageInv /\ ExpandInv

-----------------------------------------------------------------------------
(* What the steps need of it *)

LEMMA RawsType ==
  ASSUME doc \in Document, ImportsThere(doc.phases, PhaseFiles)
  PROVE  /\ Raws \in Seq(RawPhase) /\ DOMAIN Raws = 1 .. Len(Raws) /\ Len(Raws) \in Nat
         /\ \A m \in DOMAIN Raws : Raws[m] \in RawPhase
<1>1. doc.phases \in Seq(RawPhase)
  BY DEF Document
<1>2. PhaseFiles \in [DOMAIN PhaseFiles -> Seq(RawPhase)]
  BY LoadAssumption
<1>3. Raws \in Seq(RawPhase)
  BY <1>1, <1>2, SplicedType DEF Raws
<1> QED BY <1>3

LEMMA ConfFields ==
  ASSUME conf \in Conf
  PROVE  /\ conf.phases \in Seq(PhaseSet) /\ conf.skip \in Bool /\ conf.fail \in Bool
         /\ DOMAIN conf.phases = 1 .. Len(conf.phases) /\ Len(conf.phases) \in Nat
         /\ \A m \in DOMAIN conf.phases : conf.phases[m] \in PhaseSet
<1>1. conf.phases \in Seq(PhaseSet) /\ conf.skip \in Bool /\ conf.fail \in Bool
  BY DEF Conf
<1> QED BY <1>1

\* A step that gives one phase other tasks.
LEMMA OtherTasks ==
  ASSUME NEW c \in Conf, NEW j \in DOMAIN c.phases, NEW ts \in Seq(TaskSet),
         NEW d, d = [c EXCEPT !.phases[j].tasks = ts]
  PROVE  /\ d \in Conf
         /\ d.skip = c.skip /\ d.fail = c.fail /\ d.owner = c.owner /\ d.token = c.token
         /\ DOMAIN d.phases = DOMAIN c.phases /\ Len(d.phases) = Len(c.phases)
         /\ d.phases[j] = [c.phases[j] EXCEPT !.tasks = ts]
         /\ \A m \in DOMAIN c.phases \ {j} : d.phases[m] = c.phases[m]
<1> DEFINE p == [c.phases[j] EXCEPT !.tasks = ts]
           phases == [c.phases EXCEPT ![j] = p]
<1>1. c.phases \in Seq(PhaseSet) /\ c.phases[j] \in PhaseSet
  <2>1. c.phases \in Seq(PhaseSet)
    BY DEF Conf
  <2> QED BY <2>1
<1>2. p \in PhaseSet
  BY <1>1 DEF PhaseSet
<1>3. d = [c EXCEPT !.phases = phases]
  BY DEF Conf
<1> HIDE DEF p
<1>4. /\ phases \in Seq(PhaseSet) /\ DOMAIN phases = DOMAIN c.phases
      /\ Len(phases) = Len(c.phases) /\ phases[j] = p
      /\ \A m \in DOMAIN c.phases \ {j} : phases[m] = c.phases[m]
  BY <1>1, <1>2
<1> HIDE DEF phases
<1>5. /\ d \in Conf /\ d.phases = phases
      /\ d.skip = c.skip /\ d.fail = c.fail /\ d.owner = c.owner /\ d.token = c.token
  BY <1>3, <1>4 DEF Conf
<1> QED BY <1>4, <1>5 DEF p

\* Phases are decoded one by one.
PhaseFn == [r \in RawPhase |-> DecodePhase(r)]

LEMMA DecodePhases ==
  ASSUME NEW s \in Seq(RawPhase)
  PROVE  /\ Decoded(s) = Image(PhaseFn, s)
         /\ Decoded(s) \in Seq(PhaseSet)
         /\ DOMAIN Decoded(s) = DOMAIN s
         /\ \A m \in DOMAIN s : Decoded(s)[m] = DecodePhase(s[m])
<1>1. DOMAIN s = 1 .. Len(s) /\ Len(s) \in Nat /\ \A m \in DOMAIN s : s[m] \in RawPhase
  OBVIOUS
<1>2. \A m \in DOMAIN s : DecodePhase(s[m]) \in PhaseSet /\ PhaseFn[s[m]] = DecodePhase(s[m])
  BY <1>1, DecodePhaseFields DEF PhaseFn
<1>3. Decoded(s) = [m \in DOMAIN s |-> DecodePhase(s[m])]
  BY DEF Decoded, MapSeq
<1>4. Decoded(s) \in Seq(PhaseSet)
  BY <1>1, <1>2, <1>3
<1>5. Decoded(s) = Image(PhaseFn, s)
  BY <1>2, <1>3 DEF Image
<1> QED BY <1>3, <1>4, <1>5

LEMMA DecodedConcat ==
  ASSUME NEW s \in Seq(RawPhase), NEW t \in Seq(RawPhase)
  PROVE  Decoded(s \o t) = Decoded(s) \o Decoded(t)
<1>1. s \o t \in Seq(RawPhase)
  BY ConcatType
<1>2. Image(PhaseFn, s \o t) = Image(PhaseFn, s) \o Image(PhaseFn, t)
  BY ImageConcat
<1> QED BY <1>1, <1>2, DecodePhases

LEMMA DecodeConf ==
  ASSUME NEW d \in Document
  PROVE  /\ Decode(d) \in Conf /\ Decode(d).phases = <<>>
         /\ Decode(d).skip = UnmarshalBool(d.skip) /\ Decode(d).fail = UnmarshalBool(d.fail)
         /\ Decode(d).owner = d.owner /\ Decode(d).token = d.token
<1>1. /\ UnmarshalBool(d.skip) \in Bool /\ UnmarshalBool(d.fail) \in Bool
      /\ d.owner \in Values /\ d.token \in Values /\ Unset \in Values
  BY BoolTypes, ConfigAssumption DEF Document, Values
<1> QED BY <1>1 DEF Decode, Conf

\* A document of one phase that is like the template.
LEMMA OnePhase ==
  ASSUME NEW p \in RawPhase
  PROVE  /\ [NoDoc EXCEPT !.phases = <<p>>] \in Document
         /\ [NoDoc EXCEPT !.phases = <<p>>].phases = <<p>>
<1>1. Unset \in Names /\ "absent" \in RawBools
  BY ConfigAssumption DEF RawBools
<1>2. [NoDoc EXCEPT !.phases = <<p>>] =
        [phases |-> <<p>>, skip |-> "absent", fail |-> "absent",
         owner |-> Unset, token |-> Unset]
  BY DEF NoDoc
<1>3. <<p>> \in Seq(RawPhase)
  OBVIOUS
<1> QED BY <1>1, <1>2, <1>3 DEF Document

LEMMA Documents ==
  /\ NoDoc \in Document /\ Template \in Document /\ TemplateParts \subseteq Document
  /\ \A in \in Inputs : in.doc \in Document
<1> DEFINE phase == PlainPhase("main")
           With(p) == [NoDoc EXCEPT !.phases = <<p>>]
           bare == [phase EXCEPT !.tasks = <<>>]
           idle == [PlainTask EXCEPT !.has = {}]
           idling == [phase EXCEPT !.tasks[1].has = {}]
<1>1. Unset \in Names /\ "main" \in Names
  BY ConfigAssumption, LoadAssumption
<1>2. "absent" \in RawBools /\ "absent" \in RawItems /\ {"command"} \subseteq TaskTypes
  BY DEF RawBools, RawItems, TaskTypes
<1>3. PlainTask \in RawTask /\ idle \in RawTask
  BY <1>1, <1>2 DEF PlainTask, RawTask
<1>4. phase \in RawPhase /\ phase.tasks = <<PlainTask>>
  <2>1. <<PlainTask>> \in Seq(RawTask)
    BY <1>3
  <2> QED BY <1>1, <1>2, <2>1 DEF PlainPhase, RawPhase
<1>5. Template = With(phase)
  BY DEF Template
<1> HIDE DEF phase
<1>6. bare \in RawPhase
  <2>1. <<>> \in Seq(RawTask)
    OBVIOUS
  <2> QED BY <1>4, <2>1 DEF RawPhase
<1>7. idling \in RawPhase
  <2>1. [phase.tasks EXCEPT ![1] = idle] = <<idle>> /\ <<idle>> \in Seq(RawTask)
    <3> HIDE DEF idle
    <3> QED BY <1>3, <1>4
  <2>2. idling = [phase EXCEPT !.tasks = [phase.tasks EXCEPT ![1] = idle]]
    BY <1>4
  <2> HIDE DEF idle, idling
  <2> QED BY <1>4, <2>1, <2>2 DEF RawPhase
<1>8. /\ With(phase) \in Document /\ With(bare) \in Document /\ With(idling) \in Document
      /\ With(phase).phases = <<phase>>
  <2> HIDE DEF bare, idling
  <2> QED BY <1>4, <1>6, <1>7, OnePhase
<1>9. NoDoc \in Document
  <2>1. <<>> \in Seq(RawPhase)
    OBVIOUS
  <2> QED BY <1>1, <1>2, <2>1 DEF NoDoc, Document
<1>10. /\ [Template EXCEPT !.phases[1].tasks = <<>>] = With(bare)
       /\ [Template EXCEPT !.phases[1].tasks[1].has = {}] = With(idling)
  <2>1. Template.phases[1] = phase
    BY <1>5, <1>8
  <2>2. ASSUME NEW q
        PROVE  [Template EXCEPT !.phases[1] = q] = With(q)
    <3>1. [<<phase>> EXCEPT ![1] = q] = <<q>>
      OBVIOUS
    <3> QED BY <1>5, <3>1 DEF NoDoc
  <2>3. /\ [Template EXCEPT !.phases[1].tasks = <<>>]
             = [Template EXCEPT !.phases[1] = [Template.phases[1] EXCEPT !.tasks = <<>>]]
        /\ [Template EXCEPT !.phases[1].tasks[1].has = {}]
             = [Template EXCEPT !.phases[1] =
                  [Template.phases[1] EXCEPT !.tasks[1].has = {}]]
    OBVIOUS
  <2> HIDE DEF With
  <2> QED BY <2>1, <2>2, <2>3
<1> HIDE DEF With, bare, idling
<1> QED BY <1>5, <1>8, <1>9, <1>10, LoadAssumption DEF TemplateParts

-----------------------------------------------------------------------------
(* The steps *)

RestInv == DataInv /\ StageInv /\ ExpandInv

LEMMA SplicedEmpty ==
  ASSUME NEW files
  PROVE  Spliced(<<>>, files) = <<>>
<1>1. Parts(<<>>, files) = <<>>
  BY DEF Parts
<1> QED BY <1>1, SplicedParts, FlattenEmpty

LEMMA NoneDecoded == Decoded(<<>>) = <<>>
BY DEF Decoded, MapSeq

LEMMA RestInitial ==
  ASSUME LInit
  PROVE  RestInv
<1>1. conf \in Conf /\ doc \in Document /\ conf.phases = <<>>
  BY Documents, DecodeConf DEF LInit
<1>2. at = "start" /\ k = 1 /\ expanded = <<>> /\ input \in Inputs
  BY DEF LInit, FileInit
<1>3. DataInv
  <2>1. <<>> \in Seq(Expansions)
    OBVIOUS
  <2> QED BY <1>1, <1>2, <2>1 DEF DataInv, Steps
<1>4. StageInv /\ ExpandInv
  BY <1>1, <1>2 DEF StageInv, ExpandInv
<1> QED BY <1>3, <1>4 DEF RestInv

\* A step of the files or of nobody leaves the rest alone, unless it is run's.
LEMMA FileMoves ==
  ASSUME DataInv, FileStep \/ (\E i \in Inits : InitStep(i)) \/ UNCHANGED lvars
  PROVE  /\ UNCHANGED <<input, doc, conf, k, expanded>>
         /\ \/ at' = at /\ (at = "read" => place' = place)
            \/ /\ at \in {"start", "find"} /\ at' \in {"find", "read", "not found"}
               /\ at' = "read" => place' \in Places
<1>1. CASE FileStep
  <2>1. CASE Begin
    <3>1. PICK path \in Given :
            IF path = NoPath THEN at' = "find" /\ place' = Yml /\ rseen' = There
            ELSE at' = "read" /\ place' = path /\ rseen' = {}
      BY <2>1 DEF Begin
    <3>2. path # NoPath => path \in Places
      BY ConfigFileAssumption
    <3> QED BY <1>1, <2>1, <3>1, <3>2 DEF Begin, FileStep
  <2>2. CASE Find
    BY <1>1, <2>2 DEF Find, FileStep
  <2>3. CASE NotFound
    BY <1>1, <2>3 DEF NotFound, FileStep
  <2>4. CASE \E p \in {Yml, Yaml} : UserSaves(p)
    BY <1>1, <2>4 DEF UserSaves, FileStep
  <2> QED BY <1>1, <2>1, <2>2, <2>3, <2>4 DEF FileStep, Search
<1>2. CASE \E i \in Inits : InitStep(i)
  BY <1>2 DEF InitStep, InitCommand, StatYml, StatYaml, Create, Write, InitGoes
<1>3. CASE UNCHANGED lvars
  BY <1>3 DEF lvars, fvars
<1> QED BY <1>1, <1>2, <1>3

LEMMA StageSame ==
  ASSUME UNCHANGED <<at, input, doc, conf, k>>
  PROVE  StageInv' = StageInv
BY DEF StageInv, AtPhases, AtTasks, AtSet, AtFiles, Ready, Listing, Undecided, Decided,
       Checked, Raws, From

LEMMA StepFile ==
  ASSUME RestInv, FileStep \/ (\E i \in Inits : InitStep(i)) \/ UNCHANGED lvars
  PROVE  RestInv'
<1>1. DataInv /\ StageInv /\ ExpandInv
  BY DEF RestInv
<1>2. /\ UNCHANGED <<input, doc, conf, k, expanded>>
      /\ \/ at' = at /\ (at = "read" => place' = place)
         \/ /\ at \in {"start", "find"} /\ at' \in {"find", "read", "not found"}
            /\ at' = "read" => place' \in Places
  BY <1>1, FileMoves
<1>3. CASE at' = at /\ (at = "read" => place' = place)
  <2>1. DataInv'
    BY <1>1, <1>2, <1>3 DEF DataInv
  <2>2. StageInv'
    BY <1>1, <1>2, <1>3, StageSame
  <2>3. ExpandInv'
    BY <1>1, <1>2, <1>3 DEF ExpandInv
  <2> QED BY <2>1, <2>2, <2>3 DEF RestInv
<1>4. CASE /\ at \in {"start", "find"} /\ at' \in {"find", "read", "not found"}
           /\ at' = "read" => place' \in Places
  <2>1. DataInv'
    BY <1>1, <1>2, <1>4 DEF DataInv, Steps
  <2>2. StageInv'
    BY <1>4 DEF StageInv
  <2>3. ExpandInv'
    BY <1>1, <1>2, <1>4 DEF ExpandInv
  <2> QED BY <2>1, <2>2, <2>3 DEF RestInv
<1> QED BY <1>2, <1>3, <1>4

LEMMA StepFails ==
  ASSUME RestInv, NEW here, Fails(here)
  PROVE  RestInv'
<1>1. at' = "failed" /\ UNCHANGED <<input, doc, conf, k, expanded>>
  BY DEF Fails, Goes
<1>2. DataInv'
  BY <1>1 DEF RestInv, DataInv, Steps
<1>3. StageInv'
  BY <1>1 DEF StageInv
<1>4. ExpandInv'
  BY <1>1 DEF RestInv, ExpandInv
<1> QED BY <1>2, <1>3, <1>4 DEF RestInv

LEMMA StepRead ==
  ASSUME FileTypeOK, RestInv, Read
  PROVE  RestInv'
<1>1. /\ at = "read" /\ at' = "phases" /\ input' = input /\ k' = 1
      /\ expanded' = expanded
  BY DEF Read, Goes
<1>2. PICK d \in Says(disk[place]) : doc' = d /\ conf' = Decode(d)
  BY DEF Read
<1>3. DataInv /\ ExpandInv
  BY DEF RestInv
<1>4. expanded = <<>> /\ input \in Inputs /\ place \in Places
  BY <1>1, <1>3 DEF ExpandInv, DataInv
<1>5. d \in Document
  <2>1. disk[place] \in Contents
    BY <1>4 DEF FileTypeOK
  <2>2. Says(disk[place]) \subseteq TemplateParts \cup {Template, input.doc}
    BY <2>1 DEF Contents, Says
  <2> QED BY <1>4, <2>2, Documents
<1>6. /\ conf' \in Conf /\ conf'.phases = <<>>
      /\ conf'.skip = UnmarshalBool(d.skip) /\ conf'.fail = UnmarshalBool(d.fail)
      /\ conf'.owner = d.owner /\ conf'.token = d.token
  BY <1>2, <1>5, DecodeConf
<1>7. DataInv'
  BY <1>1, <1>2, <1>3, <1>5, <1>6 DEF DataInv, Steps
<1>8. AtPhases'
  <2>1. d.phases \in Seq(RawPhase)
    BY <1>5 DEF Document
  <2>2. /\ 1 \in 1 .. Len(d.phases) + 1 /\ 1 - 1 = 0 /\ 1 .. 0 = {}
        /\ SubSeq(d.phases, 1, 0) = <<>>
    BY <2>1
  <2> QED BY <1>1, <1>2, <1>6, <2>2, SplicedEmpty, NoneDecoded DEF AtPhases, Undecided
<1>9. StageInv'
  BY <1>1, <1>8 DEF StageInv
<1>10. ExpandInv'
  BY <1>1, <1>4, <1>6 DEF ExpandInv
<1> QED BY <1>7, <1>9, <1>10 DEF RestInv

LEMMA StepImportPhase ==
  ASSUME RestInv, ImportPhase
  PROVE  RestInv'
<1> DEFINE entries == doc.phases
           p == entries[k]
           so == Spliced(SubSeq(entries, 1, k - 1), PhaseFiles)
           part == Part(p, PhaseFiles)
<1>1. /\ at = "phases" /\ at' = "phases" /\ input' = input /\ k' = k + 1
      /\ expanded' = expanded /\ doc' = doc /\ k \in DOMAIN entries
      /\ p.import \in DOMAIN PhaseFiles \cup {Unset}
      /\ conf' = [conf EXCEPT !.phases = conf.phases \o Decoded(part)]
  BY DEF ImportPhase, Goes, Part
<1>2. DataInv /\ AtPhases /\ ExpandInv
  BY <1>1 DEF RestInv, StageInv
<1>3. /\ entries \in Seq(RawPhase) /\ k \in 1 .. Len(entries) /\ k \in Nat
      /\ PhaseFiles \in [DOMAIN PhaseFiles -> Seq(RawPhase)]
  <2>1. entries \in Seq(RawPhase)
    BY <1>2 DEF DataInv, Document
  <2>2. k \in 1 .. Len(entries)
    BY <1>1, <2>1
  <2>3. PhaseFiles \in [DOMAIN PhaseFiles -> Seq(RawPhase)]
    BY LoadAssumption
  <2> QED BY <2>1, <2>2, <2>3
<1>4. \A m \in 1 .. k : entries[m].import \in DOMAIN PhaseFiles \cup {Unset}
  BY <1>1, <1>2, <1>3 DEF AtPhases
<1>5. /\ Spliced(SubSeq(entries, 1, k), PhaseFiles) = so \o part
      /\ so \in Seq(RawPhase) /\ part \in Seq(RawPhase)
  <2> DEFINE n == k - 1
  <2>1. n \in 0 .. Len(entries) - 1 /\ n + 1 = k
    BY <1>3
  <2> HIDE DEF n
  <2>2. /\ Spliced(SubSeq(entries, 1, n + 1), PhaseFiles)
             = Spliced(SubSeq(entries, 1, n), PhaseFiles) \o Part(entries[n + 1], PhaseFiles)
        /\ Spliced(SubSeq(entries, 1, n), PhaseFiles) \in Seq(RawPhase)
        /\ Part(entries[n + 1], PhaseFiles) \in Seq(RawPhase)
    BY <1>3, <1>4, <2>1, SplicedNext
  <2> QED BY <2>1, <2>2 DEF n
<1>6. conf.phases = Decoded(so) /\ Undecided
  BY <1>2 DEF AtPhases
<1> HIDE DEF so, part
<1>7. conf.phases \o Decoded(part) = Decoded(so \o part)
  BY <1>5, <1>6, DecodedConcat
<1>8. Decoded(so \o part) \in Seq(PhaseSet)
  BY <1>5, ConcatType, DecodePhases
<1>9. /\ conf' \in Conf /\ conf'.phases = Decoded(so \o part)
      /\ conf'.skip = conf.skip /\ conf'.fail = conf.fail
      /\ conf'.owner = conf.owner /\ conf'.token = conf.token
  BY <1>1, <1>2, <1>7, <1>8 DEF DataInv, Conf
<1>10. DataInv'
  BY <1>1, <1>2, <1>3, <1>9 DEF DataInv
<1>11. AtPhases'
  <2>1. /\ k + 1 \in 1 .. Len(entries) + 1 /\ (k + 1) - 1 = k
    BY <1>3
  <2> QED BY <1>1, <1>4, <1>5, <1>6, <1>9, <2>1 DEF AtPhases, Undecided
<1>12. StageInv'
  BY <1>1, <1>11 DEF StageInv
<1>13. ExpandInv'
  <2>1. expanded = <<>> /\ Len(conf'.phases) \in Nat
    BY <1>1, <1>2, <1>8, <1>9 DEF ExpandInv
  <2> QED BY <1>1, <2>1 DEF ExpandInv
<1> QED BY <1>10, <1>12, <1>13 DEF RestInv

LEMMA StepPhasesImported ==
  ASSUME RestInv, PhasesImported
  PROVE  RestInv'
<1> DEFINE entries == doc.phases
<1>1. /\ at = "phases" /\ at' = "tasks" /\ k' = 1 /\ k \notin DOMAIN entries
      /\ UNCHANGED <<input, expanded, doc, conf>>
  BY DEF PhasesImported, Goes
<1>2. DataInv /\ AtPhases /\ ExpandInv
  BY <1>1 DEF RestInv, StageInv
<1>3. entries \in Seq(RawPhase)
  BY <1>2 DEF DataInv, Document
<1>4. k - 1 = Len(entries) /\ DOMAIN entries = 1 .. Len(entries)
  BY <1>1, <1>2, <1>3 DEF AtPhases
<1>5. ImportsThere(entries, PhaseFiles)
  BY <1>2, <1>4 DEF AtPhases, ImportsThere
<1>6. conf.phases = Decoded(Raws)
  <2>1. SubSeq(entries, 1, Len(entries)) = entries
    BY <1>3
  <2> QED BY <1>2, <1>4, <2>1 DEF AtPhases, Raws
<1>7. /\ Raws \in Seq(RawPhase) /\ Len(Raws) \in Nat
      /\ DOMAIN conf.phases = DOMAIN Raws
      /\ \A m \in DOMAIN Raws : conf.phases[m] = DecodePhase(Raws[m])
  BY <1>2, <1>5, <1>6, RawsType, DecodePhases DEF DataInv
<1>8. Raws' = Raws
  BY <1>1 DEF Raws
<1>9. DataInv'
  BY <1>1, <1>2 DEF DataInv, Steps
<1>10. AtTasks'
  <2>1. \A m \in DOMAIN Raws : ~(m < 1) /\ 1 \in 1 .. Len(Raws) + 1
    BY <1>7
  <2>2. Listing'
    <3>1. 1 \in 1 .. Len(Raws) + 1
      BY <1>7
    <3> QED BY <1>1, <1>5, <1>7, <1>8, <3>1 DEF Listing
  <2>3. Undecided'
    BY <1>1, <1>2 DEF AtPhases, Undecided
  <2> QED BY <1>1, <1>7, <1>8, <2>1, <2>2, <2>3 DEF AtTasks
<1>11. StageInv'
  BY <1>1, <1>10 DEF StageInv
<1>12. ExpandInv'
  BY <1>1, <1>2 DEF ExpandInv
<1> QED BY <1>9, <1>11, <1>12 DEF RestInv

\* The facts each step at a list of phases begins with.
LEMMA AtList ==
  ASSUME DataInv, Listing
  PROVE  /\ Raws \in Seq(RawPhase) /\ Len(Raws) \in Nat
         /\ DOMAIN Raws = 1 .. Len(Raws) /\ DOMAIN conf.phases = 1 .. Len(Raws)
         /\ \A m \in DOMAIN Raws : Raws[m] \in RawPhase
         /\ k \in DOMAIN conf.phases => k \in DOMAIN Raws /\ k + 1 \in 1 .. Len(Raws) + 1
         /\ k \notin DOMAIN conf.phases => k = Len(Raws) + 1
<1>1. /\ Raws \in Seq(RawPhase) /\ DOMAIN Raws = 1 .. Len(Raws) /\ Len(Raws) \in Nat
      /\ \A m \in DOMAIN Raws : Raws[m] \in RawPhase
  BY RawsType DEF DataInv, Listing
<1>2. DOMAIN conf.phases = DOMAIN Raws /\ k \in 1 .. Len(Raws) + 1
  BY DEF Listing
<1> HIDE DEF Raws
<1> QED BY <1>1, <1>2

\* A step from one phase to the next.
LEMMA NextPhase ==
  ASSUME DataInv, Listing, k \in DOMAIN conf.phases, doc' = doc, k' = k + 1,
         DOMAIN conf'.phases = DOMAIN conf.phases
  PROVE  /\ Raws' = Raws /\ Listing'
         /\ \A m \in DOMAIN Raws : (m < k' <=> m < k \/ m = k) /\ k \in DOMAIN Raws
<1>1. Raws' = Raws
  BY DEF Raws
<1>2. /\ Len(Raws) \in Nat /\ DOMAIN Raws = 1 .. Len(Raws)
      /\ k \in DOMAIN Raws /\ k + 1 \in 1 .. Len(Raws) + 1
  BY AtList
<1> HIDE DEF Raws
<1>3. Listing'
  BY <1>1, <1>2 DEF Listing
<1>4. \A m \in DOMAIN Raws : m < k' <=> m < k \/ m = k
  BY <1>2
<1> QED BY <1>1, <1>2, <1>3, <1>4

LEMMA StepImportTasks ==
  ASSUME RestInv, ImportTasks
  PROVE  RestInv'
<1> DEFINE r == Raws[k]
           tasks == FlattenSeq(MapSeq(ImportedTasks, conf.phases[k].tasks))
<1>1. /\ at = "tasks" /\ at' = "tasks" /\ k' = k + 1 /\ k \in DOMAIN conf.phases
      /\ UNCHANGED <<input, expanded, doc>>
      /\ conf' = [conf EXCEPT !.phases[k].tasks = tasks]
  BY DEF ImportTasks, AtPhase, Goes
<1>2. DataInv /\ AtTasks /\ ExpandInv /\ Listing /\ conf \in Conf
  BY <1>1 DEF RestInv, StageInv, AtTasks, DataInv
<1>3. r \in RawPhase /\ k \in DOMAIN Raws /\ Len(Raws) \in Nat /\ k \in Nat
  BY <1>1, <1>2, AtList DEF DataInv
<1>4. conf.phases[k] = DecodePhase(r)
  BY <1>2, <1>3 DEF AtTasks
<1>5. conf.phases[k].tasks = MapSeq(DecodeTask, r.tasks)
  BY <1>3, <1>4, DecodePhaseFields
<1>6. ImportsThere(r.tasks, TaskFiles)
  <2>1. r.tasks \in Seq(RawTask)
    BY <1>3 DEF RawPhase
  <2>2. \A m \in DOMAIN conf.phases[k].tasks :
          conf.phases[k].tasks[m].src.import \in DOMAIN TaskFiles \cup {Unset}
    BY DEF ImportTasks, TaskImportsThere, Range
  <2>3. \A m \in DOMAIN r.tasks : /\ m \in DOMAIN conf.phases[k].tasks
                                  /\ conf.phases[k].tasks[m].src = r.tasks[m]
    <3>1. \A m \in DOMAIN r.tasks : /\ m \in DOMAIN conf.phases[k].tasks
                                    /\ conf.phases[k].tasks[m] = DecodeTask(r.tasks[m])
      BY <1>5, <2>1, DecodeAll
    <3>2. \A t : DecodeTask(t).src = t
      BY DEF DecodeTask
    <3> QED BY <3>1, <3>2, Zenon
  <2> QED BY <2>2, <2>3 DEF ImportsThere
<1>7. tasks = MapSeq(DecodeTask, TasksOf(r)) /\ tasks \in Seq(TaskSet)
  BY <1>3, <1>5, <1>6, TasksImport, DecodeAll
<1>8. [conf.phases[k] EXCEPT !.tasks = tasks] = ImportedPhase(r)
  BY <1>4, <1>7 DEF ImportedPhase
<1> HIDE DEF tasks, r
<1>9. /\ conf' \in Conf
      /\ conf'.skip = conf.skip /\ conf'.fail = conf.fail
      /\ conf'.owner = conf.owner /\ conf'.token = conf.token
      /\ DOMAIN conf'.phases = DOMAIN conf.phases /\ Len(conf'.phases) = Len(conf.phases)
      /\ conf'.phases[k] = ImportedPhase(r)
      /\ \A m \in DOMAIN conf.phases \ {k} : conf'.phases[m] = conf.phases[m]
  BY <1>1, <1>2, <1>7, <1>8, OtherTasks
<1>10. DataInv'
  BY <1>1, <1>2, <1>3, <1>9 DEF DataInv
<1>11. AtTasks'
  <2>1. /\ Raws' = Raws /\ Listing'
        /\ \A m \in DOMAIN Raws : m < k' <=> m < k \/ m = k
    BY <1>1, <1>2, <1>9, NextPhase
  <2>2. Undecided'
    BY <1>1, <1>2, <1>9 DEF AtTasks, Undecided
  <2>3. \A m \in DOMAIN Raws : m \in DOMAIN conf.phases
    BY <1>2 DEF Listing
  <2>4. ASSUME NEW m \in DOMAIN Raws
        PROVE  IF m < k'
               THEN /\ ImportsThere(Raws[m].tasks, TaskFiles)
                    /\ conf'.phases[m] = ImportedPhase(Raws[m])
               ELSE conf'.phases[m] = DecodePhase(Raws[m])
    <3>1. CASE m = k
      BY <1>6, <1>9, <2>1, <3>1 DEF r
    <3>2. CASE m # k
      BY <1>2, <1>9, <2>1, <2>3, <3>2 DEF AtTasks
    <3> QED BY <3>1, <3>2
  <2> QED BY <2>1, <2>2, <2>4 DEF AtTasks
<1>12. StageInv'
  BY <1>1, <1>11 DEF StageInv
<1>13. ExpandInv'
  BY <1>1, <1>2, <1>9 DEF ExpandInv
<1> QED BY <1>10, <1>12, <1>13 DEF RestInv

LEMMA StepTasksImported ==
  ASSUME RestInv, TasksImported
  PROVE  RestInv'
<1>1. /\ at = "tasks" /\ at' = "set" /\ k' = 1 /\ k \notin DOMAIN conf.phases
      /\ UNCHANGED <<input, expanded, doc, conf>>
  BY DEF TasksImported, Goes
<1>2. DataInv /\ AtTasks /\ ExpandInv /\ Listing
  BY <1>1 DEF RestInv, StageInv, AtTasks
<1>3. /\ Raws' = Raws /\ Len(Raws) \in Nat /\ 1 \in 1 .. Len(Raws) + 1
      /\ \A m \in DOMAIN Raws : m < k
  BY <1>1, <1>2, AtList DEF Raws
<1>4. DataInv'
  BY <1>1, <1>2 DEF DataInv, Steps
<1>5. AtSet'
  BY <1>1, <1>2, <1>3 DEF AtTasks, AtSet, Listing, Undecided
<1>6. StageInv'
  BY <1>1, <1>5 DEF StageInv
<1>7. ExpandInv'
  BY <1>1, <1>2 DEF ExpandInv
<1> QED BY <1>4, <1>6, <1>7 DEF RestInv

LEMMA StepReadFiles ==
  ASSUME RestInv, ReadFiles
  PROVE  RestInv'
<1> DEFINE r == Raws[k]
           tasks == MapSeq(ReadTask, conf.phases[k].tasks)
<1>1. /\ at = "files" /\ at' = "files" /\ k' = k + 1 /\ k \in DOMAIN conf.phases
      /\ UNCHANGED <<input, expanded, doc>>
      /\ conf' = [conf EXCEPT !.phases[k].tasks = tasks]
  BY DEF ReadFiles, AtPhase, Goes
<1>2. DataInv /\ AtFiles /\ ExpandInv /\ Listing /\ conf \in Conf
  BY <1>1 DEF RestInv, StageInv, AtFiles, DataInv
<1>3. r \in RawPhase /\ k \in DOMAIN Raws /\ Len(Raws) \in Nat /\ k \in Nat
  BY <1>1, <1>2, AtList DEF DataInv
<1>4. conf.phases[k] = SetPhaseOf(r) /\ ImportsThere(r.tasks, TaskFiles)
  BY <1>2, <1>3 DEF AtFiles
<1>5. TextThere(r)
  <2>1. TasksOf(r) \in Seq(RawTask)
    BY <1>3, <1>4, TasksImport
  <2>2. ASSUME NEW m \in DOMAIN TasksOf(r)
        PROVE  FilesNamed(TasksOf(r)[m]) \subseteq DOMAIN TextFiles
    <3>1. TasksOf(r)[m] \in RawTask
      BY <2>1
    <3>2. /\ m \in DOMAIN conf.phases[k].tasks
          /\ conf.phases[k].tasks[m].src = TasksOf(r)[m]
      <4>1. /\ DOMAIN SetPhaseOf(r).tasks = DOMAIN TasksOf(r)
            /\ SetPhaseOf(r).tasks[m] = SetTask(TasksOf(r)[m])
        BY <1>3, <1>4, SetPhaseFields
      <4>2. SetTask(TasksOf(r)[m]).src = TasksOf(r)[m]
        BY <3>1, SetTaskFields
      <4> QED BY <1>4, <4>1, <4>2
    <3>3. FilesOf(conf.phases[k].tasks[m]) \subseteq DOMAIN TextFiles
      BY <3>2 DEF ReadFiles, FilesThere, Range
    <3> QED BY <3>2, <3>3 DEF FilesOf, FilesNamed
  <2> QED BY <2>2 DEF TextThere
<1>6. [conf.phases[k] EXCEPT !.tasks = tasks] = ReadyPhase(r)
  BY <1>4 DEF ReadyPhase
<1>7. tasks \in Seq(TaskSet)
  <2>1. ReadyPhase(r) \in PhaseSet
    BY <1>3, <1>4, <1>5, ReadyPhaseFields
  <2>2. conf.phases[k] \in PhaseSet
    BY <1>1, <1>2, ConfFields
  <2> HIDE DEF tasks
  <2> QED BY <1>6, <2>1, <2>2 DEF PhaseSet
<1> HIDE DEF tasks, r
<1>8. /\ conf' \in Conf
      /\ conf'.skip = conf.skip /\ conf'.fail = conf.fail
      /\ conf'.owner = conf.owner /\ conf'.token = conf.token
      /\ DOMAIN conf'.phases = DOMAIN conf.phases /\ Len(conf'.phases) = Len(conf.phases)
      /\ conf'.phases[k] = ReadyPhase(r)
      /\ \A m \in DOMAIN conf.phases \ {k} : conf'.phases[m] = conf.phases[m]
  BY <1>1, <1>2, <1>6, <1>7, OtherTasks
<1>9. DataInv'
  BY <1>1, <1>2, <1>3, <1>8 DEF DataInv
<1>10. AtFiles'
  <2>1. /\ Raws' = Raws /\ Listing'
        /\ \A m \in DOMAIN Raws : m < k' <=> m < k \/ m = k
    BY <1>1, <1>2, <1>8, NextPhase
  <2>2. Decided'
    BY <1>1, <1>2, <1>8 DEF AtFiles, Decided, From
  <2>3. Checked'
    BY <1>2, <2>1 DEF AtFiles, Checked
  <2>4. \A m \in DOMAIN Raws : m \in DOMAIN conf.phases
    BY <1>2 DEF Listing
  <2>5. ASSUME NEW m \in DOMAIN Raws
        PROVE  /\ ImportsThere(Raws[m].tasks, TaskFiles)
               /\ IF m < k' THEN TextThere(Raws[m]) /\ conf'.phases[m] = ReadyPhase(Raws[m])
                  ELSE conf'.phases[m] = SetPhaseOf(Raws[m])
    <3>1. CASE m = k
      BY <1>4, <1>5, <1>8, <2>1, <3>1 DEF r
    <3>2. CASE m # k
      BY <1>2, <1>8, <2>1, <2>4, <3>2 DEF AtFiles
    <3> QED BY <3>1, <3>2
  <2> QED BY <2>1, <2>2, <2>3, <2>5 DEF AtFiles
<1>11. StageInv'
  BY <1>1, <1>10 DEF StageInv
<1>12. ExpandInv'
  BY <1>1, <1>2, <1>8 DEF ExpandInv
<1> QED BY <1>9, <1>11, <1>12 DEF RestInv

LEMMA StepFilesRead ==
  ASSUME RestInv, FilesRead
  PROVE  RestInv'
<1>1. /\ at = "files" /\ at' = "expand" /\ k' = 1 /\ k \notin DOMAIN conf.phases
      /\ UNCHANGED <<input, expanded, doc, conf>>
  BY DEF FilesRead, Goes
<1>2. DataInv /\ AtFiles /\ ExpandInv /\ Listing
  BY <1>1 DEF RestInv, StageInv, AtFiles
<1>3. /\ Raws' = Raws /\ Len(Raws) \in Nat /\ 1 \in 1 .. Len(Raws) + 1
      /\ \A m \in DOMAIN Raws : m < k
  BY <1>1, <1>2, AtList DEF Raws
<1>4. DataInv'
  BY <1>1, <1>2 DEF DataInv, Steps
<1>5. Ready'
  BY <1>1, <1>2, <1>3 DEF AtFiles, Ready, Listing, Decided, Checked, From
<1>6. StageInv'
  BY <1>1, <1>5 DEF StageInv
<1>7. ExpandInv'
  <2>1. expanded = <<>>
    BY <1>1, <1>2 DEF ExpandInv
  <2> QED BY <1>1, <1>2, <2>1 DEF ExpandInv
<1> QED BY <1>4, <1>6, <1>7 DEF RestInv

LEMMA StepExpandPhase ==
  ASSUME RestInv, ExpandPhase
  PROVE  RestInv'
<1> DEFINE tasks == conf.phases[k].tasks
<1>1. /\ at = "expand" /\ at' = "expand" /\ k' = k + 1 /\ k \in DOMAIN conf.phases
      /\ UNCHANGED <<input, doc, conf>>
  BY DEF ExpandPhase, AtPhase, Goes
<1>2. PICK ts \in TasksUpTo(tasks) \cup {Failed} : expanded' = Append(expanded, ts)
  BY DEF ExpandPhase
<1>3. DataInv /\ Ready /\ ExpandInv /\ Listing /\ conf \in Conf
  BY <1>1 DEF RestInv, StageInv, Ready, DataInv
<1>4. /\ k \in DOMAIN Raws /\ k + 1 \in 1 .. Len(Raws) + 1 /\ Len(Raws) \in Nat
      /\ DOMAIN conf.phases = 1 .. Len(Raws) /\ DOMAIN Raws = 1 .. Len(Raws)
  BY <1>1, <1>3, AtList
<1>5. Len(conf.phases) = Len(Raws)
  BY <1>3, <1>4, ConfFields
<1>6. ts \in Expansions
  <2>1. tasks \in Seq(TaskSet)
    BY <1>1, <1>3, ConfFields DEF PhaseSet
  <2>2. /\ Len(tasks) \in Nat
        /\ \A m \in 1 .. Len(tasks) : tasks[m].src.items \in RawItems
    <3>1. Len(tasks) \in Nat /\ \A m \in 1 .. Len(tasks) : tasks[m] \in TaskSet
      <4> HIDE DEF tasks
      <4> QED BY <2>1
    <3>2. \A t \in TaskSet : t.src.items \in RawItems
      BY DEF TaskSet, RawTask
    <3> HIDE DEF tasks
    <3> QED BY <3>1, <3>2
  <2>3. /\ ts = Failed \/ ts = Got(ts.list)
        /\ ts.ok => InOrder(tasks, Len(tasks), ts.list)
    <3> HIDE DEF tasks
    <3> QED BY <1>2, <2>2, TasksInOrder DEF Failed
  <2>4. CASE ts = Failed
    BY <2>4 DEF Failed, Expansions
  <2>5. CASE ts = Got(ts.list)
    <3>1. ts.ok
      BY <2>5 DEF Got
    <3>2. ts.list \in Seq((1 .. Len(tasks)) \X Int)
      BY <2>3, <3>1 DEF InOrder
    <3>3. (1 .. Len(tasks)) \X Int \subseteq Nat \X Int
      BY <2>2
    <3>4. ts.list \in Seq(Nat \X Int)
      <4> HIDE DEF tasks
      <4> QED BY <3>2, <3>3
    <3>5. \A list \in Seq(Nat \X Int) : Got(list) \in Expansions
      BY DEF Got, Expansions
    <3> QED BY <2>5, <3>4, <3>5, Zenon
  <2> QED BY <2>3, <2>4, <2>5
<1>7. /\ expanded \in Seq(Expansions) /\ Len(expanded) = k - 1
      /\ \A p \in DOMAIN expanded :
           expanded[p] \in TasksUpTo(conf.phases[p].tasks) \cup {Failed}
  BY <1>1, <1>3 DEF DataInv, ExpandInv
<1>8. /\ expanded' \in Seq(Expansions) /\ Len(expanded') = k
      /\ DOMAIN expanded' = 1 .. k /\ expanded'[k] = ts
      /\ \A p \in 1 .. k : p # k => p \in DOMAIN expanded /\ expanded'[p] = expanded[p]
  <2>1. k \in Nat \ {0}
    BY <1>3 DEF DataInv
  <2> HIDE DEF Expansions
  <2> QED BY <1>2, <1>6, <1>7, <2>1
<1>9. DataInv'
  BY <1>1, <1>3, <1>8 DEF DataInv
<1>10. StageInv'
  <2>1. Raws' = Raws
    BY <1>1 DEF Raws
  <2>2. Listing'
    BY <1>1, <1>3, <1>4, <2>1 DEF Listing
  <2>3. Decided' /\ Checked'
    BY <1>1, <1>3, <2>1 DEF Ready, Decided, Checked, From
  <2>4. Ready'
    BY <1>1, <1>3, <2>1, <2>2, <2>3 DEF Ready
  <2> QED BY <1>1, <2>4 DEF StageInv
<1>11. ExpandInv'
  <2>1. \A p \in 1 .. k :
          expanded'[p] \in TasksUpTo(conf.phases[p].tasks) \cup {Failed}
    BY <1>2, <1>7, <1>8
  <2>2. k <= Len(conf.phases) /\ (k + 1) - 1 = k
    BY <1>4, <1>5
  <2> QED BY <1>1, <1>8, <2>1, <2>2 DEF ExpandInv
<1> QED BY <1>9, <1>10, <1>11 DEF RestInv

LEMMA StepAllExpanded ==
  ASSUME RestInv, AllExpanded
  PROVE  RestInv'
<1>1. /\ at = "expand" /\ at' = "done"
      /\ UNCHANGED <<input, doc, conf, k, expanded>>
  BY DEF AllExpanded, Goes
<1>2. DataInv /\ Ready /\ ExpandInv
  BY <1>1 DEF RestInv, StageInv
<1>3. DataInv'
  BY <1>1, <1>2 DEF DataInv, Steps
<1>4. Ready'
  BY <1>1, <1>2 DEF Ready, Listing, Decided, Checked, From, Raws
<1>5. StageInv'
  BY <1>1, <1>4 DEF StageInv
<1>6. ExpandInv'
  BY <1>1, <1>2 DEF ExpandInv
<1> QED BY <1>3, <1>5, <1>6 DEF RestInv

\* The first of the sources that is set.
Either(a, b) == IF a # Unset THEN a ELSE b

LEMMA FirstIs ==
  ASSUME NEW s, NEW n \in DOMAIN s, DOMAIN s \subseteq Nat, s[n] # Unset,
         \A m \in DOMAIN s : m < n => s[m] = Unset
  PROVE  First(s) = s[n]
<1> DEFINE set == {m \in DOMAIN s : s[m] # Unset}
<1>1. n \in set /\ \A m \in set : n <= m
  OBVIOUS
<1>2. \A x \in set : (\A m \in set : x <= m) => x = n
  BY <1>1
<1>3. Min(set) = n
  <2> HIDE DEF set
  <2> QED BY <1>1, <1>2 DEF Min
<1> QED BY <1>1, <1>3 DEF First

LEMMA FirstOfNone ==
  ASSUME NEW s, \A m \in DOMAIN s : s[m] = Unset
  PROVE  First(s) = Unset
BY DEF First

LEMMA FirstOfThree ==
  ASSUME NEW s, DOMAIN s = 1 .. 3
  PROVE  First(s) = Either(s[1], Either(s[2], s[3]))
<1>1. 1 \in 1 .. 3 /\ 2 \in 1 .. 3 /\ 3 \in 1 .. 3 /\ 1 .. 3 = {1, 2, 3}
  OBVIOUS
<1>2. CASE s[1] # Unset
  BY <1>1, <1>2, FirstIs DEF Either
<1>3. CASE s[1] = Unset /\ s[2] # Unset
  BY <1>1, <1>3, FirstIs DEF Either
<1>4. CASE s[1] = Unset /\ s[2] = Unset /\ s[3] # Unset
  BY <1>1, <1>4, FirstIs DEF Either
<1>5. CASE s[1] = Unset /\ s[2] = Unset /\ s[3] = Unset
  BY <1>1, <1>5, FirstOfNone DEF Either
<1> QED BY <1>2, <1>3, <1>4, <1>5

LEMMA FirstOfFour ==
  ASSUME NEW s, DOMAIN s = 1 .. 4
  PROVE  First(s) = Either(s[1], Either(s[2], Either(s[3], s[4])))
<1>1. /\ 1 \in 1 .. 4 /\ 2 \in 1 .. 4 /\ 3 \in 1 .. 4 /\ 4 \in 1 .. 4
      /\ 1 .. 4 = {1, 2, 3, 4}
  OBVIOUS
<1>2. CASE s[1] # Unset
  BY <1>1, <1>2, FirstIs DEF Either
<1>3. CASE s[1] = Unset /\ s[2] # Unset
  BY <1>1, <1>3, FirstIs DEF Either
<1>4. CASE s[1] = Unset /\ s[2] = Unset /\ s[3] # Unset
  BY <1>1, <1>4, FirstIs DEF Either
<1>5. CASE s[1] = Unset /\ s[2] = Unset /\ s[3] = Unset /\ s[4] # Unset
  BY <1>1, <1>5, FirstIs DEF Either
<1>6. CASE s[1] = Unset /\ s[2] = Unset /\ s[3] = Unset /\ s[4] = Unset
  BY <1>1, <1>6, FirstOfNone DEF Either
<1> QED BY <1>2, <1>3, <1>4, <1>5, <1>6

LEMMA FromType ==
  ASSUME NEW source \in Sources
  PROVE  From(source) \in {source, Unset} /\ source # Unset
BY DEF From, Sources, Unset

\* The owner and the token that Set decides on.
SetOwner ==
  IF From("cli owner") # Unset THEN "cli owner"
  ELSE IF input.env.ci /\ conf.owner = Unset THEN From("ci owner") ELSE conf.owner

SetToken ==
  IF From("cli token") # Unset THEN "cli token"
  ELSE IF conf.token # Unset THEN conf.token
  ELSE IF From("GITHUB_TOKEN") # Unset THEN From("GITHUB_TOKEN")
  ELSE From("GITHUB_ACCESS_TOKEN")

LEMMA SetSettings ==
  ASSUME conf \in Conf
  PROVE  LET d == SetEnv(SetCLIArg(conf))
         IN  /\ d \in Conf
             /\ d.phases = conf.phases /\ d.skip = conf.skip /\ d.fail = conf.fail
             /\ d.owner = SetOwner /\ d.token = SetToken
<1> DEFINE c == SetCLIArg(conf)
           d == SetEnv(c)
           owner == IF From("cli owner") # Unset THEN "cli owner" ELSE conf.owner
           token == IF From("cli token") # Unset THEN "cli token" ELSE conf.token
           token2 == Or(Or(token, "GITHUB_TOKEN"), "GITHUB_ACCESS_TOKEN")
           owner2 == IF input.env.ci THEN Or(owner, "ci owner") ELSE owner
<1>1. /\ From("cli owner") \in {"cli owner", Unset}
      /\ From("cli token") \in {"cli token", Unset}
      /\ From("ci owner") \in {"ci owner", Unset}
      /\ From("GITHUB_TOKEN") \in {"GITHUB_TOKEN", Unset}
      /\ From("GITHUB_ACCESS_TOKEN") \in {"GITHUB_ACCESS_TOKEN", Unset}
  BY FromType DEF Sources
<1>2. /\ Unset \in Values /\ Sources \subseteq Values
      /\ {"cli owner", "cli token", "ci owner", "GITHUB_TOKEN", "GITHUB_ACCESS_TOKEN"}
           \subseteq Sources
      /\ conf.owner \in Values /\ conf.token \in Values
  BY ConfigAssumption DEF Values, Sources, Conf
<1>3. c = [conf EXCEPT !.owner = owner, !.token = token]
  BY DEF SetCLIArg
<1>4. owner \in Values /\ token \in Values
  BY <1>2
<1>5. owner2 \in Values /\ token2 \in Values
  BY <1>1, <1>2, <1>4 DEF Or
<1>6. owner2 = SetOwner
  BY DEF SetOwner, Or, Unset
<1>7. token2 = SetToken
  BY DEF SetToken, Or, Unset
<1> HIDE DEF owner, token
<1>8. /\ c \in Conf /\ c.owner = owner /\ c.token = token
      /\ c.phases = conf.phases /\ c.skip = conf.skip /\ c.fail = conf.fail
  BY <1>3, <1>4 DEF Conf
<1> HIDE DEF c
<1>9. d = [c EXCEPT !.token = token2, !.owner = owner2]
  BY <1>8 DEF SetEnv
<1> HIDE DEF owner2, token2, d
<1>10. /\ d \in Conf /\ d.owner = owner2 /\ d.token = token2
       /\ d.phases = conf.phases /\ d.skip = conf.skip /\ d.fail = conf.fail
  BY <1>5, <1>8, <1>9 DEF Conf
<1> QED BY <1>6, <1>7, <1>10 DEF d, c

\* What Set makes of the configuration.
LEMMA SetFields ==
  ASSUME conf \in Conf, Set, NEW R \in Seq(RawPhase), DOMAIN conf.phases = DOMAIN R,
         \A m \in DOMAIN R : /\ ImportsThere(R[m].tasks, TaskFiles)
                             /\ conf.phases[m] = ImportedPhase(R[m])
  PROVE  /\ conf' \in Conf
         /\ conf'.skip = SetDefaultBool(conf.skip, FALSE)
         /\ conf'.fail = SetDefaultProgram(conf.fail)
         /\ conf'.owner = SetOwner /\ conf'.token = SetToken
         /\ DOMAIN conf'.phases = DOMAIN R
         /\ \A m \in DOMAIN R : conf'.phases[m] = SetPhaseOf(R[m])
<1> DEFINE d == SetEnv(SetCLIArg(conf))
           skip == SetDefaultBool(conf.skip, FALSE)
           fail == SetDefaultProgram(conf.fail)
           defaults == MapSeq(DefaultPhase, conf.phases)
           e == SetDefault(d)
           phases == MapSeq(SetPhase, defaults)
<1>1. /\ d \in Conf
      /\ d.phases = conf.phases /\ d.skip = conf.skip /\ d.fail = conf.fail
      /\ d.owner = SetOwner /\ d.token = SetToken
  BY SetSettings
<1>2. conf' = [e EXCEPT !.phases = MapSeq(SetPhase, e.phases)]
  BY DEF Set
<1>3. skip \in Bool /\ fail \in Bool
  BY BoolTypes, ConfFields
<1>4. e = [d EXCEPT !.skip = skip, !.fail = fail, !.phases = defaults]
  BY <1>1 DEF SetDefault
<1>5. /\ DOMAIN phases = DOMAIN R
      /\ phases = [m \in DOMAIN R |-> phases[m]]
      /\ \A m \in DOMAIN R : phases[m] = SetPhaseOf(R[m])
  <2>1. defaults = [m \in DOMAIN conf.phases |-> DefaultPhase(conf.phases[m])]
    BY DEF MapSeq
  <2>2. phases = [m \in DOMAIN defaults |-> SetPhase(defaults[m])]
    BY DEF MapSeq
  <2> HIDE DEF defaults, phases
  <2>3. /\ DOMAIN defaults = DOMAIN R
        /\ \A m \in DOMAIN R : defaults[m] = DefaultPhase(ImportedPhase(R[m]))
    BY <2>1
  <2> QED BY <2>2, <2>3 DEF SetPhaseOf
<1> HIDE DEF d, skip, fail, defaults, phases, e
<1>6. phases \in Seq(PhaseSet)
  <2>1. /\ DOMAIN R = 1 .. Len(R) /\ Len(R) \in Nat
        /\ \A m \in DOMAIN R : R[m] \in RawPhase
    OBVIOUS
  <2>2. \A m \in DOMAIN R : phases[m] \in PhaseSet
    BY <1>5, <2>1, SetPhaseFields
  <2> QED BY <1>5, <2>1, <2>2
<1>7. /\ e.phases = defaults /\ e.skip = skip /\ e.fail = fail
      /\ e.owner = SetOwner /\ e.token = SetToken
  BY <1>1, <1>4 DEF Conf
<1>8. conf' = [d EXCEPT !.skip = skip, !.fail = fail, !.phases = phases]
  BY <1>1, <1>2, <1>4, <1>7 DEF Conf, phases
<1>9. /\ conf' \in Conf /\ conf'.phases = phases
      /\ conf'.skip = skip /\ conf'.fail = fail
      /\ conf'.owner = d.owner /\ conf'.token = d.token
  BY <1>1, <1>3, <1>6, <1>8 DEF Conf
<1> QED BY <1>1, <1>5, <1>9 DEF skip, fail

\* What is acceptable of the configuration is so of what the files say.
LEMMA AcceptableRaws ==
  ASSUME NEW R \in Seq(RawPhase), NEW phases, DOMAIN phases = DOMAIN R,
         \A m \in DOMAIN R : /\ ImportsThere(R[m].tasks, TaskFiles)
                             /\ phases[m] = ImportedPhase(R[m]),
         Acceptable(phases)
  PROVE  /\ \A l, m \in DOMAIN R : R[l].name = R[m].name => l = m
         /\ \A l \in DOMAIN R : \A m \in DOMAIN TasksOf(R[l]) :
              TypeOf(DecodeTask(TasksOf(R[l])[m])) # Unset
<1>1. \A m \in DOMAIN R : R[m] \in RawPhase
  OBVIOUS
<1>2. \A m \in DOMAIN R : phases[m].src = R[m]
  BY <1>1, ImportedPhaseFields
<1>3. \A l, m \in DOMAIN R : R[l].name = R[m].name => l = m
  BY <1>2 DEF Acceptable
<1>4. ASSUME NEW l \in DOMAIN R, NEW m \in DOMAIN TasksOf(R[l])
      PROVE  TypeOf(DecodeTask(TasksOf(R[l])[m])) # Unset
  <2>1. phases[l].tasks = MapSeq(DecodeTask, TasksOf(R[l])) /\ TasksOf(R[l]) \in Seq(RawTask)
    BY <1>1, ImportedPhaseFields, TasksImport
  <2>2. /\ m \in DOMAIN phases[l].tasks
        /\ phases[l].tasks[m] = DecodeTask(TasksOf(R[l])[m])
    BY <2>1, DecodeAll
  <2> QED BY <2>2 DEF Acceptable
<1> QED BY <1>3, <1>4

LEMMA StepSet ==
  ASSUME RestInv, Set
  PROVE  RestInv'
<1>1. /\ at = "set" /\ at' = "files" /\ Acceptable(conf.phases)
      /\ UNCHANGED <<input, expanded, doc, k>>
  BY DEF Set, Goes
<1>2. DataInv /\ AtSet /\ ExpandInv /\ Listing /\ Undecided /\ k = 1 /\ conf \in Conf
  BY <1>1 DEF RestInv, StageInv, AtSet, DataInv
<1>3. /\ Raws \in Seq(RawPhase) /\ DOMAIN conf.phases = DOMAIN Raws
      /\ Len(Raws) \in Nat /\ DOMAIN Raws = 1 .. Len(Raws)
      /\ \A m \in DOMAIN Raws : /\ ImportsThere(Raws[m].tasks, TaskFiles)
                                /\ conf.phases[m] = ImportedPhase(Raws[m])
  BY <1>2, AtList DEF AtSet, Listing
<1>4. Raws' = Raws
  BY <1>1 DEF Raws
<1>5. Checked
  <2> HIDE DEF Raws
  <2> QED BY <1>1, <1>3, AcceptableRaws DEF Checked
<1>6. /\ conf' \in Conf
      /\ conf'.skip = SetDefaultBool(conf.skip, FALSE)
      /\ conf'.fail = SetDefaultProgram(conf.fail)
      /\ conf'.owner = SetOwner /\ conf'.token = SetToken
      /\ DOMAIN conf'.phases = DOMAIN Raws
      /\ \A m \in DOMAIN Raws : conf'.phases[m] = SetPhaseOf(Raws[m])
  <2> HIDE DEF Raws
  <2> QED BY <1>2, <1>3, SetFields
<1>7. /\ SetOwner = First(<<From("cli owner"), doc.owner, From("ci owner")>>)
      /\ SetToken = First(<<From("cli token"), doc.token, From("GITHUB_TOKEN"),
                            From("GITHUB_ACCESS_TOKEN")>>)
  <2>1. /\ From("cli owner") \in {"cli owner", Unset}
        /\ From("cli token") \in {"cli token", Unset}
    BY FromType DEF Sources
  <2>2. ~input.env.ci => From("ci owner") = Unset
    <3>1. \A in \in Inputs : "ci owner" \in in.env.sources => in.env.ci
      BY LoadAssumption
    <3>2. "ci owner" \in input.env.sources => input.env.ci
      BY <1>2, <3>1 DEF DataInv
    <3> QED BY <3>2 DEF From
  <2>3. First(<<From("cli owner"), doc.owner, From("ci owner")>>)
          = Either(From("cli owner"), Either(doc.owner, From("ci owner")))
    <3> DEFINE s == <<From("cli owner"), doc.owner, From("ci owner")>>
    <3>1. /\ DOMAIN s = 1 .. 3
          /\ s[1] = From("cli owner") /\ s[2] = doc.owner /\ s[3] = From("ci owner")
      OBVIOUS
    <3> HIDE DEF s
    <3>2. First(s) = Either(s[1], Either(s[2], s[3]))
      BY <3>1, FirstOfThree
    <3> QED BY <3>1, <3>2 DEF s
  <2>4. conf.owner = doc.owner /\ conf.token = doc.token
    BY <1>2 DEF Undecided
  <2>5. First(<<From("cli token"), doc.token, From("GITHUB_TOKEN"),
                From("GITHUB_ACCESS_TOKEN")>>)
          = Either(From("cli token"), Either(doc.token,
              Either(From("GITHUB_TOKEN"), From("GITHUB_ACCESS_TOKEN"))))
    <3> DEFINE s == <<From("cli token"), doc.token, From("GITHUB_TOKEN"),
                      From("GITHUB_ACCESS_TOKEN")>>
    <3>1. /\ DOMAIN s = 1 .. 4
          /\ s[1] = From("cli token") /\ s[2] = doc.token
          /\ s[3] = From("GITHUB_TOKEN") /\ s[4] = From("GITHUB_ACCESS_TOKEN")
      OBVIOUS
    <3> HIDE DEF s
    <3>2. First(s) = Either(s[1], Either(s[2], Either(s[3], s[4])))
      BY <3>1, FirstOfFour
    <3> QED BY <3>1, <3>2 DEF s
  <2> HIDE DEF From
  <2> QED BY <2>1, <2>2, <2>3, <2>4, <2>5 DEF SetOwner, SetToken, Either
<1>8. DataInv'
  BY <1>1, <1>2, <1>6 DEF DataInv, Steps
<1>9. AtFiles'
  <2>1. Listing'
    BY <1>1, <1>2, <1>3, <1>4, <1>6 DEF Listing
  <2>2. Decided'
    BY <1>1, <1>2, <1>6, <1>7 DEF Decided, Undecided, From
  <2>3. Checked'
    BY <1>4, <1>5 DEF Checked
  <2>4. \A m \in DOMAIN Raws : ~(m < 1)
    BY <1>3
  <2> QED BY <1>1, <1>2, <1>3, <1>4, <1>6, <2>1, <2>2, <2>3, <2>4 DEF AtFiles
<1>10. StageInv'
  BY <1>1, <1>9 DEF StageInv
<1>11. ExpandInv'
  <2>1. expanded = <<>> /\ Len(conf'.phases) \in Nat
    <3>1. conf'.phases \in Seq(PhaseSet)
      BY <1>6 DEF Conf
    <3> QED BY <1>1, <1>2, <3>1 DEF ExpandInv
  <2> QED BY <1>1, <2>1 DEF ExpandInv
<1> QED BY <1>8, <1>10, <1>11 DEF RestInv

-----------------------------------------------------------------------------
(* LInv holds of every reachable state *)

LEMMA LInitial ==
  ASSUME LInit
  PROVE  LInv
<1>1. FileInit
  BY DEF LInit
<1> QED BY <1>1, FileInitial, RestInitial DEF LInv, RestInv

\* What Load adds to the steps of ConfigFile moves run alone, and on.
LEMMA FileSteps ==
  ASSUME [LNext]_lvars
  PROVE  FStep
<1>1. ASSUME NEW here, NEW there, Goes(here, there), there # "start"
      PROVE  FStep
  BY <1>1 DEF Goes, FStep
<1>2. ASSUME NEW here, Fails(here)
      PROVE  FStep
  BY <1>1, <1>2 DEF Fails
<1>3. CASE FileStep
  BY <1>3 DEF FileStep, FStep
<1>4. CASE \E i \in Inits : InitStep(i)
  BY <1>4 DEF InitStep, FStep
<1>5. CASE Read \/ ImportPhase \/ PhasesImported
  BY <1>1, <1>5 DEF Read, ImportPhase, PhasesImported
<1>6. CASE ImportTasks \/ TasksImported \/ Set
  BY <1>1, <1>6 DEF ImportTasks, TasksImported, Set
<1>7. CASE ReadFiles \/ FilesRead \/ ExpandPhase \/ AllExpanded
  BY <1>1, <1>7 DEF ReadFiles, FilesRead, ExpandPhase, AllExpanded
<1>8. CASE ReadFails \/ ImportPhaseFails \/ ImportTasksFails \/ SetFails
           \/ ReadFilesFails \/ EmptyPhase
  BY <1>2, <1>8
  DEF ReadFails, ImportPhaseFails, ImportTasksFails, SetFails, ReadFilesFails, EmptyPhase
<1>9. CASE UNCHANGED lvars
  BY <1>9 DEF lvars, fvars, FStep
<1> QED BY <1>3, <1>4, <1>5, <1>6, <1>7, <1>8, <1>9 DEF LNext, Action, Over

LEMMA LInductive ==
  ASSUME LInv, [LNext]_lvars
  PROVE  LInv'
<1>1. FInv /\ RestInv /\ FileTypeOK
  BY DEF LInv, RestInv, FInv
<1>2. FInv'
  BY <1>1, FileSteps, FileInductive
<1> SUFFICES RestInv'
  BY <1>2 DEF LInv, RestInv
<1>3. CASE FileStep \/ (\E i \in Inits : InitStep(i)) \/ UNCHANGED lvars
  BY <1>1, <1>3, StepFile, Zenon
<1>4. CASE Read
  BY <1>1, <1>4, StepRead, Zenon
<1>5. CASE ImportPhase
  BY <1>1, <1>5, StepImportPhase, Zenon
<1>6. CASE PhasesImported
  BY <1>1, <1>6, StepPhasesImported, Zenon
<1>7. CASE ImportTasks
  BY <1>1, <1>7, StepImportTasks, Zenon
<1>8. CASE TasksImported
  BY <1>1, <1>8, StepTasksImported, Zenon
<1>9. CASE Set
  BY <1>1, <1>9, StepSet, Zenon
<1>10. CASE ReadFiles
  BY <1>1, <1>10, StepReadFiles, Zenon
<1>11. CASE FilesRead
  BY <1>1, <1>11, StepFilesRead, Zenon
<1>12. CASE ExpandPhase
  BY <1>1, <1>12, StepExpandPhase, Zenon
<1>13. CASE AllExpanded
  BY <1>1, <1>13, StepAllExpanded, Zenon
<1>14. CASE ReadFails \/ ImportPhaseFails \/ ImportTasksFails \/ SetFails
            \/ ReadFilesFails \/ EmptyPhase
  <2>1. \/ Fails("read") \/ Fails("phases") \/ Fails("tasks") \/ Fails("set")
        \/ Fails("files") \/ Fails("expand")
    BY <1>14, Zenon
    DEF ReadFails, ImportPhaseFails, ImportTasksFails, SetFails, ReadFilesFails, EmptyPhase
  <2> QED BY <1>1, <2>1, StepFails, Zenon
<1> QED BY <1>3, <1>4, <1>5, <1>6, <1>7, <1>8, <1>9, <1>10, <1>11, <1>12, <1>13, <1>14,
           Zenon
    DEF LNext, Action, Over

\* LInv holds of every reachable state.
THEOREM LInvariance == LSpec => []LInv
<1>1. LInit => LInv
  BY LInitial
<1>2. LInv /\ [LNext]_lvars => LInv'
  BY LInductive
<1> QED BY <1>1, <1>2, PTL DEF LSpec

-----------------------------------------------------------------------------
(* What follows from it *)

\* A configuration whose imports are done is, phase by phase and task by task,
\* that of Raws.
Stands(raws) ==
  /\ raws \in Seq(RawPhase)
  /\ DOMAIN conf.phases = DOMAIN raws
  /\ \A m \in DOMAIN raws :
       /\ conf.phases[m].src = raws[m]
       /\ TasksOf(raws[m]) \in Seq(RawTask)
       /\ DOMAIN conf.phases[m].tasks = DOMAIN TasksOf(raws[m])
       /\ \A l \in DOMAIN TasksOf(raws[m]) :
            conf.phases[m].tasks[l].src = TasksOf(raws[m])[l]

LEMMA Standing ==
  ASSUME LInv, After({"set", "files"})
  PROVE  Stands(Raws)
<1>1. DataInv /\ (AtSet \/ AtFiles \/ Ready)
  BY DEF LInv, StageInv, After
<1>2. /\ Listing
      /\ \A m \in DOMAIN Raws :
           /\ ImportsThere(Raws[m].tasks, TaskFiles)
           /\ \/ conf.phases[m] = ImportedPhase(Raws[m])
              \/ conf.phases[m] = SetPhaseOf(Raws[m])
              \/ conf.phases[m] = ReadyPhase(Raws[m]) /\ TextThere(Raws[m])
  BY <1>1 DEF AtSet, AtFiles, Ready
<1>3. /\ Raws \in Seq(RawPhase) /\ DOMAIN conf.phases = DOMAIN Raws
      /\ \A m \in DOMAIN Raws : Raws[m] \in RawPhase
  BY <1>1, <1>2, AtList
<1> HIDE DEF Raws
<1>4. ASSUME NEW m \in DOMAIN Raws
      PROVE  /\ conf.phases[m].src = Raws[m]
             /\ TasksOf(Raws[m]) \in Seq(RawTask)
             /\ DOMAIN conf.phases[m].tasks = DOMAIN TasksOf(Raws[m])
             /\ \A l \in DOMAIN TasksOf(Raws[m]) :
                  conf.phases[m].tasks[l].src = TasksOf(Raws[m])[l]
  <2> DEFINE r == Raws[m]
             p == conf.phases[m]
             ts == TasksOf(r)
  <2>1. /\ r \in RawPhase /\ ImportsThere(r.tasks, TaskFiles)
        /\ \/ p = ImportedPhase(r)
           \/ p = SetPhaseOf(r)
           \/ p = ReadyPhase(r) /\ TextThere(r)
    BY <1>2, <1>3
  <2> HIDE DEF p, r
  <2>2. ts \in Seq(RawTask)
    BY <2>1, TasksImport
  <2>3. \A l \in DOMAIN ts : ts[l] \in RawTask
    BY <2>2
  <2>4. CASE p = ImportedPhase(r)
    <3>1. p.src = r /\ p.tasks = MapSeq(DecodeTask, ts)
      BY <2>1, <2>4, ImportedPhaseFields
    <3>2. /\ DOMAIN p.tasks = DOMAIN ts
          /\ \A l \in DOMAIN ts : p.tasks[l] = DecodeTask(ts[l])
      BY <2>2, <3>1, DecodeAll
    <3>3. \A x : DecodeTask(x).src = x
      BY DEF DecodeTask
    <3>4. \A l \in DOMAIN ts : p.tasks[l].src = ts[l]
      BY <3>2, <3>3
    <3> QED BY <2>2, <3>1, <3>2, <3>4 DEF p, r
  <2>5. CASE p = SetPhaseOf(r)
    <3>1. /\ p.src = r /\ DOMAIN p.tasks = DOMAIN ts
          /\ \A l \in DOMAIN ts : p.tasks[l] = SetTask(ts[l])
      BY <2>1, <2>5, SetPhaseFields
    <3>2. \A l \in DOMAIN ts : p.tasks[l].src = ts[l]
      BY <2>3, <3>1, SetTaskFields
    <3> QED BY <2>2, <3>1, <3>2 DEF p, r
  <2>6. CASE p = ReadyPhase(r) /\ TextThere(r)
    <3>1. /\ p.src = r /\ DOMAIN p.tasks = DOMAIN ts
          /\ \A l \in DOMAIN ts : p.tasks[l] = ReadyTask(ts[l])
      BY <2>1, <2>6, ReadyPhaseFields
    <3>2. \A l \in DOMAIN ts : FilesNamed(ts[l]) \subseteq DOMAIN TextFiles
      BY <2>6 DEF TextThere
    <3>3. \A l \in DOMAIN ts : p.tasks[l].src = ts[l]
      BY <2>3, <3>1, <3>2, ReadyTaskFields
    <3> QED BY <2>2, <3>1, <3>3 DEF p, r
  <2> QED BY <2>1, <2>4, <2>5, <2>6
<1> QED BY <1>3, <1>4 DEF Stands

\* The configuration of a build that starts.
LEMMA Starting ==
  ASSUME LInv, After({})
  PROVE  /\ Decided /\ Checked /\ DOMAIN conf.phases = DOMAIN Raws
         /\ \A m \in DOMAIN Raws :
              /\ Raws[m] \in RawPhase /\ ImportsThere(Raws[m].tasks, TaskFiles)
              /\ TextThere(Raws[m]) /\ conf.phases[m] = ReadyPhase(Raws[m])
<1>1. DataInv /\ Ready
  BY DEF LInv, StageInv, After
<1>2. Listing
  BY <1>1 DEF Ready
<1>3. \A m \in DOMAIN Raws : Raws[m] \in RawPhase
  BY <1>1, <1>2, AtList
<1> QED BY <1>1, <1>2, <1>3 DEF Ready, Listing

-----------------------------------------------------------------------------
(* The properties *)

LEMMA PositionOK ==
  ASSUME LInv
  PROVE  k \in 1 .. Len(conf.phases) + 1 \/ at \in {"phases", "failed"}
<1>1. DataInv /\ StageInv
  BY DEF LInv
<1>2. Len(conf.phases) \in Nat
  BY <1>1, ConfFields DEF DataInv
<1>3. CASE at \in {"start", "find", "not found", "read"}
  <2>1. k = 1
    BY <1>1, <1>3 DEF DataInv
  <2> QED BY <1>2, <2>1
<1>4. CASE at \in {"tasks", "set", "files", "expand", "done"}
  <2>1. Listing
    BY <1>1, <1>4 DEF StageInv, AtTasks, AtSet, AtFiles, Ready
  <2>2. DOMAIN conf.phases = 1 .. Len(Raws) /\ Len(Raws) \in Nat /\ k \in 1 .. Len(Raws) + 1
    BY <1>1, <2>1, AtList DEF Listing
  <2>3. DOMAIN conf.phases = 1 .. Len(conf.phases)
    BY <1>1, ConfFields DEF DataInv
  <2>4. Len(Raws) = Len(conf.phases)
    <3> HIDE DEF Raws
    <3> QED BY <1>2, <2>2, <2>3
  <2> QED BY <2>2, <2>4
<1> QED BY <1>1, <1>3, <1>4 DEF DataInv, Steps

LEMMA TypesOK ==
  ASSUME LInv
  PROVE  LTypeOK
<1>1. FileTypeOK /\ DataInv /\ ExpandInv
  BY DEF LInv, FInv
<1>2. at \in Steps /\ Len(expanded) <= Len(conf.phases)
  BY <1>1 DEF DataInv, ExpandInv
<1>3. conf.skip \in Bool /\ conf.fail \in Bool
  BY <1>1, ConfFields DEF DataInv
<1>4. ASSUME NEW p \in Range(conf.phases)
      PROVE  /\ {p.skip, p.exit, p.fail} \subseteq Bool
             /\ \A t \in Range(p.tasks) :
                  t.when \in Bool /\ t.type \in TaskTypes \cup {Unset}
  <2>1. p \in PhaseSet
    BY <1>1, ConfFields DEF DataInv, Range
  <2>2. {p.skip, p.exit, p.fail} \subseteq Bool /\ p.tasks \in Seq(TaskSet)
    BY <2>1 DEF PhaseSet
  <2>3. \A t \in Range(p.tasks) : t \in TaskSet
    BY <2>2 DEF Range
  <2> QED BY <2>2, <2>3 DEF TaskSet
<1> QED BY <1>1, <1>2, <1>3, <1>4, PositionOK DEF LTypeOK

LEMMA AllSpliced ==
  ASSUME LInv
  PROVE  ImportsSpliced
<1> SUFFICES ASSUME After({"set", "files"})
             PROVE  /\ MapSeq(SourceOf, conf.phases) = Spliced(doc.phases, PhaseFiles)
                    /\ \A p \in Range(conf.phases) :
                         MapSeq(SourceOf, p.tasks) = Spliced(p.src.tasks, TaskFiles)
  BY DEF ImportsSpliced
<1>1. Stands(Raws)
  BY Standing
<1>2. Spliced(doc.phases, PhaseFiles) = Raws
  BY DEF Raws
<1> HIDE DEF Raws
<1>3. MapSeq(SourceOf, conf.phases) = Raws
  <2>1. MapSeq(SourceOf, conf.phases) = [m \in DOMAIN conf.phases |-> conf.phases[m].src]
    BY DEF MapSeq, SourceOf
  <2>2. Raws = [m \in DOMAIN Raws |-> Raws[m]]
    BY <1>1 DEF Stands
  <2>3. /\ DOMAIN conf.phases = DOMAIN Raws
        /\ \A m \in DOMAIN Raws : conf.phases[m].src = Raws[m]
    BY <1>1 DEF Stands
  <2> QED BY <2>1, <2>2, <2>3
<1>4. ASSUME NEW p \in Range(conf.phases)
      PROVE  MapSeq(SourceOf, p.tasks) = Spliced(p.src.tasks, TaskFiles)
  <2>1. PICK m \in DOMAIN conf.phases : p = conf.phases[m]
    BY DEF Range
  <2> DEFINE ts == TasksOf(Raws[m])
  <2>2. /\ p.src = Raws[m] /\ ts \in Seq(RawTask) /\ DOMAIN p.tasks = DOMAIN ts
        /\ \A l \in DOMAIN ts : p.tasks[l].src = ts[l]
    BY <1>1, <2>1 DEF Stands
  <2>3. ts = Spliced(p.src.tasks, TaskFiles)
    BY <2>2 DEF TasksOf
  <2> HIDE DEF ts
  <2>4. MapSeq(SourceOf, p.tasks) = [l \in DOMAIN p.tasks |-> p.tasks[l].src]
    BY DEF MapSeq, SourceOf
  <2>5. ts = [l \in DOMAIN ts |-> ts[l]]
    BY <2>2
  <2> QED BY <2>2, <2>3, <2>4, <2>5
<1> QED BY <1>2, <1>3, <1>4

LEMMA AllMean ==
  ASSUME LInv
  PROVE  ConditionsMean
<1> SUFFICES ASSUME After({})
             PROVE  ConditionsMean!2
  BY DEF ConditionsMean
<1>1. /\ Decided /\ DOMAIN conf.phases = DOMAIN Raws
      /\ \A m \in DOMAIN Raws :
           /\ Raws[m] \in RawPhase /\ ImportsThere(Raws[m].tasks, TaskFiles)
           /\ TextThere(Raws[m]) /\ conf.phases[m] = ReadyPhase(Raws[m])
  BY Starting
<1> HIDE DEF Raws
<1>2. /\ Means(conf.skip) = Meaning(doc.skip, "false")
      /\ Means(conf.fail) = Meaning(doc.fail, "default")
  <2>1. doc.skip \in RawBools /\ doc.fail \in RawBools
    BY DEF LInv, DataInv, Document
  <2> QED BY <1>1, <2>1, DefaultMeans DEF Decided
<1>3. ASSUME NEW p \in Range(conf.phases)
      PROVE  /\ Means(p.skip) = Meaning(p.src.skip, "false")
             /\ Means(p.exit) = Meaning(p.src.exit, "false")
             /\ Means(p.fail) = Meaning(p.src.fail, "default")
             /\ \A t \in Range(p.tasks) : Means(t.when) = FileMeaning(t.src)
  <2>1. PICK m \in DOMAIN Raws : p = conf.phases[m]
    BY <1>1 DEF Range
  <2> DEFINE r == Raws[m]
  <2>2. r \in RawPhase /\ ImportsThere(r.tasks, TaskFiles) /\ TextThere(r) /\ p = ReadyPhase(r)
    BY <1>1, <2>1
  <2> HIDE DEF r
  <2>3. p.src = r
    BY <2>2, ReadyPhaseFields
  <2>4. /\ Means(p.skip) = Meaning(r.skip, "false")
        /\ Means(p.exit) = Meaning(r.exit, "false")
        /\ Means(p.fail) = Meaning(r.fail, "default")
        /\ \A l \in DOMAIN p.tasks : Means(p.tasks[l].when) = FileMeaning(p.tasks[l].src)
    BY <2>2, PhaseMeans
  <2> QED BY <2>3, <2>4 DEF Range
<1> QED BY <1>2, <1>3

LEMMA AllReady ==
  ASSUME LInv
  PROVE  ReadyToBuild
<1> SUFFICES ASSUME After({})
             PROVE  ReadyToBuild!2
  BY DEF ReadyToBuild
<1>1. /\ Checked /\ DOMAIN conf.phases = DOMAIN Raws
      /\ \A m \in DOMAIN Raws :
           /\ Raws[m] \in RawPhase /\ ImportsThere(Raws[m].tasks, TaskFiles)
           /\ TextThere(Raws[m]) /\ conf.phases[m] = ReadyPhase(Raws[m])
  BY Starting
<1> HIDE DEF Raws
<1>2. \A m \in DOMAIN Raws : conf.phases[m].src = Raws[m]
  BY <1>1, ReadyPhaseFields
<1>3. \A l, m \in DOMAIN conf.phases :
        conf.phases[l].src.name = conf.phases[m].src.name => l = m
  BY <1>1, <1>2 DEF Checked
<1>4. ASSUME NEW p \in Range(conf.phases)
      PROVE  \A t \in Range(p.tasks) : Runnable(t)
  <2>1. PICK m \in DOMAIN Raws : p = conf.phases[m]
    BY <1>1 DEF Range
  <2> DEFINE r == Raws[m]
  <2>2. /\ r \in RawPhase /\ ImportsThere(r.tasks, TaskFiles) /\ TextThere(r)
        /\ p = ReadyPhase(r)
        /\ \A l \in DOMAIN TasksOf(r) : TypeOf(DecodeTask(TasksOf(r)[l])) # Unset
    BY <1>1, <2>1 DEF Checked
  <2> HIDE DEF r
  <2>3. \A l \in DOMAIN p.tasks : Runnable(p.tasks[l])
    BY <2>2, PhaseRunnable
  <2> QED BY <2>3 DEF Range
<1> QED BY <1>3, <1>4

LEMMA KeysCount ==
  ASSUME NEW n \in Nat
  PROVE  Cardinality(Keys(n)) = n
<1>1. Cardinality(0 .. n - 1) = IF 0 > n - 1 THEN 0 ELSE (n - 1) - 0 + 1
  BY FS_Interval
<1> QED BY <1>1 DEF Keys

LEMMA AllInOrder ==
  ASSUME LInv
  PROVE  ExpandedInOrder
<1> SUFFICES ASSUME NEW p \in DOMAIN expanded, expanded[p].ok
             PROVE  ExpandedInOrder!(p)!2
  BY DEF ExpandedInOrder
<1> DEFINE ts == expanded[p].list
           tasks == conf.phases[p].tasks
<1>1. DataInv /\ ExpandInv
  BY DEF LInv
<1>2. expanded[p] \in TasksUpTo(tasks)
  BY <1>1 DEF ExpandInv, Failed
<1>3. p \in DOMAIN conf.phases
  <2>1. DOMAIN expanded = 1 .. Len(expanded) /\ Len(expanded) \in Nat
    <3>1. expanded \in Seq(Expansions)
      BY <1>1 DEF DataInv
    <3> QED BY <3>1
  <2>2. DOMAIN conf.phases = 1 .. Len(conf.phases) /\ Len(conf.phases) \in Nat
    BY <1>1, ConfFields DEF DataInv
  <2>3. Len(expanded) <= Len(conf.phases)
    BY <1>1 DEF ExpandInv
  <2> QED BY <2>1, <2>2, <2>3
<1>4. /\ Len(tasks) \in Nat /\ DOMAIN tasks = 1 .. Len(tasks)
      /\ \A m \in 1 .. Len(tasks) : tasks[m].src.items \in RawItems
  <2>1. conf.phases[p] \in PhaseSet
    BY <1>1, <1>3, ConfFields DEF DataInv
  <2>2. tasks \in Seq(TaskSet)
    BY <2>1 DEF PhaseSet
  <2> HIDE DEF tasks
  <2>3. Len(tasks) \in Nat /\ DOMAIN tasks = 1 .. Len(tasks)
    BY <2>2
  <2>4. \A m \in 1 .. Len(tasks) : tasks[m] \in TaskSet
    BY <2>2
  <2>5. \A m \in 1 .. Len(tasks) : tasks[m].src.items \in RawItems
    BY <2>4 DEF TaskSet, RawTask
  <2> QED BY <2>3, <2>5
<1>5. InOrder(tasks, Len(tasks), ts)
  <2> HIDE DEF tasks
  <2> QED BY <1>2, <1>4, TasksInOrder
<1> HIDE DEF ts, tasks
<1>6. \A l, m \in DOMAIN ts : l < m =>
        /\ ts[l][1] <= ts[m][1]
        /\ ts[l] # ts[m]
        /\ ts[l][1] = ts[m][1] /\ Listed(tasks[ts[l][1]].src.items) => ts[l][2] < ts[m][2]
  BY <1>5 DEF InOrder
<1>7. ASSUME NEW m \in DOMAIN tasks
      PROVE  LET keys == {ts[l][2] : l \in {n \in DOMAIN ts : ts[n][1] = m}}
                 items == tasks[m].src.items
             IN  \/ keys = {NoKey} /\ items \in {"absent", "script"}
                 \/ /\ items # "absent"
                    /\ items \in {"list", "map"} => keys # {}
                    /\ keys = Keys(Cardinality(keys))
  <2> DEFINE keys == KeysOf(ts, m)
             items == tasks[m].src.items
  <2>1. keys = {ts[l][2] : l \in {n \in DOMAIN ts : ts[n][1] = m}}
    BY DEF KeysOf
  <2>2. \/ keys = {NoKey} /\ items \in {"absent", "script"}
        \/ /\ items # "absent"
           /\ items \in {"list", "map"} => keys # {}
           /\ \E n \in Nat : keys = Keys(n)
    BY <1>4, <1>5 DEF InOrder
  <2> HIDE DEF keys, items
  <2>3. (\E n \in Nat : keys = Keys(n)) => keys = Keys(Cardinality(keys))
    BY KeysCount
  <2>4. \/ keys = {NoKey} /\ items \in {"absent", "script"}
        \/ /\ items # "absent"
           /\ items \in {"list", "map"} => keys # {}
           /\ keys = Keys(Cardinality(keys))
    BY <2>2, <2>3
  <2> QED BY <2>1, <2>4 DEF items
<1> QED BY <1>6, <1>7 DEF ts, tasks

\* Every variable keeps its type, and a step that is at a phase is at one of the
\* configuration, or past the last.
THEOREM LTypeOKHolds == LSpec => []LTypeOK
<1>1. LInv => LTypeOK
  BY TypesOK
<1> QED BY <1>1, LInvariance, PTL

\* An init that says it is done leaves a file that is complete, or one that
\* another init is writing or has failed to.
THEOREM InitHonestHolds == LSpec => []InitHonest
<1>1. LInv => InitHonest
  BY FileProperties DEF LInv
<1> QED BY <1>1, LInvariance, PTL

\* run reads no file that comes after one that was there when it began.
THEOREM FindsNearestHolds == LSpec => []FindsNearest
<1>1. LInv => FindsNearest
  BY FileProperties DEF LInv
<1> QED BY <1>1, LInvariance, PTL

\* Of the user's files only one is lost that he saved when an init had found none.
THEOREM OnlyNewFilesLostHolds == LSpec => OnlyNewFilesLost
<1>1. ASSUME LInv, [LNext]_lvars
      PROVE  [\A p \in Places : disk[p] = "user" /\ disk'[p] # "user" =>
                \E i \in Inits : ipc[i] # ipc'[i] /\ iseen[i] = {}]_fvars
  BY <1>1, FileSteps, FilesLost DEF LInv
<1> QED BY <1>1, LInvariance, PTL DEF LSpec, OnlyNewFilesLost

\* In place of what imports a file stands what is in the file, in the same order.
THEOREM ImportsSplicedHolds == LSpec => []ImportsSpliced
<1>1. LInv => ImportsSpliced
  BY AllSpliced
<1> QED BY <1>1, LInvariance, PTL

\* Owner and token come from the first source that has them.
THEOREM SettingsFromFirstSourceHolds == LSpec => []SettingsFromFirstSource
<1>1. LInv => SettingsFromFirstSource
  BY DEF LInv, StageInv, AtFiles, Ready, Decided, SettingsFromFirstSource, After
<1> QED BY <1>1, LInvariance, PTL

\* Every condition of a build that starts means what the user wrote, or has its
\* own default.
THEOREM ConditionsMeanHolds == LSpec => []ConditionsMean
<1>1. LInv => ConditionsMean
  BY AllMean
<1> QED BY <1>1, LInvariance, PTL

\* A build starts with one phase for each name, and with tasks of one type that
\* have what they need to be run.
THEOREM ReadyToBuildHolds == LSpec => []ReadyToBuild
<1>1. LInv => ReadyToBuild
  BY AllReady
<1> QED BY <1>1, LInvariance, PTL

\* The tasks of a phase stand in the order of the configuration, those of one
\* task together and each with a key of its own.
THEOREM ExpandedInOrderHolds == LSpec => []ExpandedInOrder
<1>1. LInv => ExpandedInOrder
  BY AllInOrder
<1> QED BY <1>1, LInvariance, PTL
=============================================================================
