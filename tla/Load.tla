-------------------------------- MODULE Load --------------------------------
(***************************************************************************)
(* "buildflow run" from the configuration file to the tasks of each phase: *)
(* read the file, import phases and tasks from others, apply the options   *)
(* of the command line, the environment and the defaults, check the        *)
(* result, read the files it names, and expand the items of each phase.    *)
(*                                                                         *)
(* What pull request there is, and the phases between two expansions, are  *)
(* in Build.                                                               *)
(***************************************************************************)
EXTENDS Config, ConfigFile

CONSTANTS
  Inputs,      \* what the user's files say, the sources set, the files at first
  PhaseFiles,  \* the lists of phases in the files that can be imported ...
  TaskFiles,   \* ... and the lists of tasks, by the name of the file
  TextFiles    \* what the files a task may name hold: text, or nothing

\* Where owner and token may come from besides the configuration; the build
\* runs on a CI platform or not, which may know the owner of the repository.
Sources == {"cli owner", "ci owner", "cli token", "GITHUB_TOKEN", "GITHUB_ACCESS_TOKEN"}

\* What a configuration file may say.
Document ==
  [phases : Seq(RawPhase), skip : RawBools, fail : RawBools,
   owner : Names, token : Names]

ASSUME LoadAssumption ==
  /\ \A in \in Inputs :
       /\ in.doc \in Document
       /\ in.disk \in [Places -> {"absent", "user"}]
       /\ in.env \in [ci : BOOLEAN, sources : SUBSET Sources]
       /\ "ci owner" \in in.env.sources => in.env.ci
  /\ PhaseFiles \in [DOMAIN PhaseFiles -> Seq(RawPhase)]
  /\ TaskFiles \in [DOMAIN TaskFiles -> Seq(RawTask)]
  /\ TextFiles \in [DOMAIN TextFiles -> {"text", Unset}]
  /\ "main" \in Names

VARIABLES
  input,    \* the user's files and the environment, fixed
  doc,      \* the configuration file as it was read
  conf,     \* the configuration
  k,        \* the phase a step is at
  expanded  \* the tasks of each phase: the task of the configuration, and the key

lvars == <<fvars, input, doc, conf, k, expanded>>

Steps == {"start", "find", "not found", "read", "phases", "tasks", "set",
          "files", "expand", "done", "failed"}

LTypeOK ==
  /\ FileTypeOK
  /\ at \in Steps
  /\ k \in 1 .. Len(conf.phases) + 1 \/ at \in {"phases", "failed"}
  /\ conf.skip \in Bool /\ conf.fail \in Bool
  /\ \A p \in Range(conf.phases) :
       /\ {p.skip, p.exit, p.fail} \subseteq Bool
       /\ \A t \in Range(p.tasks) : t.when \in Bool /\ t.type \in TaskTypes \cup {Unset}
  /\ Len(expanded) <= Len(conf.phases)

NoDoc == [phases |-> <<>>, skip |-> "absent", fail |-> "absent",
          owner |-> Unset, token |-> Unset]

\* Reader.read, of all but the phases.
Decode(d) ==
  [phases |-> <<>>, skip |-> UnmarshalBool(d.skip), fail |-> UnmarshalBool(d.fail),
   owner |-> d.owner, token |-> d.token]

LInit ==
  /\ FileInit
  /\ input \in Inputs
  /\ disk = input.disk
  /\ doc = NoDoc
  /\ conf = Decode(NoDoc)
  /\ k = 1
  /\ expanded = <<>>

Goes(here, there) ==
  /\ at = here
  /\ at' = there
  /\ UNCHANGED <<disk, ipc, iseen, place, rseen, input>>

Fails(here) == Goes(here, "failed") /\ UNCHANGED <<doc, conf, k, expanded>>

-----------------------------------------------------------------------------
(* Reader.read *)

PlainTask ==
  [import |-> Unset, unknown |-> FALSE, has |-> {"command"}, commandFile |-> Unset,
   shell |-> Unset, opts |-> Unset, when |-> "absent", whenFile |-> Unset,
   file |-> Unset, items |-> "absent"]

PlainPhase(name) ==
  [name |-> name, import |-> Unset, skip |-> "absent", exit |-> "absent",
   fail |-> "absent", tasks |-> <<PlainTask>>]

\* cfgTpl, and what of it a part of the file may say.  One that ends inside the
\* command's text decodes like the whole, with another command.
Template == [NoDoc EXCEPT !.phases = <<PlainPhase("main")>>]

TemplateParts ==
  {NoDoc, Template,
   [Template EXCEPT !.phases[1].tasks = <<>>],
   [Template EXCEPT !.phases[1].tasks[1].has = {}]}

\* The documents a file may be read as.
Says(content) ==
  CASE content = "absent"   -> {}
    [] content = "partial"  -> TemplateParts
    [] content = "template" -> {Template}
    [] content = "user"     -> {input.doc}
    [] content = "mixed"    -> {Template, input.doc}

\* SetStrict(true), of this file only.
Strict(d) == \A p \in Range(d.phases) : \A t \in Range(p.tasks) : ~t.unknown

Read ==
  /\ Goes("read", "phases")
  /\ \E d \in Says(disk[place]) :
       /\ Strict(d)
       /\ doc' = d
       /\ conf' = Decode(d)
  /\ k' = 1
  /\ UNCHANGED expanded

\* It is gone, does not parse, or has fields nobody knows.
ReadFails ==
  /\ Fails("read")
  /\ \/ disk[place] \in {"absent", "partial", "mixed"}
     \/ \E d \in Says(disk[place]) : ~Strict(d)

-----------------------------------------------------------------------------
(* importConfig *)

Decoded(raws) == MapSeq(DecodePhase, raws)

\* The phase that imports others stays in the list.
ImportPhaseBug ==
  /\ Goes("phases", "phases")
  /\ k \in DOMAIN doc.phases
  /\ LET p == doc.phases[k]
     IN  /\ p.import \in DOMAIN PhaseFiles \cup {Unset}
         /\ conf' = [conf EXCEPT !.phases = @ \o Decoded(
              <<p>> \o IF p.import = Unset THEN <<>> ELSE PhaseFiles[p.import])]
  /\ k' = k + 1
  /\ UNCHANGED <<doc, expanded>>

\* What a file that is imported imports is left as it is.
ImportPhase ==
  /\ Goes("phases", "phases")
  /\ k \in DOMAIN doc.phases
  /\ LET p == doc.phases[k]
     IN  /\ p.import \in DOMAIN PhaseFiles \cup {Unset}
         /\ conf' = [conf EXCEPT !.phases = @ \o Decoded(
              IF p.import = Unset THEN <<p>> ELSE PhaseFiles[p.import])]
  /\ k' = k + 1
  /\ UNCHANGED <<doc, expanded>>

ImportPhaseFails ==
  /\ Fails("phases")
  /\ k \in DOMAIN doc.phases
  /\ doc.phases[k].import \notin DOMAIN PhaseFiles \cup {Unset}

PhasesImported ==
  /\ Goes("phases", "tasks")
  /\ k \notin DOMAIN doc.phases
  /\ k' = 1
  /\ UNCHANGED <<doc, conf, expanded>>

AtPhase(here) == at = here /\ k \in DOMAIN conf.phases

ImportedTasks(t) ==
  IF t.src.import = Unset THEN <<t>> ELSE MapSeq(DecodeTask, TaskFiles[t.src.import])

TaskImportsThere ==
  \A t \in Range(conf.phases[k].tasks) : t.src.import \in DOMAIN TaskFiles \cup {Unset}

ImportTasks ==
  /\ AtPhase("tasks")
  /\ Goes("tasks", "tasks")
  /\ TaskImportsThere
  /\ conf' = [conf EXCEPT !.phases[k].tasks = FlattenSeq(MapSeq(ImportedTasks, @))]
  /\ k' = k + 1
  /\ UNCHANGED <<doc, expanded>>

ImportTasksFails ==
  /\ AtPhase("tasks")
  /\ ~TaskImportsThere
  /\ Fails("tasks")

TasksImported ==
  /\ Goes("tasks", "set")
  /\ k \notin DOMAIN conf.phases
  /\ k' = 1
  /\ UNCHANGED <<doc, conf, expanded>>

-----------------------------------------------------------------------------
(* setCLIArg, and config.Set *)

From(source) == IF source \in input.env.sources THEN source ELSE Unset

Or(setting, source) == IF setting # Unset THEN setting ELSE From(source)

SetCLIArg(c) ==
  [c EXCEPT !.owner = IF From("cli owner") # Unset THEN "cli owner" ELSE @,
            !.token = IF From("cli token") # Unset THEN "cli token" ELSE @]

\* The older variable is asked first.
SetEnvBug(c) ==
  [c EXCEPT !.token = Or(Or(@, "GITHUB_ACCESS_TOKEN"), "GITHUB_TOKEN"),
            !.owner = IF input.env.ci THEN Or(@, "ci owner") ELSE @]

\* The copy in Env is read by nothing and left out.
SetEnv(c) ==
  [c EXCEPT !.token = Or(Or(@, "GITHUB_TOKEN"), "GITHUB_ACCESS_TOKEN"),
            !.owner = IF input.env.ci THEN Or(@, "ci owner") ELSE @]

SetDefault(c) ==
  [c EXCEPT !.skip = SetDefaultBool(@, FALSE),
            !.fail = SetDefaultProgram(@),
            !.phases = MapSeq(DefaultPhase, @)]

\* Set, of the configuration the command line had its say on.
Set ==
  /\ Goes("set", "files")
  /\ Acceptable(conf.phases)
  /\ LET c == SetDefault(SetEnv(SetCLIArg(conf)))
     IN  conf' = [c EXCEPT !.phases = MapSeq(SetPhase, @)]
  /\ UNCHANGED <<doc, k, expanded>>

\* A meta value may be the reason as well.
SetFails == Fails("set")

-----------------------------------------------------------------------------
(* Controller.ReadExternalFiles *)

FilesOf(t) == {t.src.commandFile, t.src.whenFile, t.src.file} \ {Unset}

ReadTask(t) ==
  [t EXCEPT
     !.command = IF t.src.commandFile = Unset THEN @
                 ELSE IF TextFiles[t.src.commandFile] = Unset THEN Unset ELSE "file",
     !.when = IF t.src.whenFile = Unset THEN @
              ELSE SetBoolProgram(@, IF TextFiles[t.src.whenFile] = Unset
                                     THEN Unset ELSE "file")]

FilesThere ==
  \A t \in Range(conf.phases[k].tasks) : FilesOf(t) \subseteq DOMAIN TextFiles

ReadFiles ==
  /\ AtPhase("files")
  /\ Goes("files", "files")
  /\ FilesThere
  /\ conf' = [conf EXCEPT !.phases[k].tasks = MapSeq(ReadTask, @)]
  /\ k' = k + 1
  /\ UNCHANGED <<doc, expanded>>

ReadFilesFails ==
  /\ AtPhase("files")
  /\ ~FilesThere
  /\ Fails("files")

FilesRead ==
  /\ Goes("files", "expand")
  /\ k \notin DOMAIN conf.phases
  /\ k' = 1
  /\ UNCHANGED <<doc, conf, expanded>>

-----------------------------------------------------------------------------
(* Controller.getPhase *)

\* The tasks that come of the first m of the configuration.
TasksUpTo(tasks) ==
  LET upTo[m \in 0 .. Len(tasks)] ==
        IF m = 0 THEN {Got(<<>>)}
        ELSE {IF ts.ok /\ keys.ok
              THEN Got(ts.list \o [n \in DOMAIN keys.list |-> <<m, keys.list[n]>>])
              ELSE Failed : ts \in upTo[m - 1], keys \in Expand(tasks[m].src.items)}
  IN  upTo[Len(tasks)]

\* A phase that has failed is looked at again.
ExpandPhaseBug ==
  /\ AtPhase("expand")
  /\ conf.phases[k].tasks # <<>>
  /\ Goes("expand", "expand")
  /\ \E ts \in TasksUpTo(conf.phases[k].tasks) \cup {Failed} :
       /\ expanded' = Append(expanded, ts)
       /\ k' = IF ts.ok THEN k + 1 ELSE k
  /\ UNCHANGED <<doc, conf>>

\* A name that does not render for an item is an error too.  It fails the phase,
\* and the build goes on ...
ExpandPhase ==
  /\ AtPhase("expand")
  /\ conf.phases[k].tasks # <<>>
  /\ Goes("expand", "expand")
  /\ \E ts \in TasksUpTo(conf.phases[k].tasks) \cup {Failed} :
       expanded' = Append(expanded, ts)
  /\ k' = k + 1
  /\ UNCHANGED <<doc, conf>>

\* ... but for a phase without tasks, on which it ends (Build: GetPhase).
EmptyPhase ==
  /\ AtPhase("expand")
  /\ conf.phases[k].tasks = <<>>
  /\ Fails("expand")

AllExpanded ==
  /\ Goes("expand", "done")
  /\ k \notin DOMAIN conf.phases
  /\ UNCHANGED <<doc, conf, k, expanded>>

-----------------------------------------------------------------------------
FileStep ==
  /\ Search \/ \E p \in {Yml, Yaml} : UserSaves(p)
  /\ UNCHANGED <<input, doc, conf, k, expanded>>

InitStep(i) ==
  /\ InitCommand(i)
  /\ UNCHANGED <<input, doc, conf, k, expanded>>

Action ==
  \/ Read
  \/ ReadFails
  \/ ImportPhase
  \/ ImportPhaseFails
  \/ PhasesImported
  \/ ImportTasks
  \/ ImportTasksFails
  \/ TasksImported
  \/ Set
  \/ SetFails
  \/ ReadFiles
  \/ ReadFilesFails
  \/ FilesRead
  \/ ExpandPhase
  \/ EmptyPhase
  \/ AllExpanded

Over ==
  /\ at \in {"not found", "done", "failed"}
  /\ UNCHANGED lvars

LNext ==
  \/ FileStep
  \/ \E i \in Inits : InitStep(i)
  \/ Action
  \/ Over

LSpec == LInit /\ [][LNext]_lvars

-----------------------------------------------------------------------------
(* Properties *)

After(steps) == at \in steps \cup {"expand", "done"}

\* In place of an entry that imports a file stands what is in the file, and the
\* others stay where they are: phases first, then the tasks of each, imported
\* phases included; nothing is imported by what was imported
\* (importPhaseConfig, importTaskConfig).
Spliced(entries, files) ==
  FlattenSeq([m \in DOMAIN entries |->
    IF entries[m].import = Unset THEN <<entries[m]>> ELSE files[entries[m].import]])

SourceOf(x) == x.src

ImportsSpliced ==
  After({"set", "files"}) =>
    /\ MapSeq(SourceOf, conf.phases) = Spliced(doc.phases, PhaseFiles)
    /\ \A p \in Range(conf.phases) :
         MapSeq(SourceOf, p.tasks) = Spliced(p.src.tasks, TaskFiles)

\* What a condition means, from what the files say.
Meaning(raw, default) ==
  IF raw \in {"true", "false"} THEN raw
  ELSE IF raw = "script" THEN "user"
  ELSE IF raw = "empty" THEN "true"
  ELSE default

FileMeaning(t) ==
  IF t.whenFile = Unset THEN Meaning(t.when, "true")
  ELSE IF TextFiles[t.whenFile] = Unset THEN "true" ELSE "file"

\* Every condition of a build that starts means what the user wrote, and has its
\* own default where he wrote nothing: when_file, read after the defaults, comes
\* first, and no default takes the place of a value (setDefault,
\* ReadExternalFiles, Bool).
ConditionsMean ==
  After({}) =>
    /\ Means(conf.skip) = Meaning(doc.skip, "false")
    /\ Means(conf.fail) = Meaning(doc.fail, "default")
    /\ \A p \in Range(conf.phases) :
         /\ Means(p.skip) = Meaning(p.src.skip, "false")
         /\ Means(p.exit) = Meaning(p.src.exit, "false")
         /\ Means(p.fail) = Meaning(p.src.fail, "default")
         /\ \A t \in Range(p.tasks) : Means(t.when) = FileMeaning(t.src)

\* What Build and Phase take for granted of the configuration they are given:
\* a phase for each name of params.Phases, imported or not, and of every task
\* one type, with what it needs to be run: a command has a shell and the text of
\* its file if it names one (Set, SetDefault, readTemplateFile).
Runnable(t) ==
  /\ t.type \in TaskTypes
  /\ IsCommand(DecodeTask(t.src)) <=> t.type = "command"
  /\ t.type = "command" =>
       /\ t.shell # Unset
       /\ t.src.shell = Unset => t.opts # Unset
       /\ t.src.commandFile = Unset => t.command = "inline"
       /\ t.src.commandFile # Unset =>
            t.command = IF TextFiles[t.src.commandFile] = Unset THEN Unset ELSE "file"

ReadyToBuild ==
  After({}) =>
    /\ \A l, m \in DOMAIN conf.phases :
         conf.phases[l].src.name = conf.phases[m].src.name => l = m
    /\ \A p \in Range(conf.phases) : \A t \in Range(p.tasks) : Runnable(t)

\* The first of the sources that is set.
First(sources) ==
  LET set == {n \in DOMAIN sources : sources[n] # Unset}
  IN  IF set = {} THEN Unset ELSE sources[Min(set)]

\* The owner and the token that the GitHub client is used with come from the
\* first source that has them: option, file, environment; a platform is asked for
\* the owner only if neither option nor file has it (setCLIArg, setEnv).
SettingsFromFirstSource ==
  After({"files"}) =>
    /\ conf.owner = First(<<From("cli owner"), doc.owner, From("ci owner")>>)
    /\ conf.token = First(<<From("cli token"), doc.token, From("GITHUB_TOKEN"),
                            From("GITHUB_ACCESS_TOKEN")>>)

\* The tasks of a phase stand in the order of the configuration, those of one
\* task together and each with a key of its own, in the order of the list if it
\* has one; a task is missing only if its items are empty (getPhase, Expand).
Listed(raw) == raw \in {"list", "nolist"}

ExpandedInOrder ==
  \A p \in DOMAIN expanded :
    expanded[p].ok =>
      LET ts == expanded[p].list
          tasks == conf.phases[p].tasks
      IN  /\ \A l, m \in DOMAIN ts : l < m =>
               /\ ts[l][1] <= ts[m][1]
               /\ ts[l] # ts[m]
               /\ ts[l][1] = ts[m][1] /\ Listed(tasks[ts[l][1]].src.items) =>
                    ts[l][2] < ts[m][2]
          /\ \A m \in DOMAIN tasks :
               LET keys == {ts[l][2] : l \in {n \in DOMAIN ts : ts[n][1] = m}}
                   items == tasks[m].src.items
               IN  \/ keys = {NoKey} /\ items \in {"absent", "script"}
                   \/ /\ items # "absent"
                      /\ items \in {"list", "map"} => keys # {}
                      /\ keys = Keys(Cardinality(keys))

-----------------------------------------------------------------------------
(* What the documentation says and the code does not do *)

\* examples/main_test.go: "if there are unknown fields in configuration file,
\* buildflow run fails".
UnknownFieldsRefused ==
  After({}) => \A p \in Range(conf.phases) : \A t \in Range(p.tasks) : ~t.src.unknown

\* README, import: "import a list of phases from a file".
NothingLeftToImport ==
  After({}) => \A p \in Range(conf.phases) :
    /\ p.src.import = Unset
    /\ \A t \in Range(p.tasks) : t.src.import = Unset
=============================================================================
