------------------------------- MODULE MCLoad -------------------------------
(* Instances of Load for TLC. *)
EXTENDS Load

Doc(phases) == [NoDoc EXCEPT !.phases = phases]
Phase(tasks) == [PlainPhase("main") EXCEPT !.tasks = tasks]
OneTask(t) == Doc(<<Phase(<<t>>)>>)

\* Each condition with each value, the others not set; when with and without a file.
ConditionDocs ==
  LET plain == OneTask(PlainTask)
  IN  {[plain EXCEPT !.skip = b] : b \in RawBools}
        \cup {[plain EXCEPT !.fail = b] : b \in RawBools}
        \cup {[plain EXCEPT !.phases[1].skip = b] : b \in RawBools}
        \cup {[plain EXCEPT !.phases[1].exit = b] : b \in RawBools}
        \cup {[plain EXCEPT !.phases[1].fail = b] : b \in RawBools}
        \cup {OneTask([PlainTask EXCEPT !.when = b, !.whenFile = f]) :
                b \in RawBools, f \in {Unset, "text", "nothing"}}

\* Each type of task and combinations of two, with and without files.
TypeDocs ==
  {OneTask([PlainTask EXCEPT !.has = h, !.commandFile = f]) :
     h \in {{}, {"http"}, {"read_file", "http"}, {"command", "write_file"}},
     f \in {Unset, "text", "nothing", "gone"}}
    \cup {OneTask([PlainTask EXCEPT !.commandFile = f, !.shell = s, !.opts = o, !.file = g]) :
            f \in {Unset, "text"}, s \in {Unset, "bash"}, o \in {Unset, "-x"},
            g \in {Unset, "text", "gone"}}

\* Phases of this file and of others, with tasks of this file and of others, in
\* every order; names that clash with those of a file, and files that are gone.
Import(f) == [PlainPhase(Unset) EXCEPT !.import = f, !.tasks = <<>>]
ImportTask(f) == [PlainTask EXCEPT !.import = f, !.has = {}]
Entries ==
  {PlainPhase("main"), PlainPhase("b"), PlainPhase(Unset), Import("phases"),
   Import("clash"), Import("gone"), Phase(<<ImportTask("tasks"), PlainTask>>)}
ImportDocs ==
  {Doc(<<p, q>>) : p \in Entries, q \in Entries}
    \cup {Doc(<<Phase(<<PlainTask, ImportTask("gone")>>)>>),
          Doc(<<Phase(<<ImportTask("nested")>>)>>),
          OneTask([PlainTask EXCEPT !.unknown = TRUE]),
          Doc(<<Import("phases"), Import("more")>>)}

ItemDocs ==
  {Doc(<<Phase(<<[PlainTask EXCEPT !.items = a], [PlainTask EXCEPT !.items = b]>>)>>) :
     a \in RawItems, b \in RawItems}

NoSources == [ci |-> FALSE, sources |-> {}]

\* What sets the owner, and what sets the token.
Owners ==
  {[ci |-> c, sources |-> s] : c \in BOOLEAN, s \in SUBSET {"cli owner", "ci owner"}}
Tokens ==
  {[ci |-> FALSE, sources |-> s] :
     s \in SUBSET {"cli token", "GITHUB_TOKEN", "GITHUB_ACCESS_TOKEN"}}

Settings ==
  {[doc |-> [Template EXCEPT !.owner = o], env |-> e] :
     o \in {Unset, "doc owner"}, e \in {f \in Owners : "ci owner" \in f.sources => f.ci}}
    \cup {[doc |-> [Template EXCEPT !.token = t], env |-> e] :
            t \in {Unset, "doc token"}, e \in Tokens}

\* Every document for a user who has a file, and two of them, one that fails and
\* one that does not, for all that may happen to the files.
AllFiles == [Places -> {"absent", "user"}]
OneFile == [p \in Places |-> IF p = Yml THEN "user" ELSE "absent"]
Start(d, e, f) == [doc |-> d, env |-> e, disk |-> f]

MCInputs ==
  {Start(d, NoSources, OneFile) :
     d \in ConditionDocs \cup TypeDocs \cup ImportDocs \cup ItemDocs}
    \cup {Start(s.doc, s.env, OneFile) : s \in Settings}
    \cup {Start(d, NoSources, f) : d \in {Template, Doc(<<Import("gone")>>)}, f \in AllFiles}

MCPhaseFiles ==
  ("phases" :> <<PlainPhase("a"), Phase(<<ImportTask("tasks")>>)>>) @@
  ("clash"  :> <<PlainPhase("b"), PlainPhase("b")>>) @@
  ("more"   :> <<Import("phases")>>)

MCTaskFiles ==
  ("tasks"  :> <<[PlainTask EXCEPT !.items = "list"], [PlainTask EXCEPT !.unknown = TRUE]>>) @@
  ("nested" :> <<ImportTask("tasks"), PlainTask>>)

MCTextFiles == ("text" :> "text") @@ ("nothing" :> Unset)

MCNames ==
  {Unset, "main", "a", "b", "phases", "clash", "more", "tasks", "nested", "gone",
   "text", "nothing", "bash", "-x", "doc owner", "doc token"}

MCGiven == {NoPath, Yml}
=============================================================================
