----------------------------- MODULE ConfigFile -----------------------------
(***************************************************************************)
(* The configuration file of a directory: "buildflow init" makes one, the  *)
(* user saves one, and "buildflow run" looks for one and reads it, each a  *)
(* process of its own.                                                     *)
(*                                                                         *)
(* Nobody removes a file.  The user saves a whole file, in place or by     *)
(* renaming a new one.                                                     *)
(***************************************************************************)
EXTENDS Naturals

CONSTANTS
  Inits,   \* the processes "buildflow init"
  Given    \* what run may be told with -c: a place, or NoPath

Yml    == 1  \* .buildflow.yml of the working directory,
Yaml   == 2  \* .buildflow.yaml of the working directory,
Parent == 3  \* and either of them in a directory above: the order of the search
Places == 1 .. 3
NoPath == 0

ASSUME ConfigFileAssumption == Given \subseteq Places \cup {NoPath}

VARIABLES
  disk,   \* what each file holds
  ipc,    \* where each init is
  iseen,  \* the files of the directory that were there when it began
  at,     \* where run is
  place,  \* the file it looks at
  rseen   \* the files it looks for that were there when it began

fvars == <<disk, ipc, iseen, at, place, rseen>>

\* partial: the template or less.  mixed: a file of the user's with some of the
\* template over it.
Contents == {"absent", "partial", "template", "user", "mixed"}

InitPC == {"start", "stat yaml", "create", "write", "ok", "failed"}

FileTypeOK ==
  /\ disk \in [Places -> Contents]
  /\ ipc \in [Inits -> InitPC]
  /\ iseen \in [Inits -> SUBSET {Yml, Yaml}]
  /\ place \in 0 .. 4
  /\ rseen \subseteq Places

FileInit ==
  /\ disk \in [Places -> {"absent", "user"}]
  /\ ipc = [i \in Inits |-> "start"]
  /\ iseen = [i \in Inits |-> {}]
  /\ at = "start"
  /\ place = NoPath
  /\ rseen = {}

There == {p \in Places : disk[p] # "absent"}

-----------------------------------------------------------------------------
(* initAction *)

InitGoes(i, here, there) ==
  /\ ipc[i] = here
  /\ ipc' = [ipc EXCEPT ![i] = there]
  /\ UNCHANGED <<at, place, rseen>>

Stat(p, otherwise) == IF p \in There THEN "ok" ELSE otherwise

StatYml(i) ==
  /\ InitGoes(i, "start", Stat(Yml, "stat yaml"))
  /\ iseen' = [iseen EXCEPT ![i] = There \ {Parent}]
  /\ UNCHANGED disk

\* The name run looks for first is the only one asked for.
StatYamlBug(i) ==
  /\ InitGoes(i, "stat yaml", "create")
  /\ UNCHANGED <<disk, iseen>>

StatYaml(i) ==
  /\ InitGoes(i, "stat yaml", Stat(Yaml, "create"))
  /\ UNCHANGED <<disk, iseen>>

\* ioutil.WriteFile creates the file or truncates it, ...
Create(i) ==
  /\ \/ InitGoes(i, "create", "failed") /\ UNCHANGED disk
     \/ InitGoes(i, "create", "write") /\ disk' = [disk EXCEPT ![Yaml] = "partial"]
  /\ UNCHANGED iseen

\* What a write to the file it opened makes of the file that has the name now.
Written(content) ==
  IF disk[Yaml] \in {"user", "mixed"} THEN {disk[Yaml], "mixed", content} ELSE {content}

\* The error is not returned.
WriteBug(i) ==
  /\ \/ InitGoes(i, "write", "ok") /\ UNCHANGED disk
     \/ InitGoes(i, "write", "ok") /\ disk' = [disk EXCEPT ![Yaml] = "template"]
  /\ UNCHANGED iseen

\* ... and then writes the template, all of it or less.
Write(i) ==
  /\ \/ /\ InitGoes(i, "write", "failed")
        /\ \E c \in Written(disk[Yaml]) : disk' = [disk EXCEPT ![Yaml] = c]
     \/ /\ InitGoes(i, "write", "ok")
        /\ \E c \in Written("template") : disk' = [disk EXCEPT ![Yaml] = c]
  /\ UNCHANGED iseen

InitCommand(i) == StatYml(i) \/ StatYaml(i) \/ Create(i) \/ Write(i)

-----------------------------------------------------------------------------
(* The user *)

UserSaves(p) ==
  /\ disk[p] # "user"
  /\ disk' = [disk EXCEPT ![p] = "user"]
  /\ UNCHANGED <<ipc, iseen, at, place, rseen>>

-----------------------------------------------------------------------------
(* run, as far as the file: FindAndRead *)

Begin ==
  /\ at = "start"
  /\ \E path \in Given :
       IF path = NoPath THEN at' = "find" /\ place' = Yml /\ rseen' = There
       ELSE at' = "read" /\ place' = path /\ rseen' = {}
  /\ UNCHANGED <<disk, ipc, iseen>>

\* The second name is asked for in the place of the first.
FindBug ==
  /\ at = "find"
  /\ place \in Places
  /\ IF place \in There /\ place # Yml THEN at' = "read" /\ UNCHANGED place
     ELSE place' = place + 1 /\ UNCHANGED at
  /\ UNCHANGED <<disk, ipc, iseen, rseen>>

Find ==
  /\ at = "find"
  /\ place \in Places
  /\ IF place \in There THEN at' = "read" /\ UNCHANGED place
     ELSE place' = place + 1 /\ UNCHANGED at
  /\ UNCHANGED <<disk, ipc, iseen, rseen>>

NotFound ==
  /\ at = "find"
  /\ place \notin Places
  /\ at' = "not found"
  /\ UNCHANGED <<disk, ipc, iseen, place, rseen>>

Search == Begin \/ Find \/ NotFound

-----------------------------------------------------------------------------
(* Properties *)

\* A file of the user's is written over only by an init that found no file at
\* all when it began: one the user has saved since (initAction).
OnlyNewFilesLost ==
  [][\A p \in Places :
       disk[p] = "user" /\ disk'[p] # "user" =>
         \E i \in Inits : ipc[i] # ipc'[i] /\ iseen[i] = {}]_fvars

\* An init that says it is done leaves a file that is complete, unless another
\* init has the file open or failed to write it (initAction).
InitHonest ==
  \A i \in Inits : ipc[i] = "ok" =>
    \/ \E p \in {Yml, Yaml} : disk[p] \in {"template", "user", "mixed"}
    \/ /\ disk[Yaml] = "partial"
       /\ \E j \in Inits \ {i} : ipc[j] \in {"write", "failed"}

\* Without -c, run reads no file that comes after one that was there when it
\* began, and finds one if there was any (FindAndRead).
FindsNearest == at # "find" => \A p \in rseen : place <= p

-----------------------------------------------------------------------------
(* What the documentation says and the code does not do *)

\* init: "generate a configuration file if it doesn't exist".
InitOverwritesNothing ==
  [][\A p \in Places : disk[p] = "user" => disk'[p] = "user"]_fvars
=============================================================================
