-------------------------- MODULE ConfigFileProofs --------------------------
(***************************************************************************)
(* Proofs about the files of a directory, for any number of processes      *)
(* "buildflow init" beside the user and run.  LoadProofs makes theorems    *)
(* of its specification of them.                                           *)
(***************************************************************************)
EXTENDS ConfigFile, TLAPS

\* Nobody but init writes less than a whole file, and it writes one name only.
ContentInv ==
  /\ \A p \in {Yml, Parent} : disk[p] \in {"absent", "user"}
  /\ disk[Yaml] = "partial" => \E i \in Inits : ipc[i] \in {"write", "failed"}

\* No file goes away, so that what an init has found is still there; it creates
\* a file only if it has found none, and is done only if there is one.
SeenInv ==
  \A i \in Inits :
    /\ iseen[i] \subseteq There
    /\ ipc[i] = "stat yaml" => Yml \notin iseen[i]
    /\ ipc[i] \in {"create", "write"} => iseen[i] = {}
    /\ ipc[i] = "write" => Yaml \in There
    /\ ipc[i] = "ok" => There \cap {Yml, Yaml} # {}

\* What run looks for is still there, and not before the place it is at.
SearchInv ==
  /\ rseen \subseteq There
  /\ at = "start" => rseen = {}
  /\ \A p \in rseen : place <= p

FInv == FileTypeOK /\ ContentInv /\ SeenInv /\ SearchInv

\* The steps of ConfigFile; what Load adds to them moves run alone, and on.
FStep ==
  \/ \E i \in Inits : InitCommand(i)
  \/ \E p \in {Yml, Yaml} : UserSaves(p)
  \/ Search
  \/ UNCHANGED <<disk, ipc, iseen, place, rseen>> /\ (at' = at \/ at' # "start")

LEMMA PlaceNames ==
  /\ Places = {Yml, Yaml, Parent} /\ Places = 1 .. 3
  /\ Yml # Yaml /\ Yml # Parent /\ Yaml # Parent
BY DEF Places, Yml, Yaml, Parent

LEMMA FileInitial ==
  ASSUME FileInit
  PROVE  FInv
BY PlaceNames
DEF FileInit, FInv, FileTypeOK, Contents, InitPC, ContentInv, SeenInv, SearchInv,
    NoPath, There

\* A step of an init moves it alone, ...
LEMMA InitMoves ==
  ASSUME FInv, NEW i \in Inits, InitCommand(i)
  PROVE  /\ UNCHANGED <<at, place, rseen>>
         /\ \A j \in Inits \ {i} : ipc'[j] = ipc[j] /\ iseen'[j] = iseen[j]
         /\ ipc' \in [Inits -> InitPC] /\ iseen' \in [Inits -> SUBSET {Yml, Yaml}]
         /\ ipc'[i] # ipc[i]
<1>1. ASSUME NEW here, NEW there \in InitPC, InitGoes(i, here, there), here # there
      PROVE  /\ UNCHANGED <<at, place, rseen>>
             /\ \A j \in Inits \ {i} : ipc'[j] = ipc[j]
             /\ ipc' \in [Inits -> InitPC]
             /\ ipc'[i] # ipc[i]
  BY <1>1 DEF InitGoes, FInv, FileTypeOK
<1>2. There \ {Parent} \subseteq {Yml, Yaml}
  BY PlaceNames DEF There
<1>3. CASE StatYml(i)
  BY <1>1, <1>2, <1>3 DEF StatYml, Stat, InitPC, FInv, FileTypeOK
<1>4. CASE StatYaml(i)
  BY <1>1, <1>4 DEF StatYaml, Stat, InitPC, FInv, FileTypeOK
<1>5. CASE Create(i)
  BY <1>1, <1>5 DEF Create, InitPC, FInv, FileTypeOK
<1>6. CASE Write(i)
  BY <1>1, <1>6 DEF Write, InitPC, FInv, FileTypeOK
<1> QED BY <1>3, <1>4, <1>5, <1>6 DEF InitCommand

\* ... and touches the files only where it creates one or writes it.
LEMMA InitWrites ==
  ASSUME FInv, NEW i \in Inits, InitCommand(i)
  PROVE  \/ UNCHANGED disk /\ ipc[i] \notin {"write", "failed"}
         \/ /\ ipc[i] \in {"create", "write"}
            /\ iseen' = iseen
            /\ \E c \in Contents \ {"absent"} :
                 /\ disk' = [disk EXCEPT ![Yaml] = c]
                 /\ c = "partial" => ipc'[i] \in {"write", "failed"}
<1>1. disk[Yaml] \in Contents /\ (ipc[i] = "write" => disk[Yaml] # "absent")
  BY PlaceNames DEF FInv, FileTypeOK, SeenInv, There
<1>2. CASE StatYml(i) \/ StatYaml(i)
  BY <1>2 DEF StatYml, StatYaml, InitGoes
<1>3. CASE Create(i)
  BY <1>3 DEF Create, InitGoes, Contents, FInv, FileTypeOK
<1>4. CASE Write(i)
  <2>1. ASSUME NEW c \in {"template", disk[Yaml]}, ipc[i] = "write"
        PROVE  \A d \in Written(c) :
                 /\ d \in Contents \ {"absent"}
                 /\ c = "template" => d # "partial"
    BY <1>1, <2>1 DEF Written, Contents
  <2> QED BY <1>4, <2>1 DEF Write, InitGoes, FInv, FileTypeOK
<1> QED BY <1>2, <1>3, <1>4 DEF InitCommand

\* A file that is there stays there.
LEMMA FilesStay ==
  ASSUME FInv, FStep
  PROVE  There \subseteq There'
<1>1. CASE \E i \in Inits : InitCommand(i)
  BY <1>1, InitWrites, PlaceNames DEF There, FInv, FileTypeOK
<1>2. CASE \E p \in {Yml, Yaml} : UserSaves(p)
  BY <1>2, PlaceNames DEF UserSaves, There, FInv, FileTypeOK
<1>3. CASE UNCHANGED disk
  BY <1>3 DEF There
<1> QED BY <1>1, <1>2, <1>3 DEF FStep, Search, Begin, Find, NotFound

LEMMA ContentStep ==
  ASSUME FInv, FStep
  PROVE  ContentInv'
<1>1. CASE \E i \in Inits : InitCommand(i)
  <2>1. PICK i \in Inits : InitCommand(i)
    BY <1>1
  <2>2. CASE UNCHANGED disk /\ ipc[i] \notin {"write", "failed"}
    <3>1. \A j \in Inits : ipc[j] \in {"write", "failed"} => ipc'[j] = ipc[j]
      BY <2>1, <2>2, InitMoves
    <3> QED BY <2>2, <3>1 DEF FInv, ContentInv
  <2>3. ASSUME NEW c \in Contents, disk' = [disk EXCEPT ![Yaml] = c],
               c = "partial" => ipc'[i] \in {"write", "failed"}
        PROVE  ContentInv'
    BY <2>3, PlaceNames DEF FInv, ContentInv, FileTypeOK
  <2> QED BY <2>1, <2>2, <2>3, InitWrites
<1>2. CASE \E p \in {Yml, Yaml} : UserSaves(p)
  BY <1>2, PlaceNames DEF UserSaves, FInv, ContentInv, FileTypeOK
<1>3. CASE UNCHANGED <<disk, ipc>>
  BY <1>3 DEF FInv, ContentInv
<1> QED BY <1>1, <1>2, <1>3 DEF FStep, Search, Begin, Find, NotFound

LEMMA SeenStep ==
  ASSUME FInv, FStep
  PROVE  SeenInv'
<1>1. There \subseteq There'
  BY FilesStay
<1>2. ASSUME NEW i \in Inits, ipc'[i] = ipc[i], iseen'[i] = iseen[i]
      PROVE  SeenInv!(i)'
  BY <1>1, <1>2 DEF FInv, SeenInv
<1>3. ASSUME NEW i \in Inits, InitCommand(i)
      PROVE  SeenInv!(i)'
  <2>1. CASE StatYml(i)
    BY <1>1, <2>1, PlaceNames DEF StatYml, InitGoes, Stat, FInv, FileTypeOK, There
  <2>2. CASE StatYaml(i)
    BY <1>1, <2>2, PlaceNames DEF StatYaml, InitGoes, Stat, FInv, FileTypeOK, SeenInv
  <2>3. CASE Create(i)
    BY <1>1, <2>3, PlaceNames DEF Create, InitGoes, FInv, FileTypeOK, SeenInv, There
  <2>4. CASE Write(i)
    BY <1>1, <2>4, PlaceNames DEF Write, InitGoes, FInv, FileTypeOK, SeenInv
  <2> QED BY <1>3, <2>1, <2>2, <2>3, <2>4 DEF InitCommand
<1>4. CASE \E i \in Inits : InitCommand(i)
  <2>1. PICK i \in Inits : InitCommand(i)
    BY <1>4
  <2> QED BY <1>2, <1>3, <2>1, InitMoves DEF SeenInv
<1>5. CASE UNCHANGED <<ipc, iseen>>
  BY <1>2, <1>5 DEF SeenInv
<1> QED BY <1>4, <1>5 DEF FStep, UserSaves, Search, Begin, Find, NotFound

LEMMA SearchStep ==
  ASSUME FInv, FStep
  PROVE  SearchInv'
<1>1. There \subseteq There'
  BY FilesStay
<1>2. CASE UNCHANGED <<place, rseen>> /\ (at' = at \/ at' # "start")
  BY <1>1, <1>2 DEF FInv, SearchInv
<1>3. CASE Begin
  BY <1>1, <1>3, PlaceNames, ConfigFileAssumption
  DEF Begin, FInv, SearchInv, FileTypeOK, There, NoPath, Yml
<1>4. CASE Find
  <2>1. \A p \in rseen : p \in 1 .. 3 /\ p # place => place + 1 <= p
    BY <1>4, PlaceNames DEF FInv, SearchInv, FileTypeOK, Find
  <2> QED BY <1>1, <1>4, <2>1, PlaceNames DEF Find, FInv, SearchInv, FileTypeOK
<1> QED
  BY <1>2, <1>3, <1>4, InitMoves DEF FStep, UserSaves, Search, NotFound

LEMMA FileTypeStep ==
  ASSUME FInv, FStep
  PROVE  FileTypeOK'
<1>1. CASE \E i \in Inits : InitCommand(i)
  BY <1>1, InitMoves, InitWrites, PlaceNames DEF FInv, FileTypeOK
<1>2. CASE \E p \in {Yml, Yaml} : UserSaves(p)
  BY <1>2, PlaceNames DEF UserSaves, FInv, FileTypeOK, Contents
<1>3. CASE Search
  <2>1. There \subseteq Places /\ Places \subseteq 0 .. 4 /\ NoPath \in 0 .. 4 /\ Yml \in 0 .. 4
    BY PlaceNames DEF There, NoPath, Yml
  <2>2. CASE Begin
    BY <2>1, <2>2, ConfigFileAssumption DEF Begin, FInv, FileTypeOK
  <2>3. CASE Find
    BY <2>3, PlaceNames DEF Find, FInv, FileTypeOK
  <2>4. CASE NotFound
    BY <2>4 DEF NotFound, FInv, FileTypeOK
  <2> QED BY <1>3, <2>2, <2>3, <2>4 DEF Search
<1>4. CASE UNCHANGED <<disk, ipc, iseen, place, rseen>>
  BY <1>4 DEF FInv, FileTypeOK
<1> QED BY <1>1, <1>2, <1>3, <1>4 DEF FStep

LEMMA FileInductive ==
  ASSUME FInv, FStep
  PROVE  FInv'
BY ContentStep, SeenStep, SearchStep, FileTypeStep DEF FInv

-----------------------------------------------------------------------------
(* The properties *)

LEMMA FileProperties ==
  ASSUME FInv
  PROVE  FileTypeOK /\ InitHonest /\ FindsNearest
<1>1. ASSUME NEW i \in Inits, ipc[i] = "ok"
      PROVE  InitHonest!(i)!2
  <2>1. CASE disk[Yml] # "absent"
    BY <2>1 DEF FInv, ContentInv
  <2>2. CASE disk[Yaml] # "absent"
    BY <1>1, <2>2, PlaceNames DEF FInv, ContentInv, FileTypeOK, Contents
  <2> QED BY <1>1, <2>1, <2>2 DEF FInv, SeenInv, There
<1> QED BY <1>1 DEF InitHonest, FindsNearest, FInv, SearchInv

LEMMA FilesLost ==
  ASSUME FInv, FStep, NEW p \in Places, disk[p] = "user", disk'[p] # "user"
  PROVE  \E i \in Inits : ipc[i] # ipc'[i] /\ iseen[i] = {}
<1>1. PICK i \in Inits : InitCommand(i)
  BY PlaceNames DEF FStep, UserSaves, Search, Begin, Find, NotFound, FInv, FileTypeOK
<1> QED BY <1>1, InitMoves, InitWrites DEF FInv, SeenInv
=============================================================================
