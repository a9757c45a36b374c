---------------------------- MODULE ConfigProofs ----------------------------
(***************************************************************************)
(* Lemmas about the operators of Config and about those of SequencesExt it *)
(* is built from, for lists of every length.                               *)
(*                                                                         *)
(* Induction is by the least element of a set of numbers (WFMin), so that  *)
(* what is to be shown of every number is a set and not an operator.       *)
(***************************************************************************)
EXTENDS Config, SequenceTheorems, FiniteSetTheorems, WellFoundedInduction, TLAPS

LEMMA Induction ==
  ASSUME NEW N \in Nat, NEW D, 0 \in D, \A n \in 0 .. N - 1 : n \in D => n + 1 \in D
  PROVE  \A n \in 0 .. N : n \in D
<1> DEFINE T == 0 .. N \ D
<1> SUFFICES ASSUME T # {} PROVE FALSE
  OBVIOUS
<1>1. T \subseteq Nat
  OBVIOUS
<1>2. PICK x \in T : \A y \in T : ~(y < x)
  <2> HIDE DEF T
  <2>1. PICK x \in T : \A y \in T : <<y, x>> \notin OpToRel(<, Nat)
    BY <1>1, WFMin, NatLessThanWellFounded, Zenon
  <2>2. ASSUME NEW y \in T, y < x
        PROVE  <<y, x>> \in OpToRel(<, Nat)
    BY <1>1, <2>2 DEF OpToRel
  <2> QED BY <2>1, <2>2
<1>3. x \in 1 .. N /\ x - 1 \in 0 .. N - 1
  OBVIOUS
<1>4. x - 1 \in D
  BY <1>2, <1>3
<1> QED BY <1>3, <1>4

-----------------------------------------------------------------------------
(* FlattenSeq *)

\* f is the function by which FlattenSeq is defined, up to the n-th sequence.
Flattens(f, seqs, n) ==
  f = [i \in 1 .. n |-> IF i = 1 THEN seqs[i] ELSE f[i - 1] \o seqs[i]]

LEMMA FlattensAt ==
  ASSUME NEW f, NEW seqs, NEW n \in Nat, Flattens(f, seqs, n), NEW i \in 1 .. n
  PROVE  f[i] = IF i = 1 THEN seqs[i] ELSE f[i - 1] \o seqs[i]
<1> DEFINE Value(m) == IF m = 1 THEN seqs[m] ELSE f[m - 1] \o seqs[m]
<1>1. f = [m \in 1 .. n |-> Value(m)]
  BY DEF Flattens
<1> HIDE DEF Value
<1>2. f[i] = Value(i)
  BY <1>1
<1> QED BY <1>2 DEF Value

LEMMA FlattenExists ==
  ASSUME NEW seqs, NEW N \in Nat
  PROVE  \E f : Flattens(f, seqs, N)
<1> DEFINE D == {n \in 0 .. N : \E f : Flattens(f, seqs, n)}
<1>1. 0 \in D
  <2>1. Flattens([i \in 1 .. 0 |-> seqs[i]], seqs, 0)
    BY DEF Flattens
  <2> QED BY <2>1
<1>2. ASSUME NEW n \in 0 .. N - 1, n \in D
      PROVE  n + 1 \in D
  <2>1. PICK f : Flattens(f, seqs, n)
    BY <1>2
  <2> DEFINE Value(i) == IF i = 1 THEN seqs[i] ELSE f[i - 1] \o seqs[i]
             g == [i \in 1 .. n + 1 |-> Value(i)]
  <2>2. ASSUME NEW i \in 1 .. n + 1, i # 1
        PROVE  g[i - 1] = f[i - 1]
    <3>1. i - 1 \in 1 .. n /\ i - 1 \in 1 .. n + 1 /\ n \in Nat
      BY <2>2
    <3>2. f[i - 1] = Value(i - 1)
      BY <2>1, <3>1, FlattensAt
    <3> HIDE DEF Value
    <3> QED BY <3>1, <3>2
  <2>3. \A i \in 1 .. n + 1 :
          Value(i) = IF i = 1 THEN seqs[i] ELSE g[i - 1] \o seqs[i]
    <3> HIDE DEF g
    <3> QED BY <2>2
  <2>4. Flattens(g, seqs, n + 1)
    BY <2>3, Zenon DEF Flattens
  <2> QED BY <2>4
<1> HIDE DEF D
<1>3. N \in D
  BY <1>1, <1>2, Induction
<1> QED BY <1>3 DEF D

LEMMA FlattenUnfold ==
  ASSUME NEW seqs, Len(seqs) \in Nat \ {0}
  PROVE  \E f : Flattens(f, seqs, Len(seqs)) /\ FlattenSeq(seqs) = f[Len(seqs)]
<1> DEFINE f == CHOOSE f : Flattens(f, seqs, Len(seqs))
<1>1. FlattenSeq(seqs) = f[Len(seqs)]
  BY DEF FlattenSeq, Flattens
<1>2. Flattens(f, seqs, Len(seqs))
  BY FlattenExists
<1> QED BY <1>1, <1>2

LEMMA FlattenEmpty == FlattenSeq(<<>>) = <<>>
BY DEF FlattenSeq

\* Two lists of sequences that begin alike are flattened alike so far.
LEMMA FlattenPrefix ==
  ASSUME NEW s, NEW t, NEW f, NEW g, NEW N \in Nat, NEW M \in Nat, N <= M,
         Flattens(f, s, N), Flattens(g, t, M), \A i \in 1 .. N : s[i] = t[i]
  PROVE  \A i \in 1 .. N : f[i] = g[i]
<1> DEFINE D == {n \in 0 .. N : n = 0 \/ f[n] = g[n]}
<1>1. 0 \in D
  OBVIOUS
<1>2. ASSUME NEW n \in 0 .. N - 1, n \in D
      PROVE  n + 1 \in D
  <2>1. n + 1 \in 1 .. N /\ n + 1 \in 1 .. M /\ (n + 1) - 1 = n /\ (n + 1 = 1 <=> n = 0)
    OBVIOUS
  <2>2. f[n + 1] = IF n = 0 THEN s[n + 1] ELSE f[n] \o s[n + 1]
    BY <2>1, FlattensAt
  <2>3. g[n + 1] = IF n = 0 THEN t[n + 1] ELSE g[n] \o t[n + 1]
    BY <2>1, FlattensAt
  <2> QED BY <1>2, <2>1, <2>2, <2>3
<1> HIDE DEF D
<1>3. \A n \in 0 .. N : n \in D
  BY <1>1, <1>2, Induction
<1> QED BY <1>3 DEF D

\* The equation a recursive definition of FlattenSeq on sequences would have.
LEMMA FlattenAppend ==
  ASSUME NEW S, NEW seqs \in Seq(Seq(S)), NEW e \in Seq(S)
  PROVE  FlattenSeq(Append(seqs, e)) = FlattenSeq(seqs) \o e
<1> DEFINE N == Len(seqs)
           t == Append(seqs, e)
<1>1. /\ N \in Nat /\ Len(t) = N + 1 /\ t[N + 1] = e
      /\ \A i \in 1 .. N : t[i] = seqs[i]
  OBVIOUS
<1> HIDE DEF N, t
<1>2. PICK g : Flattens(g, t, N + 1) /\ FlattenSeq(t) = g[N + 1]
  BY <1>1, FlattenUnfold
<1>3. CASE N = 0
  <2>1. FlattenSeq(t) = e
    BY <1>1, <1>2, <1>3, FlattensAt
  <2>2. seqs = <<>> /\ <<>> \o e = e
    BY <1>3 DEF N
  <2> QED BY <2>1, <2>2, FlattenEmpty DEF t
<1>4. CASE N # 0
  <2>1. PICK f : Flattens(f, seqs, N) /\ FlattenSeq(seqs) = f[N]
    BY <1>1, <1>4, FlattenUnfold DEF N
  <2>2. N \in 1 .. N /\ N + 1 \in 1 .. N + 1 /\ N + 1 # 1 /\ (N + 1) - 1 = N /\ N + 1 \in Nat
    BY <1>1, <1>4
  <2>3. f[N] = g[N]
    <3>1. \A i \in 1 .. N : f[i] = g[i]
      <4>1. \A i \in 1 .. N : seqs[i] = t[i]
        BY <1>1
      <4>2. N <= N + 1
        BY <1>1
      <4> QED BY <1>1, <1>2, <2>1, <2>2, <4>1, <4>2, FlattenPrefix
    <3> QED BY <2>2, <3>1
  <2>4. g[N + 1] = g[N] \o e
    <3>1. g[N + 1] = IF N + 1 = 1 THEN t[N + 1] ELSE g[(N + 1) - 1] \o t[N + 1]
      BY <1>2, <2>2, FlattensAt
    <3> QED BY <1>1, <2>2, <3>1
  <2> QED BY <1>2, <2>1, <2>3, <2>4 DEF t
<1> QED BY <1>3, <1>4

LEMMA FlattenNext ==
  ASSUME NEW S, NEW seqs \in Seq(Seq(S)), NEW n \in 0 .. Len(seqs) - 1
  PROVE  /\ FlattenSeq(SubSeq(seqs, 1, n + 1)) = FlattenSeq(SubSeq(seqs, 1, n)) \o seqs[n + 1]
         /\ seqs[n + 1] \in Seq(S)
<1>1. /\ SubSeq(seqs, 1, n + 1) = Append(SubSeq(seqs, 1, n), seqs[n + 1])
      /\ SubSeq(seqs, 1, n) \in Seq(Seq(S)) /\ seqs[n + 1] \in Seq(S)
  OBVIOUS
<1> QED BY <1>1, FlattenAppend

\* The first part, and the last.
LEMMA FlattenEnds ==
  ASSUME NEW S, NEW seqs \in Seq(S)
  PROVE  /\ Len(seqs) \in Nat
         /\ FlattenSeq(SubSeq(seqs, 1, 0)) = <<>>
         /\ FlattenSeq(SubSeq(seqs, 1, Len(seqs))) = FlattenSeq(seqs)
<1>1. Len(seqs) \in Nat /\ SubSeq(seqs, 1, 0) = <<>> /\ SubSeq(seqs, 1, Len(seqs)) = seqs
  OBVIOUS
<1> QED BY <1>1, FlattenEmpty

LEMMA FlattenParts ==
  ASSUME NEW S, NEW seqs \in Seq(Seq(S)), NEW n \in 0 .. Len(seqs)
  PROVE  FlattenSeq(SubSeq(seqs, 1, n)) \in Seq(S)
<1> DEFINE L == Len(seqs)
           Part(m) == FlattenSeq(SubSeq(seqs, 1, m))
           D == {m \in 0 .. L : Part(m) \in Seq(S)}
<1>1. L \in Nat /\ Part(0) = <<>>
  BY FlattenEnds
<1>2. ASSUME NEW m \in 0 .. L - 1
      PROVE  Part(m + 1) = Part(m) \o seqs[m + 1] /\ seqs[m + 1] \in Seq(S)
  BY FlattenNext
<1>3. n \in 0 .. L
  OBVIOUS
<1> HIDE DEF L, Part
<1>4. 0 \in D
  <2>1. 0 \in 0 .. L /\ <<>> \in Seq(S)
    BY <1>1
  <2> QED BY <1>1, <2>1
<1>5. ASSUME NEW m \in 0 .. L - 1, m \in D
      PROVE  m + 1 \in D
  <2>1. m + 1 \in 0 .. L
    BY <1>1
  <2>2. Part(m) \o seqs[m + 1] \in Seq(S)
    BY <1>2, <1>5
  <2> QED BY <1>2, <2>1, <2>2
<1> HIDE DEF D
<1>6. n \in D
  <2>1. \A m \in 0 .. L : m \in D
    BY <1>1, <1>4, <1>5, Induction
  <2> QED BY <1>3, <2>1
<1> QED BY <1>6 DEF D, Part

LEMMA FlattenType ==
  ASSUME NEW S, NEW seqs \in Seq(Seq(S))
  PROVE  FlattenSeq(seqs) \in Seq(S)
<1>1. Len(seqs) \in 0 .. Len(seqs)
  OBVIOUS
<1> QED BY <1>1, FlattenParts, FlattenEnds

\* To flatten and then to map is to map and then to flatten.
Image(g, s) == [n \in DOMAIN s |-> g[s[n]]]

LEMMA ImageType ==
  ASSUME NEW S, NEW T, NEW g \in [S -> T], NEW s \in Seq(S)
  PROVE  Image(g, s) \in Seq(T)
BY DEF Image

LEMMA ImageLen ==
  ASSUME NEW S, NEW g, NEW s \in Seq(S)
  PROVE  Len(Image(g, s)) = Len(s)
BY DEF Image

LEMMA ImageConcat ==
  ASSUME NEW S, NEW g
  PROVE  \A s, t \in Seq(S) : Image(g, s \o t) = Image(g, s) \o Image(g, t)
<1> SUFFICES ASSUME NEW s \in Seq(S), NEW t \in Seq(S)
             PROVE  Image(g, s \o t) = Image(g, s) \o Image(g, t)
  OBVIOUS
<1> DEFINE T == {g[x] : x \in S}
<1>1. /\ DOMAIN s = 1 .. Len(s) /\ DOMAIN t = 1 .. Len(t)
      /\ DOMAIN (s \o t) = 1 .. Len(s) + Len(t) /\ Len(s) \in Nat /\ Len(t) \in Nat
  OBVIOUS
<1>2. /\ Image(g, s) \in Seq(T) /\ Len(Image(g, s)) = Len(s)
      /\ Image(g, t) \in Seq(T) /\ Len(Image(g, t)) = Len(t)
  <2>1. Image(g, s) \in Seq(T) /\ Image(g, t) \in Seq(T)
    BY DEF Image
  <2> QED BY <2>1, ImageLen
<1> HIDE DEF T
<1>3. DOMAIN (Image(g, s) \o Image(g, t)) = 1 .. Len(s) + Len(t)
  <2>1. \A x, y \in Seq(T) : DOMAIN (x \o y) = 1 .. Len(x) + Len(y)
    OBVIOUS
  <2> QED BY <1>2, <2>1, Zenon
<1>4. ASSUME NEW n \in 1 .. Len(s) + Len(t)
      PROVE  g[(s \o t)[n]] = (Image(g, s) \o Image(g, t))[n]
  <2>1. CASE n \in 1 .. Len(s)
    <3>1. (s \o t)[n] = s[n] /\ (Image(g, s) \o Image(g, t))[n] = Image(g, s)[n]
      BY <1>1, <1>2, <2>1
    <3> QED BY <1>1, <2>1, <3>1 DEF Image
  <2>2. CASE n \notin 1 .. Len(s)
    <3>1. n - Len(s) \in 1 .. Len(t)
      BY <1>1, <2>2
    <3>2. /\ (s \o t)[n] = t[n - Len(s)]
          /\ (Image(g, s) \o Image(g, t))[n] = Image(g, t)[n - Len(s)]
      BY <1>1, <1>2, <2>2
    <3> QED BY <1>1, <3>1, <3>2 DEF Image
  <2> QED BY <2>1, <2>2
<1> DEFINE joined == Image(g, s) \o Image(g, t)
<1>5. joined = [n \in 1 .. Len(s) + Len(t) |-> joined[n]]
  <2>1. \A x, y \in Seq(T) : x \o y \in Seq(T)
    OBVIOUS
  <2>2. joined \in Seq(T)
    BY <1>2, <2>1, Zenon
  <2> HIDE DEF joined
  <2>3. joined = [n \in DOMAIN joined |-> joined[n]]
    BY <2>2
  <2> QED BY <1>3, <2>3 DEF joined
<1>6. Image(g, s \o t) = [n \in 1 .. Len(s) + Len(t) |-> g[(s \o t)[n]]]
  BY <1>1 DEF Image
<1> QED
  <2> HIDE DEF joined
  <2> QED BY <1>4, <1>5, <1>6 DEF joined

LEMMA FlattenImage ==
  ASSUME NEW S, NEW T, NEW g \in [S -> T], NEW seqs \in Seq(Seq(S))
  PROVE  FlattenSeq([n \in DOMAIN seqs |-> Image(g, seqs[n])]) = Image(g, FlattenSeq(seqs))
<1> DEFINE L == Len(seqs)
           images == [n \in DOMAIN seqs |-> Image(g, seqs[n])]
           Part(m) == FlattenSeq(SubSeq(seqs, 1, m))
           Mapped(m) == FlattenSeq(SubSeq(images, 1, m))
           D == {m \in 0 .. L : Mapped(m) = Image(g, Part(m))}
<1>1. images \in Seq(Seq(T)) /\ Len(images) = L /\ L \in Nat
  <2>1. \A n \in 1 .. L : seqs[n] \in Seq(S)
    OBVIOUS
  <2>2. \A n \in 1 .. L : Image(g, seqs[n]) \in Seq(T)
    BY <2>1, ImageType
  <2>3. DOMAIN seqs = 1 .. L /\ L \in Nat
    OBVIOUS
  <2>4. images = [n \in 1 .. L |-> Image(g, seqs[n])]
    BY <2>3
  <2> HIDE DEF images, L
  <2>5. \A n \in 1 .. L : images[n] \in Seq(T)
    BY <2>2, <2>4
  <2>6. DOMAIN images = 1 .. L
    BY <2>4
  <2> QED BY <2>3, <2>4, <2>5, <2>6
<1>2. Part(0) = <<>> /\ Mapped(0) = <<>> /\ Part(L) = FlattenSeq(seqs)
  BY FlattenEnds, <1>1
<1>3. Mapped(L) = FlattenSeq(images)
  <2> HIDE DEF images
  <2> QED BY FlattenEnds, <1>1
<1>4. ASSUME NEW m \in 0 .. L - 1
      PROVE  /\ Part(m + 1) = Part(m) \o seqs[m + 1] /\ seqs[m + 1] \in Seq(S)
             /\ Part(m) \in Seq(S)
             /\ Mapped(m + 1) = Mapped(m) \o Image(g, seqs[m + 1])
  <2>1. m \in 0 .. Len(images) - 1 /\ m \in 0 .. L /\ m + 1 \in 1 .. L
    BY <1>1
  <2>2. images[m + 1] = Image(g, seqs[m + 1])
    BY <2>1
  <2>3. Mapped(m + 1) = Mapped(m) \o images[m + 1]
    <3> HIDE DEF images
    <3> QED BY <1>1, <2>1, FlattenNext
  <2> QED BY <2>1, <2>2, <2>3, FlattenNext, FlattenParts
<1> HIDE DEF L, Part, Mapped, images
<1>5. 0 \in D
  <2>1. 0 \in 0 .. L /\ Image(g, <<>>) = <<>>
    BY <1>1 DEF Image
  <2> QED BY <1>2, <2>1
<1>6. ASSUME NEW m \in 0 .. L - 1, m \in D
      PROVE  m + 1 \in D
  <2>1. m + 1 \in 0 .. L
    BY <1>1
  <2>2. Image(g, Part(m) \o seqs[m + 1]) = Image(g, Part(m)) \o Image(g, seqs[m + 1])
    <3>1. Part(m) \in Seq(S) /\ seqs[m + 1] \in Seq(S)
      BY <1>4
    <3>2. \A x, y \in Seq(S) : Image(g, x \o y) = Image(g, x) \o Image(g, y)
      BY ImageConcat, SMT
    <3> QED BY <3>1, <3>2
  <2> QED BY <1>4, <1>6, <2>1, <2>2
<1> HIDE DEF D
<1>7. L \in D
  <2>1. \A m \in 0 .. L : m \in D
    BY <1>1, <1>5, <1>6, Induction
  <2> QED BY <1>1, <2>1
<1> QED BY <1>2, <1>3, <1>7 DEF D, images

-----------------------------------------------------------------------------
(* Bool *)

LEMMA BoolTypes ==
  /\ \A raw \in RawBools : UnmarshalBool(raw) \in Bool
  /\ \A b \in Bool :
       /\ \A v \in BOOLEAN : SetDefaultBool(b, v) \in Bool
       /\ SetDefaultProgram(b) \in Bool
       /\ \A prog \in Programs : SetBoolProgram(b, prog) \in Bool
<1> USE DEF Bool, ZeroBool, Programs, Unset
<1>1. \A raw \in RawBools : UnmarshalBool(raw) \in Bool
  BY DEF RawBools, UnmarshalBool
<1>2. \A b \in Bool : \A v \in BOOLEAN : SetDefaultBool(b, v) \in Bool
  BY DEF SetDefaultBool
<1>3. \A b \in Bool : \A prog \in Programs : SetBoolProgram(b, prog) \in Bool
  BY DEF SetBoolProgram
<1>4. \A b \in Bool : SetDefaultProgram(b) \in Bool
  BY <1>3 DEF SetDefaultProgram
<1> QED BY <1>1, <1>2, <1>3, <1>4

-----------------------------------------------------------------------------
(* Items *)

\* What a list of keys has to be for the items of a task.
KeysOK(raw, list) ==
  /\ list \in Seq(Int)
  /\ \A l, m \in DOMAIN list : l < m =>
       list[l] # list[m] /\ (raw \in {"list", "nolist"} => list[l] < list[m])
  /\ LET keys == {list[l] : l \in DOMAIN list}
     IN  \/ keys = {NoKey} /\ raw \in {"absent", "script"}
         \/ /\ raw # "absent"
            /\ raw \in {"list", "map"} => keys # {}
            /\ \E n \in Nat : keys = Keys(n)

LEMMA SliceKeys ==
  ASSUME NEW n \in Nat
  PROVE  /\ ExpandSlice(n) \in Seq(Int) /\ DOMAIN ExpandSlice(n) = 1 .. n
         /\ \A l, m \in 1 .. n : l < m =>
              ExpandSlice(n)[l] # ExpandSlice(n)[m] /\ ExpandSlice(n)[l] < ExpandSlice(n)[m]
         /\ {ExpandSlice(n)[l] : l \in 1 .. n} = Keys(n)
<1>1. /\ ExpandSlice(n) \in Seq(Int) /\ DOMAIN ExpandSlice(n) = 1 .. n
      /\ \A l, m \in 1 .. n : l < m =>
           ExpandSlice(n)[l] # ExpandSlice(n)[m] /\ ExpandSlice(n)[l] < ExpandSlice(n)[m]
  BY DEF ExpandSlice
<1>2. ASSUME NEW key \in Keys(n)
      PROVE  key \in {ExpandSlice(n)[l] : l \in 1 .. n}
  <2>1. key + 1 \in 1 .. n /\ ExpandSlice(n)[key + 1] = key
    BY DEF Keys, ExpandSlice
  <2> QED BY <2>1
<1>3. \A l \in 1 .. n : ExpandSlice(n)[l] \in Keys(n)
  BY DEF Keys, ExpandSlice
<1> QED BY <1>1, <1>2, <1>3

\* A list of as many different keys as there are has all of them.
LEMMA MapKeys ==
  ASSUME NEW n \in Nat, NEW s \in ExpandMap(n)
  PROVE  /\ s \in Seq(Int) /\ DOMAIN s = 1 .. n
         /\ \A l, m \in 1 .. n : l # m => s[l] # s[m]
         /\ {s[l] : l \in 1 .. n} = Keys(n)
<1>1. IsFiniteSet(Keys(n)) /\ Cardinality(Keys(n)) = n /\ Cardinality(1 .. n) = n
  <2>1. /\ IsFiniteSet(0 .. n - 1)
        /\ Cardinality(0 .. n - 1) = IF 0 > n - 1 THEN 0 ELSE (n - 1) - 0 + 1
        /\ Cardinality(1 .. n) = IF 1 > n THEN 0 ELSE n - 1 + 1
    BY FS_Interval
  <2> QED BY <2>1 DEF Keys
<1>2. s \in [1 .. n -> Keys(n)] /\ \A l, m \in 1 .. n : l # m => s[l] # s[m]
  BY <1>1 DEF ExpandMap, SetToSeqs
<1>3. s \in Surjection(1 .. n, Keys(n))
  <2>1. s \in Injection(1 .. n, Keys(n))
    BY <1>2 DEF Injection, IsInjective
  <2> QED BY <1>1, <2>1, FS_Injection
<1>4. {s[l] : l \in 1 .. n} = Keys(n)
  BY <1>2, <1>3 DEF Surjection
<1>5. s \in Seq(Int) /\ DOMAIN s = 1 .. n
  BY <1>2 DEF Keys
<1> QED BY <1>2, <1>4, <1>5

LEMMA SomeKeys ==
  ASSUME NEW n \in Nat \ {0}
  PROVE  Keys(n) # {}
<1>1. 0 \in 0 .. n - 1
  OBVIOUS
<1> QED BY <1>1 DEF Keys

\* What Expand returns is right for the items it is given.
LEMMA ExpandKeys ==
  ASSUME NEW raw \in RawItems, NEW got \in Expand(raw), got.ok
  PROVE  KeysOK(raw, got.list)
<1>1. PICK v \in ItemValues(raw) :
        got \in CASE v[1] = "nil"   -> {Got(<<NoKey>>)}
                  [] v[1] = "list"  -> {Got(ExpandSlice(v[2]))}
                  [] v[1] = "map"   -> {Got(s) : s \in ExpandMap(v[2])}
                  [] v[1] = "error" -> {Failed}
  BY DEF Expand
<1>2. /\ v[1] \in {"nil", "list", "map", "error"} /\ v[2] \in Nat
      /\ v[1] = "nil" => raw \in {"absent", "script"}
      /\ v[1] \in {"list", "map"} => raw # "absent"
      /\ v[1] = "map" => raw \notin {"list", "nolist"}
      /\ raw \in {"list", "map"} => v[2] # 0
  BY ConfigAssumption DEF ItemValues, RawItems
<1>3. CASE v[1] = "nil"
  <2>1. got.list = <<NoKey>>
    BY <1>1, <1>3 DEF Got
  <2> QED BY <1>2, <1>3, <2>1 DEF KeysOK, NoKey
<1>4. CASE v[1] = "list"
  <2>1. got.list = ExpandSlice(v[2])
    BY <1>1, <1>4 DEF Got
  <2>2. v[2] # 0 => Keys(v[2]) # {}
    BY <1>2, SomeKeys
  <2>3. KeysOK(raw, ExpandSlice(v[2]))
    BY <1>2, <1>4, <2>2, SliceKeys DEF KeysOK
  <2> QED BY <2>1, <2>3
<1>5. CASE v[1] = "map"
  <2>1. PICK s \in ExpandMap(v[2]) : got.list = s
    BY <1>1, <1>5 DEF Got
  <2>2. v[2] # 0 => Keys(v[2]) # {}
    BY <1>2, SomeKeys
  <2> QED BY <1>2, <1>5, <2>1, <2>2, MapKeys DEF KeysOK
<1>6. v[1] # "error"
  BY <1>1 DEF Failed
<1> QED BY <1>2, <1>3, <1>4, <1>5, <1>6
=============================================================================
