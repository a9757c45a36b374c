--------------------------- MODULE PRFilesProofs ---------------------------
(***************************************************************************)
(* What GetPRFiles returns, for any size of a page and of a pull request.  *)
(***************************************************************************)
EXTENDS PRFiles, SequenceTheorems, TLAPS

\* Division and remainder, as the loop uses them.
LEMMA Rest ==
  ASSUME NEW s \in Nat
  PROVE  /\ s % MaxPerPage \in 0 .. MaxPerPage - 1
         /\ s \div MaxPerPage \in Nat
         /\ s = MaxPerPage * (s \div MaxPerPage) + (s % MaxPerPage)
  BY PRFilesAssumption, SMT

LEMMA SmallRest ==
  ASSUME NEW s \in Nat, s < MaxPerPage
  PROVE  s \div MaxPerPage = 0 /\ s % MaxPerPage = s
  BY PRFilesAssumption, SMT

LEMMA Distribute ==
  ASSUME NEW x \in Nat \ {0}, NEW m \in Nat
  PROVE  (x - 1) * m \in Nat /\ x * m = (x - 1) * m + m /\ (x + 1 - 1) * m = x * m
OBVIOUS

\* The size of a page is positive, and smaller than a full one for the last.
LEMMA AskedType ==
  ASSUME size \in Nat, NEW page \in Nat \ {0}
  PROVE  /\ Asked(page) \in 1 .. MaxPerPage
         /\ page = n => Asked(page) < MaxPerPage
         /\ page # n => Asked(page) = MaxPerPage
<1>1. size % MaxPerPage \in 0 .. MaxPerPage - 1
  BY Rest
<1> QED BY <1>1, PRFilesAssumption DEF Asked, PerPage

\* A page is made of files that follow each other, and holds no more of them
\* than it was asked for.
LEMMA PageFacts ==
  ASSUME size \in Nat, total \in Nat, NEW page \in Nat \ {0}
  PROVE  /\ Page(page) \in Seq(1 .. total)
         /\ Len(Page(page)) <= Asked(page)
         /\ \A k \in 1 .. Len(Page(page)) :
              Page(page)[k] = (page - 1) * Asked(page) + k
<1> DEFINE a     == Asked(page)
           first == (page - 1) * a
           last  == IF page * a < total THEN page * a ELSE total
           l     == IF first < last THEN last - first ELSE 0
<1>1. a \in Nat \ {0}
  BY AskedType, PRFilesAssumption
<1>2. first \in Nat /\ page * a = first + a
  BY <1>1
<1> HIDE DEF a
<1>3. last \in Nat /\ last <= total /\ last <= first + a
  BY <1>1, <1>2
<1> HIDE DEF first, last
<1>4. l \in Nat /\ l <= a /\ (l = 0 \/ first + l = last)
  BY <1>1, <1>2, <1>3
<1> HIDE DEF l
<1>5. Page(page) = [k \in 1 .. l |-> first + k]
  BY DEF Page, a, first, last, l
<1>6. \A k \in 1 .. l : first + k \in 1 .. total
  BY <1>2, <1>3, <1>4
<1>7. Page(page) \in Seq(1 .. total) /\ Len(Page(page)) = l
  BY <1>4, <1>5, <1>6
<1> QED BY <1>4, <1>5, <1>7 DEF a, first

LEMMA UpToSeq ==
  ASSUME NEW k \in Nat
  PROVE  UpTo(k) \in Seq(Nat) /\ Len(UpTo(k)) = k
BY DEF UpTo

\* The first x files and those of s, which follow them.
LEMMA Follow ==
  ASSUME NEW x \in Nat, NEW s \in Seq(Nat),
         \A k \in 1 .. Len(s) : s[k] = x + k
  PROVE  UpTo(x) \o s = UpTo(x + Len(s))
<1> DEFINE t == UpTo(x) \o s
           u == UpTo(x + Len(s))
<1>1. UpTo(x) \in Seq(Nat) /\ Len(UpTo(x)) = x /\ Len(s) \in Nat
  BY UpToSeq
<1>2. u \in Seq(Nat) /\ Len(u) = x + Len(s)
  BY <1>1, UpToSeq
<1>3. t \in Seq(Nat) /\ Len(t) = x + Len(s)
  <2>1. t \in Seq(Nat) /\ Len(t) = Len(UpTo(x)) + Len(s)
    BY <1>1, ConcatProperties, Zenon
  <2> QED BY <1>1, <2>1
<1>4. ASSUME NEW k \in 1 .. x + Len(s)
      PROVE  t[k] = u[k]
  <2>1. t[k] = IF k <= x THEN UpTo(x)[k] ELSE s[k - x]
    BY <1>1, ConcatProperties
  <2>2. u[k] = k
    BY DEF UpTo
  <2>3. CASE k <= x
    BY <2>1, <2>2, <2>3 DEF UpTo
  <2>4. CASE k > x
    <3>1. k - x \in 1 .. Len(s) /\ ~(k <= x)
      BY <1>1, <2>4
    <3>2. s[k - x] = x + (k - x)
      BY <3>1
    <3> QED BY <2>1, <2>2, <3>1, <3>2
  <2> QED BY <1>1, <2>3, <2>4
<1> HIDE DEF t, u
<1>5. t = u
  BY <1>2, <1>3, <1>4, SeqEqual
<1> QED BY <1>5 DEF t, u

-----------------------------------------------------------------------------
(* The inductive invariant *)

Inv ==
  /\ TypeOK
  /\ pc = "page" => size # 0
  /\ PrefixComplete
  /\ SmallPRComplete

LEMMA Numbers ==
  ASSUME TypeOK
  PROVE  size \in Nat /\ total \in Nat /\ n \in Nat \ {0} /\ i \in Nat \ {0}
<1>1. size \in Nat /\ total \in Nat
  BY PRFilesAssumption DEF TypeOK
<1>2. size \div MaxPerPage \in Nat
  BY <1>1, Rest
<1> QED BY <1>1, <1>2 DEF TypeOK, n

LEMMA Initial == Init => Inv
<1> SUFFICES ASSUME Init PROVE Inv
  OBVIOUS
<1>1. size \in Nat /\ total \in Nat /\ size \div MaxPerPage \in Nat
  BY Rest, PRFilesAssumption DEF Init
<1>2. TypeOK
  BY <1>1 DEF Init, TypeOK, n
<1>3. (i - 1) * MaxPerPage = 0 /\ UpTo(0) = <<>>
  BY PRFilesAssumption DEF Init, UpTo
<1>4. PrefixComplete
  BY <1>3 DEF Init, PrefixComplete
<1>5. pc = "done" => (IF size < total THEN size ELSE total) = 0
  BY <1>1 DEF Init
<1>6. SmallPRComplete
  BY <1>3, <1>5 DEF Init, SmallPRComplete
<1> QED BY <1>2, <1>4, <1>6 DEF Init, Inv

LEMMA FullPage ==
  ASSUME Inv, GetPage, ~ShortPage(Page(i))
  PROVE  Inv'
<1> USE DEF Inv
<1>0. size \in Nat /\ total \in Nat /\ n \in Nat \ {0} /\ i \in Nat \ {0}
  BY Numbers
<1>1. /\ pc = "page" /\ pc' = "page" /\ i' = i + 1
      /\ ret' = ret \o Page(i) /\ size' = size /\ total' = total
  BY DEF GetPage
<1>2. Len(Page(i)) = MaxPerPage
  BY DEF ShortPage
<1>3. i # n /\ Asked(i) = MaxPerPage
  <2>1. MaxPerPage <= Asked(i)
    BY <1>0, <1>2, PageFacts
  <2>2. Asked(i) \in 1 .. MaxPerPage /\ (i = n => Asked(i) < MaxPerPage)
    BY <1>0, AskedType
  <2> QED BY <2>1, <2>2, PRFilesAssumption
<1>4. n' = n
  BY <1>1 DEF n
<1>5. i' \in 1 .. n'
  BY <1>0, <1>1, <1>3, <1>4 DEF TypeOK
<1>6. ret' \in Seq(1 .. total')
  BY <1>0, <1>1, PageFacts DEF TypeOK
<1>7. TypeOK'
  BY <1>1, <1>5, <1>6 DEF TypeOK
<1>8. /\ (i - 1) * MaxPerPage \in Nat
      /\ (i' - 1) * MaxPerPage = (i - 1) * MaxPerPage + MaxPerPage
  <2>1. i \in Nat \ {0} /\ i' = i + 1 /\ MaxPerPage \in Nat
    BY <1>0, <1>1, PRFilesAssumption
  <2> QED BY <2>1, Distribute
<1>9. ret' = UpTo((i - 1) * MaxPerPage) \o Page(i)
  BY <1>1 DEF PrefixComplete
<1>10. ret' = UpTo((i - 1) * MaxPerPage + MaxPerPage)
  <2>1. Page(i) \in Seq(Nat)
    BY <1>0, PageFacts
  <2>2. \A k \in 1 .. Len(Page(i)) : Page(i)[k] = (i - 1) * MaxPerPage + k
    BY <1>0, <1>3, PageFacts
  <2> QED BY <1>2, <1>8, <1>9, <2>1, <2>2, Follow
<1>11. PrefixComplete'
  BY <1>8, <1>10 DEF PrefixComplete, UpTo
<1> QED BY <1>1, <1>7, <1>11 DEF SmallPRComplete

LEMMA LastPage ==
  ASSUME Inv, GetPage, ShortPage(Page(i))
  PROVE  Inv'
<1> USE Numbers DEF Inv
<1>1. /\ pc = "page" /\ pc' = "done" /\ i' = i
      /\ ret' = ret \o Page(i) /\ size' = size /\ total' = total
  BY DEF GetPage
<1>2. TypeOK'
  BY <1>1, PageFacts DEF TypeOK, n
<1>3. ASSUME size < MaxPerPage
      PROVE  ret' = UpTo(IF size < total THEN size ELSE total)
  <2>1. n = 1 /\ i = 1 /\ size % MaxPerPage = size
    BY <1>3, SmallRest DEF n, TypeOK
  <2>2. Asked(1) = size
    BY <1>1, <2>1 DEF Asked, PerPage
  <2>3. (1 - 1) * Asked(1) = 0 /\ 1 * Asked(1) = size
    BY <2>2
  <2>4. Page(1) = [k \in 1 .. IF 0 < (IF size < total THEN size ELSE total)
                              THEN (IF size < total THEN size ELSE total) - 0
                              ELSE 0 |-> 0 + k]
    BY <2>3 DEF Page
  <2>5. Page(1) = UpTo(IF size < total THEN size ELSE total)
    BY <2>4 DEF UpTo
  <2>6. ret = <<>>
    <3>1. (i - 1) * MaxPerPage = 0
      BY <2>1, PRFilesAssumption
    <3>2. UpTo(0) = <<>>
      BY DEF UpTo
    <3> QED BY <1>1, <3>1, <3>2 DEF PrefixComplete
  <2>7. <<>> \o Page(1) = Page(1)
    BY PageFacts
  <2> QED BY <1>1, <2>1, <2>5, <2>6, <2>7
<1>4. SmallPRComplete'
  BY <1>1, <1>3 DEF SmallPRComplete, UpTo
<1> QED BY <1>1, <1>2, <1>4 DEF PrefixComplete

LEMMA Inductive == Inv /\ [Next]_vars => Inv'
<1> SUFFICES ASSUME Inv, [Next]_vars PROVE Inv'
  OBVIOUS
<1>1. CASE GetPage
  BY <1>1, FullPage, LastPage
<1>2. CASE GetPageFails
  BY <1>2 DEF GetPageFails, Inv, TypeOK, n, PrefixComplete, SmallPRComplete
<1>3. CASE UNCHANGED vars
  BY <1>3 DEF vars, Inv, TypeOK, n, PrefixComplete, SmallPRComplete, UpTo
<1> QED BY <1>1, <1>2, <1>3 DEF Next, Terminated

\* GetPRFiles asks for no page after the n-th: the return at the end of the
\* function is never reached, whatever the API answers.
THEOREM TypeOKHolds == Spec => []TypeOK
<1>1. Inv => TypeOK
  BY DEF Inv
<1> QED BY <1>1, Initial, Inductive, PTL DEF Spec

\* While the loop goes on it has every file of the pages before, once.
THEOREM PrefixCompleteHolds == Spec => []PrefixComplete
<1>1. Inv => PrefixComplete
  BY DEF Inv
<1> QED BY <1>1, Initial, Inductive, PTL DEF Spec

\* A pull request of less than a page is complete, for any size of a page.
THEOREM SmallPRCompleteHolds == Spec => []SmallPRComplete
<1>1. Inv => SmallPRComplete
  BY DEF Inv
<1> QED BY <1>1, Initial, Inductive, PTL DEF Spec
=============================================================================
