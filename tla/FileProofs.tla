------------------------------ MODULE FileProofs ------------------------------
(***************************************************************************)
(* The safety of FileIndexing, for files of any length, lines of any size, *)
(* any cap and target, and any number of retries.  The splitters fold over *)
(* lines and paragraphs: each fold is first turned into the sequence of    *)
(* states it goes through (FoldStates; PlainLines, SectionLines, Packed,   *)
(* Counted, MarkdownLines), and an invariant of those states is then shown *)
(* by Induction, a lemma about sets of naturals: Cover and Whole of the    *)
(* paragraphs, Packing of a text's spans, Marks of a Markdown file's.      *)
(***************************************************************************)
EXTENDS FileIndexing, FiniteSetTheorems, WellFoundedInduction, SequenceTheorems, TLAPS

-----------------------------------------------------------------------------
(* Naturals, induction, and folds.                                          *)

\* A set of naturals has a smallest member.
LEMMA Smallest ==
  ASSUME NEW T \in SUBSET Nat, T # {}
  PROVE  \E n \in T : \A m \in T : n <= m
<1>1. PICK b \in T : TRUE
  OBVIOUS
<1> DEFINE U == {1..n : n \in {m \in T : m <= b}}
           S == 1..b
<1>2. U \subseteq FiniteSubsetsOf(S) /\ U # {}
  <2>1. ASSUME NEW n \in T, n <= b PROVE 1..n \in SUBSET S /\ IsFiniteSet(1..n)
    BY <2>1, FS_Interval
  <2>2. 1..b \in U
    OBVIOUS
  <2> QED
    BY <2>1, <2>2 DEF FiniteSubsetsOf
<1>3. IsWellFoundedOn(StrictSubsetOrdering(S), FiniteSubsetsOf(S))
  BY FS_StrictSubsetOrderingWellFounded
<1>4. PICK x \in U : \A y \in U : ~ (<<y, x>> \in StrictSubsetOrdering(S))
  BY <1>2, <1>3, WFMin
<1>5. PICK n \in T : x = 1..n /\ n <= b
  BY <1>4
<1>6. ASSUME NEW m \in T, m < n PROVE FALSE
  <2>1. 1..m \in U
    BY <1>5, <1>6
  <2>2. 1..m \subseteq 1..n /\ 1..m # 1..n
    <3>1. n \in 1..n /\ n \notin 1..m
      BY <1>6
    <3> QED
      BY <1>6, <3>1
  <2>3. 1..m \in SUBSET S /\ 1..n \in SUBSET S
    BY <1>5, <1>6
  <2> QED
    BY <1>4, <1>5, <2>1, <2>2, <2>3 DEF StrictSubsetOrdering
<1> QED
  BY <1>6

\* A set that has 0, and with each number below b the next, has all up to b.
LEMMA Induction ==
  ASSUME NEW T \in SUBSET Nat, NEW b \in Nat, 0 \in T,
         \A n \in T : n < b => n + 1 \in T
  PROVE  \A n \in 0..b : n \in T
<1> SUFFICES ASSUME NEW n \in 0..b, n \notin T PROVE FALSE
  OBVIOUS
<1> DEFINE U == {m \in 0..b : m \notin T}
<1>1. PICK m \in U : \A k \in U : m <= k
  <2>1. U \in SUBSET Nat /\ U # {}
    OBVIOUS
  <2> HIDE DEF U
  <2> QED
    BY <2>1, Smallest
<1>2. m # 0 /\ m - 1 \in Nat /\ m - 1 < b
  BY <1>1
<1>3. m - 1 \in T
  BY <1>1, <1>2
<1> QED
  BY <1>1, <1>2, <1>3

\* The last of the first k + 1 numbers, and what is left without it.
LEMMA Segment ==
  ASSUME NEW k \in Nat
  PROVE  /\ Max(1..(k + 1)) = k + 1
         /\ (1..(k + 1)) \ {k + 1} = 1..k
         /\ \A s \in SUBSET (1..(k + 1)) :
              k + 1 \in s => Max(s) = k + 1 /\ s \ {k + 1} \in SUBSET (1..k)
<1>1. ASSUME NEW s \in SUBSET (1..(k + 1)), k + 1 \in s
      PROVE  Max(s) = k + 1 /\ s \ {k + 1} \in SUBSET (1..k)
  <2>1. \A y \in s : k + 1 >= y
    OBVIOUS
  <2>2. \A x \in s : (\A y \in s : x >= y) => x = k + 1
    BY <1>1
  <2>3. Max(s) = k + 1
    BY <1>1, <2>1, <2>2 DEF Max
  <2>4. \A x \in s : x # k + 1 => x \in 1..k
    OBVIOUS
  <2> QED
    BY <2>3, <2>4
<1>2. 1..(k + 1) \in SUBSET (1..(k + 1)) /\ k + 1 \in 1..(k + 1)
  OBVIOUS
<1>3. (1..(k + 1)) \ {k + 1} = 1..k
  OBVIOUS
<1> QED
  BY <1>1, <1>2, <1>3

\* What a fold over n members with values in A starts from and does.
IsFold(A, n, base, step) == n \in Nat /\ base \in A /\ step \in [A -> [1..n -> A]]

\* A solution of its recursion.
Solves(A, n, base, step, g) ==
  /\ g \in [SUBSET (1..n) -> A]
  /\ \A s \in SUBSET (1..n) :
       g[s] = IF s = {} THEN base ELSE step[g[s \ {Max(s)}]][Max(s)]

\* What it does on the first k members and on one more.
Unfolds(A, n, base, step, g) ==
  /\ g[{}] = base
  /\ \A k \in 1..n : g[1..(k - 1)] \in A => g[1..k] = step[g[1..(k - 1)]][k]

\* The states it goes through.
States(A, n, base, step, g, f) ==
  /\ f \in [0..n -> A]
  /\ f[0] = base /\ f[n] = g[1..n]
  /\ \A k \in 1..n : f[k] = step[f[k - 1]][k]

\* The recursion of a fold has a solution.
LEMMA FoldExists ==
  ASSUME NEW A, NEW n, NEW base, NEW step, IsFold(A, n, base, step)
  PROVE  \E g : Solves(A, n, base, step, g)
<1> USE DEF IsFold
<1> DEFINE Next1(g, s) == IF s = {} THEN base ELSE step[g[s \ {Max(s)}]][Max(s)]
           Solutions(k) == {g \in [SUBSET (1..k) -> A] : \A s \in SUBSET (1..k) : g[s] = Next1(g, s)}
           T == {k \in Nat : k <= n => \E g : g \in Solutions(k)}
<1> HIDE DEF Solutions
<1>1. 0 \in T
  <2> DEFINE g == [s \in SUBSET (1..0) |-> base]
  <2>1. g \in [SUBSET (1..0) -> A]
    OBVIOUS
  <2>2. \A s \in SUBSET (1..0) : s = {}
    OBVIOUS
  <2>3. g \in Solutions(0)
    BY <2>1, <2>2 DEF Solutions
  <2> QED
    BY <2>3
<1>2. ASSUME NEW k \in T, k < n PROVE k + 1 \in T
  <2>1. k \in Nat /\ \E g : g \in Solutions(k)
    BY <1>2
  <2>2. PICK g : g \in Solutions(k)
    BY <2>1
  <2>3. g \in [SUBSET (1..k) -> A] /\ \A s \in SUBSET (1..k) : g[s] = Next1(g, s)
    BY <2>2 DEF Solutions
  <2> DEFINE h == [s \in SUBSET (1..(k + 1)) |->
                     IF k + 1 \in s THEN step[g[s \ {k + 1}]][k + 1] ELSE g[s]]
  <2> HIDE DEF T
  <2>4. ASSUME NEW s \in SUBSET (1..(k + 1)), k + 1 \in s
        PROVE  h[s] \in A /\ h[s] = Next1(h, s)
    <3>1. Max(s) = k + 1 /\ s \ {k + 1} \in SUBSET (1..k)
      BY <2>1, <2>4, Segment
    <3>2. s \ {k + 1} \in SUBSET (1..(k + 1)) /\ k + 1 \notin s \ {k + 1} /\ s # {}
      BY <2>4
    <3>3. h[s \ {k + 1}] = g[s \ {k + 1}] /\ g[s \ {k + 1}] \in A
      BY <2>3, <3>1, <3>2
    <3>4. k + 1 \in 1..n
      BY <1>2, <2>1
    <3>5. h[s] = step[g[s \ {k + 1}]][k + 1]
      BY <2>4
    <3> QED
      BY <3>1, <3>2, <3>3, <3>4, <3>5
  <2>5. ASSUME NEW s \in SUBSET (1..(k + 1)), k + 1 \notin s
        PROVE  h[s] \in A /\ h[s] = Next1(h, s)
    <3>0. ASSUME NEW x \in s PROVE x \in 1..k
      <4>1. x \in 1..(k + 1) /\ x # k + 1
        BY <2>5
      <4> QED
        BY <2>1, <4>1
    <3> DEFINE t == s \ {Max(s)}
    <3>1. s \in SUBSET (1..k) /\ t \in SUBSET (1..k) /\ t \in SUBSET (1..(k + 1)) /\ k + 1 \notin t
      BY <3>0, <2>5
    <3>3. h[s] = g[s] /\ h[t] = g[t]
      BY <2>5, <3>1
    <3>4. g[s] \in A /\ g[s] = Next1(g, s)
      BY <2>3, <3>1
    <3> QED
      BY <3>3, <3>4
  <2>6. h \in [SUBSET (1..(k + 1)) -> A]
    BY <2>4, <2>5
  <2>7. \A s \in SUBSET (1..(k + 1)) : h[s] = Next1(h, s)
    BY <2>4, <2>5
  <2>8. h \in Solutions(k + 1)
    <3> HIDE DEF h
    <3> QED
      BY <2>6, <2>7 DEF Solutions
  <2> QED
    BY <2>1, <2>8 DEF T
<1>3. \A k \in 0..n : k \in T
  <2>1. T \in SUBSET Nat
    OBVIOUS
  <2> HIDE DEF T
  <2> QED
    BY <1>1, <1>2, <2>1, Induction
<1>4. n \in T
  BY <1>3
<1>5. PICK g : g \in Solutions(n)
  BY <1>4
<1> QED
  BY <1>5 DEF Solutions, Solves

\* A set of the first n numbers has a largest.
LEMMA MaxIsThere ==
  ASSUME NEW n \in Nat, NEW s \in SUBSET (1..n), s # {}
  PROVE  Max(s) \in s /\ \A y \in s : Max(s) >= y
<1> DEFINE T == {n - x : x \in s}
<1>0. \A x \in s : x \in 1..n /\ n - x \in Nat
  OBVIOUS
<1>1. T \in SUBSET Nat /\ T # {}
  BY <1>0
<1>2. PICK t \in T : \A u \in T : t <= u
  <2> HIDE DEF T
  <2> QED
    BY <1>1, Smallest
<1>3. PICK x \in s : t = n - x
  BY <1>2
<1>4. ASSUME NEW y \in s PROVE x >= y
  <2>1. n - x <= n - y
    BY <1>2, <1>3
  <2>2. x \in Int /\ y \in Int
    BY <1>0
  <2> QED
    BY <2>1, <2>2
<1> QED
  BY <1>4 DEF Max

\* The first k of n numbers, and the first k - 1; any of them, and the rest.
LEMMA Segments ==
  ASSUME NEW n \in Nat
  PROVE  /\ \A k \in 1..n : /\ 1..k \in SUBSET (1..n) /\ 1..k # {}
                            /\ Max(1..k) = k /\ (1..k) \ {k} = 1..(k - 1)
         /\ \A s \in SUBSET (1..n) : s # {} =>
              Max(s) \in 1..n /\ s \ {Max(s)} \in SUBSET (1..n)
<1>1. ASSUME NEW k \in 1..n
      PROVE  /\ 1..k \in SUBSET (1..n) /\ 1..k # {}
             /\ Max(1..k) = k /\ (1..k) \ {k} = 1..(k - 1)
  <2>1. k - 1 \in Nat /\ (k - 1) + 1 = k
    OBVIOUS
  <2>2. \A x \in 1..k : x \in 1..n
    OBVIOUS
  <2>3. k \in 1..k
    OBVIOUS
  <2>4. Max(1..k) = k /\ (1..k) \ {k} = 1..(k - 1)
    BY <2>1, Segment
  <2> QED
    BY <2>2, <2>3, <2>4
<1>2. ASSUME NEW s \in SUBSET (1..n), s # {}
      PROVE  Max(s) \in 1..n /\ s \ {Max(s)} \in SUBSET (1..n)
  <2>1. Max(s) \in s
    BY <1>2, MaxIsThere
  <2> QED
    BY <2>1
<1> QED
  BY <1>1, <1>2

\* What solves the recursion of a fold goes through the states of the fold.
LEMMA FoldStates ==
  ASSUME NEW A, NEW n, NEW base, NEW step, NEW it,
         IsFold(A, n, base, step), Unfolds(A, n, base, step, it)
  PROVE  \E f : States(A, n, base, step, it, f)
<1> USE DEF IsFold, Unfolds
<1> DEFINE T == {k \in Nat : it[1..k] \in A}
<1>1. 0 \in T
  <2>1. 1..0 = {}
    OBVIOUS
  <2> QED
    BY <2>1
<1>2. ASSUME NEW k \in T, k < n PROVE k + 1 \in T
  <2>1. k \in Nat /\ it[1..k] \in A /\ k + 1 \in 1..n /\ (k + 1) - 1 = k
    BY <1>2
  <2>2. it[1..(k + 1)] = step[it[1..k]][k + 1]
    BY <2>1
  <2> QED
    BY <2>1, <2>2
<1>3. \A k \in 0..n : k \in T
  <2>1. T \in SUBSET Nat
    OBVIOUS
  <2> HIDE DEF T
  <2> QED
    BY <1>1, <1>2, <2>1, Induction
<1> DEFINE f == [k \in 0..n |-> it[1..k]]
<1>4. f \in [0..n -> A]
  BY <1>3
<1>5. f[0] = base /\ f[n] = it[1..n]
  <2>1. 1..0 = {}
    OBVIOUS
  <2> QED
    BY <2>1
<1>6. ASSUME NEW k \in 1..n PROVE f[k] = step[f[k - 1]][k]
  <2>1. k - 1 \in 0..n /\ k \in 0..n
    OBVIOUS
  <2>2. it[1..(k - 1)] \in A
    BY <1>3, <2>1
  <2> QED
    BY <2>1, <2>2
<1> QED
  <2> HIDE DEF f
  <2> QED
    BY <1>4, <1>5, <1>6 DEF States

-----------------------------------------------------------------------------
(* Sizes are integers.                                                      *)

LEMMA SizeIsInt ==
  ASSUME NEW lines \in Seq(Kinds), NEW text \in Seq(DOMAIN lines)
  PROVE  Size(lines, text) \in Int
<1> DEFINE A == Int
           n == Len(text)
           base == -1
           Op(acc, k) == acc + SizeOf[lines[text[k]]] + 1
           step == [acc \in A |-> [k \in 1..n |-> Op(acc, k)]]
           Body(it) == [s \in SUBSET (1..n) |->
                          IF s = {} THEN base ELSE Op(it[s \ {Max(s)}], Max(s))]
           fold == CHOOSE it : it = Body(it)
<1>1. n \in Nat /\ DOMAIN text = 1..n
  BY LenProperties
<1>2. Size(lines, text) = fold[1..n]
  BY <1>1 DEF Size, FoldLeft, MapThenFoldSet
<1>3. \A acc \in Int, k \in 1..n : Op(acc, k) \in Int
  <2>1. ASSUME NEW k \in 1..n PROVE SizeOf[lines[text[k]]] \in Int
    <3>1. text[k] \in DOMAIN lines
      BY <1>1, ElementOfSeq
    <3>2. lines[text[k]] \in Kinds
      BY <3>1, ElementOfSeq, LenProperties
    <3> QED
      BY <3>2, FileIndexingAssumption
  <2> QED
    BY <2>1
<1> HIDE DEF n, Op
<1>4. IsFold(A, n, base, step)
  BY <1>1, <1>3 DEF IsFold
<1> HIDE DEF base, A, step
<1>5. PICK g : g = Body(g)
  <2>1. PICK g : Solves(A, n, base, step, g)
    BY <1>4, FoldExists
  <2>2. ASSUME NEW s \in SUBSET (1..n), s # {} PROVE g[s] = Op(g[s \ {Max(s)}], Max(s))
    BY <1>1, <2>1, <2>2, Segments DEF Solves, step
  <2> QED
    BY <2>1, <2>2 DEF Solves
<1>6. fold = Body(fold)
  BY <1>5
<1> HIDE DEF fold
<1>7. Unfolds(A, n, base, step, fold)
  <2>1. fold[{}] = base
    BY <1>6
  <2>2. ASSUME NEW k \in 1..n, fold[1..(k - 1)] \in A
        PROVE  fold[1..k] = step[fold[1..(k - 1)]][k]
    <3>1. /\ 1..k \in SUBSET (1..n) /\ 1..k # {}
          /\ Max(1..k) = k /\ (1..k) \ {k} = 1..(k - 1)
      BY <1>1, Segments
    <3>2. fold[1..k] = IF 1..k = {} THEN base ELSE Op(fold[(1..k) \ {Max(1..k)}], Max(1..k))
      BY <1>6, <3>1
    <3> QED
      BY <2>2, <3>1, <3>2 DEF step
  <2> QED
    BY <2>1, <2>2 DEF Unfolds
<1>8. PICK f : States(A, n, base, step, fold, f)
  BY <1>4, <1>7, FoldStates
<1> QED
  BY <1>1, <1>2, <1>8 DEF States, A

LEMMA JoinedIsInt ==
  ASSUME NEW lines \in Seq(Kinds), NEW ps \in Seq(Seq(DOMAIN lines))
  PROVE  Joined(lines, ps) \in Int
<1> DEFINE A == Int
           n == Len(ps)
           base == -2
           Op(acc, k) == acc + Size(lines, ps[k]) + 2
           step == [acc \in A |-> [k \in 1..n |-> Op(acc, k)]]
           Body(it) == [s \in SUBSET (1..n) |->
                          IF s = {} THEN base ELSE Op(it[s \ {Max(s)}], Max(s))]
           fold == CHOOSE it : it = Body(it)
<1>1. n \in Nat /\ DOMAIN ps = 1..n
  BY LenProperties
<1>2. Joined(lines, ps) = fold[1..n]
  BY <1>1 DEF Joined, FoldLeft, MapThenFoldSet
<1>3. base \in A /\ \A acc \in A, k \in 1..n : Op(acc, k) \in A
  <2>1. ASSUME NEW k \in 1..n PROVE Size(lines, ps[k]) \in Int
    <3>1. ps[k] \in Seq(DOMAIN lines)
      BY <1>1, ElementOfSeq
    <3> QED
      BY <3>1, SizeIsInt
  <2> QED
    BY <2>1
<1> HIDE DEF n, Op
<1>4. IsFold(A, n, base, step)
  BY <1>1, <1>3 DEF IsFold
<1> HIDE DEF base, A, step
<1>5. PICK g : g = Body(g)
  <2>1. PICK g : Solves(A, n, base, step, g)
    BY <1>4, FoldExists
  <2>2. ASSUME NEW s \in SUBSET (1..n), s # {} PROVE g[s] = Op(g[s \ {Max(s)}], Max(s))
    BY <1>1, <2>1, <2>2, Segments DEF Solves, step
  <2> QED
    BY <2>1, <2>2 DEF Solves
<1>6. fold = Body(fold)
  BY <1>5
<1> HIDE DEF fold
<1>7. Unfolds(A, n, base, step, fold)
  <2>1. fold[{}] = base
    BY <1>6
  <2>2. ASSUME NEW k \in 1..n, fold[1..(k - 1)] \in A
        PROVE  fold[1..k] = step[fold[1..(k - 1)]][k]
    <3>1. /\ 1..k \in SUBSET (1..n) /\ 1..k # {}
          /\ Max(1..k) = k /\ (1..k) \ {k} = 1..(k - 1)
      BY <1>1, Segments
    <3>2. fold[1..k] = IF 1..k = {} THEN base ELSE Op(fold[(1..k) \ {Max(1..k)}], Max(1..k))
      BY <1>6, <3>1
    <3> QED
      BY <2>2, <3>1, <3>2 DEF step
  <2> QED
    BY <2>1, <2>2 DEF Unfolds
<1>8. PICK f : States(A, n, base, step, fold, f)
  BY <1>4, <1>7, FoldStates
<1> QED
  BY <1>1, <1>2, <1>8 DEF States, A

-----------------------------------------------------------------------------
(* The states of the splitters' folds.                                      *)

LEMMA SomeType ==
  ASSUME NEW D, NEW p \in Seq(D)
  PROVE  Some(p) \in Seq(Seq(D))
BY DEF Some

\* strings.TrimSpace: what is between the first line that says something and
\* the last, both included.
LEMMA Trimmed ==
  ASSUME NEW lines, NEW D, NEW text \in Seq(D)
  PROVE  \/ /\ TrimSpace(lines, text) = <<>>
            /\ \A k \in DOMAIN text : Blank(lines, text[k])
         \/ \E a, b \in DOMAIN text :
              /\ a <= b /\ ~Blank(lines, text[a]) /\ ~Blank(lines, text[b])
              /\ \A k \in DOMAIN text : ~Blank(lines, text[k]) => a <= k /\ k <= b
              /\ TrimSpace(lines, text) = SubSeq(text, a, b)
<1> DEFINE n == Len(text)
           said == {k \in DOMAIN text : ~Blank(lines, text[k])}
<1>1. n \in Nat /\ DOMAIN text = 1..n
  BY LenProperties
<1>2. CASE said = {}
  BY <1>2 DEF TrimSpace
<1>3. CASE said # {}
  <2>1. said \in SUBSET Nat /\ said \in SUBSET (1..n)
    BY <1>1
  <2> HIDE DEF said, n
  <2>2. PICK a \in said : \A j \in said : a <= j
    BY <1>3, <2>1, Smallest
  <2>3. PICK b \in said : \A j \in said : b >= j
    BY <1>1, <1>3, <2>1, MaxIsThere
  <2>4. \A k \in said : k \in Int
    BY <2>1
  <2>5. a = CHOOSE k \in said : \A j \in said : k <= j
    BY <2>2, <2>4
  <2>6. b = CHOOSE k \in said : \A j \in said : k >= j
    BY <2>3, <2>4
  <2>7. TrimSpace(lines, text) = SubSeq(text, a, b)
    BY <1>3, <2>5, <2>6 DEF TrimSpace, said
  <2>8. \A k \in said : k \in DOMAIN text /\ ~Blank(lines, text[k])
    BY DEF said
  <2>9. \A k \in DOMAIN text : ~Blank(lines, text[k]) => k \in said
    BY DEF said
  <2>10. \A k \in said : a <= k /\ k <= b
    BY <2>2, <2>3, <2>4
  <2> QED
    BY <2>2, <2>3, <2>7, <2>8, <2>9, <2>10
<1> QED
  BY <1>2, <1>3

LEMMA TrimType ==
  ASSUME NEW lines, NEW D, NEW text \in Seq(D)
  PROVE  TrimSpace(lines, text) \in Seq(D)
<1>1. CASE TrimSpace(lines, text) = <<>>
  BY <1>1
<1>2. ASSUME NEW a \in DOMAIN text, NEW b \in DOMAIN text, TrimSpace(lines, text) = SubSeq(text, a, b)
      PROVE  TrimSpace(lines, text) \in Seq(D)
  <2>1. Len(text) \in Nat /\ DOMAIN text = 1..Len(text)
    BY LenProperties
  <2>2. a \in Int /\ b \in Int
    BY <2>1
  <2>3. ASSUME NEW i \in a..b PROVE text[i] \in D
    <3>1. i \in 1..Len(text)
      BY <2>1, <2>2
    <3> QED
      BY <3>1, ElementOfSeq
  <2> QED
    BY <1>2, <2>2, <2>3, SubSeqProperties
<1> QED
  BY <1>1, <1>2, Trimmed

PlainStates(D) == [done : Seq(Seq(D)), current : Seq(D)]

LEMMA PlainLineType ==
  ASSUME NEW lines, NEW D, NEW acc \in PlainStates(D), NEW n \in D
  PROVE  PlainLine(lines, acc, n) \in PlainStates(D)
<1>1. acc.done \in Seq(Seq(D)) /\ acc.current \in Seq(D)
  BY DEF PlainStates
<1>2. acc.done \o Some(acc.current) \in Seq(Seq(D))
  BY <1>1, SomeType, ConcatProperties
<1>3. Append(acc.current, n) \in Seq(D) /\ <<>> \in Seq(D)
  BY <1>1
<1> QED
  BY <1>1, <1>2, <1>3 DEF PlainLine, PlainStates

\* The states of splitParagraphs.
PlainReads(lines, D, text, f) ==
  /\ f \in [0..Len(text) -> PlainStates(D)]
  /\ f[0] = [done |-> <<>>, current |-> <<>>]
  /\ \A k \in 1..Len(text) : f[k] = PlainLine(lines, f[k - 1], text[k])
  /\ splitParagraphs(lines, text) = Flushed(f[Len(text)].done, Some(f[Len(text)].current))

LEMMA PlainLines ==
  ASSUME NEW lines, NEW D, NEW text \in Seq(D)
  PROVE  \E f : PlainReads(lines, D, text, f)
<1> DEFINE A == PlainStates(D)
           n == Len(text)
           base == [done |-> <<>>, current |-> <<>>]
           Op(acc, k) == PlainLine(lines, acc, text[k])
           step == [acc \in A |-> [k \in 1..n |-> Op(acc, k)]]
           Body(it) == [s \in SUBSET (1..n) |->
                          IF s = {} THEN base ELSE Op(it[s \ {Max(s)}], Max(s))]
           fold == CHOOSE it : it = Body(it)
<1>1. n \in Nat /\ DOMAIN text = 1..n
  BY LenProperties
<1>2. splitParagraphs(lines, text) = Flushed(fold[1..n].done, Some(fold[1..n].current))
  BY <1>1 DEF splitParagraphs, FoldLeft, MapThenFoldSet
<1>3. base \in A /\ \A acc \in A, k \in 1..n : Op(acc, k) \in A
  <2>1. base \in A
    BY DEF PlainStates
  <2>2. ASSUME NEW k \in 1..n PROVE text[k] \in D
    BY <1>1, ElementOfSeq
  <2> QED
    BY <2>1, <2>2, PlainLineType
<1> HIDE DEF n, Op
<1>4. IsFold(A, n, base, step)
  BY <1>1, <1>3 DEF IsFold
<1> HIDE DEF base, A, step
<1>5. PICK g : g = Body(g)
  <2>1. PICK g : Solves(A, n, base, step, g)
    BY <1>4, FoldExists
  <2>2. ASSUME NEW s \in SUBSET (1..n), s # {} PROVE g[s] = Op(g[s \ {Max(s)}], Max(s))
    BY <1>1, <2>1, <2>2, Segments DEF Solves, step
  <2> QED
    BY <2>1, <2>2 DEF Solves
<1>6. fold = Body(fold)
  BY <1>5
<1> HIDE DEF fold
<1>7. Unfolds(A, n, base, step, fold)
  <2>1. fold[{}] = base
    BY <1>6
  <2>2. ASSUME NEW k \in 1..n, fold[1..(k - 1)] \in A
        PROVE  fold[1..k] = step[fold[1..(k - 1)]][k]
    <3>1. /\ 1..k \in SUBSET (1..n) /\ 1..k # {}
          /\ Max(1..k) = k /\ (1..k) \ {k} = 1..(k - 1)
      BY <1>1, Segments
    <3>2. fold[1..k] = IF 1..k = {} THEN base ELSE Op(fold[(1..k) \ {Max(1..k)}], Max(1..k))
      BY <1>6, <3>1
    <3> QED
      BY <2>2, <3>1, <3>2 DEF step
  <2> QED
    BY <2>1, <2>2 DEF Unfolds
<1>8. PICK f : States(A, n, base, step, fold, f)
  BY <1>4, <1>7, FoldStates
<1>9. \A k \in 1..n : f[k] = PlainLine(lines, f[k - 1], text[k])
  <2>1. ASSUME NEW k \in 1..n PROVE f[k] = Op(f[k - 1], k)
    <3>1. k - 1 \in 0..n
      BY <1>1
    <3> QED
      BY <1>8, <3>1 DEF States, step
  <2> QED
    BY <2>1 DEF Op
<1> QED
  BY <1>1, <1>2, <1>8, <1>9 DEF States, A, base, n, PlainReads

SectionStates(D) == [done : Seq(Seq(D)), current : Seq(D), inFence : BOOLEAN]

LEMMA SectionLineType ==
  ASSUME NEW lines, NEW D, NEW acc \in SectionStates(D), NEW n \in D
  PROVE  SectionLine(lines, acc, n) \in SectionStates(D)
<1>1. acc.done \in Seq(Seq(D)) /\ acc.current \in Seq(D) /\ acc.inFence \in BOOLEAN
  BY DEF SectionStates
<1> DEFINE trimmed == Some(TrimSpace(lines, acc.current))
<1>2. acc.done \o trimmed \in Seq(Seq(D))
  <2>1. trimmed \in Seq(Seq(D))
    BY <1>1, TrimType, SomeType
  <2> HIDE DEF trimmed
  <2> QED
    BY <1>1, <2>1, ConcatProperties
<1>3. Append(acc.current, n) \in Seq(D) /\ <<>> \in Seq(D)
  BY <1>1
<1> HIDE DEF trimmed
<1>4. CASE Is(lines, n, "fence")
  <2>1. SectionLine(lines, acc, n) =
          [acc EXCEPT !.current = Append(@, n), !.inFence = ~@]
    BY <1>4 DEF SectionLine
  <2> QED
    BY <1>1, <1>3, <2>1 DEF SectionStates
<1>5. CASE ~Is(lines, n, "fence") /\ ~acc.inFence /\ Blank(lines, n)
  <2>1. SectionLine(lines, acc, n) = [acc EXCEPT !.done = @ \o trimmed, !.current = <<>>]
    BY <1>5 DEF SectionLine, trimmed
  <2> QED
    BY <1>1, <1>2, <1>3, <2>1 DEF SectionStates
<1>6. CASE ~Is(lines, n, "fence") /\ ~(~acc.inFence /\ Blank(lines, n))
  <2>1. SectionLine(lines, acc, n) = [acc EXCEPT !.current = Append(@, n)]
    BY <1>6 DEF SectionLine
  <2> QED
    BY <1>1, <1>3, <2>1 DEF SectionStates
<1> QED
  BY <1>4, <1>5, <1>6

\* The states of splitByParagraph.
SectionReads(lines, D, text, f) ==
  /\ f \in [0..Len(text) -> SectionStates(D)]
  /\ f[0] = [done |-> <<>>, current |-> <<>>, inFence |-> FALSE]
  /\ \A k \in 1..Len(text) : f[k] = SectionLine(lines, f[k - 1], text[k])
  /\ splitByParagraph(lines, text) =
       Flushed(f[Len(text)].done, Some(TrimSpace(lines, f[Len(text)].current)))

LEMMA SectionLines ==
  ASSUME NEW lines, NEW D, NEW text \in Seq(D)
  PROVE  \E f : SectionReads(lines, D, text, f)
<1> DEFINE A == SectionStates(D)
           n == Len(text)
           base == [done |-> <<>>, current |-> <<>>, inFence |-> FALSE]
           Op(acc, k) == SectionLine(lines, acc, text[k])
           step == [acc \in A |-> [k \in 1..n |-> Op(acc, k)]]
           Body(it) == [s \in SUBSET (1..n) |->
                          IF s = {} THEN base ELSE Op(it[s \ {Max(s)}], Max(s))]
           fold == CHOOSE it : it = Body(it)
<1>1. n \in Nat /\ DOMAIN text = 1..n
  BY LenProperties
<1>2. splitByParagraph(lines, text) =
       Flushed(fold[1..n].done, Some(TrimSpace(lines, fold[1..n].current)))
  BY <1>1 DEF splitByParagraph, FoldLeft, MapThenFoldSet
<1>3. base \in A /\ \A acc \in A, k \in 1..n : Op(acc, k) \in A
  <2>1. base \in A
    BY DEF SectionStates
  <2>2. ASSUME NEW k \in 1..n PROVE text[k] \in D
    BY <1>1, ElementOfSeq
  <2> QED
    BY <2>1, <2>2, SectionLineType
<1> HIDE DEF n, Op
<1>4. IsFold(A, n, base, step)
  BY <1>1, <1>3 DEF IsFold
<1> HIDE DEF base, A, step
<1>5. PICK g : g = Body(g)
  <2>1. PICK g : Solves(A, n, base, step, g)
    BY <1>4, FoldExists
  <2>2. ASSUME NEW s \in SUBSET (1..n), s # {} PROVE g[s] = Op(g[s \ {Max(s)}], Max(s))
    BY <1>1, <2>1, <2>2, Segments DEF Solves, step
  <2> QED
    BY <2>1, <2>2 DEF Solves
<1>6. fold = Body(fold)
  BY <1>5
<1> HIDE DEF fold
<1>7. Unfolds(A, n, base, step, fold)
  <2>1. fold[{}] = base
    BY <1>6
  <2>2. ASSUME NEW k \in 1..n, fold[1..(k - 1)] \in A
        PROVE  fold[1..k] = step[fold[1..(k - 1)]][k]
    <3>1. /\ 1..k \in SUBSET (1..n) /\ 1..k # {}
          /\ Max(1..k) = k /\ (1..k) \ {k} = 1..(k - 1)
      BY <1>1, Segments
    <3>2. fold[1..k] = IF 1..k = {} THEN base ELSE Op(fold[(1..k) \ {Max(1..k)}], Max(1..k))
      BY <1>6, <3>1
    <3> QED
      BY <2>2, <3>1, <3>2 DEF step
  <2> QED
    BY <2>1, <2>2 DEF Unfolds
<1>8. PICK f : States(A, n, base, step, fold, f)
  BY <1>4, <1>7, FoldStates
<1>9. \A k \in 1..n : f[k] = SectionLine(lines, f[k - 1], text[k])
  <2>1. ASSUME NEW k \in 1..n PROVE f[k] = Op(f[k - 1], k)
    <3>1. k - 1 \in 0..n
      BY <1>1
    <3> QED
      BY <1>8, <3>1 DEF States, step
  <2> QED
    BY <2>1 DEF Op
<1> QED
  BY <1>1, <1>2, <1>8, <1>9 DEF States, A, base, n, SectionReads

LEMMA splitParagraphsType ==
  ASSUME NEW lines, NEW D, NEW text \in Seq(D)
  PROVE  splitParagraphs(lines, text) \in Seq(Seq(D))
<1>1. PICK f : PlainReads(lines, D, text, f)
  BY PlainLines
<1>2. Len(text) \in 0..Len(text)
  BY LenProperties
<1>3. f[Len(text)].done \in Seq(Seq(D)) /\ f[Len(text)].current \in Seq(D)
  BY <1>1, <1>2 DEF PlainReads, PlainStates
<1> QED
  BY <1>1, <1>3, SomeType, ConcatProperties DEF PlainReads, Flushed

LEMMA splitByParagraphType ==
  ASSUME NEW lines, NEW D, NEW text \in Seq(D)
  PROVE  splitByParagraph(lines, text) \in Seq(Seq(D))
<1>1. PICK f : SectionReads(lines, D, text, f)
  BY SectionLines
<1>2. Len(text) \in 0..Len(text)
  BY LenProperties
<1>3. f[Len(text)].done \in Seq(Seq(D)) /\ f[Len(text)].current \in Seq(D)
  BY <1>1, <1>2 DEF SectionReads, SectionStates
<1>4. Some(TrimSpace(lines, f[Len(text)].current)) \in Seq(Seq(D))
  BY <1>3, TrimType, SomeType
<1> QED
  BY <1>1, <1>3, <1>4, ConcatProperties DEF SectionReads, Flushed

Spans(D) == [paragraphs : Seq(Seq(D)), heading : Nat, repeats : BOOLEAN, start : Int, end : Int]
PackStates(D) == [spans : Seq(Spans(D)), buf : Seq(Seq(D))]

LEMMA FlushBufType ==
  ASSUME NEW D, NEW acc \in PackStates(D)
  PROVE  FlushBuf(acc) \in PackStates(D)
<1> DEFINE span == Span(acc.buf, 0, FALSE, 0, 0)
           last == IF acc.buf = <<>> THEN <<>> ELSE <<span>>
<1>1. acc.spans \in Seq(Spans(D)) /\ acc.buf \in Seq(Seq(D))
  BY DEF PackStates
<1>2. last \in Seq(Spans(D))
  <2>1. span \in Spans(D)
    BY <1>1 DEF Span, Spans
  <2> HIDE DEF span
  <2> QED
    BY <2>1
<1>3. FlushBuf(acc) = [spans |-> acc.spans \o last, buf |-> <<>>]
  BY DEF FlushBuf
<1> HIDE DEF last
<1> QED
  BY <1>1, <1>2, <1>3, ConcatProperties DEF PackStates

LEMMA PackParagraphType ==
  ASSUME NEW lines, NEW D, NEW acc \in PackStates(D), NEW p \in Seq(D)
  PROVE  PackParagraph(lines, acc, p) \in PackStates(D)
<1> DEFINE room == IF FlushedFirst(lines, acc.buf, p) THEN FlushBuf(acc) ELSE acc
           with == [room EXCEPT !.buf = Append(@, p)]
<1>1. room \in PackStates(D)
  BY FlushBufType
<1>2. with \in PackStates(D)
  <2> HIDE DEF room
  <2>1. room.spans \in Seq(Spans(D)) /\ room.buf \in Seq(Seq(D))
    BY <1>1 DEF PackStates
  <2>2. Append(room.buf, p) \in Seq(Seq(D))
    BY <2>1
  <2> QED
    BY <1>1, <2>1, <2>2 DEF PackStates
<1>3. PackParagraph(lines, acc, p) =
        IF Joined(lines, with.buf) >= TargetChars THEN FlushBuf(with) ELSE with
  BY DEF PackParagraph
<1> HIDE DEF with
<1> QED
  BY <1>2, <1>3, FlushBufType

\* The states of text.Split.
Packs(lines, D, ps, f) ==
  /\ f \in [0..Len(ps) -> PackStates(D)]
  /\ f[0] = [spans |-> <<>>, buf |-> <<>>]
  /\ \A k \in 1..Len(ps) : f[k] = PackParagraph(lines, f[k - 1], ps[k])
  /\ SplitText(lines) = FlushBuf(f[Len(ps)]).spans

LEMMA Packed ==
  ASSUME NEW lines, NEW D, NEW ps \in Seq(Seq(D)),
         ps = splitParagraphs(lines, [n \in DOMAIN lines |-> n])
  PROVE  \E f : Packs(lines, D, ps, f)
<1> DEFINE A == PackStates(D)
           n == Len(ps)
           base == [spans |-> <<>>, buf |-> <<>>]
           Op(acc, k) == PackParagraph(lines, acc, ps[k])
           step == [acc \in A |-> [k \in 1..n |-> Op(acc, k)]]
           Body(it) == [s \in SUBSET (1..n) |->
                          IF s = {} THEN base ELSE Op(it[s \ {Max(s)}], Max(s))]
           fold == CHOOSE it : it = Body(it)
<1>1. n \in Nat /\ DOMAIN ps = 1..n
  BY LenProperties
<1>2. SplitText(lines) = FlushBuf(fold[1..n]).spans
  BY <1>1 DEF SplitText, FoldLeft, MapThenFoldSet
<1>3. base \in A /\ \A acc \in A, k \in 1..n : Op(acc, k) \in A
  <2>1. base \in A
    BY DEF PackStates
  <2>2. ASSUME NEW k \in 1..n PROVE ps[k] \in Seq(D)
    BY <1>1, ElementOfSeq
  <2> QED
    BY <2>1, <2>2, PackParagraphType
<1> HIDE DEF n, Op
<1>4. IsFold(A, n, base, step)
  BY <1>1, <1>3 DEF IsFold
<1> HIDE DEF base, A, step
<1>5. PICK g : g = Body(g)
  <2>1. PICK g : Solves(A, n, base, step, g)
    BY <1>4, FoldExists
  <2>2. ASSUME NEW s \in SUBSET (1..n), s # {} PROVE g[s] = Op(g[s \ {Max(s)}], Max(s))
    BY <1>1, <2>1, <2>2, Segments DEF Solves, step
  <2> QED
    BY <2>1, <2>2 DEF Solves
<1>6. fold = Body(fold)
  BY <1>5
<1> HIDE DEF fold
<1>7. Unfolds(A, n, base, step, fold)
  <2>1. fold[{}] = base
    BY <1>6
  <2>2. ASSUME NEW k \in 1..n, fold[1..(k - 1)] \in A
        PROVE  fold[1..k] = step[fold[1..(k - 1)]][k]
    <3>1. /\ 1..k \in SUBSET (1..n) /\ 1..k # {}
          /\ Max(1..k) = k /\ (1..k) \ {k} = 1..(k - 1)
      BY <1>1, Segments
    <3>2. fold[1..k] = IF 1..k = {} THEN base ELSE Op(fold[(1..k) \ {Max(1..k)}], Max(1..k))
      BY <1>6, <3>1
    <3> QED
      BY <2>2, <3>1, <3>2 DEF step
  <2> QED
    BY <2>1, <2>2 DEF Unfolds
<1>8. PICK f : States(A, n, base, step, fold, f)
  BY <1>4, <1>7, FoldStates
<1>9. \A k \in 1..n : f[k] = PackParagraph(lines, f[k - 1], ps[k])
  <2>1. ASSUME NEW k \in 1..n PROVE f[k] = Op(f[k - 1], k)
    <3>1. k - 1 \in 0..n
      BY <1>1
    <3> QED
      BY <1>8, <3>1 DEF States, step
  <2> QED
    BY <2>1 DEF Op
<1> QED
  BY <1>1, <1>2, <1>8, <1>9 DEF States, A, base, n, Packs

CountedStates(D) == [spans : Seq(Spans(D)), line : Int]
Sections(D) == [text : Seq(D), heading : Nat, start : Int]
MarkdownStates(D) == [spans : Seq(Spans(D)), inFence : BOOLEAN, section : Sections(D)]

LEMMA SpanOfParagraphType ==
  ASSUME NEW D, NEW heading \in Nat, NEW acc \in CountedStates(D), NEW p \in Seq(D)
  PROVE  SpanOfParagraph(heading, acc, p) \in CountedStates(D)
<1> DEFINE span == Span(<<p>>, heading, Repeats(Len(acc.spans) + 1, heading),
                        acc.line, acc.line + Len(p) - 1)
<1>1. acc.spans \in Seq(Spans(D)) /\ acc.line \in Int /\ Len(p) \in Nat
  BY LenProperties DEF CountedStates
<1>2. span \in Spans(D)
  <2>1. <<p>> \in Seq(Seq(D))
    OBVIOUS
  <2>2. Repeats(Len(acc.spans) + 1, heading) \in BOOLEAN
    BY DEF Repeats
  <2> QED
    BY <1>1, <2>1, <2>2 DEF Span, Spans
<1>3. SpanOfParagraph(heading, acc, p) =
        [spans |-> Append(acc.spans, span), line |-> NextLine(acc.line, p)]
  BY DEF SpanOfParagraph
<1>4. NextLine(acc.line, p) \in Int
  BY <1>1 DEF NextLine
<1> HIDE DEF span
<1>5. Append(acc.spans, span) \in Seq(Spans(D))
  BY <1>1, <1>2, AppendProperties
<1> QED
  BY <1>3, <1>4, <1>5 DEF CountedStates

\* SpansOf of a section with something in it that is too large for one span.
Oversized(lines, text) == TrimSpace(lines, text) # <<>> /\ ~(Size(lines, TrimSpace(lines, text)) <= MaxChars)

\* The states of the fold over its paragraphs.
Counts(lines, D, section, end, ps, f) ==
  /\ f \in [0..Len(ps) -> CountedStates(D)]
  /\ f[0] = [spans |-> <<>>, line |-> section.start]
  /\ \A k \in 1..Len(ps) : f[k] = SpanOfParagraph(section.heading, f[k - 1], ps[k])
  /\ SpansOf(lines, section, end) = f[Len(ps)].spans

LEMMA Counted ==
  ASSUME NEW lines, NEW D, NEW section \in Sections(D), NEW end,
         Oversized(lines, section.text),
         NEW ps \in Seq(Seq(D)), ps = splitByParagraph(lines, TrimSpace(lines, section.text))
  PROVE  \E f : Counts(lines, D, section, end, ps, f)
<1> DEFINE A == CountedStates(D)
           n == Len(ps)
           base == [spans |-> <<>>, line |-> section.start]
           Op(acc, k) == SpanOfParagraph(section.heading, acc, ps[k])
           step == [acc \in A |-> [k \in 1..n |-> Op(acc, k)]]
           Body(it) == [s \in SUBSET (1..n) |->
                          IF s = {} THEN base ELSE Op(it[s \ {Max(s)}], Max(s))]
           fold == CHOOSE it : it = Body(it)
<1>1. n \in Nat /\ DOMAIN ps = 1..n
  BY LenProperties
<1>2. SpansOf(lines, section, end) = fold[1..n].spans
  BY <1>1 DEF SpansOf, Oversized, FoldLeft, MapThenFoldSet
<1>3. base \in A /\ \A acc \in A, k \in 1..n : Op(acc, k) \in A
  <2>0. section.start \in Int /\ section.heading \in Nat
    BY DEF Sections
  <2>1. base \in A
    BY <2>0 DEF CountedStates
  <2>2. ASSUME NEW k \in 1..n PROVE ps[k] \in Seq(D)
    BY <1>1, ElementOfSeq
  <2> QED
    BY <2>0, <2>1, <2>2, SpanOfParagraphType
<1> HIDE DEF n, Op
<1>4. IsFold(A, n, base, step)
  BY <1>1, <1>3 DEF IsFold
<1> HIDE DEF base, A, step
<1>5. PICK g : g = Body(g)
  <2>1. PICK g : Solves(A, n, base, step, g)
    BY <1>4, FoldExists
  <2>2. ASSUME NEW s \in SUBSET (1..n), s # {} PROVE g[s] = Op(g[s \ {Max(s)}], Max(s))
    BY <1>1, <2>1, <2>2, Segments DEF Solves, step
  <2> QED
    BY <2>1, <2>2 DEF Solves
<1>6. fold = Body(fold)
  BY <1>5
<1> HIDE DEF fold
<1>7. Unfolds(A, n, base, step, fold)
  <2>1. fold[{}] = base
    BY <1>6
  <2>2. ASSUME NEW k \in 1..n, fold[1..(k - 1)] \in A
        PROVE  fold[1..k] = step[fold[1..(k - 1)]][k]
    <3>1. /\ 1..k \in SUBSET (1..n) /\ 1..k # {}
          /\ Max(1..k) = k /\ (1..k) \ {k} = 1..(k - 1)
      BY <1>1, Segments
    <3>2. fold[1..k] = IF 1..k = {} THEN base ELSE Op(fold[(1..k) \ {Max(1..k)}], Max(1..k))
      BY <1>6, <3>1
    <3> QED
      BY <2>2, <3>1, <3>2 DEF step
  <2> QED
    BY <2>1, <2>2 DEF Unfolds
<1>8. PICK f : States(A, n, base, step, fold, f)
  BY <1>4, <1>7, FoldStates
<1>9. \A k \in 1..n : f[k] = SpanOfParagraph(section.heading, f[k - 1], ps[k])
  <2>1. ASSUME NEW k \in 1..n PROVE f[k] = Op(f[k - 1], k)
    <3>1. k - 1 \in 0..n
      BY <1>1
    <3> QED
      BY <1>8, <3>1 DEF States, step
  <2> QED
    BY <2>1 DEF Op
<1> QED
  BY <1>1, <1>2, <1>8, <1>9 DEF States, A, base, n, Counts

\* The three ways of SpansOf: none, one, one for each paragraph.
LEMMA SpansOfType ==
  ASSUME NEW lines, NEW D, NEW section \in Sections(D), NEW end \in Int
  PROVE  SpansOf(lines, section, end) \in Seq(Spans(D))
<1> DEFINE content == TrimSpace(lines, section.text)
<1>0. section.text \in Seq(D) /\ section.heading \in Nat /\ section.start \in Int
  BY DEF Sections
<1>1. content \in Seq(D)
  BY <1>0, TrimType
<1>2. CASE content = <<>>
  BY <1>2 DEF SpansOf
<1>3. CASE content # <<>> /\ Size(lines, content) <= MaxChars
  <2> DEFINE span == Span(<<content>>, section.heading, FALSE, section.start, end)
  <2>1. SpansOf(lines, section, end) = <<span>>
    BY <1>3 DEF SpansOf
  <2> HIDE DEF content
  <2>2. <<content>> \in Seq(Seq(D))
    BY <1>1
  <2>3. span \in Spans(D)
    BY <1>0, <2>2 DEF Span, Spans
  <2> HIDE DEF span
  <2> QED
    BY <2>1, <2>3
<1>4. CASE Oversized(lines, section.text)
  <2>1. PICK ps \in Seq(Seq(D)) : ps = splitByParagraph(lines, TrimSpace(lines, section.text))
    BY <1>1, splitByParagraphType
  <2>2. PICK f : Counts(lines, D, section, end, ps, f)
    <3> HIDE DEF content
    <3> QED
      BY <1>4, <2>1, Counted
  <2>3. Len(ps) \in 0..Len(ps)
    BY <2>1, LenProperties
  <2> QED
    BY <2>2, <2>3 DEF Counts, CountedStates
<1> QED
  BY <1>2, <1>3, <1>4 DEF Oversized

LEMMA MarkdownLineType ==
  ASSUME NEW lines, NEW D \in SUBSET Nat, NEW acc \in MarkdownStates(D), NEW n \in D
  PROVE  MarkdownLine(lines, acc, n) \in MarkdownStates(D)
<1>1. /\ acc.spans \in Seq(Spans(D)) /\ acc.inFence \in BOOLEAN /\ acc.section \in Sections(D)
      /\ n \in Nat
  BY DEF MarkdownStates
<1>2. acc.section.text \in Seq(D) /\ acc.section.heading \in Nat /\ acc.section.start \in Int
  BY <1>1 DEF Sections
<1>3. CASE StartsSection(lines, n, acc.inFence)
  <2> DEFINE more == SpansOf(lines, acc.section, n - 1)
             section == [text |-> <<n>>, heading |-> n, start |-> n]
  <2>1. MarkdownLine(lines, acc, n) = [acc EXCEPT !.spans = @ \o more, !.section = section]
    BY <1>3 DEF MarkdownLine
  <2>2. more \in Seq(Spans(D))
    BY <1>1, SpansOfType
  <2>3. section \in Sections(D)
    BY <1>1 DEF Sections
  <2> HIDE DEF more, section
  <2>4. acc.spans \o more \in Seq(Spans(D))
    BY <1>1, <2>2, ConcatProperties
  <2> QED
    BY <1>1, <2>1, <2>3, <2>4 DEF MarkdownStates
<1>4. CASE ~StartsSection(lines, n, acc.inFence)
  <2> DEFINE text == Append(acc.section.text, n)
             flag == IF Is(lines, n, "fence") THEN ~acc.inFence ELSE acc.inFence
  <2>1. MarkdownLine(lines, acc, n) = [acc EXCEPT !.inFence = flag, !.section.text = text]
    BY <1>4 DEF MarkdownLine
  <2>0. flag \in BOOLEAN
    BY <1>1
  <2>2. text \in Seq(D) /\ flag \in BOOLEAN
    <3> HIDE DEF flag
    <3> QED
      BY <1>2, <2>0, AppendProperties
  <2> HIDE DEF text, flag
  <2>3. [acc.section EXCEPT !.text = text] \in Sections(D)
    BY <1>1, <2>2 DEF Sections
  <2> QED
    BY <1>1, <2>1, <2>2, <2>3 DEF MarkdownStates
<1> QED
  BY <1>3, <1>4

\* The numbers of a file's lines.
LEMMA Numbers ==
  ASSUME NEW lines \in Seq(Kinds), NEW ids, ids = [n \in DOMAIN lines |-> n]
  PROVE  /\ ids \in Seq(DOMAIN lines) /\ Len(ids) = Len(lines)
         /\ \A k \in 1..Len(ids) : ids[k] = k
<1>1. Len(lines) \in Nat /\ DOMAIN lines = 1..Len(lines)
  BY LenProperties
<1>2. ids = [n \in 1..Len(lines) |-> n]
  BY <1>1
<1> QED
  BY <1>1, <1>2

\* The states of markdown.Split.
MarkdownReads(lines, D, f) ==
  /\ f \in [0..Len(lines) -> MarkdownStates(D)]
  /\ f[0] = [spans |-> <<>>, inFence |-> FALSE,
             section |-> [text |-> <<>>, heading |-> 0, start |-> 1]]
  /\ \A k \in 1..Len(lines) : f[k] = MarkdownLine(lines, f[k - 1], k)
  /\ SplitMarkdown(lines) =
       Flushed(f[Len(lines)].spans, SpansOf(lines, f[Len(lines)].section, Len(lines)))

LEMMA MarkdownLines ==
  ASSUME NEW lines \in Seq(Kinds), NEW D, D = DOMAIN lines,
         NEW ids, ids = [n \in DOMAIN lines |-> n]
  PROVE  \E f : MarkdownReads(lines, D, f)
<1> DEFINE A == MarkdownStates(D)
           n == Len(ids)
           base == [spans |-> <<>>, inFence |-> FALSE,
                     section |-> [text |-> <<>>, heading |-> 0, start |-> 1]]
           Op(acc, k) == MarkdownLine(lines, acc, ids[k])
           step == [acc \in A |-> [k \in 1..n |-> Op(acc, k)]]
           Body(it) == [s \in SUBSET (1..n) |->
                          IF s = {} THEN base ELSE Op(it[s \ {Max(s)}], Max(s))]
           fold == CHOOSE it : it = Body(it)
<1>0. ids \in Seq(D) /\ Len(ids) = Len(lines) /\ \A k \in 1..Len(ids) : ids[k] = k
  BY Numbers
<1>1. n \in Nat /\ DOMAIN ids = 1..n
  BY <1>0, LenProperties
<1>2. SplitMarkdown(lines) =
       Flushed(fold[1..n].spans, SpansOf(lines, fold[1..n].section, Len(lines)))
  BY <1>1 DEF SplitMarkdown, FoldLeft, MapThenFoldSet
<1>3. base \in A /\ \A acc \in A, k \in 1..n : Op(acc, k) \in A
  <2>1. base \in A
    <3>1. [text |-> <<>>, heading |-> 0, start |-> 1] \in Sections(D)
      BY DEF Sections
    <3> QED
      BY <3>1 DEF MarkdownStates
  <2>2. D \in SUBSET Nat /\ \A k \in 1..n : k \in D
    BY <1>0, <1>1, LenProperties
  <2> QED
    BY <1>0, <2>1, <2>2, MarkdownLineType
<1> HIDE DEF n, Op
<1>4. IsFold(A, n, base, step)
  BY <1>1, <1>3 DEF IsFold
<1> HIDE DEF base, A, step
<1>5. PICK g : g = Body(g)
  <2>1. PICK g : Solves(A, n, base, step, g)
    BY <1>4, FoldExists
  <2>2. ASSUME NEW s \in SUBSET (1..n), s # {} PROVE g[s] = Op(g[s \ {Max(s)}], Max(s))
    BY <1>1, <2>1, <2>2, Segments DEF Solves, step
  <2> QED
    BY <2>1, <2>2 DEF Solves
<1>6. fold = Body(fold)
  BY <1>5
<1> HIDE DEF fold
<1>7. Unfolds(A, n, base, step, fold)
  <2>1. fold[{}] = base
    BY <1>6
  <2>2. ASSUME NEW k \in 1..n, fold[1..(k - 1)] \in A
        PROVE  fold[1..k] = step[fold[1..(k - 1)]][k]
    <3>1. /\ 1..k \in SUBSET (1..n) /\ 1..k # {}
          /\ Max(1..k) = k /\ (1..k) \ {k} = 1..(k - 1)
      BY <1>1, Segments
    <3>2. fold[1..k] = IF 1..k = {} THEN base ELSE Op(fold[(1..k) \ {Max(1..k)}], Max(1..k))
      BY <1>6, <3>1
    <3> QED
      BY <2>2, <3>1, <3>2 DEF step
  <2> QED
    BY <2>1, <2>2 DEF Unfolds
<1>8. PICK f : States(A, n, base, step, fold, f)
  BY <1>4, <1>7, FoldStates
<1>9. \A k \in 1..n : f[k] = MarkdownLine(lines, f[k - 1], ids[k])
  <2>1. ASSUME NEW k \in 1..n PROVE f[k] = Op(f[k - 1], k)
    <3>1. k - 1 \in 0..n
      BY <1>1
    <3> QED
      BY <1>8, <3>1 DEF States, step
  <2> QED
    BY <2>1 DEF Op
<1>10. \A k \in 1..n : f[k] = MarkdownLine(lines, f[k - 1], k)
  BY <1>0, <1>9 DEF n
<1>11. f \in [0..n -> MarkdownStates(D)] /\ f[0] = base /\ f[n] = fold[1..n]
  BY <1>8 DEF States, A
<1> QED
  BY <1>0, <1>2, <1>10, <1>11 DEF base, n, MarkdownReads

-----------------------------------------------------------------------------
(* Runs of lines.                                                           *)

\* The lines from u to v; none if v is u - 1.
Run(u, v) == [i \in 1..(v - u + 1) |-> u + i - 1]

LEMMA RunIsSeq ==
  ASSUME NEW u \in Int, NEW v \in Int, u <= v + 1
  PROVE  /\ Run(u, v) \in Seq(u..v) /\ Run(u, v) \in Seq(Int)
         /\ Len(Run(u, v)) = v - u + 1
         /\ DOMAIN Run(u, v) = 1..(v - u + 1)
         /\ \A i \in 1..(v - u + 1) : Run(u, v)[i] = u + i - 1
<1>1. v - u + 1 \in Nat
  OBVIOUS
<1>2. \A i \in 1..(v - u + 1) : u + i - 1 \in u..v /\ u + i - 1 \in Int
  OBVIOUS
<1> QED
  BY <1>1, <1>2 DEF Run

LEMMA RunEnds ==
  ASSUME NEW u \in Int, NEW v \in Int, u <= v
  PROVE  Run(u, v) # <<>> /\ Run(u, v)[1] = u /\ Run(u, v)[Len(Run(u, v))] = v
<1>1. Len(Run(u, v)) = v - u + 1 /\ \A i \in 1..(v - u + 1) : Run(u, v)[i] = u + i - 1
  BY RunIsSeq
<1>2. 1 \in 1..(v - u + 1) /\ v - u + 1 \in 1..(v - u + 1)
  OBVIOUS
<1>3. Run(u, v)[1] = u + 1 - 1 /\ Run(u, v)[v - u + 1] = u + (v - u + 1) - 1
  BY <1>1, <1>2
<1>4. Run(u, v) # <<>>
  BY <1>1, <1>2, EmptySeq
<1> QED
  BY <1>1, <1>3, <1>4

LEMMA NoRun ==
  ASSUME NEW u \in Int
  PROVE  Run(u, u - 1) = <<>>
<1>1. Len(Run(u, u - 1)) = 0 /\ Run(u, u - 1) \in Seq(u..(u - 1))
  BY RunIsSeq
<1> QED
  BY <1>1, EmptySeq

LEMMA RunOfOne ==
  ASSUME NEW u \in Int
  PROVE  Run(u, u) = <<u>>
<1>1. /\ Run(u, u) \in Seq(Int) /\ Len(Run(u, u)) = 1 /\ Run(u, u)[1] = u
  <2>1. u <= u + 1 /\ u <= u /\ u - u + 1 = 1
    OBVIOUS
  <2>2. Run(u, u) \in Seq(Int) /\ Len(Run(u, u)) = 1
    BY <2>1, RunIsSeq
  <2> QED
    BY <2>1, <2>2, RunEnds
<1>2. <<u>> \in Seq(Int) /\ Len(<<u>>) = 1 /\ <<u>>[1] = u
  OBVIOUS
<1> HIDE DEF Run
<1> QED
  BY <1>1, <1>2, SeqEqual

LEMMA RunGrows ==
  ASSUME NEW u \in Int, NEW v \in Int, u <= v + 1
  PROVE  Append(Run(u, v), v + 1) = Run(u, v + 1)
<1> DEFINE r == Run(u, v)
           s == Run(u, v + 1)
<1>1. /\ r \in Seq(Int) /\ Len(r) = v - u + 1
      /\ \A i \in 1..(v - u + 1) : r[i] = u + i - 1
  BY RunIsSeq
<1>2. /\ s \in Seq(Int) /\ Len(s) = v + 1 - u + 1
      /\ \A i \in 1..(v + 1 - u + 1) : s[i] = u + i - 1
  <2>1. v + 1 \in Int /\ u <= (v + 1) + 1
    OBVIOUS
  <2> QED
    BY <2>1, RunIsSeq
<1> HIDE DEF r, s
<1>3. /\ Append(r, v + 1) \in Seq(Int) /\ Len(Append(r, v + 1)) = Len(r) + 1
      /\ \A i \in 1..Len(r) : Append(r, v + 1)[i] = r[i]
      /\ Append(r, v + 1)[Len(r) + 1] = v + 1
  BY <1>1, AppendProperties
<1>4. ASSUME NEW i \in 1..Len(s) PROVE Append(r, v + 1)[i] = s[i]
  <2>1. CASE i \in 1..Len(r)
    BY <1>1, <1>2, <1>3, <2>1
  <2>2. CASE i = Len(r) + 1
    BY <1>1, <1>2, <1>3, <2>2
  <2> QED
    BY <1>1, <1>2, <2>1, <2>2
<1>5. Len(Append(r, v + 1)) = Len(s)
  BY <1>1, <1>2, <1>3
<1>6. Append(r, v + 1) = s
  BY <1>2, <1>3, <1>4, <1>5, SeqEqual
<1> QED
  BY <1>6 DEF r, s

LEMMA RunWithin ==
  ASSUME NEW u \in Int, NEW v \in Int, u <= v + 1,
         NEW a \in 1..(v - u + 1), NEW b \in a..(v - u + 1)
  PROVE  SubSeq(Run(u, v), a, b) = Run(u + a - 1, u + b - 1)
<1> DEFINE r == Run(u, v)
           s == Run(u + a - 1, u + b - 1)
<1>1. a \in Int /\ b \in Int /\ \A i \in a..b : r[i] \in Int /\ r[i] = u + i - 1
  <2>1. \A i \in 1..(v - u + 1) : r[i] = u + i - 1
    BY RunIsSeq
  <2> HIDE DEF r
  <2>2. a \in Int /\ b \in Int /\ \A i \in a..b : i \in 1..(v - u + 1) /\ u + i - 1 \in Int
    OBVIOUS
  <2> QED
    BY <2>1, <2>2
<1>2. /\ s \in Seq(Int) /\ Len(s) = b - a + 1
      /\ \A i \in 1..(b - a + 1) : s[i] = u + a - 1 + i - 1
  <2>1. u + a - 1 \in Int /\ u + b - 1 \in Int /\ u + a - 1 <= u + b - 1 + 1
        /\ (u + b - 1) - (u + a - 1) + 1 = b - a + 1
    OBVIOUS
  <2> QED
    BY <2>1, RunIsSeq
<1> HIDE DEF r, s
<1>3. /\ SubSeq(r, a, b) \in Seq(Int) /\ Len(SubSeq(r, a, b)) = b - a + 1
      /\ \A i \in 1..(b - a + 1) : SubSeq(r, a, b)[i] = r[a + i - 1]
  BY <1>1, SubSeqProperties
<1>4. ASSUME NEW i \in 1..Len(s) PROVE SubSeq(r, a, b)[i] = s[i]
  <2>1. a + i - 1 \in a..b
    BY <1>2
  <2> QED
    BY <1>1, <1>2, <1>3, <2>1
<1>5. SubSeq(r, a, b) = s
  BY <1>2, <1>3, <1>4, SeqEqual
<1> QED
  BY <1>5 DEF r, s

\* The lines of a run, less the blank ones at both ends.
LEMMA TrimRun ==
  ASSUME NEW lines, NEW u \in Int, NEW v \in Int, u <= v + 1
  PROVE  \/ /\ TrimSpace(lines, Run(u, v)) = <<>>
            /\ \A n \in u..v : Blank(lines, n)
         \/ \E a \in u..v, b \in u..v :
              /\ a <= b /\ ~Blank(lines, a) /\ ~Blank(lines, b)
              /\ \A n \in u..v : ~Blank(lines, n) => n \in a..b
              /\ TrimSpace(lines, Run(u, v)) = Run(a, b)
<1> DEFINE r == Run(u, v)
<1>1. /\ r \in Seq(u..v) /\ DOMAIN r = 1..(v - u + 1)
      /\ \A i \in 1..(v - u + 1) : r[i] = u + i - 1
  BY RunIsSeq
<1> HIDE DEF r
<1>2. ASSUME NEW n \in u..v PROVE n - u + 1 \in 1..(v - u + 1) /\ r[n - u + 1] = n
  <2>1. n - u + 1 \in 1..(v - u + 1)
    OBVIOUS
  <2> QED
    BY <1>1, <2>1
<1>3. CASE TrimSpace(lines, r) = <<>> /\ \A k \in DOMAIN r : Blank(lines, r[k])
  BY <1>1, <1>2, <1>3 DEF r
<1>4. ASSUME NEW a \in DOMAIN r, NEW b \in DOMAIN r,
             a <= b, ~Blank(lines, r[a]), ~Blank(lines, r[b]),
             \A k \in DOMAIN r : ~Blank(lines, r[k]) => a <= k /\ k <= b,
             TrimSpace(lines, r) = SubSeq(r, a, b)
      PROVE  \E x \in u..v, y \in u..v :
              /\ x <= y /\ ~Blank(lines, x) /\ ~Blank(lines, y)
              /\ \A n \in u..v : ~Blank(lines, n) => n \in x..y
              /\ TrimSpace(lines, r) = Run(x, y)
  <2> DEFINE x == u + a - 1
             y == u + b - 1
  <2>1. a \in 1..(v - u + 1) /\ b \in a..(v - u + 1)
    BY <1>1, <1>4
  <2>2. x \in u..v /\ y \in u..v /\ x <= y /\ r[a] = x /\ r[b] = y
    BY <1>1, <1>4, <2>1
  <2>3. ASSUME NEW n \in u..v, ~Blank(lines, n) PROVE n \in x..y
    <3>1. a <= n - u + 1 /\ n - u + 1 <= b
      BY <1>1, <1>2, <1>4, <2>3
    <3> QED
      BY <2>1, <3>1
  <2>4. TrimSpace(lines, r) = Run(x, y)
    BY <1>4, <2>1, RunWithin DEF r
  <2> QED
    BY <1>4, <2>2, <2>3, <2>4
<1>5. \/ TrimSpace(lines, r) = <<>> /\ \A k \in DOMAIN r : Blank(lines, r[k])
      \/ \E a, b \in DOMAIN r :
           /\ a <= b /\ ~Blank(lines, r[a]) /\ ~Blank(lines, r[b])
           /\ \A k \in DOMAIN r : ~Blank(lines, r[k]) => a <= k /\ k <= b
           /\ TrimSpace(lines, r) = SubSeq(r, a, b)
  BY <1>1, Trimmed
<1> QED
  BY <1>3, <1>4, <1>5 DEF r

-----------------------------------------------------------------------------
(* Fences.                                                                  *)

\* Line n lies within a fence, or closes one.
Odd(lines, n) == Cardinality({m \in 1..(n - 1) : Is(lines, m, "fence")}) % 2 = 1

\* Line a opens a fence that line b closes.
Pair(lines, a, b) ==
  /\ a < b /\ Is(lines, a, "fence") /\ ~Odd(lines, a) /\ Is(lines, b, "fence")
  /\ \A n \in (a + 1)..(b - 1) : ~Is(lines, n, "fence")

LEMMA OddFirst ==
  ASSUME NEW lines
  PROVE  ~Odd(lines, 1)
<1>1. {m \in 1..(1 - 1) : Is(lines, m, "fence")} = {}
  OBVIOUS
<1>2. Cardinality({}) = 0
  BY FS_EmptySet
<1> QED
  BY <1>1, <1>2 DEF Odd

LEMMA OddSame ==
  ASSUME NEW lines, NEW a \in Nat \ {0}, NEW b \in Nat, a <= b,
         \A n \in a..(b - 1) : ~Is(lines, n, "fence")
  PROVE  Odd(lines, a) <=> Odd(lines, b)
<1>1. ASSUME NEW m \in 1..(b - 1), Is(lines, m, "fence") PROVE m \in 1..(a - 1)
  BY <1>1
<1>2. \A m \in 1..(a - 1) : m \in 1..(b - 1)
  OBVIOUS
<1>3. {m \in 1..(a - 1) : Is(lines, m, "fence")} = {m \in 1..(b - 1) : Is(lines, m, "fence")}
  BY <1>1, <1>2
<1> QED
  BY <1>3 DEF Odd

LEMMA OddNext ==
  ASSUME NEW lines, NEW n \in Nat \ {0}
  PROVE  Odd(lines, n + 1) <=> IF Is(lines, n, "fence") THEN ~Odd(lines, n) ELSE Odd(lines, n)
<1>1. CASE ~Is(lines, n, "fence")
  <2>1. n + 1 \in Nat /\ n <= n + 1 /\ \A m \in n..((n + 1) - 1) : m = n
    OBVIOUS
  <2>2. Odd(lines, n) <=> Odd(lines, n + 1)
    BY <1>1, <2>1, OddSame
  <2> QED
    BY <1>1, <2>2
<1>2. CASE Is(lines, n, "fence")
  <2> DEFINE before == {m \in 1..(n - 1) : Is(lines, m, "fence")}
             with == {m \in 1..((n + 1) - 1) : Is(lines, m, "fence")}
  <2>1. with = before \cup {n} /\ n \notin before
    <3>1. \A m \in 1..((n + 1) - 1) : m = n \/ m \in 1..(n - 1)
      OBVIOUS
    <3>2. n \in 1..((n + 1) - 1) /\ n \notin 1..(n - 1)
      OBVIOUS
    <3>3. \A m \in 1..(n - 1) : m \in 1..((n + 1) - 1)
      OBVIOUS
    <3> QED
      BY <1>2, <3>1, <3>2, <3>3
  <2>2. IsFiniteSet(before)
    <3>1. IsFiniteSet(1..(n - 1)) /\ before \subseteq 1..(n - 1)
      BY FS_Interval
    <3> HIDE DEF before
    <3> QED
      BY <3>1, FS_Subset
  <2> HIDE DEF before, with
  <2>3. Cardinality(with) = Cardinality(before) + 1 /\ Cardinality(before) \in Nat
    BY <2>1, <2>2, FS_AddElement, FS_CardinalityType
  <2>4. \A c \in Nat : (c + 1) % 2 = 1 <=> ~(c % 2 = 1)
    OBVIOUS
  <2>5. Cardinality(with) % 2 = 1 <=> ~(Cardinality(before) % 2 = 1)
    BY <2>3, <2>4
  <2> QED
    BY <1>2, <2>5 DEF Odd, before, with
<1> QED
  BY <1>1, <1>2

\* Where a fence is open, nothing is cut.
LEMMA NoCrossing ==
  ASSUME NEW lines, NEW a \in Nat \ {0}, NEW b \in Nat, Pair(lines, a, b), NEW c \in (a + 1)..b
  PROVE  Odd(lines, c)
<1>1. Odd(lines, a + 1)
  BY OddNext DEF Pair
<1>2. a + 1 \in Nat \ {0} /\ c \in Nat /\ a + 1 <= c
  OBVIOUS
<1>3. \A n \in (a + 1)..(c - 1) : ~Is(lines, n, "fence")
  <2>1. \A n \in (a + 1)..(c - 1) : n \in (a + 1)..(b - 1)
    OBVIOUS
  <2> QED
    BY <2>1 DEF Pair
<1> QED
  BY <1>1, <1>2, <1>3, OddSame

-----------------------------------------------------------------------------
(* Paragraphs that cut some lines.                                          *)

Top(p) == p[1]
Bottom(p) == p[Len(p)]

\* Paragraph p is lines of u to v that follow each other; its ends say something.
Block(lines, p, u, v) ==
  /\ Top(p) \in u..v /\ Bottom(p) \in Top(p)..v
  /\ p = Run(Top(p), Bottom(p))
  /\ ~Blank(lines, Top(p)) /\ ~Blank(lines, Bottom(p))

\* The paragraphs ps are in order, a line between them, and miss no line of u
\* to v that says something.
Cover(lines, ps, u, v) ==
  /\ \A i \in DOMAIN ps : Block(lines, ps[i], u, v)
  /\ \A i, j \in DOMAIN ps : i < j => Bottom(ps[i]) + 2 <= Top(ps[j])
  /\ \A n \in u..v : ~Blank(lines, n) =>
       \E i \in DOMAIN ps : n \in Top(ps[i])..Bottom(ps[i])

\* They do not cut a fence either.
Whole(lines, ps, u, v) ==
  \A a, b \in u..v : Pair(lines, a, b) =>
    \E i \in DOMAIN ps : a \in Top(ps[i])..Bottom(ps[i]) /\ b \in Top(ps[i])..Bottom(ps[i])

LEMMA RunIsBlock ==
  ASSUME NEW lines, NEW u \in Int, NEW v \in Int, NEW a \in u..v, NEW b \in a..v,
         ~Blank(lines, a), ~Blank(lines, b)
  PROVE  /\ Block(lines, Run(a, b), u, v)
         /\ Top(Run(a, b)) = a /\ Bottom(Run(a, b)) = b
<1>1. a \in Int /\ b \in Int /\ a <= b
  OBVIOUS
<1>2. Run(a, b)[1] = a /\ Run(a, b)[Len(Run(a, b))] = b
  BY <1>1, RunEnds
<1> QED
  BY <1>2 DEF Block, Top, Bottom

\* What a paragraph that ends adds: the run of lines c to v, trimmed.
LEMMA FlushCovers ==
  ASSUME NEW lines, NEW P, NEW ps \in Seq(P), NEW u \in Nat \ {0}, NEW c \in Nat, NEW v \in Int,
         Run(c, v) \in P, TrimSpace(lines, Run(c, v)) \in P,
         u <= c, c <= v + 1, c # u => Blank(lines, c - 1),
         Cover(lines, ps, u, c - 2)
  PROVE  LET all == ps \o Some(TrimSpace(lines, Run(c, v))) IN
           /\ Cover(lines, all, u, v)
           /\ Whole(lines, ps, u, c - 2) /\ ~Odd(lines, c) => Whole(lines, all, u, v)
<1> DEFINE t == TrimSpace(lines, Run(c, v))
           all == ps \o Some(t)
           n == Len(ps)
<1>1. n \in Nat /\ DOMAIN ps = 1..n
  BY LenProperties
<1>2. c \in Int /\ c - 1 \in Int /\ c - 2 \in Int
  OBVIOUS
<1>3. \A x \in u..v : x \in u..(c - 2) \/ x \in c..v \/ (x = c - 1 /\ c # u)
  OBVIOUS
<1>4. \A i \in DOMAIN ps : /\ Block(lines, ps[i], u, c - 2) /\ Block(lines, ps[i], u, v)
                           /\ Top(ps[i]) \in Int /\ Bottom(ps[i]) \in Int /\ Bottom(ps[i]) + 2 <= c
  <2>1. ASSUME NEW i \in DOMAIN ps
        PROVE  /\ Block(lines, ps[i], u, c - 2) /\ Block(lines, ps[i], u, v)
               /\ Top(ps[i]) \in Int /\ Bottom(ps[i]) \in Int /\ Bottom(ps[i]) + 2 <= c
    <3>1. Block(lines, ps[i], u, c - 2)
      BY DEF Cover
    <3>2. Top(ps[i]) \in u..(c - 2) /\ Bottom(ps[i]) \in Top(ps[i])..(c - 2)
      BY <3>1 DEF Block
    <3>3. Top(ps[i]) \in u..v /\ Bottom(ps[i]) \in Top(ps[i])..v
      BY <3>2
    <3> QED
      BY <3>1, <3>2, <3>3 DEF Block
  <2> QED
    BY <2>1
\* A fence that is open in front of c ends there, or ~Odd(c) would not hold.
<1>5. ASSUME NEW a \in u..v, NEW b \in u..v, Pair(lines, a, b), ~Odd(lines, c)
      PROVE  (a \in u..(c - 2) /\ b \in u..(c - 2)) \/ (a \in c..v /\ b \in c..v)
  <2>1. a \in Nat \ {0} /\ b \in Nat /\ a < b
    BY <1>5 DEF Pair
  <2>2. ~(a < c /\ c <= b)
    <3>1. ASSUME a < c, c <= b PROVE FALSE
      <4>1. c \in (a + 1)..b
        BY <2>1, <3>1
      <4> QED
        BY <1>5, <2>1, <4>1, NoCrossing
    <3> QED
      BY <3>1
  <2>3. ~Blank(lines, a) /\ ~Blank(lines, b)
    BY <1>5 DEF Pair, Is, Blank
  <2> QED
    BY <1>3, <2>1, <2>2, <2>3
<1>6. CASE t = <<>> /\ \A x \in c..v : Blank(lines, x)
  <2>1. all = ps
    BY <1>6, ConcatEmptySeq DEF Some
  <2> HIDE DEF all
  <2>2. \A x \in u..v : ~Blank(lines, x) => x \in u..(c - 2)
    BY <1>3, <1>6
  <2>3. Cover(lines, all, u, v)
    BY <1>4, <2>1, <2>2 DEF Cover
  <2>4. ASSUME Whole(lines, ps, u, c - 2), ~Odd(lines, c) PROVE Whole(lines, all, u, v)
    <3>1. ASSUME NEW a \in u..v, NEW b \in u..v, Pair(lines, a, b)
          PROVE  a \in u..(c - 2) /\ b \in u..(c - 2)
      <4>1. ~Blank(lines, a) /\ ~Blank(lines, b)
        BY <3>1 DEF Pair, Is, Blank
      <4> QED
        BY <2>2, <4>1
    <3> QED
      BY <2>1, <2>4, <3>1 DEF Whole
  <2> QED
    BY <2>3, <2>4 DEF all, t
<1>7. ASSUME NEW x \in c..v, NEW y \in c..v, x <= y, ~Blank(lines, x), ~Blank(lines, y),
             \A k \in c..v : ~Blank(lines, k) => k \in x..y,
             t = Run(x, y)
      PROVE  /\ Cover(lines, all, u, v)
             /\ Whole(lines, ps, u, c - 2) /\ ~Odd(lines, c) => Whole(lines, all, u, v)
  <2>1. x \in Int /\ y \in Int /\ x \in u..v /\ y \in x..v
    BY <1>7
  <2>2. Block(lines, t, u, v) /\ Top(t) = x /\ Bottom(t) = y
    BY <1>7, <2>1, RunIsBlock
  <2>3. t # <<>>
    BY <1>7, <2>1, RunEnds
  <2>4. all = ps \o <<t>> /\ t \in P
    BY <2>3 DEF Some
  <2> HIDE DEF t, all
  <2>5. <<t>> \in Seq(P) /\ Len(<<t>>) = 1 /\ <<t>>[1] = t
    BY <2>4
  <2>6. /\ Len(all) = n + 1 /\ DOMAIN all = 1..(n + 1)
        /\ \A i \in 1..n : all[i] = ps[i]
        /\ all[n + 1] = t
    <3>1. all \in Seq(P) /\ Len(all) = n + 1
          /\ \A i \in 1..(n + 1) : all[i] = IF i <= n THEN ps[i] ELSE <<t>>[i - n]
      BY <1>1, <2>4, <2>5, ConcatProperties
    <3>2. DOMAIN all = 1..(n + 1)
      BY <3>1, LenProperties
    <3> QED
      BY <1>1, <2>5, <3>1, <3>2
  <2>7. \A i \in 1..(n + 1) : i \in 1..n \/ i = n + 1
    BY <1>1
  <2>8. \A i \in DOMAIN all : Block(lines, all[i], u, v)
    BY <1>1, <1>4, <2>2, <2>6, <2>7
  <2>9. ASSUME NEW i \in DOMAIN all, NEW j \in DOMAIN all, i < j
        PROVE  Bottom(all[i]) + 2 <= Top(all[j])
    <3>1. i \in 1..n
      BY <1>1, <2>6, <2>7, <2>9
    <3>2. CASE j \in 1..n
      BY <1>1, <2>6, <2>9, <3>1, <3>2 DEF Cover
    <3>3. CASE j = n + 1
      <4>1. Bottom(ps[i]) + 2 <= c /\ Bottom(ps[i]) \in Int
        BY <1>1, <1>4, <3>1
      <4>2. c <= x
        BY <1>7
      <4> QED
        BY <2>1, <2>2, <2>6, <3>1, <3>3, <4>1, <4>2
    <3> QED
      BY <2>6, <2>7, <3>2, <3>3
  <2>10. ASSUME NEW k \in u..v, ~Blank(lines, k)
         PROVE  \E i \in DOMAIN all : k \in Top(all[i])..Bottom(all[i])
    <3>1. CASE k \in u..(c - 2)
      <4>1. PICK i \in DOMAIN ps : k \in Top(ps[i])..Bottom(ps[i])
        BY <2>10, <3>1 DEF Cover
      <4> QED
        BY <1>1, <2>6, <4>1
    <3>2. CASE k \in c..v
      <4>1. k \in x..y /\ n + 1 \in DOMAIN all
        BY <1>1, <1>7, <2>6, <2>10, <3>2
      <4> QED
        BY <2>2, <2>6, <4>1
    <3> QED
      BY <1>3, <2>10, <3>1, <3>2
  <2>11. Cover(lines, all, u, v)
    BY <2>8, <2>9, <2>10 DEF Cover
  <2>12. ASSUME Whole(lines, ps, u, c - 2), ~Odd(lines, c) PROVE Whole(lines, all, u, v)
    <3>1. ASSUME NEW a \in u..v, NEW b \in u..v, Pair(lines, a, b)
          PROVE  \E i \in DOMAIN all : a \in Top(all[i])..Bottom(all[i]) /\ b \in Top(all[i])..Bottom(all[i])
      <4>1. CASE a \in u..(c - 2) /\ b \in u..(c - 2)
        <5>1. PICK i \in DOMAIN ps : a \in Top(ps[i])..Bottom(ps[i]) /\ b \in Top(ps[i])..Bottom(ps[i])
          BY <2>12, <3>1, <4>1 DEF Whole
        <5> QED
          BY <1>1, <2>6, <5>1
      <4>2. CASE a \in c..v /\ b \in c..v
        <5>1. ~Blank(lines, a) /\ ~Blank(lines, b)
          BY <3>1 DEF Pair, Is, Blank
        <5>2. a \in x..y /\ b \in x..y /\ n + 1 \in DOMAIN all
          BY <1>1, <1>7, <2>6, <4>2, <5>1
        <5> QED
          BY <2>2, <2>6, <5>2
      <4> QED
        BY <1>5, <2>12, <3>1, <4>1, <4>2
    <3> QED
      BY <3>1 DEF Whole
  <2> QED
    BY <2>11, <2>12
<1>8. \/ t = <<>> /\ \A x \in c..v : Blank(lines, x)
      \/ \E x \in c..v, y \in c..v :
           /\ x <= y /\ ~Blank(lines, x) /\ ~Blank(lines, y)
           /\ \A k \in c..v : ~Blank(lines, k) => k \in x..y
           /\ t = Run(x, y)
  BY <1>2, TrimRun
<1> QED
  BY <1>6, <1>7, <1>8

\* splitByParagraph has read the lines a to m: what is done ends in front of a
\* blank line, outside any fence, and the rest is current.
SectionRead(lines, acc, a, m) ==
  \E c \in a..(m + 1) :
    /\ acc.current = Run(c, m)
    /\ c # a => Blank(lines, c - 1)
    /\ ~Odd(lines, c)
    /\ acc.inFence <=> Odd(lines, m + 1)
    /\ Cover(lines, acc.done, a, c - 2) /\ Whole(lines, acc.done, a, c - 2)

LEMMA SectionStep ==
  ASSUME NEW lines, NEW acc \in SectionStates(Int), NEW a \in Nat \ {0}, NEW m \in Int,
         a <= m + 1, SectionRead(lines, acc, a, m)
  PROVE  SectionRead(lines, SectionLine(lines, acc, m + 1), a, m + 1)
<1> DEFINE n == m + 1
           new == SectionLine(lines, acc, n)
<1>0. /\ acc.done \in Seq(Seq(Int)) /\ acc.current \in Seq(Int) /\ acc.inFence \in BOOLEAN
      /\ acc = [done |-> acc.done, current |-> acc.current, inFence |-> acc.inFence]
  BY DEF SectionStates
<1>1. PICK c \in a..n : /\ acc.current = Run(c, m)
                        /\ c # a => Blank(lines, c - 1)
                        /\ ~Odd(lines, c)
                        /\ acc.inFence <=> Odd(lines, n)
                        /\ Cover(lines, acc.done, a, c - 2) /\ Whole(lines, acc.done, a, c - 2)
  BY DEF SectionRead
<1>2. n \in Nat \ {0} /\ c \in Nat /\ c \in Int /\ c <= m + 1 /\ m = n - 1
  OBVIOUS
<1>3. Append(acc.current, n) = Run(c, n)
  BY <1>1, <1>2, RunGrows
<1>4. Odd(lines, n + 1) <=> IF Is(lines, n, "fence") THEN ~Odd(lines, n) ELSE Odd(lines, n)
  BY <1>2, OddNext
<1>5. CASE Is(lines, n, "fence") \/ ~(~acc.inFence /\ Blank(lines, n))
  <2>1. /\ new.current = Run(c, n) /\ new.done = acc.done
        /\ new.inFence <=> Odd(lines, n + 1)
    <3>1. CASE Is(lines, n, "fence")
      <4>1. new = [acc EXCEPT !.current = Append(@, n), !.inFence = ~@]
        BY <3>1 DEF SectionLine
      <4> HIDE DEF new
      <4>2. new.current = Append(acc.current, n) /\ new.done = acc.done /\ new.inFence = ~acc.inFence
        BY <1>0, <4>1
      <4> QED
        BY <1>0, <1>1, <1>3, <1>4, <3>1, <4>2
    <3>2. CASE ~Is(lines, n, "fence")
      <4>1. new = [acc EXCEPT !.current = Append(@, n)]
        BY <1>5, <3>2 DEF SectionLine
      <4> HIDE DEF new
      <4>2. new.current = Append(acc.current, n) /\ new.done = acc.done /\ new.inFence = acc.inFence
        BY <1>0, <4>1
      <4> QED
        BY <1>0, <1>1, <1>3, <1>4, <3>2, <4>2
    <3> QED
      BY <3>1, <3>2
  <2>2. c \in a..(n + 1)
    BY <1>2
  <2> HIDE DEF new
  <2> QED
    BY <1>1, <2>1, <2>2 DEF SectionRead, new
<1>6. CASE ~Is(lines, n, "fence") /\ ~acc.inFence /\ Blank(lines, n)
  <2> DEFINE done == acc.done \o Some(TrimSpace(lines, acc.current))
  <2>1. new.current = <<>> /\ new.done = done /\ new.inFence = acc.inFence
    <3>1. new = [acc EXCEPT !.done = done, !.current = <<>>]
      BY <1>6 DEF SectionLine
    <3> HIDE DEF new, done
    <3> QED
      BY <1>0, <3>1
  <2>2. <<>> = Run(n + 1, n)
    <3>1. n + 1 \in Int /\ (n + 1) - 1 = n
      BY <1>2
    <3> QED
      BY <3>1, NoRun
  <2>3. ~Odd(lines, n + 1)
    BY <1>1, <1>4, <1>6
  <2>4. Cover(lines, done, a, m) /\ Whole(lines, done, a, m)
    <3>1. Run(c, m) \in Seq(Int) /\ TrimSpace(lines, Run(c, m)) \in Seq(Int)
      BY <1>0, <1>1, TrimType
    <3>2. a <= c /\ c <= m + 1
      BY <1>2
    <3> QED
      BY <1>0, <1>1, <1>2, <3>1, <3>2, FlushCovers
  <2>5. n + 1 \in a..(n + 1) /\ (n + 1) - 2 = m /\ (n + 1) - 1 = n
    BY <1>2
  <2> HIDE DEF new, done
  <2> QED
    BY <1>1, <1>6, <2>1, <2>2, <2>3, <2>4, <2>5 DEF SectionRead, new
<1> QED
  BY <1>5, <1>6

\* splitByParagraph: it misses no line of a section that says something, keeps
\* their order, and cuts no fence.
LEMMA SectionIsCut ==
  ASSUME NEW lines, NEW a \in Nat \ {0}, NEW b \in Nat, a <= b, ~Odd(lines, a)
  PROVE  /\ Cover(lines, splitByParagraph(lines, Run(a, b)), a, b)
         /\ Whole(lines, splitByParagraph(lines, Run(a, b)), a, b)
<1>t. PICK text : text = Run(a, b)
  OBVIOUS
<1>0. /\ text \in Seq(Int) /\ Len(text) = b - a + 1
      /\ \A k \in 1..(b - a + 1) : text[k] = a + k - 1
  <2>1. a \in Int /\ b \in Int /\ a <= b + 1
    OBVIOUS
  <2> QED
    BY <1>t, <2>1, RunIsSeq
<1>2. \E f : SectionReads(lines, Int, text, f)
  BY <1>0, SectionLines
<1>3. PICK n \in Nat : n = b - a + 1
  OBVIOUS
<1>1. Len(text) = n /\ \A k \in 1..n : text[k] = a + k - 1
  BY <1>0, <1>3
<1>20. PICK f :
        /\ f \in [0..n -> SectionStates(Int)]
        /\ f[0] = [done |-> <<>>, current |-> <<>>, inFence |-> FALSE]
        /\ \A k \in 1..n : f[k] = SectionLine(lines, f[k - 1], text[k])
        /\ splitByParagraph(lines, text) = f[n].done \o Some(TrimSpace(lines, f[n].current))
  BY <1>1, <1>2 DEF SectionReads, Flushed
<1> DEFINE T == {k \in Nat : k <= n => SectionRead(lines, f[k], a, a + k - 1)}
<1>4. 0 \in T
  <2>1. Run(a, a - 1) = <<>>
    BY NoRun
  <2>2. Cover(lines, <<>>, a, a - 2) /\ Whole(lines, <<>>, a, a - 2)
    BY DEF Cover, Whole
  <2>3. a \in a..((a - 1) + 1) /\ (a - 1) + 1 = a /\ a + 0 - 1 = a - 1
    OBVIOUS
  <2>4. SectionRead(lines, f[0], a, a - 1)
    BY <1>20, <2>1, <2>2, <2>3 DEF SectionRead
  <2> QED
    BY <2>3, <2>4
<1>5. ASSUME NEW k \in T, k < n PROVE k + 1 \in T
  <2>1. k \in Nat /\ k + 1 \in 1..n /\ k \in 0..n /\ (k + 1) - 1 = k
    BY <1>3, <1>5
  <2>2. SectionRead(lines, f[k], a, a + k - 1) /\ f[k] \in SectionStates(Int)
    BY <1>5, <1>20, <2>1
  <2>3. f[k + 1] = SectionLine(lines, f[k], (a + k - 1) + 1)
    <3>1. f[k + 1] = SectionLine(lines, f[k], text[k + 1])
      BY <1>20, <2>1
    <3>2. text[k + 1] = (a + k - 1) + 1
      BY <1>1, <2>1
    <3> QED
      BY <3>1, <3>2
  <2>4. a + k - 1 \in Int /\ a <= (a + k - 1) + 1 /\ a + (k + 1) - 1 = (a + k - 1) + 1
    BY <2>1
  <2>5. SectionRead(lines, f[k + 1], a, (a + k - 1) + 1)
    BY <2>2, <2>3, <2>4, SectionStep
  <2> QED
    BY <2>1, <2>4, <2>5
<1>6. SectionRead(lines, f[n], a, b)
  <2>1. \A k \in 0..n : k \in T
    <3>1. T \in SUBSET Nat
      OBVIOUS
    <3> HIDE DEF T
    <3> QED
      BY <1>3, <1>4, <1>5, <3>1, Induction
  <2>2. n \in T
    BY <1>3, <2>1
  <2>3. a + n - 1 = b
    BY <1>3
  <2> QED
    BY <1>3, <2>2, <2>3
<1>7. PICK c \in a..(b + 1) :
        /\ f[n].current = Run(c, b)
        /\ c # a => Blank(lines, c - 1)
        /\ ~Odd(lines, c)
        /\ Cover(lines, f[n].done, a, c - 2) /\ Whole(lines, f[n].done, a, c - 2)
  BY <1>6 DEF SectionRead
<1>8. f[n].done \in Seq(Seq(Int)) /\ f[n].current \in Seq(Int)
  <2>1. n \in 0..n
    BY <1>3
  <2> QED
    BY <1>20, <2>1 DEF SectionStates
<1>9. c \in Nat /\ c <= b + 1 /\ a <= c /\ b \in Int
  OBVIOUS
<1>10. Run(c, b) \in Seq(Int) /\ TrimSpace(lines, Run(c, b)) \in Seq(Int)
  BY <1>7, <1>8, TrimType
<1> DEFINE all == f[n].done \o Some(TrimSpace(lines, Run(c, b)))
<1>11. Cover(lines, all, a, b) /\ Whole(lines, all, a, b)
  BY <1>7, <1>8, <1>9, <1>10, FlushCovers
<1>12. splitByParagraph(lines, text) = all
  <2>1. f[n].current = Run(c, b)
    BY <1>7
  <2> QED
    BY <1>20, <2>1
<1> HIDE DEF all
<1> QED
  BY <1>t, <1>11, <1>12

-----------------------------------------------------------------------------
(* The provider's answer.                                                   *)

\* One item for each index of 1 to n.
Items(E, n, txt) == E = {[index |-> i, embedding |-> txt[i]] : i \in 1..n}

\* In a set with one item for each index of 1 to n, k - 1 are before index k.
LEMMA ItemsBefore ==
  ASSUME NEW n \in Nat, NEW txt, NEW E,
         Items(E, n, txt), NEW k \in 1..n
  PROVE  Cardinality({e \in E : e.index < k}) = k - 1
<1> DEFINE S == 1..(k - 1)
           T == {e \in E : e.index < k}
           f == [i \in S |-> [index |-> i, embedding |-> txt[i]]]
<1>1. f \in Bijection(S, T)
  <2>1. \A i \in S : i \in 1..n /\ i < k
    OBVIOUS
  <2>2. \A i \in S : f[i] \in E /\ f[i].index = i
    BY <2>1 DEF Items
  <2>3. f \in [S -> T]
    BY <2>1, <2>2
  <2>4. \A i, j \in S : f[i] = f[j] => i = j
    BY <2>2
  <2>5. ASSUME NEW e \in T PROVE \E i \in S : f[i] = e
    <3>1. PICK i \in 1..n : e = [index |-> i, embedding |-> txt[i]]
      BY <2>5 DEF Items
    <3>2. i < k
      BY <2>5, <3>1
    <3>3. i \in S
      BY <3>2
    <3> QED
      BY <3>1, <3>3
  <2> HIDE DEF f, S, T
  <2> QED
    BY <2>3, <2>4, <2>5 DEF Bijection, Injection, Surjection, IsInjective
<1>2. IsFiniteSet(S) /\ Cardinality(S) = k - 1
  <2>1. 1 \in Int /\ k - 1 \in Int /\ k \in Nat
    OBVIOUS
  <2> QED
    BY <2>1, FS_Interval
<1> HIDE DEF f, S
<1>3. ExistsBijection(S, T)
  BY <1>1 DEF ExistsBijection
<1> HIDE DEF T
<1>4. Cardinality(T) = k - 1
  BY <1>2, <1>3, FS_Bijection
<1> QED
  BY <1>4 DEF T

\* toVectors' sort: position i gets the item of index i, in whatever order they come.
LEMMA ByIndexSorts ==
  ASSUME NEW n \in Nat, NEW txt, NEW data, DOMAIN data = 1..n,
         Items(ToSet(data), n, txt), NEW k \in 1..n
  PROVE  ByIndex(data)[k] = [index |-> k, embedding |-> txt[k]]
<1> DEFINE E == ToSet(data)
           item == [index |-> k, embedding |-> txt[k]]
<1>1. ByIndex(data)[k] = CHOOSE d \in E : Cardinality({e \in E : e.index < d.index}) = k - 1
  BY DEF ByIndex
<1>2. Items(E, n, txt)
  OBVIOUS
<1> HIDE DEF E
<1>3. item \in E /\ Cardinality({e \in E : e.index < item.index}) = k - 1
  <2>1. Cardinality({e \in E : e.index < k}) = k - 1
    BY <1>2, ItemsBefore
  <2>2. item \in E /\ item.index = k
    BY <1>2 DEF Items
  <2> QED
    BY <2>1, <2>2
<1>4. ASSUME NEW d \in E, Cardinality({e \in E : e.index < d.index}) = k - 1 PROVE d = item
  <2>1. PICK i \in 1..n : d = [index |-> i, embedding |-> txt[i]]
    BY <1>2 DEF Items
  <2>2. d.index = i
    BY <2>1
  <2>3. Cardinality({e \in E : e.index < i}) = i - 1
    BY <1>2, ItemsBefore
  <2>4. i - 1 = k - 1
    BY <1>4, <2>2, <2>3
  <2> QED
    BY <2>1, <2>4
<1> HIDE DEF item
<1> QED
  BY <1>1, <1>3, <1>4 DEF item

\* A permutation of 1 to n leaves none out.
LEMMA OrderTakesAll ==
  ASSUME NEW n \in Nat, NEW order \in SetToSeqs(1..n)
  PROVE  order \in [1..n -> 1..n] /\ \A i \in 1..n : \E k \in 1..n : order[k] = i
<1> DEFINE S == 1..n
<1>1. IsFiniteSet(S) /\ Cardinality(S) = n
  <2>1. 1 \in Int /\ n \in Int
    OBVIOUS
  <2> QED
    BY <2>1, FS_Interval
<1>2. order \in [S -> S] /\ \A i, j \in S : i # j => order[i] # order[j]
  BY <1>1 DEF SetToSeqs
<1> HIDE DEF S
<1>3. order \in Injection(S, S)
  BY <1>2 DEF Injection, IsInjective
<1>4. order \in Surjection(S, S)
  BY <1>1, <1>3, FS_Injection
<1>5. \A i \in S : \E k \in S : order[k] = i
  BY <1>4 DEF Surjection
<1> QED
  BY <1>2, <1>5 DEF S

\* What validateEmbedResponse lets through is the vector of each text, in the
\* chunks' order.
LEMMA AnswerIsTexts ==
  ASSUME NEW n \in Nat \ {0}, DOMAIN chunks = 1..n, Len(chunks) = n,
         NEW data \in Data, toVectors(data) # <<>>
  PROVE  toVectors(data) = Texts
<1> DEFINE Item(i) == [index |-> i, embedding |-> Texts[i]]
           All(order) == [k \in DOMAIN order |-> Item(order[k])]
           Emptied(order) == [All(order) EXCEPT ![1].embedding = NoVector]
<1>1. DOMAIN Texts = 1..n
  BY DEF Texts
<1>2. PICK order \in Orders : data \in {All(order), Front(All(order)), Emptied(order)}
  BY DEF Data
<1>3. /\ order \in [1..n -> 1..n] /\ \A i \in 1..n : \E k \in 1..n : order[k] = i
      /\ backend.api = "ollama" => order = [i \in 1..n |-> i]
  <2>1. CASE backend.api = "ollama"
    <3>1. order = [i \in 1..n |-> i]
      BY <1>1, <1>2, <2>1 DEF Orders
    <3> QED
      BY <3>1
  <2>2. CASE backend.api # "ollama"
    <3>1. order \in SetToSeqs(1..n)
      BY <1>1, <1>2, <2>2 DEF Orders
    <3> QED
      BY <2>2, <3>1, OrderTakesAll
  <2> QED
    BY <2>1, <2>2
<1> DEFINE all == All(order)
<1>4. /\ DOMAIN all = 1..n /\ \A k \in 1..n : all[k] = Item(order[k])
      /\ \A k \in 1..n : order[k] \in 1..n
  BY <1>3
<1>5. data = all
  <2>1. Len(data) = Len(chunks) /\ ~\E d \in ToSet(data) : d.embedding = NoVector
    BY DEF toVectors
  <2>2. data # Emptied(order)
    <3>1. ASSUME data = Emptied(order) PROVE FALSE
      <4>1. 1 \in 1..n
        OBVIOUS
      <4>2. 1 \in DOMAIN data /\ data[1] = [all[1] EXCEPT !.embedding = NoVector]
        BY <1>4, <3>1, <4>1
      <4>3. data[1].embedding = NoVector
        BY <1>4, <4>1, <4>2
      <4>4. data[1] \in ToSet(data)
        BY <4>2 DEF ToSet
      <4> QED
        BY <2>1, <4>3, <4>4
    <3> QED
      BY <3>1
  <2>3. data # Front(all)
    <3>1. all \in Seq({Item(i) : i \in 1..n}) /\ Len(all) = n
      <4>1. all = [k \in 1..n |-> Item(order[k])] /\ \A k \in 1..n : Item(order[k]) \in {Item(i) : i \in 1..n}
        BY <1>4
      <4> HIDE DEF Item, all
      <4> QED
        BY <4>1
    <3> HIDE DEF all, Item
    <3>2. Len(Front(all)) = n - 1
      BY <3>1 DEF Front
    <3> QED
      BY <2>1, <3>2
  <2> QED
    BY <1>2, <2>2, <2>3
<1>6. CASE backend.api = "ollama"
  <2>1. toVectors(data) = [i \in 1..n |-> all[i].embedding]
    BY <1>4, <1>5, <1>6 DEF toVectors
  <2>2. \A i \in 1..n : all[i].embedding = Texts[i]
    BY <1>3, <1>4, <1>6
  <2>3. Texts = [i \in 1..n |-> Texts[i]]
    BY <1>1 DEF Texts
  <2> HIDE DEF all, Item
  <2> QED
    BY <2>1, <2>2, <2>3
<1>7. CASE backend.api # "ollama"
  <2> DEFINE txt == Texts
  <2>1. Items(ToSet(all), n, txt)
    <3> DEFINE T == {[index |-> i, embedding |-> txt[i]] : i \in 1..n}
    <3>1. \A k \in 1..n : all[k] \in T
      BY <1>4
    <3>2. \A i \in 1..n : \E k \in 1..n : all[k] = [index |-> i, embedding |-> txt[i]]
      BY <1>3, <1>4
    <3>3. DOMAIN all = 1..n
      BY <1>4
    <3>4. \A d \in T : \E i \in 1..n : d = [index |-> i, embedding |-> txt[i]]
      OBVIOUS
    <3> HIDE DEF all, txt, T, Item
    <3>5. \A d \in T : \E k \in 1..n : all[k] = d
      BY <3>2, <3>4
    <3>6. ToSet(all) = T
      BY <3>1, <3>3, <3>5 DEF ToSet
    <3> QED
      BY <3>6 DEF Items, T
  <2>2. toVectors(data) = [i \in DOMAIN ByIndex(all) |-> ByIndex(all)[i].embedding]
    BY <1>5, <1>7 DEF toVectors
  <2>3. DOMAIN ByIndex(all) = 1..n
    BY <1>4 DEF ByIndex
  <2>4. DOMAIN all = 1..n
    BY <1>4
  <2> HIDE DEF all, txt
  <2>5. \A i \in 1..n : ByIndex(all)[i] = [index |-> i, embedding |-> txt[i]]
    BY <2>1, <2>4, ByIndexSorts
  <2>6. ASSUME NEW i \in 1..n PROVE ByIndex(all)[i].embedding = txt[i]
    <3>1. ByIndex(all)[i] = [index |-> i, embedding |-> txt[i]]
      BY <2>5
    <3>2. [index |-> i, embedding |-> txt[i]].embedding = txt[i]
      OBVIOUS
    <3> QED
      BY <3>1, <3>2
  <2>7. txt = [i \in 1..n |-> txt[i]]
    BY <1>1 DEF Texts, txt
  <2> QED
    BY <2>2, <2>3, <2>6, <2>7 DEF txt
<1> QED
  BY <1>6, <1>7

-----------------------------------------------------------------------------
(* The invariant of the pipeline.                                           *)

SplitOf(f) == IF contentTypeForExt(f.ext) = "markdown" THEN SplitMarkdown(f.lines) ELSE SplitText(f.lines)
Rows(D) == [span : Spans(D), caption : BOOLEAN]

\* The spans are the splitter's; the rows and their copy in memory agree, which
\* is what makes the vectors, once there, those of the rows; points are stored
\* once, when the chunks no longer change.
FileInv ==
  /\ file.lines \in Seq(Kinds)
  /\ spans \in Seq(Spans(DOMAIN file.lines))
  /\ spans # <<>> => spans = SplitOf(file)
  /\ pc = "insert" => spans = SplitOf(file)
  /\ rows \in Seq(Rows(DOMAIN file.lines)) /\ chunks = rows
  /\ next \in 1..(Len(rows) + 1)
  /\ pc \in {"read", "insert"} => next = 1
  /\ pc \in {"caption", "request", "sleep"} => rows # <<>>
  /\ pc = "upsert" => vectors = Texts
  /\ points = <<>> \/ (points = Texts /\ pc \in {"label", "indexed", "failed"})

\* Its counters.
Bounds ==
  /\ pc \in {"read", "insert", "caption", "request", "sleep", "upsert", "label",
             "skipped", "failed", "indexed"}
  /\ attempt \in 0..MaxRetries /\ (pc = "sleep" => attempt < MaxRetries)
  /\ delay \in Nat /\ wait \in Nat /\ clock \in Nat

LEMMA SplitOfType ==
  ASSUME NEW f, f.lines \in Seq(Kinds)
  PROVE  SplitOf(f) \in Seq(Spans(DOMAIN f.lines))
<1> PICK lines \in Seq(Kinds) : lines = f.lines
  OBVIOUS
<1> PICK D : D = DOMAIN lines
  OBVIOUS
<1> PICK ids : ids = [n \in DOMAIN lines |-> n]
  OBVIOUS
<1>1. Len(lines) \in Nat /\ Len(lines) \in Int /\ Len(lines) \in 0..Len(lines)
  BY LenProperties
<1>2. SplitMarkdown(lines) \in Seq(Spans(D))
  <2>1. PICK g : MarkdownReads(lines, D, g)
    BY MarkdownLines
  <2> DEFINE last == g[Len(lines)]
  <2>2. last \in MarkdownStates(D)
    BY <1>1, <2>1 DEF MarkdownReads
  <2>3. SplitMarkdown(lines) = last.spans \o SpansOf(lines, last.section, Len(lines))
    BY <2>1 DEF MarkdownReads, Flushed
  <2> HIDE DEF last
  <2>4. last.spans \in Seq(Spans(D)) /\ last.section \in Sections(D)
    BY <2>2 DEF MarkdownStates
  <2>5. SpansOf(lines, last.section, Len(lines)) \in Seq(Spans(D))
    BY <1>1, <2>4, SpansOfType
  <2> QED
    BY <2>3, <2>4, <2>5, ConcatProperties
<1>3. SplitText(lines) \in Seq(Spans(D))
  <2>1. ids \in Seq(D)
    BY Numbers
  <2>2. PICK ps \in Seq(Seq(D)) : ps = splitParagraphs(lines, [n \in DOMAIN lines |-> n])
    BY <2>1, splitParagraphsType
  <2>3. PICK g : Packs(lines, D, ps, g)
    BY <2>2, Packed
  <2>4. Len(ps) \in 0..Len(ps)
    BY <2>2, LenProperties
  <2>5. g[Len(ps)] \in PackStates(D)
    BY <2>3, <2>4 DEF Packs
  <2>6. FlushBuf(g[Len(ps)]) \in PackStates(D)
    BY <2>5, FlushBufType
  <2> QED
    BY <2>3, <2>6 DEF Packs, PackStates
<1> QED
  BY <1>2, <1>3 DEF SplitOf

LEMMA InitInv == Init => FileInv /\ Bounds
<1> SUFFICES ASSUME Init PROVE FileInv /\ Bounds
  OBVIOUS
<1>1. file.lines \in Seq(Kinds)
  <2>1. PICK n \in 0..MaxLines : file.lines \in [1..n -> Kinds]
    BY DEF Init
  <2>2. n \in Nat
    BY FileIndexingAssumption DEF FileIndexingAssumption
  <2> QED
    BY <2>1, <2>2
<1>2. FileInv
  BY <1>1 DEF Init, FileInv
<1>3. Bounds
  BY FileIndexingAssumption DEF Init, Bounds, FileIndexingAssumption
<1> QED
  BY <1>2, <1>3

LEMMA SplitPreserves == FileInv /\ Split => FileInv'
<1> SUFFICES ASSUME FileInv, Split PROVE FileInv'
  OBVIOUS
<1>1. /\ pc = "read" /\ UNCHANGED <<file, backend, rows, chunks, next, embedding, points>>
      /\ pc' \in {"skipped", "insert"}
  BY DEF Split
<1>2. (spans' = <<>> /\ pc' = "skipped") \/ (spans' = SplitOf(file) /\ pc' = "insert")
  BY DEF Split, SplitOf, contentTypeForExt
<1>3. SplitOf(file) \in Seq(Spans(DOMAIN file.lines))
  BY SplitOfType DEF FileInv
<1>4. /\ spans' \in Seq(Spans(DOMAIN file.lines))
      /\ spans' # <<>> => spans' = SplitOf(file)
      /\ pc' = "insert" => spans' = SplitOf(file)
  <2> DEFINE D == DOMAIN file.lines
             all == SplitOf(file)
  <2>1. all \in Seq(Spans(D)) /\ <<>> \in Seq(Spans(D))
    BY <1>3
  <2>2. (spans' = <<>> /\ pc' = "skipped") \/ (spans' = all /\ pc' = "insert")
    BY <1>2
  <2> HIDE DEF D, all
  <2>3. /\ spans' \in Seq(Spans(D))
        /\ spans' # <<>> => spans' = all
        /\ pc' = "insert" => spans' = all
    BY <2>1, <2>2
  <2> QED
    BY <2>3 DEF D, all
<1> QED
  BY <1>1, <1>4 DEF FileInv

LEMMA ChunkSourcePreserves == FileInv /\ ChunkSource => FileInv'
<1> SUFFICES ASSUME FileInv, ChunkSource PROVE FileInv'
  OBVIOUS
<1>1. /\ pc = "insert" /\ UNCHANGED <<file, backend, spans, next, embedding, points>>
      /\ points = <<>> /\ next = 1
  BY DEF ChunkSource, FileInv
<1>2. CASE pc' = "failed" /\ UNCHANGED <<rows, chunks>>
  BY <1>1, <1>2 DEF FileInv
<1>3. CASE /\ rows' = [i \in DOMAIN spans |-> [span |-> spans[i], caption |-> FALSE]]
           /\ chunks' = rows'
           /\ pc' = IF spans = <<>> THEN "indexed" ELSE "caption"
  <2>1. spans \in Seq(Spans(DOMAIN file.lines))
    BY DEF FileInv
  <2>2. Len(spans) \in Nat /\ DOMAIN spans = 1..Len(spans)
    BY <2>1, LenProperties
  <2>3. \A i \in 1..Len(spans) : [span |-> spans[i], caption |-> FALSE] \in Rows(DOMAIN file.lines)
    BY <2>1, <2>2, ElementOfSeq DEF Rows
  <2>4. rows' \in Seq(Rows(DOMAIN file.lines)) /\ Len(rows') = Len(spans)
    BY <1>3, <2>2, <2>3
  <2>5. spans # <<>> => rows' # <<>>
    BY <2>1, <2>4, EmptySeq
  <2>6. next' \in 1..(Len(rows') + 1)
    BY <1>1, <2>2, <2>4
  <2> QED
    BY <1>1, <1>3, <2>4, <2>5, <2>6 DEF FileInv
<1> QED
  BY <1>2, <1>3 DEF ChunkSource, Fail

LEMMA CaptionPreserves == FileInv /\ Caption => FileInv'
<1> SUFFICES ASSUME FileInv, Caption PROVE FileInv'
  OBVIOUS
<1>1. /\ pc = "caption" /\ next <= Len(chunks) /\ next' = next + 1
      /\ UNCHANGED <<file, backend, pc, spans, embedding, points>>
      /\ rows \in Seq(Rows(DOMAIN file.lines)) /\ chunks = rows /\ points = <<>>
      /\ next \in 1..(Len(rows) + 1) /\ rows # <<>>
  BY DEF Caption, FileInv
<1>2. Len(rows) \in Nat /\ DOMAIN rows = 1..Len(rows) /\ next \in 1..Len(rows)
  BY <1>1, LenProperties
<1>3. \/ rows' = rows /\ chunks' = chunks
      \/ \E stored \in BOOLEAN : /\ rows' = [rows EXCEPT ![next].caption = stored]
                                 /\ chunks' = [chunks EXCEPT ![next].caption = stored]
  BY DEF Caption, CaptionedIfStored
<1>4. ASSUME NEW stored \in BOOLEAN
      PROVE  LET new == [rows EXCEPT ![next].caption = stored] IN
             new \in Seq(Rows(DOMAIN file.lines)) /\ Len(new) = Len(rows)
  <2> DEFINE row == [rows[next] EXCEPT !.caption = stored]
  <2>1. rows[next] \in Rows(DOMAIN file.lines)
    BY <1>1, <1>2, ElementOfSeq
  <2>2. row \in Rows(DOMAIN file.lines)
    BY <2>1 DEF Rows
  <2> HIDE DEF row
  <2>3. [rows EXCEPT ![next] = row] \in Seq(Rows(DOMAIN file.lines))
        /\ Len([rows EXCEPT ![next] = row]) = Len(rows)
    BY <1>1, <1>2, <2>2, ExceptSeq
  <2> QED
    BY <2>3 DEF row
<1>5. rows' \in Seq(Rows(DOMAIN file.lines)) /\ Len(rows') = Len(rows) /\ chunks' = rows'
  BY <1>1, <1>3, <1>4
<1>6. next' \in 1..(Len(rows') + 1)
  BY <1>1, <1>2, <1>5
<1>7. rows' # <<>>
  BY <1>1, <1>5, EmptySeq
<1> QED
  BY <1>1, <1>5, <1>6, <1>7 DEF FileInv

\* A step that leaves the chunks alone, and does not reach "insert".
LEMMA LaterPreserves ==
  ASSUME FileInv, pc \in {"caption", "request", "sleep", "upsert", "label"},
         UNCHANGED <<file, backend, spans, rows, chunks, next, points>>,
         points # <<>> => pc' \in {"label", "indexed", "failed"},
         pc' \notin {"read", "insert"},
         pc' \in {"caption", "request", "sleep"} => pc \in {"caption", "request", "sleep"},
         pc' = "upsert" => vectors' = Texts
  PROVE  FileInv'
<1>1. Texts' = Texts
  BY DEF Texts
<1> QED
  BY <1>1 DEF FileInv

LEMMA AnsweredPreserves == FileInv /\ Answered => FileInv'
<1> SUFFICES ASSUME FileInv, Answered PROVE FileInv'
  OBVIOUS
<1>1. /\ pc = "request" /\ UNCHANGED <<file, backend, spans, rows, chunks, next, points>>
      /\ \/ pc' = "failed"
         \/ /\ \E data \in Data : vectors' = toVectors(data)
            /\ pc' = IF vectors' = <<>> THEN "failed" ELSE "upsert"
  BY DEF Answered, Request, Fail
<1>2. chunks \in Seq(Rows(DOMAIN file.lines)) /\ chunks # <<>> /\ points = <<>>
  BY <1>1 DEF FileInv
<1>3. PICK n \in Nat \ {0} : DOMAIN chunks = 1..n /\ Len(chunks) = n
  <2>1. Len(chunks) \in Nat /\ Len(chunks) # 0 /\ DOMAIN chunks = 1..Len(chunks)
    BY <1>2, EmptySeq, LenProperties
  <2> QED
    BY <2>1
<1>4. pc' = "upsert" => vectors' = Texts
  <2> SUFFICES ASSUME pc' = "upsert" PROVE vectors' = Texts
    OBVIOUS
  <2>1. PICK data \in Data : vectors' = toVectors(data)
    BY <1>1
  <2>2. toVectors(data) # <<>>
    BY <1>1, <2>1
  <2> QED
    BY <1>3, <2>1, <2>2, AnswerIsTexts
<1> QED
  BY <1>1, <1>2, <1>4, LaterPreserves

LEMMA OthersPreserve ==
  FileInv /\ (StartEmbedding \/ Refused \/ RateLimited \/ Sleep \/ updateEmbeddingModel) => FileInv'
<1> SUFFICES ASSUME FileInv, StartEmbedding \/ Refused \/ RateLimited \/ Sleep \/ updateEmbeddingModel
             PROVE  FileInv'
  OBVIOUS
<1>1. CASE StartEmbedding
  <2>1. /\ pc = "caption" /\ pc' = "request"
        /\ UNCHANGED <<file, backend, spans, rows, chunks, next, points>>
    BY <1>1 DEF StartEmbedding
  <2> QED
    BY <2>1, LaterPreserves DEF FileInv
<1>2. CASE Refused
  <2>1. /\ pc = "request" /\ pc' = "failed"
        /\ UNCHANGED <<file, backend, spans, rows, chunks, next, points>>
    BY <1>2 DEF Refused, Request, Fail
  <2> QED
    BY <2>1, LaterPreserves DEF FileInv
<1>3. CASE RateLimited
  <2>1. /\ pc = "request" /\ pc' \in {"failed", "sleep"}
        /\ UNCHANGED <<file, backend, spans, rows, chunks, next, points>>
    BY <1>3 DEF RateLimited, Request, Fail
  <2> QED
    BY <2>1, LaterPreserves DEF FileInv
<1>4. CASE Sleep
  <2>1. /\ pc = "sleep" /\ pc' \in {"failed", "request"}
        /\ UNCHANGED <<file, backend, spans, rows, chunks, next, points>>
    BY <1>4 DEF Sleep, Fail
  <2> QED
    BY <2>1, LaterPreserves DEF FileInv
<1>5. CASE updateEmbeddingModel
  <2>1. /\ pc = "label" /\ pc' \in {"failed", "indexed"}
        /\ UNCHANGED <<file, backend, spans, rows, chunks, next, points>>
    BY <1>5 DEF updateEmbeddingModel, Fail
  <2> QED
    BY <2>1, LaterPreserves DEF FileInv
<1> QED
  BY <1>1, <1>2, <1>3, <1>4, <1>5

LEMMA upsertPreserves == FileInv /\ upsertChunkVectors => FileInv'
<1> SUFFICES ASSUME FileInv, upsertChunkVectors PROVE FileInv'
  OBVIOUS
<1>1. /\ pc = "upsert" /\ UNCHANGED <<file, backend, spans, rows, chunks, next, embedding>>
      /\ (points' = vectors /\ pc' = "label") \/ (pc' = "failed" /\ points' = points)
      /\ vectors = Texts
  BY DEF upsertChunkVectors, Fail, FileInv
<1>2. Texts' = Texts
  BY <1>1 DEF Texts
<1> QED
  BY <1>1, <1>2 DEF FileInv

LEMMA StepInv == FileInv /\ [Next]_vars => FileInv'
<1> SUFFICES ASSUME FileInv, [Next]_vars PROVE FileInv'
  OBVIOUS
<1>1. CASE UNCHANGED vars
  BY <1>1 DEF vars, FileInv, Texts
<1>2. CASE Next
  BY <1>1, <1>2, SplitPreserves, ChunkSourcePreserves, CaptionPreserves, AnsweredPreserves,
     OthersPreserve, upsertPreserves DEF Next
<1> QED
  BY <1>1, <1>2

LEMMA InvHolds == Spec => []FileInv
<1>1. Init => FileInv
  BY InitInv
<1> QED
  BY <1>1, StepInv, PTL DEF Spec

\* After any number of retries and in whatever order the provider answers, each
\* chunk's point has the vector of its own row's text, in a document's role.
THEOREM PointsAreRows == Spec => []EachPointIsItsRow
<1>1. FileInv => EachPointIsItsRow
  <2> SUFFICES ASSUME FileInv, NEW i \in DOMAIN points
               PROVE  /\ points[i].of = rows[i]
                      /\ points[i].role = IF backend.prefixes THEN "document" ELSE "none"
    BY DEF EachPointIsItsRow
  <2>1. chunks = rows /\ (points = <<>> \/ points = Texts)
    BY DEF FileInv
  <2>2. points # <<>>
    OBVIOUS
  <2>3. i \in DOMAIN chunks /\ points[i] = Texts[i]
    BY <2>1, <2>2 DEF Texts
  <2> QED
    BY <2>1, <2>3 DEF Texts
<1> QED
  BY <1>1, InvHolds, PTL

-----------------------------------------------------------------------------
(* Plain text.                                                              *)

\* splitParagraphs has read the lines a to m.
PlainRead(lines, acc, a, m) ==
  \E c \in a..(m + 1) :
    /\ acc.current = Run(c, m)
    /\ c # a => Blank(lines, c - 1)
    /\ \A k \in c..m : ~Blank(lines, k)
    /\ Cover(lines, acc.done, a, c - 2)

\* There is nothing to trim where nothing is blank.
LEMMA NothingToTrim ==
  ASSUME NEW lines, NEW c \in Int, NEW m \in Int, c <= m + 1, \A k \in c..m : ~Blank(lines, k)
  PROVE  TrimSpace(lines, Run(c, m)) = Run(c, m)
<1>1. \/ TrimSpace(lines, Run(c, m)) = <<>> /\ \A x \in c..m : Blank(lines, x)
      \/ \E x \in c..m, y \in c..m :
           /\ x <= y /\ ~Blank(lines, x) /\ ~Blank(lines, y)
           /\ \A k \in c..m : ~Blank(lines, k) => k \in x..y
           /\ TrimSpace(lines, Run(c, m)) = Run(x, y)
  BY TrimRun
<1>2. CASE TrimSpace(lines, Run(c, m)) = <<>> /\ \A x \in c..m : Blank(lines, x)
  <2>1. c \notin c..m
    BY <1>2
  <2>2. m = c - 1
    BY <2>1
  <2> QED
    BY <1>2, <2>2, NoRun
<1>3. ASSUME NEW x \in c..m, NEW y \in c..m,
             \A k \in c..m : ~Blank(lines, k) => k \in x..y,
             TrimSpace(lines, Run(c, m)) = Run(x, y)
      PROVE  TrimSpace(lines, Run(c, m)) = Run(c, m)
  <2>1. c \in c..m /\ m \in c..m
    OBVIOUS
  <2>2. c \in x..y /\ m \in x..y
    BY <1>3, <2>1
  <2>3. x = c /\ y = m
    BY <2>2
  <2> QED
    BY <1>3, <2>3
<1> QED
  BY <1>1, <1>2, <1>3

LEMMA PlainStep ==
  ASSUME NEW lines, NEW acc \in PlainStates(Int), NEW a \in Nat \ {0}, NEW m \in Int,
         a <= m + 1, PlainRead(lines, acc, a, m)
  PROVE  PlainRead(lines, PlainLine(lines, acc, m + 1), a, m + 1)
<1> DEFINE n == m + 1
           new == PlainLine(lines, acc, n)
<1>0. /\ acc.done \in Seq(Seq(Int)) /\ acc.current \in Seq(Int)
      /\ acc = [done |-> acc.done, current |-> acc.current]
  BY DEF PlainStates
<1>1. PICK c \in a..n : /\ acc.current = Run(c, m)
                        /\ c # a => Blank(lines, c - 1)
                        /\ \A k \in c..m : ~Blank(lines, k)
                        /\ Cover(lines, acc.done, a, c - 2)
  BY DEF PlainRead
<1>2. n \in Nat \ {0} /\ c \in Nat /\ c \in Int /\ c <= m + 1 /\ m = n - 1
  OBVIOUS
<1>3. CASE ~Blank(lines, n)
  <2>1. new = [acc EXCEPT !.current = Append(@, n)]
    BY <1>3 DEF PlainLine
  <2> HIDE DEF new
  <2>2. new.current = Append(acc.current, n) /\ new.done = acc.done
    BY <1>0, <2>1
  <2>3. Append(acc.current, n) = Run(c, n)
    BY <1>1, <1>2, RunGrows
  <2>4. \A k \in c..n : k \in c..m \/ k = n
    BY <1>2
  <2>5. c \in a..(n + 1) /\ \A k \in c..n : ~Blank(lines, k)
    BY <1>1, <1>2, <1>3, <2>4
  <2> QED
    BY <1>1, <2>2, <2>3, <2>5 DEF PlainRead, new
<1>4. CASE Blank(lines, n)
  <2> DEFINE done == acc.done \o Some(acc.current)
  <2>1. new.current = <<>> /\ new.done = done
    BY <1>4 DEF PlainLine
  <2>2. <<>> = Run(n + 1, n)
    <3>1. n + 1 \in Int /\ (n + 1) - 1 = n
      BY <1>2
    <3> QED
      BY <3>1, NoRun
  <2>3. TrimSpace(lines, Run(c, m)) = Run(c, m)
    BY <1>1, <1>2, NothingToTrim
  <2>4. Cover(lines, acc.done \o Some(TrimSpace(lines, Run(c, m))), a, m)
    <3>1. Run(c, m) \in Seq(Int) /\ TrimSpace(lines, Run(c, m)) \in Seq(Int)
      BY <1>0, <1>1, <2>3
    <3>2. a <= c /\ c <= m + 1
      BY <1>2
    <3> QED
      BY <1>0, <1>1, <1>2, <3>1, <3>2, FlushCovers
  <2>5. Cover(lines, done, a, m)
    BY <1>1, <2>3, <2>4
  <2>6. n + 1 \in a..(n + 1) /\ (n + 1) - 2 = m /\ (n + 1) - 1 = n /\ (n + 1)..n = {}
    BY <1>2
  <2> HIDE DEF new, done
  <2> QED
    BY <1>4, <2>1, <2>2, <2>5, <2>6 DEF PlainRead, new
<1> QED
  BY <1>3, <1>4

\* splitParagraphs: it misses no line that says something, and keeps their order.
LEMMA TextIsCut ==
  ASSUME NEW lines, NEW a \in Nat \ {0}, NEW b \in Nat, a <= b + 1
  PROVE  Cover(lines, splitParagraphs(lines, Run(a, b)), a, b)
<1>1. PICK text : text = Run(a, b)
  OBVIOUS
<1>2. PICK n \in Nat : n = b - a + 1
  OBVIOUS
<1>3. text \in Seq(Int) /\ Len(text) = n /\ \A k \in 1..n : text[k] = a + k - 1
  <2>1. a \in Int /\ b \in Int /\ a <= b + 1
    OBVIOUS
  <2> QED
    BY <1>1, <1>2, <2>1, RunIsSeq
<1>4. \E f : PlainReads(lines, Int, text, f)
  BY <1>3, PlainLines
<1>5. PICK f :
        /\ f \in [0..n -> PlainStates(Int)]
        /\ f[0] = [done |-> <<>>, current |-> <<>>]
        /\ \A k \in 1..n : f[k] = PlainLine(lines, f[k - 1], text[k])
        /\ splitParagraphs(lines, text) = f[n].done \o Some(f[n].current)
  BY <1>3, <1>4 DEF PlainReads, Flushed
<1> DEFINE T == {k \in Nat : k <= n => PlainRead(lines, f[k], a, a + k - 1)}
<1>6. 0 \in T
  <2>1. Run(a, a - 1) = <<>>
    BY NoRun
  <2>2. Cover(lines, <<>>, a, a - 2)
    BY DEF Cover
  <2>3. a \in a..((a - 1) + 1) /\ (a - 1) + 1 = a /\ a + 0 - 1 = a - 1 /\ a..(a - 1) = {}
    OBVIOUS
  <2>4. PlainRead(lines, f[0], a, a - 1)
    BY <1>5, <2>1, <2>2, <2>3 DEF PlainRead
  <2> QED
    BY <2>3, <2>4
<1>7. ASSUME NEW k \in T, k < n PROVE k + 1 \in T
  <2>1. k \in Nat /\ k + 1 \in 1..n /\ k \in 0..n /\ (k + 1) - 1 = k
    BY <1>7
  <2>2. PlainRead(lines, f[k], a, a + k - 1) /\ f[k] \in PlainStates(Int)
    BY <1>5, <1>7, <2>1
  <2>3. f[k + 1] = PlainLine(lines, f[k], (a + k - 1) + 1)
    <3>1. f[k + 1] = PlainLine(lines, f[k], text[k + 1])
      BY <1>5, <2>1
    <3>2. text[k + 1] = (a + k - 1) + 1
      BY <1>3, <2>1
    <3> QED
      BY <3>1, <3>2
  <2>4. a + k - 1 \in Int /\ a <= (a + k - 1) + 1 /\ a + (k + 1) - 1 = (a + k - 1) + 1
    BY <2>1
  <2>5. PlainRead(lines, f[k + 1], a, (a + k - 1) + 1)
    BY <2>2, <2>3, <2>4, PlainStep
  <2> QED
    BY <2>1, <2>4, <2>5
<1>8. PlainRead(lines, f[n], a, b)
  <2>1. \A k \in 0..n : k \in T
    <3>1. T \in SUBSET Nat
      OBVIOUS
    <3> HIDE DEF T
    <3> QED
      BY <1>6, <1>7, <3>1, Induction
  <2>2. n \in T
    BY <2>1
  <2>3. a + n - 1 = b
    BY <1>2
  <2> QED
    BY <2>2, <2>3
<1>9. PICK c \in a..(b + 1) :
        /\ f[n].current = Run(c, b)
        /\ c # a => Blank(lines, c - 1)
        /\ \A k \in c..b : ~Blank(lines, k)
        /\ Cover(lines, f[n].done, a, c - 2)
  BY <1>8 DEF PlainRead
<1>10. f[n].done \in Seq(Seq(Int)) /\ f[n].current \in Seq(Int)
  <2>1. n \in 0..n
    OBVIOUS
  <2> QED
    BY <1>5, <2>1 DEF PlainStates
<1>11. c \in Nat /\ c \in Int /\ c <= b + 1 /\ a <= c /\ b \in Int
  OBVIOUS
<1>12. TrimSpace(lines, Run(c, b)) = Run(c, b)
  BY <1>9, <1>11, NothingToTrim
<1>13. Run(c, b) \in Seq(Int) /\ TrimSpace(lines, Run(c, b)) \in Seq(Int)
  BY <1>9, <1>10, <1>12
<1>14. Cover(lines, f[n].done \o Some(TrimSpace(lines, Run(c, b))), a, b)
  BY <1>9, <1>10, <1>11, <1>13, FlushCovers
<1>15. splitParagraphs(lines, text) = f[n].done \o Some(TrimSpace(lines, Run(c, b)))
  BY <1>5, <1>9, <1>12
<1> QED
  BY <1>1, <1>14, <1>15

\* The first k paragraphs of ps, packed into spans: each is in one of them, in
\* their order; the cap and the target are respected.
Packing(lines, ps, k, W) ==
  /\ \A i \in DOMAIN W : W[i].paragraphs # <<>>
  /\ \A i \in DOMAIN W : \A a \in DOMAIN W[i].paragraphs :
       \E m \in 1..k : W[i].paragraphs[a] = ps[m]
  /\ \A m \in 1..k : \E i \in DOMAIN W : \E a \in DOMAIN W[i].paragraphs : W[i].paragraphs[a] = ps[m]
  /\ \A i, j \in DOMAIN W : \A a \in DOMAIN W[i].paragraphs, b \in DOMAIN W[j].paragraphs :
       i < j \/ (i = j /\ a < b) => Bottom(W[i].paragraphs[a]) < Top(W[j].paragraphs[b])
  /\ \A i \in DOMAIN W : Joined(lines, W[i].paragraphs) > MaxChars => Len(W[i].paragraphs) = 1
  /\ \A i \in DOMAIN W : i < Len(W) /\ Joined(lines, W[i].paragraphs) < TargetChars =>
       Joined(lines, Append(W[i].paragraphs, W[i + 1].paragraphs[1])) > MaxChars

\* The paragraphs of a text, in order.
Ordered(lines, ps, D) ==
  /\ ps \in Seq(Seq(D))
  /\ \A m \in DOMAIN ps : Top(ps[m]) \in Int /\ Bottom(ps[m]) \in Int
  /\ \A m, o \in DOMAIN ps : m < o => Bottom(ps[m]) < Top(ps[o])

\* A paragraph that begins a span.
LEMMA NewSpan ==
  ASSUME NEW lines, NEW D, NEW ps, Ordered(lines, ps, D), NEW k \in Nat, k + 1 \in DOMAIN ps,
         NEW W \in Seq(Spans(D)), Packing(lines, ps, k, W), NEW span \in Spans(D),
         span.paragraphs = <<ps[k + 1]>>,
         W # <<>> /\ Joined(lines, W[Len(W)].paragraphs) < TargetChars =>
           Joined(lines, Append(W[Len(W)].paragraphs, ps[k + 1])) > MaxChars
  PROVE  Packing(lines, ps, k + 1, Append(W, span))
<1> DEFINE n == Len(W)
           V == Append(W, span)
           p == ps[k + 1]
           Ps(i) == V[i].paragraphs
<1>1. n \in Nat /\ DOMAIN W = 1..n /\ (n # 0 => W # <<>>)
  BY LenProperties, EmptySeq
<1>2. /\ V \in Seq(Spans(D)) /\ Len(V) = n + 1 /\ \A i \in 1..n : V[i] = W[i]
      /\ V[n + 1] = span
  BY AppendProperties
<1>3. DOMAIN V = 1..(n + 1) /\ \A i \in 1..(n + 1) : i \in 1..n \/ i = n + 1
  BY <1>1, <1>2, LenProperties
<1>4. <<p>> # <<>> /\ DOMAIN <<p>> = {1} /\ <<p>>[1] = p /\ Len(<<p>>) = 1
  OBVIOUS
<1>5. DOMAIN ps = 1..Len(ps) /\ Len(ps) \in Nat /\ k < k + 1
  BY LenProperties DEF Ordered
<1>6. \A m \in 1..k : m \in DOMAIN ps /\ m < k + 1
  BY <1>5
<1>7. \A m \in 1..(k + 1) : m \in 1..k \/ m = k + 1
  OBVIOUS
<1>8. \A m \in 1..k : m \in 1..(k + 1)
  OBVIOUS
<1> HIDE DEF V, n, p
<1>9. \A i \in 1..n : Ps(i) = W[i].paragraphs
  BY <1>2
<1>10. Ps(n + 1) = <<p>>
  BY <1>2 DEF p
<1> HIDE DEF Ps
<1>11. \A i \in DOMAIN V : Ps(i) # <<>>
  BY <1>1, <1>3, <1>4, <1>9, <1>10 DEF Packing
<1>12. ASSUME NEW i \in DOMAIN V, NEW a \in DOMAIN Ps(i)
       PROVE  \E m \in 1..(k + 1) : Ps(i)[a] = ps[m]
  <2>1. CASE i \in 1..n
    <3>1. i \in DOMAIN W /\ Ps(i) = W[i].paragraphs /\ a \in DOMAIN W[i].paragraphs
      BY <1>1, <1>9, <1>12, <2>1
    <3>2. \E m \in 1..k : W[i].paragraphs[a] = ps[m]
      BY <3>1 DEF Packing
    <3> QED
      BY <1>8, <3>1, <3>2
  <2>2. CASE i = n + 1
    <3>1. Ps(i)[a] = ps[k + 1]
      BY <1>4, <1>10, <1>12, <2>2 DEF p
    <3>2. k + 1 \in 1..(k + 1)
      OBVIOUS
    <3> QED
      BY <3>1, <3>2
  <2> QED
    BY <1>3, <2>1, <2>2
<1>13. ASSUME NEW m \in 1..(k + 1)
       PROVE  \E i \in DOMAIN V : \E a \in DOMAIN Ps(i) : Ps(i)[a] = ps[m]
  <2>1. CASE m \in 1..k
    <3>1. PICK i \in DOMAIN W : \E a \in DOMAIN W[i].paragraphs : W[i].paragraphs[a] = ps[m]
      BY <2>1 DEF Packing
    <3>2. i \in 1..n /\ i \in DOMAIN V
      BY <1>1, <1>3
    <3> QED
      BY <1>9, <3>1, <3>2
  <2>2. CASE m = k + 1
    <3>1. n + 1 \in DOMAIN V
      BY <1>1, <1>3
    <3> QED
      BY <1>4, <1>10, <2>2, <3>1 DEF p
  <2> QED
    BY <1>7, <2>1, <2>2
<1>14. ASSUME NEW i \in DOMAIN V, NEW j \in DOMAIN V, NEW a \in DOMAIN Ps(i), NEW b \in DOMAIN Ps(j),
              i < j \/ (i = j /\ a < b)
       PROVE  Bottom(Ps(i)[a]) < Top(Ps(j)[b])
  <2>1. i \in 1..n
    <3>1. CASE i = n + 1
      <4>1. j = n + 1
        BY <1>1, <1>3, <1>14, <3>1
      <4>2. a = 1 /\ b = 1
        BY <1>4, <1>10, <3>1, <4>1
      <4> QED
        BY <1>1, <1>14, <3>1, <4>1, <4>2
    <3> QED
      BY <1>3, <3>1
  <2>2. CASE j \in 1..n
    BY <1>1, <1>9, <1>14, <2>1, <2>2 DEF Packing
  <2>3. CASE j = n + 1
    <3>1. Ps(j)[b] = ps[k + 1]
      BY <1>4, <1>10, <2>3 DEF p
    <3>0. i \in DOMAIN W /\ Ps(i) = W[i].paragraphs /\ a \in DOMAIN W[i].paragraphs
      BY <1>1, <1>9, <1>14, <2>1
    <3>2. PICK m \in 1..k : Ps(i)[a] = ps[m]
      BY <3>0 DEF Packing
    <3>3. Bottom(ps[m]) < Top(ps[k + 1])
      BY <1>6, <3>2 DEF Ordered
    <3> QED
      BY <3>1, <3>2, <3>3
  <2> QED
    BY <1>3, <2>2, <2>3
<1>15. ASSUME NEW i \in DOMAIN V, Joined(lines, Ps(i)) > MaxChars
       PROVE  Len(Ps(i)) = 1
  <2>1. CASE i \in 1..n
    BY <1>1, <1>9, <1>15, <2>1 DEF Packing
  <2>2. CASE i = n + 1
    BY <1>4, <1>10, <2>2
  <2> QED
    BY <1>3, <2>1, <2>2
<1>16. ASSUME NEW i \in DOMAIN V, i < n + 1, Joined(lines, Ps(i)) < TargetChars
       PROVE  Joined(lines, Append(Ps(i), Ps(i + 1)[1])) > MaxChars
  <2>1. i \in 1..n
    BY <1>1, <1>3, <1>16
  <2>2. CASE i < n
    <3>1. i + 1 \in 1..n
      BY <1>1, <2>1, <2>2
    <3>2. Ps(i) = W[i].paragraphs /\ Ps(i + 1) = W[i + 1].paragraphs
      BY <1>9, <2>1, <3>1
    <3> QED
      BY <1>1, <1>16, <2>1, <2>2, <3>2 DEF Packing, n
  <2>3. CASE i = n
    <3>1. Ps(i) = W[Len(W)].paragraphs /\ Ps(i + 1)[1] = ps[k + 1] /\ W # <<>>
      <4>1. n # 0
        BY <2>1, <2>3
      <4> QED
        BY <1>1, <1>4, <1>9, <1>10, <2>1, <2>3, <4>1 DEF p, n
    <3> QED
      BY <1>16, <3>1
  <2> QED
    BY <1>1, <2>1, <2>2, <2>3
<1>17. Len(V) = n + 1
  BY <1>2
<1> QED
  BY <1>11, <1>12, <1>13, <1>14, <1>15, <1>16, <1>17 DEF Packing, Ps, V

\* A paragraph that joins the last span.
LEMMA LargerSpan ==
  ASSUME NEW lines, NEW D, NEW ps, Ordered(lines, ps, D), NEW k \in Nat, k + 1 \in DOMAIN ps,
         NEW S \in Seq(Spans(D)), NEW old \in Spans(D), NEW span \in Spans(D),
         Packing(lines, ps, k, Append(S, old)),
         old.paragraphs # <<>>, span.paragraphs = Append(old.paragraphs, ps[k + 1]),
         ~(Joined(lines, span.paragraphs) > MaxChars)
  PROVE  Packing(lines, ps, k + 1, Append(S, span))
<1> DEFINE n == Len(S)
           W == Append(S, old)
           V == Append(S, span)
           p == ps[k + 1]
           l == Len(old.paragraphs)
           Ps(i) == V[i].paragraphs
           Qs(i) == W[i].paragraphs
<1>1. n \in Nat /\ DOMAIN S = 1..n
  BY LenProperties
<1>2. /\ V \in Seq(Spans(D)) /\ Len(V) = n + 1 /\ \A i \in 1..n : V[i] = S[i]
      /\ V[n + 1] = span
  BY AppendProperties
<1>3. /\ W \in Seq(Spans(D)) /\ Len(W) = n + 1 /\ \A i \in 1..n : W[i] = S[i]
      /\ W[n + 1] = old
  BY AppendProperties
<1>4. DOMAIN V = 1..(n + 1) /\ DOMAIN W = 1..(n + 1)
      /\ \A i \in 1..(n + 1) : i \in 1..n \/ i = n + 1
  BY <1>1, <1>2, <1>3, LenProperties
<1>5. old.paragraphs \in Seq(Seq(D)) /\ p \in Seq(D)
  BY ElementOfSeq DEF Spans, Ordered
<1>6. /\ l \in Nat /\ l # 0 /\ DOMAIN old.paragraphs = 1..l
      /\ span.paragraphs \in Seq(Seq(D)) /\ Len(span.paragraphs) = l + 1
      /\ \A a \in 1..l : span.paragraphs[a] = old.paragraphs[a]
      /\ span.paragraphs[l + 1] = p
  BY <1>5, LenProperties, EmptySeq, AppendProperties
<1>7. DOMAIN span.paragraphs = 1..(l + 1) /\ span.paragraphs # <<>>
      /\ \A a \in 1..(l + 1) : a \in 1..l \/ a = l + 1
  <2> HIDE DEF l
  <2>1. DOMAIN span.paragraphs = 1..(l + 1)
    BY <1>6, LenProperties
  <2>2. l + 1 # 0 /\ \A a \in 1..(l + 1) : a \in 1..l \/ a = l + 1
    BY <1>6
  <2>3. span.paragraphs # <<>>
    BY <1>6, <2>2, EmptySeq
  <2> QED
    BY <2>1, <2>2, <2>3
<1>8. DOMAIN ps = 1..Len(ps) /\ Len(ps) \in Nat /\ k < k + 1
  BY LenProperties DEF Ordered
<1>9. \A m \in 1..k : m \in DOMAIN ps /\ m < k + 1 /\ m \in 1..(k + 1)
  BY <1>8
<1>10. (\A m \in 1..(k + 1) : m \in 1..k \/ m = k + 1) /\ k + 1 \in 1..(k + 1)
  OBVIOUS
<1> HIDE DEF V, W, n, p, l
<1>11. \A i \in 1..n : Ps(i) = Qs(i)
  BY <1>2, <1>3
<1>12. Ps(n + 1) = span.paragraphs /\ Qs(n + 1) = old.paragraphs
  BY <1>2, <1>3
<1>13. /\ \A i \in 1..(n + 1) : Qs(i) # <<>>
       /\ \A i \in 1..(n + 1) : \A a \in DOMAIN Qs(i) : \E m \in 1..k : Qs(i)[a] = ps[m]
       /\ \A m \in 1..k : \E i \in 1..(n + 1) : \E a \in DOMAIN Qs(i) : Qs(i)[a] = ps[m]
       /\ \A i, j \in 1..(n + 1) : \A a \in DOMAIN Qs(i), b \in DOMAIN Qs(j) :
            i < j \/ (i = j /\ a < b) => Bottom(Qs(i)[a]) < Top(Qs(j)[b])
       /\ \A i \in 1..(n + 1) : Joined(lines, Qs(i)) > MaxChars => Len(Qs(i)) = 1
       /\ \A i \in 1..(n + 1) : i < n + 1 /\ Joined(lines, Qs(i)) < TargetChars =>
            Joined(lines, Append(Qs(i), Qs(i + 1)[1])) > MaxChars
  <2>0. Packing(lines, ps, k, W) /\ DOMAIN W = 1..(n + 1) /\ Len(W) = n + 1
    BY <1>3, <1>4 DEF W
  <2>1. \A i \in 1..(n + 1) : Qs(i) # <<>>
    BY <2>0 DEF Packing
  <2>2. \A i \in 1..(n + 1) : \A a \in DOMAIN Qs(i) : \E m \in 1..k : Qs(i)[a] = ps[m]
    <3>1. \A i \in DOMAIN W : \A a \in DOMAIN W[i].paragraphs :
            \E m \in 1..k : W[i].paragraphs[a] = ps[m]
      BY <2>0 DEF Packing
    <3> QED
      BY <2>0, <3>1
  <2>3. \A m \in 1..k : \E i \in 1..(n + 1) : \E a \in DOMAIN Qs(i) : Qs(i)[a] = ps[m]
    BY <2>0 DEF Packing
  <2>4. \A i, j \in 1..(n + 1) : \A a \in DOMAIN Qs(i), b \in DOMAIN Qs(j) :
          i < j \/ (i = j /\ a < b) => Bottom(Qs(i)[a]) < Top(Qs(j)[b])
    BY <2>0 DEF Packing
  <2>5. \A i \in 1..(n + 1) : Joined(lines, Qs(i)) > MaxChars => Len(Qs(i)) = 1
    BY <2>0 DEF Packing
  <2>6. \A i \in 1..(n + 1) : i < n + 1 /\ Joined(lines, Qs(i)) < TargetChars =>
          Joined(lines, Append(Qs(i), Qs(i + 1)[1])) > MaxChars
    BY <2>0 DEF Packing
  <2> HIDE DEF Qs
  <2> QED
    BY <2>1, <2>2, <2>3, <2>4, <2>5, <2>6
<1> HIDE DEF Ps, Qs
\* The old spans' paragraphs are still where they were.
<1>14. \A i \in 1..(n + 1) : \A a \in DOMAIN Qs(i) : a \in DOMAIN Ps(i) /\ Ps(i)[a] = Qs(i)[a]
  <2>1. ASSUME NEW i \in 1..(n + 1), NEW a \in DOMAIN Qs(i)
        PROVE  a \in DOMAIN Ps(i) /\ Ps(i)[a] = Qs(i)[a]
    <3>1. CASE i \in 1..n
      BY <1>11, <2>1, <3>1
    <3>2. CASE i = n + 1
      <4>1. a \in 1..l
        BY <1>6, <1>12, <2>1, <3>2
      <4>2. a \in 1..(l + 1)
        BY <1>6, <4>1
      <4> QED
        BY <1>6, <1>7, <1>12, <3>2, <4>1, <4>2
    <3> QED
      BY <1>4, <3>1, <3>2
  <2> QED
    BY <2>1
\* And there is one more.
<1>15. ASSUME NEW i \in 1..(n + 1), NEW a \in DOMAIN Ps(i)
       PROVE  a \in DOMAIN Qs(i) \/ (i = n + 1 /\ a = l + 1 /\ Ps(i)[a] = p)
  <2>1. CASE i \in 1..n
    BY <1>11, <1>15, <2>1
  <2>2. CASE i = n + 1
    <3>1. a \in 1..(l + 1)
      BY <1>7, <1>12, <1>15, <2>2
    <3> QED
      BY <1>6, <1>7, <1>12, <2>2, <3>1
  <2> QED
    BY <1>4, <2>1, <2>2
<1>16. \A i \in 1..(n + 1) : Ps(i) # <<>>
  BY <1>4, <1>7, <1>11, <1>12, <1>13
<1>17. ASSUME NEW i \in 1..(n + 1), NEW a \in DOMAIN Ps(i)
       PROVE  \E m \in 1..(k + 1) : Ps(i)[a] = ps[m]
  <2>1. CASE a \in DOMAIN Qs(i)
    <3>1. \E m \in 1..k : Qs(i)[a] = ps[m]
      BY <1>13, <2>1
    <3> QED
      BY <1>9, <1>14, <2>1, <3>1
  <2>2. CASE Ps(i)[a] = p
    BY <1>10, <2>2 DEF p
  <2> QED
    BY <1>15, <2>1, <2>2
<1>18. ASSUME NEW m \in 1..(k + 1)
       PROVE  \E i \in 1..(n + 1) : \E a \in DOMAIN Ps(i) : Ps(i)[a] = ps[m]
  <2>1. CASE m \in 1..k
    <3>1. PICK i \in 1..(n + 1) : \E a \in DOMAIN Qs(i) : Qs(i)[a] = ps[m]
      BY <1>13, <2>1
    <3> QED
      BY <1>14, <3>1
  <2>2. CASE m = k + 1
    <3>1. n + 1 \in 1..(n + 1) /\ l + 1 \in 1..(l + 1)
      BY <1>1, <1>6
    <3>2. l + 1 \in DOMAIN Ps(n + 1) /\ Ps(n + 1)[l + 1] = p
      BY <1>6, <1>7, <1>12, <3>1
    <3> QED
      BY <2>2, <3>1, <3>2 DEF p
  <2> QED
    BY <1>10, <2>1, <2>2
<1>19. ASSUME NEW i \in 1..(n + 1), NEW j \in 1..(n + 1), NEW a \in DOMAIN Ps(i), NEW b \in DOMAIN Ps(j),
              i < j \/ (i = j /\ a < b)
       PROVE  Bottom(Ps(i)[a]) < Top(Ps(j)[b])
  <2>1. a \in DOMAIN Qs(i)
    <3>1. CASE i = n + 1 /\ a = l + 1
      <4>1. j = n + 1
        BY <1>1, <1>19, <3>1
      <4>2. b \in 1..(l + 1)
        BY <1>7, <1>12, <4>1
      <4> QED
        BY <1>1, <1>6, <1>19, <3>1, <4>1, <4>2
    <3> QED
      BY <1>15, <3>1
  <2>2. CASE b \in DOMAIN Qs(j)
    <3>1. Bottom(Qs(i)[a]) < Top(Qs(j)[b])
      BY <1>13, <1>19, <2>1, <2>2
    <3> QED
      BY <1>14, <2>1, <2>2, <3>1
  <2>3. CASE Ps(j)[b] = p
    <3>1. PICK m \in 1..k : Qs(i)[a] = ps[m]
      BY <1>13, <2>1
    <3>2. Bottom(ps[m]) < Top(ps[k + 1])
      BY <1>9, <3>1 DEF Ordered
    <3> QED
      BY <1>14, <2>1, <2>3, <3>1, <3>2 DEF p
  <2> QED
    BY <1>15, <2>2, <2>3
<1>20. ASSUME NEW i \in 1..(n + 1), Joined(lines, Ps(i)) > MaxChars
       PROVE  Len(Ps(i)) = 1
  <2>1. i \in 1..n
    BY <1>4, <1>12, <1>20
  <2> QED
    BY <1>11, <1>13, <1>20, <2>1
<1>21. ASSUME NEW i \in 1..(n + 1), i < n + 1, Joined(lines, Ps(i)) < TargetChars
       PROVE  Joined(lines, Append(Ps(i), Ps(i + 1)[1])) > MaxChars
  <2>1. i \in 1..n /\ i + 1 \in 1..(n + 1)
    BY <1>1, <1>21
  <2>2. Ps(i) = Qs(i)
    BY <1>11, <2>1
  <2>3. 1 \in DOMAIN Qs(i + 1)
    <3>1. CASE i + 1 \in 1..n
      <4>1. Qs(i + 1) \in Seq(Seq(D)) /\ Qs(i + 1) # <<>>
        <5>1. W[i + 1] \in Spans(D)
          BY <1>3, <1>4, <2>1, ElementOfSeq
        <5> QED
          BY <1>13, <2>1, <5>1 DEF Spans, Qs
      <4> QED
        BY <4>1, EmptySeq, LenProperties
    <3>2. CASE i + 1 = n + 1
      <4>1. 1 \in 1..l
        BY <1>6
      <4> QED
        BY <1>6, <1>12, <3>2, <4>1
    <3> QED
      BY <1>4, <2>1, <3>1, <3>2
  <2>4. Ps(i + 1)[1] = Qs(i + 1)[1]
    BY <1>14, <2>1, <2>3
  <2> QED
    BY <1>13, <1>21, <2>2, <2>4
<1>22. Packing(lines, ps, k + 1, V)
  <2>0. DOMAIN V = 1..(n + 1) /\ Len(V) = n + 1
    BY <1>2, <1>4
  <2>1. \A i \in DOMAIN V : Ps(i) # <<>>
    BY <1>16, <2>0
  <2>2. \A i \in DOMAIN V : \A a \in DOMAIN Ps(i) : \E m \in 1..(k + 1) : Ps(i)[a] = ps[m]
    BY <1>17, <2>0
  <2>3. \A m \in 1..(k + 1) : \E i \in DOMAIN V : \E a \in DOMAIN Ps(i) : Ps(i)[a] = ps[m]
    BY <1>18, <2>0
  <2>4. \A i, j \in DOMAIN V : \A a \in DOMAIN Ps(i), b \in DOMAIN Ps(j) :
          i < j \/ (i = j /\ a < b) => Bottom(Ps(i)[a]) < Top(Ps(j)[b])
    BY <1>19, <2>0
  <2>5. \A i \in DOMAIN V : Joined(lines, Ps(i)) > MaxChars => Len(Ps(i)) = 1
    BY <1>20, <2>0
  <2>6. \A i \in DOMAIN V : i < Len(V) /\ Joined(lines, Ps(i)) < TargetChars =>
          Joined(lines, Append(Ps(i), Ps(i + 1)[1])) > MaxChars
    BY <1>21, <2>0
  <2> QED
    BY <2>1, <2>2, <2>3, <2>4, <2>5, <2>6 DEF Packing, Ps
<1> QED
  BY <1>22 DEF V

\* What flushing the buffer gives.
BufSpan(acc) == Span(acc.buf, 0, FALSE, 0, 0)

LEMMA Flushing ==
  ASSUME NEW D, NEW acc \in PackStates(D)
  PROVE  /\ FlushBuf(acc).buf = <<>>
         /\ acc.buf = <<>> => FlushBuf(acc).spans = acc.spans
         /\ acc.buf # <<>> => FlushBuf(acc).spans = Append(acc.spans, BufSpan(acc))
         /\ BufSpan(acc) \in Spans(D) /\ BufSpan(acc).paragraphs = acc.buf
<1>1. acc.spans \in Seq(Spans(D)) /\ acc.buf \in Seq(Seq(D))
  BY DEF PackStates
<1>2. BufSpan(acc) \in Spans(D) /\ BufSpan(acc).paragraphs = acc.buf
  BY <1>1 DEF BufSpan, Span, Spans
<1>3. acc.buf = <<>> => FlushBuf(acc) = [spans |-> acc.spans \o <<>>, buf |-> <<>>]
  BY DEF FlushBuf
<1>4. acc.buf # <<>> => FlushBuf(acc) = [spans |-> acc.spans \o <<BufSpan(acc)>>, buf |-> <<>>]
  BY DEF FlushBuf, BufSpan
<1>5. acc.spans \o <<>> = acc.spans
  BY <1>1, ConcatEmptySeq
<1>6. acc.spans \o <<BufSpan(acc)>> = Append(acc.spans, BufSpan(acc))
  BY <1>1, <1>2, AppendIsConcat
<1> QED
  BY <1>2, <1>3, <1>4, <1>5, <1>6

\* text.Split has packed k paragraphs; with no paragraph held, the last span has
\* reached the target.
PackInv(lines, ps, k, acc) ==
  LET W == FlushBuf(acc).spans IN
  /\ Packing(lines, ps, k, W)
  /\ acc.buf = <<>> /\ W # <<>> => Joined(lines, W[Len(W)].paragraphs) >= TargetChars

LEMMA PackStep ==
  ASSUME NEW lines \in Seq(Kinds), NEW D, D = DOMAIN lines, NEW ps, Ordered(lines, ps, D),
         NEW k \in Nat, k + 1 \in DOMAIN ps,
         NEW acc \in PackStates(D), PackInv(lines, ps, k, acc)
  PROVE  PackInv(lines, ps, k + 1, PackParagraph(lines, acc, ps[k + 1]))
<1> DEFINE p == ps[k + 1]
           new == PackParagraph(lines, acc, p)
           room == IF FlushedFirst(lines, acc.buf, p) THEN FlushBuf(acc) ELSE acc
           with == [room EXCEPT !.buf = Append(@, p)]
           W == FlushBuf(acc).spans
<1>1. p \in Seq(D)
  BY ElementOfSeq DEF Ordered
<1>2. new = IF Joined(lines, with.buf) >= TargetChars THEN FlushBuf(with) ELSE with
  BY DEF PackParagraph
<1>3. room \in PackStates(D)
  BY FlushBufType
<1>4. Packing(lines, ps, k, W) /\ W \in Seq(Spans(D))
      /\ (acc.buf = <<>> /\ W # <<>> => Joined(lines, W[Len(W)].paragraphs) >= TargetChars)
  BY FlushBufType DEF PackInv, PackStates
<1> HIDE DEF new, p
<1>5. /\ room.spans \in Seq(Spans(D)) /\ room.buf \in Seq(Seq(D))
      /\ room = [spans |-> room.spans, buf |-> room.buf]
  <2> HIDE DEF room
  <2> QED
    BY <1>3 DEF PackStates
<1> DEFINE span == BufSpan(with)
           V == Append(room.spans, span)
<1>6. /\ with \in PackStates(D) /\ with.spans = room.spans /\ with.buf = Append(room.buf, p)
      /\ with.buf # <<>>
  <2> HIDE DEF room
  <2>1. Append(room.buf, p) \in Seq(Seq(D)) /\ Append(room.buf, p) # <<>>
    <3>1. /\ Append(room.buf, p) \in Seq(Seq(D))
          /\ Len(Append(room.buf, p)) = Len(room.buf) + 1 /\ Len(room.buf) \in Nat
      BY <1>1, <1>5, AppendProperties, LenProperties
    <3>2. Len(room.buf) + 1 # 0
      BY <3>1
    <3> QED
      BY <3>1, <3>2, EmptySeq
  <2> DEFINE buf == Append(room.buf, p)
  <2> HIDE DEF buf
  <2>2. [room EXCEPT !.buf = buf] \in PackStates(D)
        /\ [room EXCEPT !.buf = buf].spans = room.spans /\ [room EXCEPT !.buf = buf].buf = buf
    BY <1>3, <2>1 DEF PackStates, buf
  <2> QED
    BY <2>1, <2>2 DEF buf
<1> HIDE DEF with
<1>7. FlushBuf(with) \in PackStates(D)
  BY <1>6, FlushBufType
<1>8. /\ FlushBuf(with).buf = <<>> /\ FlushBuf(with).spans = V
      /\ span \in Spans(D) /\ span.paragraphs = Append(room.buf, p)
      /\ FlushBuf(FlushBuf(with)).spans = V
  <2> HIDE DEF room
  <2>1. /\ FlushBuf(with).buf = <<>> /\ FlushBuf(with).spans = Append(with.spans, span)
        /\ span \in Spans(D) /\ span.paragraphs = with.buf
    BY <1>6, Flushing
  <2>2. FlushBuf(FlushBuf(with)).spans = FlushBuf(with).spans
    BY <1>7, <2>1, Flushing
  <2> QED
    BY <1>6, <2>1, <2>2
<1>9. FlushBuf(new).spans = V /\ (new.buf = <<>> => Joined(lines, span.paragraphs) >= TargetChars)
  <2> HIDE DEF room, span, V
  <2>1. with.buf = span.paragraphs
    BY <1>6, <1>8
  <2> QED
    BY <1>2, <1>6, <1>8, <2>1
<1>10. Packing(lines, ps, k + 1, V)
  <2> HIDE DEF span
  <2>1. CASE acc.buf = <<>>
    <3>1. room = acc /\ W = acc.spans
      BY <2>1, Flushing DEF FlushedFirst
    <3>2. span.paragraphs = <<p>> /\ room.spans = W
      <4>1. Append(<<>>, p) = <<p>>
        OBVIOUS
      <4> QED
        BY <1>8, <2>1, <3>1, <4>1
    <3>3. W # <<>> => Joined(lines, W[Len(W)].paragraphs) \in Int
      <4> SUFFICES ASSUME W # <<>> PROVE Joined(lines, W[Len(W)].paragraphs) \in Int
        OBVIOUS
      <4> HIDE DEF W
      <4>1. Len(W) \in 1..Len(W)
        BY <1>4, EmptySeq, LenProperties
      <4>2. W[Len(W)] \in Spans(D)
        BY <1>4, <4>1, ElementOfSeq
      <4>3. W[Len(W)].paragraphs \in Seq(Seq(DOMAIN lines))
        BY <4>2 DEF Spans
      <4> QED
        BY <4>3, JoinedIsInt
    <3> HIDE DEF W, room
    <3>4. ~(W # <<>> /\ Joined(lines, W[Len(W)].paragraphs) < TargetChars)
      BY <1>4, <2>1, <3>3, FileIndexingAssumption DEF FileIndexingAssumption
    <3> QED
      BY <1>4, <1>8, <3>2, <3>4, NewSpan DEF p
  <2>2. CASE acc.buf # <<>> /\ FlushedFirst(lines, acc.buf, p)
    <3>1. room = FlushBuf(acc) /\ W = Append(acc.spans, BufSpan(acc)) /\ room.buf = <<>>
          /\ BufSpan(acc) \in Spans(D) /\ BufSpan(acc).paragraphs = acc.buf
      BY <2>2, Flushing
    <3>2. span.paragraphs = <<p>> /\ room.spans = W
      <4>1. Append(<<>>, p) = <<p>>
        OBVIOUS
      <4> QED
        BY <1>8, <3>1, <4>1
    <3>3. W[Len(W)].paragraphs = acc.buf
      <4>1. acc.spans \in Seq(Spans(D))
        BY DEF PackStates
      <4>2. W[Len(W)] = BufSpan(acc)
        BY <3>1, <4>1, AppendProperties
      <4> QED
        BY <3>1, <4>2
    <3>4. Joined(lines, Append(acc.buf, p)) > MaxChars
      BY <2>2 DEF FlushedFirst
    <3> HIDE DEF W, room
    <3> QED
      BY <1>4, <1>8, <3>2, <3>3, <3>4, NewSpan DEF p
  <2>3. CASE acc.buf # <<>> /\ ~FlushedFirst(lines, acc.buf, p)
    <3>1. room = acc /\ W = Append(acc.spans, BufSpan(acc))
          /\ BufSpan(acc) \in Spans(D) /\ BufSpan(acc).paragraphs = acc.buf
      BY <2>3, Flushing
    <3>2. acc.spans \in Seq(Spans(D)) /\ room.spans = acc.spans /\ room.buf = acc.buf
      BY <1>5, <3>1
    <3>3. ~(Joined(lines, span.paragraphs) > MaxChars)
      BY <1>8, <2>3, <3>2 DEF FlushedFirst
    <3>4. Packing(lines, ps, k, Append(acc.spans, BufSpan(acc)))
      BY <1>4, <3>1
    <3>5. /\ BufSpan(acc).paragraphs # <<>>
          /\ span.paragraphs = Append(BufSpan(acc).paragraphs, ps[k + 1])
      BY <1>8, <2>3, <3>1, <3>2 DEF p
    <3>6. V = Append(acc.spans, span)
      BY <3>2
    <3> HIDE DEF W, room, V
    <3> QED
      BY <1>8, <3>1, <3>2, <3>3, <3>4, <3>5, <3>6, LargerSpan
  <2> QED
    BY <2>1, <2>2, <2>3
<1>11. V[Len(V)] = span
  <2> HIDE DEF room, span
  <2> QED
    BY <1>5, <1>8, AppendProperties
<1> HIDE DEF V, span
<1> QED
  BY <1>9, <1>10, <1>11 DEF PackInv, new, p

LEMMA NumbersAreRun ==
  ASSUME NEW lines \in Seq(Kinds)
  PROVE  [n \in DOMAIN lines |-> n] = Run(1, Len(lines))
<1>1. Len(lines) \in Nat /\ DOMAIN lines = 1..Len(lines)
  BY LenProperties
<1>2. 1..(Len(lines) - 1 + 1) = 1..Len(lines) /\ \A i \in 1..Len(lines) : 1 + i - 1 = i
  BY <1>1
<1> QED
  BY <1>1, <1>2 DEF Run

LEMMA CoverIsOrdered ==
  ASSUME NEW lines, NEW D, NEW ps \in Seq(Seq(D)), NEW u \in Nat, NEW v \in Nat, Cover(lines, ps, u, v)
  PROVE  Ordered(lines, ps, D)
<1>1. \A m \in DOMAIN ps : Top(ps[m]) \in Int /\ Bottom(ps[m]) \in Int
  <2>1. ASSUME NEW m \in DOMAIN ps PROVE Top(ps[m]) \in u..v /\ Bottom(ps[m]) \in Top(ps[m])..v
    BY DEF Cover, Block
  <2>2. ASSUME NEW m \in DOMAIN ps PROVE Top(ps[m]) \in Int /\ Bottom(ps[m]) \in Int
    <3>1. Top(ps[m]) \in u..v /\ Bottom(ps[m]) \in Top(ps[m])..v
      BY <2>1
    <3> QED
      BY <3>1
  <2> QED
    BY <2>2
<1>2. ASSUME NEW m \in DOMAIN ps, NEW o \in DOMAIN ps, m < o PROVE Bottom(ps[m]) < Top(ps[o])
  <2>1. Bottom(ps[m]) + 2 <= Top(ps[o])
    BY <1>2 DEF Cover
  <2> QED
    BY <1>1, <2>1
<1> QED
  BY <1>1, <1>2 DEF Ordered

\* What text.Split makes of a file.
Cut(lines, ps, W) ==
  /\ Cover(lines, ps, 1, Len(lines)) /\ Ordered(lines, ps, DOMAIN lines)
  /\ Packing(lines, ps, Len(ps), W)

LEMMA TextIsCutAndPacked ==
  ASSUME NEW lines \in Seq(Kinds)
  PROVE  \E ps : Cut(lines, ps, SplitText(lines))
<1>1. PICK D : D = DOMAIN lines
  OBVIOUS
<1>2. Len(lines) \in Nat
  BY LenProperties
<1>3. PICK ids : ids = [n \in DOMAIN lines |-> n]
  OBVIOUS
<1>4. ids \in Seq(D)
  BY <1>1, <1>3, Numbers
<1>5. PICK ps \in Seq(Seq(D)) : ps = splitParagraphs(lines, [n \in DOMAIN lines |-> n])
  BY <1>3, <1>4, splitParagraphsType
<1>6. Cover(lines, ps, 1, Len(lines))
  <2>1. 1 \in Nat \ {0} /\ 1 <= Len(lines) + 1
    BY <1>2
  <2> QED
    BY <1>2, <1>5, <2>1, NumbersAreRun, TextIsCut
<1>7. Ordered(lines, ps, D)
  <2>1. 1 \in Nat
    OBVIOUS
  <2> QED
    BY <1>2, <1>6, <2>1, CoverIsOrdered
<1>8. PICK f : Packs(lines, D, ps, f)
  BY <1>5, Packed
<1>9. Len(ps) \in Nat /\ DOMAIN ps = 1..Len(ps)
  BY LenProperties
<1>10. PICK n \in Nat : n = Len(ps)
  BY <1>9
<1>11. /\ f \in [0..n -> PackStates(D)] /\ f[0] = [spans |-> <<>>, buf |-> <<>>]
       /\ \A k \in 1..n : f[k] = PackParagraph(lines, f[k - 1], ps[k])
       /\ SplitText(lines) = FlushBuf(f[n]).spans
  BY <1>8, <1>10 DEF Packs
<1> DEFINE T == {k \in Nat : k <= n => PackInv(lines, ps, k, f[k])}
<1>12. 0 \in T
  <2>1. 0 \in 0..n /\ 1..0 = {}
    OBVIOUS
  <2>2. f[0] \in PackStates(D) /\ f[0].buf = <<>> /\ f[0].spans = <<>>
    BY <1>11, <2>1
  <2>3. FlushBuf(f[0]).spans = <<>>
    BY <2>2, Flushing
  <2>4. Packing(lines, ps, 0, <<>>)
    BY <2>1 DEF Packing
  <2> QED
    BY <2>3, <2>4 DEF PackInv
<1>13. ASSUME NEW k \in T, k < n PROVE k + 1 \in T
  <2>1. k \in Nat /\ k + 1 \in 1..n /\ k \in 0..n /\ (k + 1) - 1 = k
    BY <1>13
  <2>2. PackInv(lines, ps, k, f[k]) /\ f[k] \in PackStates(D)
    BY <1>11, <1>13, <2>1
  <2>3. f[k + 1] = PackParagraph(lines, f[k], ps[k + 1])
    BY <1>11, <2>1
  <2>4. k + 1 \in DOMAIN ps
    BY <1>9, <1>10, <2>1
  <2>5. PackInv(lines, ps, k + 1, f[k + 1])
    BY <1>1, <1>7, <2>1, <2>2, <2>3, <2>4, PackStep
  <2> QED
    BY <2>1, <2>5
<1>14. PackInv(lines, ps, n, f[n])
  <2>1. \A k \in 0..n : k \in T
    <3>1. T \in SUBSET Nat
      OBVIOUS
    <3> HIDE DEF T
    <3> QED
      BY <1>12, <1>13, <3>1, Induction
  <2> QED
    BY <2>1
<1>15. Packing(lines, ps, Len(ps), SplitText(lines))
  BY <1>10, <1>11, <1>14 DEF PackInv
<1> QED
  BY <1>1, <1>6, <1>7, <1>15 DEF Cut

\* A span of plain text is over the cap only when it is one paragraph, and under
\* the target only when the next paragraph would burst it, however the file is
\* cut into paragraphs.
THEOREM PackingIsTight == Spec => []TextIsPacked
<1>1. FileInv => TextIsPacked
  <2> SUFFICES ASSUME FileInv, pc = "insert", ~Markdown, NEW i \in DOMAIN spans
               PROVE  LET ps == spans[i].paragraphs IN
                      /\ Joined(file.lines, ps) > MaxChars => Len(ps) = 1
                      /\ i < Len(spans) /\ Joined(file.lines, ps) < TargetChars =>
                           Joined(file.lines, Append(ps, spans[i + 1].paragraphs[1])) > MaxChars
    BY DEF TextIsPacked, IsSplit
  <2>1. file.lines \in Seq(Kinds) /\ spans = SplitText(file.lines)
    BY DEF FileInv, SplitOf, Markdown
  <2>2. PICK ps : Cut(file.lines, ps, spans)
    BY <2>1, TextIsCutAndPacked
  <2> QED
    BY <2>2 DEF Cut, Packing
<1> QED
  BY <1>1, InvHolds, PTL

-----------------------------------------------------------------------------
(* The lines of a span.                                                     *)

\* Line numbers, at least one, that go up.
Rising(p) == p \in Seq(Int) /\ p # <<>> /\ \A x, y \in DOMAIN p : x < y => p[x] < p[y]

LEMMA RunRises ==
  ASSUME NEW u \in Int, NEW v \in Int, u <= v
  PROVE  Rising(Run(u, v)) /\ ToSet(Run(u, v)) = u..v
<1> DEFINE r == Run(u, v)
<1>1. u <= v + 1
  OBVIOUS
<1>2. /\ r \in Seq(u..v) /\ r \in Seq(Int) /\ DOMAIN r = 1..(v - u + 1)
      /\ \A i \in 1..(v - u + 1) : r[i] = u + i - 1
  BY <1>1, RunIsSeq
<1>3. r # <<>>
  BY RunEnds
<1> HIDE DEF r
<1>4. \A x, y \in 1..(v - u + 1) : x < y => r[x] < r[y]
  BY <1>2
<1>5. ASSUME NEW n \in u..v PROVE \E i \in 1..(v - u + 1) : r[i] = n
  <2>1. n - u + 1 \in 1..(v - u + 1)
    OBVIOUS
  <2>2. r[n - u + 1] = n
    BY <1>2, <2>1
  <2> QED
    BY <2>1, <2>2
<1>6. \A i \in 1..(v - u + 1) : r[i] \in u..v
  BY <1>2
<1>7. ToSet(r) = u..v
  BY <1>2, <1>5, <1>6 DEF ToSet
<1> QED
  BY <1>2, <1>3, <1>4, <1>7 DEF Rising, r

\* What rises lies between its ends.
LEMMA RisingEnds ==
  ASSUME NEW p, Rising(p)
  PROVE  /\ Len(p) \in Nat \ {0} /\ DOMAIN p = 1..Len(p)
         /\ Top(p) \in Int /\ Bottom(p) \in Int
         /\ \A n \in ToSet(p) : n \in Int /\ Top(p) <= n /\ n <= Bottom(p)
         /\ Top(p) \in ToSet(p) /\ Bottom(p) \in ToSet(p)
<1>1. p \in Seq(Int) /\ Len(p) \in Nat \ {0} /\ DOMAIN p = 1..Len(p)
  BY LenProperties, EmptySeq DEF Rising
<1>2. \A x \in 1..Len(p) : p[x] \in Int
  BY <1>1
<1>3. 1 \in 1..Len(p) /\ Len(p) \in 1..Len(p)
  BY <1>1
<1>4. ASSUME NEW x \in 1..Len(p) PROVE p[1] <= p[x] /\ p[x] <= p[Len(p)]
  <2>1. x = 1 \/ 1 < x
    BY <1>1
  <2>2. x = Len(p) \/ x < Len(p)
    <3>1. x <= Len(p) /\ x \in Nat /\ Len(p) \in Nat
      BY <1>1
    <3> QED
      BY <3>1
  <2>3. 1 < x => p[1] < p[x]
    BY <1>1, <1>3 DEF Rising
  <2>4. x < Len(p) => p[x] < p[Len(p)]
    BY <1>1, <1>3 DEF Rising
  <2>5. p[1] \in Int /\ p[x] \in Int /\ p[Len(p)] \in Int
    BY <1>2, <1>3
  <2>6. p[1] <= p[x]
    BY <2>1, <2>3, <2>5
  <2>7. p[x] <= p[Len(p)]
    BY <2>2, <2>4, <2>5
  <2> QED
    BY <2>6, <2>7
<1> QED
  BY <1>1, <1>2, <1>3, <1>4 DEF Top, Bottom, ToSet

LEMMA ConcatRises ==
  ASSUME NEW s, NEW t, Rising(s), Rising(t), Bottom(s) < Top(t)
  PROVE  /\ Rising(s \o t) /\ Bottom(s \o t) = Bottom(t)
         /\ ToSet(s \o t) = ToSet(s) \cup ToSet(t)
<1> DEFINE r == s \o t
           m == Len(s)
           n == Len(t)
<1>1. /\ s \in Seq(Int) /\ m \in Nat \ {0} /\ DOMAIN s = 1..m
      /\ t \in Seq(Int) /\ n \in Nat \ {0} /\ DOMAIN t = 1..n
  BY RisingEnds DEF Rising
<1>2. /\ r \in Seq(Int) /\ Len(r) = m + n
      /\ \A i \in 1..(m + n) : r[i] = IF i <= m THEN s[i] ELSE t[i - m]
  BY <1>1, ConcatProperties
<1>3. DOMAIN r = 1..(m + n)
  BY <1>2, LenProperties
<1> HIDE DEF r, m, n
<1>4. ASSUME NEW i \in 1..(m + n)
      PROVE  \/ i \in 1..m /\ r[i] = s[i]
             \/ i - m \in 1..n /\ i > m /\ r[i] = t[i - m]
  <2>1. CASE i <= m
    <3>1. i \in 1..m
      BY <1>1, <2>1
    <3> QED
      BY <1>2, <2>1, <3>1
  <2>2. CASE ~(i <= m)
    <3>1. i - m \in 1..n /\ i > m
      BY <1>1, <2>2
    <3> QED
      BY <1>2, <2>2, <3>1
  <2> QED
    BY <2>1, <2>2
<1>5. ASSUME NEW x \in 1..(m + n), NEW y \in 1..(m + n), x < y PROVE r[x] < r[y]
  <2>1. CASE x \in 1..m /\ r[x] = s[x] /\ y \in 1..m /\ r[y] = s[y]
    BY <1>1, <1>5, <2>1 DEF Rising
  <2>2. CASE x - m \in 1..n /\ r[x] = t[x - m] /\ y - m \in 1..n /\ r[y] = t[y - m]
    <3>1. x - m < y - m
      BY <1>1, <1>5
    <3> QED
      BY <1>1, <2>2, <3>1 DEF Rising
  <2>3. CASE x \in 1..m /\ r[x] = s[x] /\ y - m \in 1..n /\ r[y] = t[y - m]
    <3>1. s[x] \in ToSet(s) /\ t[y - m] \in ToSet(t)
      BY <1>1, <2>3 DEF ToSet
    <3>2. s[x] \in Int /\ s[x] <= Bottom(s) /\ Top(t) <= t[y - m] /\ t[y - m] \in Int
          /\ Bottom(s) \in Int /\ Top(t) \in Int
      BY <3>1, RisingEnds
    <3>3. s[x] < t[y - m]
      BY <3>2
    <3> QED
      BY <2>3, <3>3
  <2>4. CASE x > m /\ y \in 1..m
    BY <1>1, <1>5, <2>4
  <2> QED
    BY <1>4, <2>1, <2>2, <2>3, <2>4
<1>6. r # <<>> /\ Bottom(r) = Bottom(t)
  <2>1. m + n # 0 /\ m + n \in 1..(m + n) /\ ~(m + n <= m) /\ (m + n) - m = n
    BY <1>1
  <2>2. r[m + n] = t[n]
    BY <1>2, <2>1
  <2> QED
    BY <1>2, <2>1, <2>2, EmptySeq DEF Bottom, n
<1>7. ToSet(r) = ToSet(s) \cup ToSet(t)
  <2>1. \A i \in DOMAIN r : r[i] \in ToSet(s) \cup ToSet(t)
    <3>1. ASSUME NEW i \in 1..(m + n) PROVE r[i] \in ToSet(s) \cup ToSet(t)
      BY <1>1, <1>4 DEF ToSet
    <3> QED
      BY <1>3, <3>1
  <2>2. ASSUME NEW i \in 1..m PROVE i \in DOMAIN r /\ r[i] = s[i]
    <3>1. i \in 1..(m + n) /\ i <= m
      BY <1>1
    <3> QED
      BY <1>2, <1>3, <3>1
  <2>3. ASSUME NEW i \in 1..n PROVE m + i \in DOMAIN r /\ r[m + i] = t[i]
    <3>1. m + i \in 1..(m + n) /\ ~(m + i <= m) /\ (m + i) - m = i
      BY <1>1
    <3> QED
      BY <1>2, <1>3, <3>1
  <2>4. \A x \in ToSet(s) : x \in ToSet(r)
    BY <1>1, <2>2 DEF ToSet
  <2>5. \A x \in ToSet(t) : x \in ToSet(r)
    BY <1>1, <2>3 DEF ToSet
  <2>6. \A x \in ToSet(r) : x \in ToSet(s) \cup ToSet(t)
    BY <2>1 DEF ToSet
  <2> QED
    BY <2>4, <2>5, <2>6
<1> QED
  BY <1>2, <1>3, <1>5, <1>6, <1>7 DEF Rising, r

\* The recursion of FlattenSeq, unrolled.
Flattens(ps, g) ==
  /\ g[1] = ps[1] /\ \A i \in 2..Len(ps) : g[i] = g[i - 1] \o ps[i]
  /\ FlattenSeq(ps) = g[Len(ps)]

LEMMA Flattened ==
  ASSUME NEW D, NEW ps \in Seq(Seq(D)), ps # <<>>
  PROVE  \E g : Flattens(ps, g)
<1> DEFINE n == Len(ps)
           A == Seq(D)
           base == <<>>
           Op(acc, k) == acc \o ps[k]
           step == [acc \in A |-> [k \in 1..n |-> Op(acc, k)]]
           Body(it) == [i \in 1..n |-> IF i = 1 THEN ps[i] ELSE it[i - 1] \o ps[i]]
           flat == CHOOSE it : it = Body(it)
<1>1. n \in Nat /\ n # 0 /\ DOMAIN ps = 1..n
  BY LenProperties, EmptySeq
<1>2. FlattenSeq(ps) = flat[n]
  BY <1>1 DEF FlattenSeq
<1>3. base \in A /\ \A acc \in A, k \in 1..n : Op(acc, k) \in A
  <2>1. \A k \in 1..n : ps[k] \in Seq(D)
    BY <1>1, ElementOfSeq
  <2> QED
    BY <2>1, ConcatProperties
<1>4. \A k \in 1..n : ps[k] \in A
  BY <1>1, ElementOfSeq
<1> HIDE DEF n, Op
<1>5. IsFold(A, n, base, step)
  BY <1>1, <1>3 DEF IsFold
<1> HIDE DEF base, A, step
<1>6. PICK it : Solves(A, n, base, step, it)
  BY <1>5, FoldExists
<1>7. Unfolds(A, n, base, step, it)
  <2>1. it[{}] = base
    BY <1>6 DEF Solves
  <2>2. ASSUME NEW k \in 1..n, it[1..(k - 1)] \in A
        PROVE  it[1..k] = step[it[1..(k - 1)]][k]
    <3>1. /\ 1..k \in SUBSET (1..n) /\ 1..k # {}
          /\ Max(1..k) = k /\ (1..k) \ {k} = 1..(k - 1)
      BY <1>1, Segments
    <3> QED
      BY <1>6, <3>1 DEF Solves
  <2> QED
    BY <2>1, <2>2 DEF Unfolds
<1>8. PICK f : States(A, n, base, step, it, f)
  BY <1>5, <1>7, FoldStates
<1>9. \A k \in 1..n : f[k] = f[k - 1] \o ps[k]
  <2>1. ASSUME NEW k \in 1..n PROVE f[k] = Op(f[k - 1], k)
    <3>1. k - 1 \in 0..n
      BY <1>1
    <3> QED
      BY <1>8, <3>1 DEF States, step
  <2> QED
    BY <2>1 DEF Op
<1> DEFINE g == [i \in 1..n |-> f[i]]
<1>10. g = Body(g)
  <2>1. f[0] = <<>> /\ f[1] = ps[1]
    <3>1. 1 \in 1..n /\ 1 - 1 = 0
      BY <1>1
    <3>2. f[1] = f[0] \o ps[1] /\ f[0] = <<>>
      BY <1>8, <1>9, <3>1 DEF States, base
    <3>3. ps[1] \in Seq(D)
      BY <1>4, <3>1 DEF A
    <3> QED
      BY <3>2, <3>3, ConcatEmptySeq
  <2>2. ASSUME NEW i \in 1..n PROVE f[i] = IF i = 1 THEN ps[i] ELSE g[i - 1] \o ps[i]
    <3>1. CASE i = 1
      BY <2>1, <3>1
    <3>2. CASE i # 1
      <4>1. i - 1 \in 1..n
        BY <1>1, <3>2
      <4>2. g[i - 1] = f[i - 1]
        BY <4>1
      <4> QED
        BY <1>9, <3>2, <4>2
    <3> QED
      BY <3>1, <3>2
  <2> QED
    BY <2>2
<1>11. flat = Body(flat)
  BY <1>10
<1> HIDE DEF flat, g
<1>12. flat[1] = ps[1] /\ \A i \in 2..n : flat[i] = flat[i - 1] \o ps[i]
  <2>1. 1 \in 1..n
    BY <1>1
  <2>2. flat[1] = ps[1]
    BY <1>11, <2>1
  <2>3. ASSUME NEW i \in 2..n PROVE flat[i] = flat[i - 1] \o ps[i]
    <3>1. i \in 1..n /\ i # 1
      BY <1>1
    <3> QED
      BY <1>11, <3>1
  <2> QED
    BY <2>2, <2>3
<1> QED
  BY <1>2, <1>12 DEF Flattens, n

\* Of paragraphs that follow each other, the lines follow each other, and are
\* the lines of the paragraphs.
LEMMA FlattenRises ==
  ASSUME NEW ps \in Seq(Seq(Int)), ps # <<>>,
         \A a \in DOMAIN ps : Rising(ps[a]),
         \A a, b \in DOMAIN ps : a < b => Bottom(ps[a]) < Top(ps[b])
  PROVE  /\ Rising(FlattenSeq(ps))
         /\ \A x : x \in ToSet(FlattenSeq(ps)) <=> \E a \in DOMAIN ps : x \in ToSet(ps[a])
<1>1. PICK n \in Nat \ {0} : n = Len(ps) /\ DOMAIN ps = 1..n
  <2>1. Len(ps) \in Nat /\ Len(ps) # 0 /\ DOMAIN ps = 1..Len(ps)
    BY LenProperties, EmptySeq
  <2> QED
    BY <2>1
<1>2. \E g : Flattens(ps, g)
  <2> DEFINE I == Int
  <2>1. ps \in Seq(Seq(I))
    OBVIOUS
  <2> HIDE DEF I
  <2> QED
    BY <2>1, Flattened
<1>3. PICK g : /\ g[1] = ps[1] /\ \A i \in 2..n : g[i] = g[i - 1] \o ps[i]
               /\ FlattenSeq(ps) = g[n]
  BY <1>1, <1>2 DEF Flattens
<1> DEFINE Good(k) == /\ Rising(g[k]) /\ Bottom(g[k]) = Bottom(ps[k])
                      /\ \A x : x \in ToSet(g[k]) <=> \E a \in 1..k : x \in ToSet(ps[a])
           T == {k \in Nat : k < n => Good(k + 1)}
<1>4. 0 \in T
  <2>1. 1 \in 1..n /\ 0 + 1 = 1 /\ \A a \in 1..1 : a = 1
    OBVIOUS
  <2>2. Rising(ps[1]) /\ 1 \in 1..1
    BY <1>1, <2>1
  <2>3. \A x : x \in ToSet(ps[1]) <=> \E a \in 1..1 : x \in ToSet(ps[a])
    BY <2>1, <2>2
  <2>4. Good(1)
    BY <1>3, <2>2, <2>3
  <2> HIDE DEF Good
  <2> QED
    BY <2>1, <2>4
<1>5. ASSUME NEW k \in T, k < n - 1 PROVE k + 1 \in T
  <2>1. k \in Nat /\ k + 1 \in 1..n /\ k + 2 \in 2..n /\ k + 2 \in 1..n
        /\ (k + 2) - 1 = k + 1 /\ (k + 1) + 1 = k + 2 /\ k + 1 < k + 2
    BY <1>5
  <2>2. Good(k + 1)
    BY <1>5, <2>1
  <2>3. g[k + 2] = g[k + 1] \o ps[k + 2]
    BY <1>3, <2>1
  <2>4. Rising(g[k + 1]) /\ Rising(ps[k + 2]) /\ Bottom(g[k + 1]) < Top(ps[k + 2])
    BY <1>1, <2>1, <2>2
  <2>5. /\ Rising(g[k + 2]) /\ Bottom(g[k + 2]) = Bottom(ps[k + 2])
        /\ ToSet(g[k + 2]) = ToSet(g[k + 1]) \cup ToSet(ps[k + 2])
    BY <2>3, <2>4, ConcatRises
  <2>6. ASSUME NEW x PROVE x \in ToSet(g[k + 2]) <=> \E a \in 1..(k + 2) : x \in ToSet(ps[a])
    <3>1. \A a \in 1..(k + 2) : a \in 1..(k + 1) \/ a = k + 2
      BY <2>1
    <3>2. k + 2 \in 1..(k + 2) /\ \A a \in 1..(k + 1) : a \in 1..(k + 2)
      BY <2>1
    <3>3. x \in ToSet(g[k + 1]) <=> \E a \in 1..(k + 1) : x \in ToSet(ps[a])
      BY <2>2
    <3> QED
      BY <2>5, <3>1, <3>2, <3>3
  <2>7. Good(k + 2)
    BY <2>5, <2>6
  <2> HIDE DEF Good
  <2> QED
    BY <2>1, <2>7
<1>6. Good(n)
  <2>1. n - 1 \in Nat /\ n - 1 \in 0..(n - 1) /\ (n - 1) + 1 = n
    OBVIOUS
  <2>2. \A k \in 0..(n - 1) : k \in T
    <3>1. T \in SUBSET Nat
      OBVIOUS
    <3> HIDE DEF T
    <3> QED
      BY <1>4, <1>5, <2>1, <3>1, Induction
  <2>3. n - 1 \in T
    BY <2>1, <2>2
  <2> HIDE DEF Good
  <2> QED
    BY <2>1, <2>3
<1> QED
  BY <1>1, <1>3, <1>6

LEMMA FlattenOne ==
  ASSUME NEW D, NEW p \in Seq(D)
  PROVE  FlattenSeq(<<p>>) = p
<1>1. <<p>> \in Seq(Seq(D)) /\ <<p>> # <<>> /\ Len(<<p>>) = 1 /\ <<p>>[1] = p
  OBVIOUS
<1>2. PICK g : Flattens(<<p>>, g)
  BY <1>1, Flattened
<1> QED
  BY <1>1, <1>2 DEF Flattens

LEMMA SeqOfOther ==
  ASSUME NEW D, NEW E, NEW s \in Seq(D), \A k \in DOMAIN s : s[k] \in E
  PROVE  s \in Seq(E)
<1>1. s \in [1..Len(s) -> D] /\ Len(s) \in Nat /\ DOMAIN s = 1..Len(s)
  BY LenProperties
<1>2. s \in [1..Len(s) -> E]
  BY <1>1
<1> QED
  BY <1>1, <1>2

\* A block is rising.
LEMMA BlockRises ==
  ASSUME NEW lines, NEW p, NEW u \in Nat, NEW v \in Nat, Block(lines, p, u, v)
  PROVE  Rising(p) /\ ToSet(p) = Top(p)..Bottom(p) /\ Top(p) \in u..v /\ Bottom(p) \in Top(p)..v
<1>1. /\ Top(p) \in u..v /\ Bottom(p) \in Top(p)..v
      /\ p = Run(Top(p), Bottom(p))
  BY DEF Block
<1>2. PICK a \in u..v : a = Top(p)
  BY <1>1
<1>3. PICK b \in a..v : b = Bottom(p)
  BY <1>1, <1>2
<1>4. a \in Int /\ b \in Int /\ a <= b
  OBVIOUS
<1>5. Rising(Run(a, b)) /\ ToSet(Run(a, b)) = a..b
  BY <1>4, RunRises
<1> QED
  BY <1>1, <1>2, <1>3, <1>5

\* Every line that says something is in some span of W, and the lines are in order.
Says(lines, W) ==
  /\ \A n \in DOMAIN lines : ~Blank(lines, n) => \E s \in ToSet(W) : n \in ToSet(Lines(s))
  /\ \A i, j \in DOMAIN W : \A a \in DOMAIN Lines(W[i]), b \in DOMAIN Lines(W[j]) :
       i < j \/ (i = j /\ a < b) => Lines(W[i])[a] < Lines(W[j])[b]

LEMMA TextSaysAll ==
  ASSUME NEW lines \in Seq(Kinds), NEW W \in Seq(Spans(DOMAIN lines)), NEW ps, Cut(lines, ps, W)
  PROVE  Says(lines, W)
<1> DEFINE Ps(i) == W[i].paragraphs
           L == Len(lines)
           N == Len(ps)
<1>1. L \in Nat /\ DOMAIN lines = 1..L /\ N \in Nat /\ DOMAIN ps = 1..N
  BY LenProperties DEF Cut, Ordered
<1>2. ASSUME NEW m \in 1..N
      PROVE  Rising(ps[m]) /\ ToSet(ps[m]) = Top(ps[m])..Bottom(ps[m])
  <2>1. Block(lines, ps[m], 1, L)
    BY <1>1 DEF Cut, Cover
  <2> HIDE DEF L
  <2> QED
    BY <1>1, <2>1, BlockRises
<1>3. ASSUME NEW i \in DOMAIN W
      PROVE  /\ Rising(Lines(W[i]))
             /\ \A x : x \in ToSet(Lines(W[i])) <=> \E a \in DOMAIN Ps(i) : x \in ToSet(Ps(i)[a])
  <2>1. W[i] \in Spans(DOMAIN lines)
    BY ElementOfSeq
  <2>2. Ps(i) \in Seq(Seq(DOMAIN lines)) /\ Ps(i) # <<>>
    BY <2>1 DEF Spans, Cut, Packing
  <2>3. ASSUME NEW a \in DOMAIN Ps(i) PROVE Rising(Ps(i)[a]) /\ Ps(i)[a] \in Seq(Int)
    <3>1. PICK m \in 1..N : Ps(i)[a] = ps[m]
      BY <2>3 DEF Cut, Packing
    <3> QED
      BY <1>2, <3>1 DEF Rising
  <2>4. Ps(i) \in Seq(Seq(Int))
    <3> DEFINE D == Seq(DOMAIN lines)
               E == Seq(Int)
    <3>1. Ps(i) \in Seq(D) /\ \A a \in DOMAIN Ps(i) : Ps(i)[a] \in E
      BY <2>2, <2>3
    <3> HIDE DEF D, E, Ps
    <3>2. Ps(i) \in Seq(E)
      BY <3>1, SeqOfOther
    <3> QED
      BY <3>2 DEF E
  <2>5. \A a, b \in DOMAIN Ps(i) : a < b => Bottom(Ps(i)[a]) < Top(Ps(i)[b])
    BY DEF Cut, Packing
  <2>6. \A a \in DOMAIN Ps(i) : Rising(Ps(i)[a])
    BY <2>3
  <2>7. Lines(W[i]) = FlattenSeq(Ps(i))
    BY DEF Lines
  <2> HIDE DEF Ps
  <2> QED
    BY <2>2, <2>4, <2>5, <2>6, <2>7, FlattenRises
<1>4. ASSUME NEW n \in DOMAIN lines, ~Blank(lines, n)
      PROVE  \E s \in ToSet(W) : n \in ToSet(Lines(s))
  <2>1. PICK m \in 1..N : n \in Top(ps[m])..Bottom(ps[m])
    BY <1>1, <1>4 DEF Cut, Cover
  <2>2. PICK i \in DOMAIN W : \E a \in DOMAIN Ps(i) : Ps(i)[a] = ps[m]
    BY DEF Cut, Packing
  <2>3. n \in ToSet(Lines(W[i]))
    BY <1>2, <1>3, <2>1, <2>2
  <2> QED
    BY <2>3 DEF ToSet
<1>5. ASSUME NEW i \in DOMAIN W, NEW j \in DOMAIN W,
             NEW a \in DOMAIN Lines(W[i]), NEW b \in DOMAIN Lines(W[j]),
             i < j \/ (i = j /\ a < b)
      PROVE  Lines(W[i])[a] < Lines(W[j])[b]
  <2>1. CASE i = j
    <3>1. i < j => FALSE
      <4>1. i \in Nat
        BY LenProperties
      <4> QED
        BY <2>1, <4>1
    <3> QED
      BY <1>3, <1>5, <2>1, <3>1 DEF Rising
  <2>2. CASE i < j
    <3>1. Lines(W[i])[a] \in ToSet(Lines(W[i])) /\ Lines(W[j])[b] \in ToSet(Lines(W[j]))
      BY DEF ToSet
    <3>2. PICK x \in DOMAIN Ps(i) : Lines(W[i])[a] \in ToSet(Ps(i)[x])
      BY <1>3, <3>1
    <3>3. PICK y \in DOMAIN Ps(j) : Lines(W[j])[b] \in ToSet(Ps(j)[y])
      BY <1>3, <3>1
    <3>4. PICK m \in 1..N : Ps(i)[x] = ps[m]
      BY DEF Cut, Packing
    <3>5. PICK o \in 1..N : Ps(j)[y] = ps[o]
      BY DEF Cut, Packing
    <3>6. Bottom(Ps(i)[x]) < Top(Ps(j)[y])
      BY <2>2 DEF Cut, Packing
    <3>7. /\ Lines(W[i])[a] \in Int /\ Lines(W[i])[a] <= Bottom(ps[m]) /\ Bottom(ps[m]) \in Int
      BY <1>2, <3>2, <3>4, RisingEnds
    <3>8. /\ Lines(W[j])[b] \in Int /\ Top(ps[o]) <= Lines(W[j])[b] /\ Top(ps[o]) \in Int
      BY <1>2, <3>3, <3>5, RisingEnds
    <3>9. Bottom(ps[m]) < Top(ps[o])
      BY <3>4, <3>5, <3>6
    <3> HIDE DEF Ps
    <3> QED
      BY <3>7, <3>8, <3>9
  <2> QED
    BY <1>5, <2>1, <2>2
<1> QED
  BY <1>4, <1>5 DEF Says

-----------------------------------------------------------------------------
(* Markdown.                                                                *)

\* A heading that no fence holds.
Title(lines, n) == Is(lines, n, "heading") /\ ~Odd(lines, n)

\* h is the last of them up to line u, or 0 where there is none.
Named(lines, h, u) ==
  \/ h = 0 /\ \A n \in 1..u : ~Title(lines, n)
  \/ h \in 1..u /\ Title(lines, h) /\ \A n \in (h + 1)..u : ~Title(lines, n)

\* The paragraph of a Markdown span.
Paragraph(span) == span.paragraphs[1]

\* A span of the lines u to v: one paragraph, no line number that runs ahead,
\* and the heading it stands under.
Marked(lines, span, u, v) ==
  LET p == Paragraph(span) IN
  /\ span.paragraphs = <<p>> /\ Block(lines, p, u, v)
  /\ span.start \in u..Top(p) /\ span.end \in Int /\ span.end <= v
  /\ Named(lines, span.heading, Top(p))
  /\ span.heading = 0 \/ span.repeats \/ span.heading \in Top(p)..Bottom(p)

\* The spans W of the lines u to v: they are in order, miss no line that says
\* something, and cut no fence.
Marks(lines, W, u, v) ==
  /\ \A i \in DOMAIN W : Marked(lines, W[i], u, v)
  /\ \A i, j \in DOMAIN W : i < j =>
       Bottom(Paragraph(W[i])) < Top(Paragraph(W[j])) /\ W[i].end < W[j].start
  /\ \A n \in u..v : ~Blank(lines, n) =>
       \E i \in DOMAIN W : n \in Top(Paragraph(W[i]))..Bottom(Paragraph(W[i]))
  /\ \A a, b \in u..v : Pair(lines, a, b) =>
       \E i \in DOMAIN W : /\ a \in Top(Paragraph(W[i]))..Bottom(Paragraph(W[i]))
                           /\ b \in Top(Paragraph(W[i]))..Bottom(Paragraph(W[i]))

LEMMA MarkedWider ==
  ASSUME NEW lines, NEW span, NEW u \in Int, NEW v \in Int, NEW x \in Int, NEW y \in Int,
         Marked(lines, span, x, y), u <= x, y <= v
  PROVE  Marked(lines, span, u, v)
<1> DEFINE p == Paragraph(span)
<1>1. Top(p) \in x..y /\ Bottom(p) \in Top(p)..y /\ span.start \in x..Top(p)
  BY DEF Marked, Block
<1> DEFINE t == Top(p)
           b == Bottom(p)
<1> HIDE DEF p, t, b
<1>2. t \in x..y /\ b \in t..y /\ span.start \in x..t
  BY <1>1 DEF t, b
<1>3. t \in u..v /\ b \in t..v /\ span.start \in u..t
  BY <1>2
<1>4. span.end \in Int /\ span.end <= v
  <2>1. span.end \in Int /\ span.end <= y
    BY DEF Marked
  <2> QED
    BY <2>1
<1>5. Block(lines, p, x, y)
  BY DEF Marked, p
<1>6. Block(lines, p, u, v)
  BY <1>3, <1>5 DEF Block, t, b
<1> QED
  BY <1>3, <1>4, <1>6 DEF Marked, p, t, b

LEMMA ConcatMarks ==
  ASSUME NEW lines, NEW S, NEW A \in Seq(S), NEW B \in Seq(S),
         NEW u \in Nat \ {0}, NEW s \in Nat, NEW v \in Nat, u <= s, s <= v + 1,
         Marks(lines, A, u, s - 1), Marks(lines, B, s, v), ~Odd(lines, s)
  PROVE  Marks(lines, A \o B, u, v)
<1> DEFINE W == A \o B
           m == Len(A)
           n == Len(B)
<1>1. m \in Nat /\ DOMAIN A = 1..m /\ n \in Nat /\ DOMAIN B = 1..n
  BY LenProperties
<1>2. /\ W \in Seq(S) /\ Len(W) = m + n
      /\ \A i \in 1..(m + n) : W[i] = IF i <= m THEN A[i] ELSE B[i - m]
  BY ConcatProperties
<1>3. DOMAIN W = 1..(m + n)
  BY <1>2, LenProperties
<1> HIDE DEF W, m, n
<1>4. ASSUME NEW i \in 1..(m + n)
      PROVE  \/ i \in DOMAIN A /\ W[i] = A[i]
             \/ i - m \in DOMAIN B /\ i > m /\ W[i] = B[i - m]
  <2>1. CASE i <= m
    <3>1. i \in 1..m
      BY <1>1, <2>1
    <3> QED
      BY <1>1, <1>2, <2>1, <3>1
  <2>2. CASE ~(i <= m)
    <3>1. i - m \in 1..n /\ i > m
      BY <1>1, <2>2
    <3> QED
      BY <1>1, <1>2, <2>2, <3>1
  <2> QED
    BY <2>1, <2>2
<1>5. \A i \in DOMAIN A : i \in DOMAIN W /\ W[i] = A[i]
  <2>1. ASSUME NEW i \in 1..m PROVE i \in 1..(m + n) /\ i <= m
    BY <1>1
  <2> QED
    BY <1>1, <1>2, <1>3, <2>1
<1>6. \A i \in DOMAIN B : m + i \in DOMAIN W /\ W[m + i] = B[i]
  <2>1. ASSUME NEW i \in 1..n PROVE m + i \in 1..(m + n) /\ ~(m + i <= m) /\ (m + i) - m = i
    BY <1>1
  <2> QED
    BY <1>1, <1>2, <1>3, <2>1
<1>7. u \in Int /\ v \in Int /\ s \in Int /\ s - 1 \in Int /\ u <= u /\ s - 1 <= v /\ u <= s /\ v <= v
  OBVIOUS
<1>8. ASSUME NEW i \in DOMAIN A
      PROVE  /\ Marked(lines, A[i], u, s - 1) /\ Marked(lines, A[i], u, v)
             /\ Bottom(Paragraph(A[i])) \in u..(s - 1) /\ A[i].end \in Int /\ A[i].end <= s - 1
  <2>1. Marked(lines, A[i], u, s - 1)
    BY DEF Marks
  <2>2. Marked(lines, A[i], u, v)
    BY <1>7, <2>1, MarkedWider
  <2>3. /\ Top(Paragraph(A[i])) \in u..(s - 1)
        /\ Bottom(Paragraph(A[i])) \in Top(Paragraph(A[i]))..(s - 1)
        /\ A[i].end \in Int /\ A[i].end <= s - 1
    BY <2>1 DEF Marked, Block
  <2>4. Bottom(Paragraph(A[i])) \in u..(s - 1)
    BY <2>3
  <2> QED
    BY <2>1, <2>2, <2>3, <2>4
<1>9. ASSUME NEW i \in DOMAIN B
      PROVE  /\ Marked(lines, B[i], u, v)
             /\ Top(Paragraph(B[i])) \in s..v /\ B[i].start \in Int /\ s <= B[i].start
  <2>1. Marked(lines, B[i], s, v)
    BY DEF Marks
  <2>2. Marked(lines, B[i], u, v)
    BY <1>7, <2>1, MarkedWider
  <2>3. Top(Paragraph(B[i])) \in s..v /\ B[i].start \in s..Top(Paragraph(B[i]))
    BY <2>1 DEF Marked, Block
  <2>4. B[i].start \in Int /\ s <= B[i].start
    BY <2>3
  <2> QED
    BY <2>2, <2>3, <2>4
<1>10. ASSUME NEW i \in DOMAIN W PROVE Marked(lines, W[i], u, v)
  BY <1>3, <1>4, <1>8, <1>9
<1>11. ASSUME NEW i \in DOMAIN W, NEW j \in DOMAIN W, i < j
       PROVE  Bottom(Paragraph(W[i])) < Top(Paragraph(W[j])) /\ W[i].end < W[j].start
  <2>1. CASE i \in DOMAIN A /\ W[i] = A[i] /\ j \in DOMAIN A /\ W[j] = A[j]
    BY <1>11, <2>1 DEF Marks
  <2>2. CASE i \in DOMAIN A /\ W[i] = A[i] /\ j - m \in DOMAIN B /\ W[j] = B[j - m]
    <3>1. /\ Bottom(Paragraph(A[i])) \in u..(s - 1) /\ A[i].end \in Int /\ A[i].end <= s - 1
      BY <1>8, <2>2
    <3>2. Top(Paragraph(B[j - m])) \in s..v /\ B[j - m].start \in Int /\ s <= B[j - m].start
      BY <1>9, <2>2
    <3>3. A[i].end < B[j - m].start
      BY <3>1, <3>2
    <3>4. Bottom(Paragraph(A[i])) < Top(Paragraph(B[j - m]))
      BY <3>1, <3>2
    <3> QED
      BY <2>2, <3>3, <3>4
  <2>3. CASE i - m \in DOMAIN B /\ W[i] = B[i - m] /\ j - m \in DOMAIN B /\ W[j] = B[j - m]
    <3>1. i - m < j - m
      BY <1>1, <1>3, <1>11
    <3> QED
      BY <2>3, <3>1 DEF Marks
  <2>4. CASE i > m /\ j \in DOMAIN A
    BY <1>1, <1>3, <1>11, <2>4
  <2> QED
    BY <1>3, <1>4, <2>1, <2>2, <2>3, <2>4
<1> DEFINE In(x, span) == x \in Top(Paragraph(span))..Bottom(Paragraph(span))
<1>12. \A x \in u..v : x \in u..(s - 1) \/ x \in s..v
  OBVIOUS
<1>13. ASSUME NEW x \in u..v, ~Blank(lines, x) PROVE \E i \in DOMAIN W : In(x, W[i])
  <2>1. CASE x \in u..(s - 1)
    <3>1. \E i \in DOMAIN A : In(x, A[i])
      BY <1>13, <2>1 DEF Marks
    <3> HIDE DEF In
    <3> QED
      BY <1>5, <3>1
  <2>2. CASE x \in s..v
    <3>1. \E i \in DOMAIN B : In(x, B[i])
      BY <1>13, <2>2 DEF Marks
    <3> HIDE DEF In
    <3> QED
      BY <1>6, <3>1
  <2> QED
    BY <1>12, <2>1, <2>2
<1>14. ASSUME NEW a \in u..v, NEW b \in u..v, Pair(lines, a, b)
       PROVE  \E i \in DOMAIN W : In(a, W[i]) /\ In(b, W[i])
  <2>1. CASE a \in u..(s - 1) /\ b \in u..(s - 1)
    <3>1. \E i \in DOMAIN A : In(a, A[i]) /\ In(b, A[i])
      BY <1>14, <2>1 DEF Marks
    <3> HIDE DEF In
    <3> QED
      BY <1>5, <3>1
  <2>2. CASE a \in s..v /\ b \in s..v
    <3>1. \E i \in DOMAIN B : In(a, B[i]) /\ In(b, B[i])
      BY <1>14, <2>2 DEF Marks
    <3> HIDE DEF In
    <3> QED
      BY <1>6, <3>1
  <2>3. CASE a \in u..(s - 1) /\ b \in s..v
    <3>1. a \in Nat \ {0} /\ b \in Nat /\ s \in (a + 1)..b
      BY <2>3
    <3>2. Odd(lines, s)
      BY <1>14, <3>1, NoCrossing
    <3> QED
      BY <3>2
  <2>4. CASE a \in s..v /\ b \in u..(s - 1)
    <3>1. a < b
      BY <1>14 DEF Pair
    <3> QED
      BY <2>4, <3>1
  <2> QED
    BY <1>12, <2>1, <2>2, <2>3, <2>4
<1> QED
  BY <1>10, <1>11, <1>13, <1>14 DEF Marks, W

\* The section that has read the lines s to e: its heading, if it has one, is
\* its first line, and no other of its lines is one.
SectionAt(lines, section, s, e) ==
  /\ section.text = Run(s, e) /\ section.start = s
  /\ ~Odd(lines, s)
  /\ \A n \in s..e : Title(lines, n) => n = section.heading
  /\ section.heading # 0 => section.heading = s /\ s <= e /\ Title(lines, s)
  /\ section.heading = 0 => s = 1

LEMMA SectionNames ==
  ASSUME NEW lines, NEW section, NEW s \in Nat \ {0}, NEW e \in Nat, SectionAt(lines, section, s, e),
         NEW u \in s..e
  PROVE  Named(lines, section.heading, u)
<1>1. CASE section.heading = 0
  <2>1. s = 1
    BY <1>1 DEF SectionAt
  <2>2. ASSUME NEW n \in 1..u PROVE ~Title(lines, n)
    <3>1. n \in s..e /\ n # 0
      BY <2>1
    <3> QED
      BY <1>1, <3>1 DEF SectionAt
  <2> QED
    BY <1>1, <2>2 DEF Named
<1>2. CASE section.heading # 0
  <2>1. section.heading = s /\ Title(lines, s)
    BY <1>2 DEF SectionAt
  <2>2. s \in 1..u
    OBVIOUS
  <2>3. ASSUME NEW n \in (s + 1)..u PROVE ~Title(lines, n)
    <3>1. n \in s..e /\ n # s
      OBVIOUS
    <3> QED
      BY <2>1, <3>1 DEF SectionAt
  <2> QED
    BY <2>1, <2>2, <2>3 DEF Named
<1> QED
  BY <1>1, <1>2

\* A section of blank lines only has no span.
LEMMA NothingMarks ==
  ASSUME NEW lines, NEW s, NEW e, \A n \in s..e : Blank(lines, n)
  PROVE  Marks(lines, <<>>, s, e)
<1>1. \A a, b \in s..e : ~Pair(lines, a, b)
  BY DEF Pair, Is, Blank
<1> QED
  BY <1>1 DEF Marks

\* A section that fits is one span.
LEMMA OneMarks ==
  ASSUME NEW lines, NEW section, NEW s \in Nat \ {0}, NEW e \in Nat, SectionAt(lines, section, s, e),
         NEW x \in s..e, NEW y \in x..e, ~Blank(lines, x), ~Blank(lines, y),
         \A n \in s..e : ~Blank(lines, n) => n \in x..y
  PROVE  Marks(lines, <<Span(<<Run(x, y)>>, section.heading, FALSE, section.start, e)>>, s, e)
<1> DEFINE p == Run(x, y)
           span == Span(<<p>>, section.heading, FALSE, section.start, e)
           W == <<span>>
<1>1. /\ Block(lines, p, s, e) /\ Top(p) = x /\ Bottom(p) = y
  <2>1. s \in Int /\ e \in Int
    OBVIOUS
  <2> QED
    BY <2>1, RunIsBlock
<1> HIDE DEF p
<1>2. /\ span.paragraphs = <<p>> /\ Paragraph(span) = p /\ span.heading = section.heading
      /\ span.start = s /\ span.end = e
  BY DEF Span, Paragraph, SectionAt
<1> HIDE DEF span
<1>3. section.heading = 0 \/ section.heading \in x..y
  <2>1. CASE section.heading # 0
    <3>1. section.heading = s /\ s <= e /\ Title(lines, s)
      BY <2>1 DEF SectionAt
    <3>2. s \in s..e /\ ~Blank(lines, s)
      BY <3>1 DEF Title, Is, Blank
    <3> QED
      BY <3>1, <3>2
  <2> QED
    BY <2>1
<1>4. s \in s..x /\ e \in Int /\ e <= e
  OBVIOUS
<1>5. Named(lines, section.heading, x)
  BY SectionNames
<1>6. Marked(lines, span, s, e)
  BY <1>1, <1>2, <1>3, <1>4, <1>5 DEF Marked
<1>7. DOMAIN W = {1} /\ W[1] = span
  OBVIOUS
<1> HIDE DEF W
<1>8. \A i, j \in DOMAIN W : ~(i < j)
  BY <1>7
<1>9. ASSUME NEW a \in s..e, NEW b \in s..e, Pair(lines, a, b)
      PROVE  a \in x..y /\ b \in x..y
  BY <1>9 DEF Pair, Is, Blank
<1> QED
  BY <1>1, <1>2, <1>6, <1>7, <1>8, <1>9 DEF Marks, W, span, p

\* A section that is cut: after k of its paragraphs.
CountInv(section, ps, s, k, acc) ==
  /\ Len(acc.spans) = k
  /\ \A i \in 1..k :
       /\ acc.spans[i].paragraphs = <<ps[i]>> /\ acc.spans[i].heading = section.heading
       /\ acc.spans[i].repeats = Repeats(i, section.heading)
       /\ acc.spans[i].start \in s..Top(ps[i])
       /\ acc.spans[i].end \in Int /\ acc.spans[i].end <= Bottom(ps[i]) /\ acc.spans[i].end < acc.line
  /\ \A i, j \in 1..k : i < j => acc.spans[i].end < acc.spans[j].start
  /\ acc.line \in Int /\ s <= acc.line
  /\ IF k = 0 THEN acc.line = s ELSE acc.line <= Bottom(ps[k]) + 2

LEMMA CountStep ==
  ASSUME NEW lines, NEW D, NEW section, NEW ps \in Seq(Seq(D)), NEW s \in Nat, NEW x \in Nat, NEW y \in Nat,
         s <= x, Cover(lines, ps, x, y),
         NEW k \in Nat, k + 1 \in DOMAIN ps,
         NEW acc \in CountedStates(D), CountInv(section, ps, s, k, acc)
  PROVE  CountInv(section, ps, s, k + 1, SpanOfParagraph(section.heading, acc, ps[k + 1]))
<1> DEFINE p == ps[k + 1]
           span == Span(<<p>>, section.heading, Repeats(Len(acc.spans) + 1, section.heading),
                        acc.line, acc.line + Len(p) - 1)
           new == SpanOfParagraph(section.heading, acc, p)
           t == Top(p)
           b == Bottom(p)
<1>1. acc.spans \in Seq(Spans(D)) /\ acc.line \in Int /\ Len(acc.spans) = k /\ s <= acc.line
  BY DEF CountedStates, CountInv
<1>2. Block(lines, p, x, y)
  BY DEF Cover
<1>3. t \in x..y /\ b \in t..y /\ Len(p) = b - t + 1
  <2>1. t \in x..y /\ b \in t..y /\ p = Run(t, b)
    BY <1>2 DEF Block
  <2> HIDE DEF t, b, p
  <2>2. t \in Int /\ b \in Int /\ t <= b + 1
    BY <2>1
  <2> QED
    BY <2>1, <2>2, RunIsSeq
<1>4. acc.line <= t
  <2>1. CASE k = 0
    <3>1. acc.line = s
      BY <2>1 DEF CountInv
    <3> HIDE DEF t, b, p
    <3> QED
      BY <1>3, <3>1
  <2>2. CASE k # 0
    <3>1. DOMAIN ps = 1..Len(ps) /\ Len(ps) \in Nat
      BY LenProperties
    <3>2. k \in DOMAIN ps /\ k < k + 1
      BY <2>2, <3>1
    <3>3. Bottom(ps[k]) + 2 <= t
      BY <3>2 DEF Cover
    <3>4. Bottom(ps[k]) \in Int
      <4>1. Top(ps[k]) \in x..y /\ Bottom(ps[k]) \in Top(ps[k])..y
        BY <3>2 DEF Cover, Block
      <4> QED
        BY <4>1
    <3>5. acc.line <= Bottom(ps[k]) + 2
      BY <2>2 DEF CountInv
    <3> HIDE DEF t, b, p
    <3> QED
      BY <1>1, <1>3, <3>3, <3>4, <3>5
  <2> QED
    BY <2>1, <2>2
<1>5. new.spans = Append(acc.spans, span) /\ new.line = acc.line + Len(p) + 1
  BY DEF SpanOfParagraph, NextLine
<1>6. /\ span.paragraphs = <<p>> /\ span.heading = section.heading
      /\ span.repeats = Repeats(k + 1, section.heading)
      /\ span.start = acc.line /\ span.end = acc.line + Len(p) - 1
  BY <1>1 DEF Span
<1> HIDE DEF span, new, p
<1>7. /\ Len(new.spans) = k + 1 /\ new.spans[k + 1] = span
      /\ \A i \in 1..k : new.spans[i] = acc.spans[i]
  BY <1>1, <1>5, AppendProperties
<1> HIDE DEF t, b
<1>8. /\ span.start \in s..t /\ span.end \in Int /\ span.end <= b /\ span.end < new.line
      /\ acc.line < new.line /\ new.line \in Int /\ s <= new.line /\ new.line <= b + 2
      /\ span.start = acc.line
  <2>1. PICK l \in Int : l = acc.line
    BY <1>1
  <2>2. PICK q : q = new.line
    OBVIOUS
  <2>3. PICK r : r = span.end
    OBVIOUS
  <2>4. s <= l /\ l <= t /\ t \in Int /\ b \in Int
    BY <1>1, <1>3, <1>4, <2>1
  <2>5. q = l + (b - t + 1) + 1 /\ r = l + (b - t + 1) - 1
    BY <1>3, <1>5, <1>6, <2>1, <2>2, <2>3
  <2>6. t <= b
    BY <1>3
  <2>7. /\ l \in s..t /\ r \in Int /\ r <= b /\ r < q /\ l < q /\ q \in Int /\ s <= q /\ q <= b + 2
    BY <2>4, <2>5, <2>6
  <2>8. span.start = l
    BY <1>6, <2>1
  <2> QED
    BY <2>1, <2>2, <2>3, <2>7, <2>8
<1>9. \A i \in 1..(k + 1) : i \in 1..k \/ i = k + 1
  OBVIOUS
<1>10. ASSUME NEW i \in 1..(k + 1)
       PROVE  /\ new.spans[i].paragraphs = <<ps[i]>> /\ new.spans[i].heading = section.heading
              /\ new.spans[i].repeats = Repeats(i, section.heading)
              /\ new.spans[i].start \in s..Top(ps[i])
              /\ new.spans[i].end \in Int /\ new.spans[i].end <= Bottom(ps[i])
              /\ new.spans[i].end < new.line
  <2>1. CASE i \in 1..k
    <3>1. acc.spans[i].end \in Int /\ acc.spans[i].end < acc.line
      BY <2>1 DEF CountInv
    <3>2. PICK e \in Int : e = acc.spans[i].end
      BY <3>1
    <3>3. PICK l \in Int : l = acc.line
      BY <1>1
    <3>4. PICK q \in Int : q = new.line
      BY <1>8
    <3>5. e < l /\ l < q
      BY <1>8, <3>1, <3>2, <3>3, <3>4
    <3>6. e < q
      BY <3>5
    <3>7. acc.spans[i].end < new.line
      BY <3>2, <3>4, <3>6
    <3> QED
      BY <1>7, <2>1, <3>7 DEF CountInv
  <2>2. CASE i = k + 1
    BY <1>6, <1>7, <1>8, <2>2 DEF t, b, p
  <2> QED
    BY <1>9, <2>1, <2>2
<1>11. ASSUME NEW i \in 1..(k + 1), NEW j \in 1..(k + 1), i < j
       PROVE  new.spans[i].end < new.spans[j].start
  <2>1. i \in 1..k
    BY <1>9, <1>11
  <2>2. CASE j \in 1..k
    BY <1>7, <1>11, <2>1, <2>2 DEF CountInv
  <2>3. CASE j = k + 1
    <3>1. acc.spans[i].end < acc.line
      BY <2>1 DEF CountInv
    <3> QED
      BY <1>7, <1>8, <2>1, <2>3, <3>1
  <2> QED
    BY <1>9, <2>2, <2>3
<1>12. k + 1 # 0
  OBVIOUS
<1> QED
  BY <1>7, <1>8, <1>10, <1>11, <1>12 DEF CountInv, new, b, p

\* After all of them.
LEMMA CountedAll ==
  ASSUME NEW lines, NEW D, NEW section \in Sections(D), NEW s \in Nat, section.start = s, NEW e,
         NEW x \in Nat, NEW y \in Nat, s <= x,
         NEW ps \in Seq(Seq(D)), Cover(lines, ps, x, y),
         NEW f, Counts(lines, D, section, e, ps, f)
  PROVE  CountInv(section, ps, s, Len(ps), f[Len(ps)])
<1>1. PICK N \in Nat : N = Len(ps) /\ DOMAIN ps = 1..N
  BY LenProperties
<1> DEFINE T == {k \in 0..N : CountInv(section, ps, s, k, f[k])}
<1>2. T \in SUBSET Nat
  OBVIOUS
<1>3. 0 \in T
  <2>1. f[0].spans = <<>> /\ f[0].line = s
    BY DEF Counts
  <2>2. CountInv(section, ps, s, 0, f[0])
    BY <2>1 DEF CountInv
  <2> QED
    BY <1>1, <2>2
<1>4. ASSUME NEW k \in T, k < N PROVE k + 1 \in T
  <2>1. k \in Nat /\ k \in 0..N /\ CountInv(section, ps, s, k, f[k])
    OBVIOUS
  <2> HIDE DEF T
  <2>2. k + 1 \in 1..N /\ (k + 1) - 1 = k /\ k + 1 \in 0..N
    BY <1>1, <1>4, <2>1
  <2>3. f[k + 1] = SpanOfParagraph(section.heading, f[k], ps[k + 1])
    BY <1>1, <2>2 DEF Counts
  <2>4. f[k] \in CountedStates(D)
    BY <1>1, <2>1 DEF Counts
  <2>5. k + 1 \in DOMAIN ps
    BY <1>1, <2>2
  <2>6. CountInv(section, ps, s, k + 1, SpanOfParagraph(section.heading, f[k], ps[k + 1]))
    BY <2>1, <2>4, <2>5, CountStep
  <2> QED
    BY <2>2, <2>3, <2>6 DEF T
<1> HIDE DEF T
<1>5. \A k \in 0..N : k \in T
  BY <1>1, <1>2, <1>3, <1>4, Induction
<1>6. N \in T
  BY <1>1, <1>5
<1> QED
  BY <1>1, <1>6 DEF T

\* A section that does not fit is a span for each paragraph.
LEMMA CutMarks ==
  ASSUME NEW lines, NEW D, NEW section \in Sections(D), NEW s \in Nat \ {0}, NEW e \in Nat,
         SectionAt(lines, section, s, e), Oversized(lines, section.text),
         NEW x \in s..e, NEW y \in x..e, ~Blank(lines, x), ~Blank(lines, y),
         \A n \in s..e : ~Blank(lines, n) => n \in x..y,
         TrimSpace(lines, section.text) = Run(x, y)
  PROVE  Marks(lines, SpansOf(lines, section, e), s, e)
<1>1. x \in Nat \ {0} /\ y \in Nat /\ x <= y /\ s <= x /\ y <= e
  OBVIOUS
<1>2. ~Odd(lines, x)
  <2>1. ASSUME NEW n \in s..(x - 1) PROVE ~Is(lines, n, "fence")
    <3>1. n \in s..e /\ n \notin x..y
      OBVIOUS
    <3>2. Blank(lines, n)
      BY <3>1
    <3> QED
      BY <3>2 DEF Blank, Is
  <2>2. Odd(lines, s) <=> Odd(lines, x)
    BY <1>1, <2>1, OddSame
  <2> QED
    BY <2>2 DEF SectionAt
<1>3. PICK ps \in Seq(Seq(D)) : ps = splitByParagraph(lines, TrimSpace(lines, section.text))
  <2>1. section.text \in Seq(D)
    BY DEF Sections
  <2> QED
    BY <2>1, TrimType, splitByParagraphType
<1>4. Cover(lines, ps, x, y) /\ Whole(lines, ps, x, y)
  BY <1>1, <1>2, <1>3, SectionIsCut
<1>5. PICK f : Counts(lines, D, section, e, ps, f)
  BY <1>3, Counted
<1>6. PICK N \in Nat : N = Len(ps) /\ DOMAIN ps = 1..N
  BY LenProperties
<1>7. PICK acc : acc = f[N]
  OBVIOUS
<1>8. acc \in CountedStates(D) /\ SpansOf(lines, section, e) = acc.spans
  BY <1>5, <1>6, <1>7 DEF Counts
<1>9. CountInv(section, ps, s, N, acc)
  <2>1. section.start = s
    BY DEF SectionAt
  <2> QED
    BY <1>1, <1>4, <1>5, <1>6, <1>7, <2>1, CountedAll
<1>10. PICK W : W = acc.spans
  OBVIOUS
<1>11. DOMAIN W = 1..N
  <2>1. W \in Seq(Spans(D)) /\ Len(W) = N
    BY <1>8, <1>9, <1>10 DEF CountedStates, CountInv
  <2> QED
    BY <2>1, LenProperties
<1>12. ASSUME NEW i \in 1..N
       PROVE  /\ Block(lines, ps[i], x, y) /\ Block(lines, ps[i], s, e)
              /\ Top(ps[i]) \in x..y /\ Bottom(ps[i]) \in Top(ps[i])..y
              /\ Top(ps[i]) \in s..e /\ Bottom(ps[i]) \in Int /\ Bottom(ps[i]) <= e
  <2>1. Block(lines, ps[i], x, y)
    BY <1>4, <1>6 DEF Cover
  <2>2. PICK t : t = Top(ps[i])
    OBVIOUS
  <2>3. PICK b : b = Bottom(ps[i])
    OBVIOUS
  <2>4. t \in x..y /\ b \in t..y
    BY <2>1, <2>2, <2>3 DEF Block
  <2>5. t \in s..e /\ b \in t..e /\ b \in Int /\ b <= e
    BY <1>1, <2>4
  <2>6. Block(lines, ps[i], s, e)
    BY <2>1, <2>2, <2>3, <2>5 DEF Block
  <2> QED
    BY <2>1, <2>2, <2>3, <2>4, <2>5, <2>6
<1>13. ASSUME NEW i \in 1..N
       PROVE  /\ W[i].paragraphs = <<ps[i]>> /\ Paragraph(W[i]) = ps[i]
              /\ W[i].heading = section.heading /\ W[i].repeats = Repeats(i, section.heading)
              /\ W[i].start \in s..Top(ps[i])
              /\ W[i].end \in Int /\ W[i].end <= Bottom(ps[i])
  BY <1>9, <1>10 DEF CountInv, Paragraph
<1>14. ASSUME NEW i \in 1..N, NEW j \in 1..N, i < j
       PROVE  /\ W[i].end < W[j].start
              /\ Bottom(ps[i]) < Top(ps[j])
  <2>1. W[i].end < W[j].start
    BY <1>9, <1>10, <1>14 DEF CountInv
  <2>2. Bottom(ps[i]) + 2 <= Top(ps[j])
    BY <1>4, <1>6, <1>14 DEF Cover
  <2>3. PICK b \in Int : b = Bottom(ps[i])
    BY <1>12
  <2>4. PICK t \in Int : t = Top(ps[j])
    <3>1. Top(ps[j]) \in x..y
      BY <1>12
    <3> QED
      BY <3>1
  <2>5. b + 2 <= t
    BY <2>2, <2>3, <2>4
  <2>6. b < t
    BY <2>5
  <2> QED
    BY <2>1, <2>3, <2>4, <2>6
<1>15. ASSUME NEW i \in 1..N
       PROVE  section.heading = 0 \/ W[i].repeats \/ section.heading \in Top(ps[i])..Bottom(ps[i])
  <2>1. CASE i > 1
    BY <1>13, <2>1 DEF Repeats
  <2>2. CASE section.heading # 0 /\ i = 1
    <3>1. section.heading = s /\ s \in s..e /\ ~Blank(lines, s)
      <4>1. section.heading = s /\ s <= e /\ Title(lines, s)
        BY <2>2 DEF SectionAt
      <4>2. s \in s..e
        BY <4>1
      <4> QED
        BY <4>1, <4>2 DEF Title, Is, Blank
    <3>2. s \in x..y
      BY <3>1
    <3>3. PICK j \in 1..N : s \in Top(ps[j])..Bottom(ps[j])
      BY <1>4, <1>6, <3>1, <3>2 DEF Cover
    <3>4. CASE j = 1
      BY <2>2, <3>1, <3>3, <3>4
    <3>5. CASE j # 1
      <4>1. 1 \in 1..N /\ 1 < j
        BY <3>5
      <4>2. Bottom(ps[1]) < Top(ps[j])
        BY <1>14, <4>1
      <4>3. s <= Top(ps[1]) /\ Bottom(ps[1]) \in Top(ps[1])..y
        <5>1. Top(ps[1]) \in s..e
          BY <1>12, <4>1
        <5> QED
          BY <1>12, <4>1, <5>1
      <4>4. PICK t \in Int : t = Top(ps[1])
        <5>1. Top(ps[1]) \in s..e
          BY <1>12, <4>1
        <5> QED
          BY <5>1
      <4>5. PICK b \in Int : b = Bottom(ps[1])
        BY <1>12, <4>1
      <4>6. PICK u \in Int : u = Top(ps[j])
        <5>1. Top(ps[j]) \in s..e
          BY <1>12
        <5> QED
          BY <5>1
      <4>7. b < u /\ s <= t /\ b \in t..y /\ u <= s
        <5>1. s \in u..Bottom(ps[j]) /\ Bottom(ps[j]) \in Int
          BY <1>12, <3>3, <4>6
        <5> QED
          BY <4>2, <4>3, <4>4, <4>5, <4>6, <5>1
      <4> QED
        BY <4>7
    <3> QED
      BY <3>4, <3>5
  <2> QED
    BY <2>1, <2>2
<1>16. ASSUME NEW i \in 1..N PROVE Marked(lines, W[i], s, e)
  <2>1. Named(lines, section.heading, Top(ps[i]))
    <3>1. Top(ps[i]) \in s..e
      BY <1>12
    <3> QED
      BY <3>1, SectionNames
  <2>2. W[i].end \in Int /\ W[i].end <= e
    <3>1. PICK b \in Int : b = Bottom(ps[i])
      BY <1>12
    <3>2. PICK r \in Int : r = W[i].end
      BY <1>13
    <3>3. r <= b /\ b <= e
      BY <1>12, <1>13, <3>1, <3>2
    <3>4. r <= e
      BY <3>3
    <3> QED
      BY <3>2, <3>4
  <2> QED
    BY <1>12, <1>13, <1>15, <2>1, <2>2 DEF Marked
<1>17. ASSUME NEW n \in s..e, ~Blank(lines, n)
       PROVE  \E i \in 1..N : n \in Top(ps[i])..Bottom(ps[i])
  BY <1>4, <1>6, <1>17 DEF Cover
<1>18. ASSUME NEW a \in s..e, NEW b \in s..e, Pair(lines, a, b)
       PROVE  \E i \in 1..N : a \in Top(ps[i])..Bottom(ps[i]) /\ b \in Top(ps[i])..Bottom(ps[i])
  <2>1. ~Blank(lines, a) /\ ~Blank(lines, b)
    BY <1>18 DEF Pair, Is, Blank
  <2>2. a \in x..y /\ b \in x..y
    BY <2>1
  <2> QED
    BY <1>4, <1>6, <1>18, <2>2 DEF Whole
<1>19. \A i \in DOMAIN W : Paragraph(W[i]) = ps[i] /\ Marked(lines, W[i], s, e)
  BY <1>11, <1>13, <1>16
<1>20. \A i, j \in DOMAIN W : i < j =>
         Bottom(Paragraph(W[i])) < Top(Paragraph(W[j])) /\ W[i].end < W[j].start
  BY <1>11, <1>14, <1>19
<1>21. \A n \in s..e : ~Blank(lines, n) =>
         \E i \in DOMAIN W : n \in Top(Paragraph(W[i]))..Bottom(Paragraph(W[i]))
  BY <1>11, <1>17, <1>19
<1>22. \A a, b \in s..e : Pair(lines, a, b) =>
         \E i \in DOMAIN W : /\ a \in Top(Paragraph(W[i]))..Bottom(Paragraph(W[i]))
                             /\ b \in Top(Paragraph(W[i]))..Bottom(Paragraph(W[i]))
  BY <1>11, <1>18, <1>19
<1>23. Marks(lines, W, s, e)
  BY <1>19, <1>20, <1>21, <1>22 DEF Marks
<1> QED
  BY <1>8, <1>10, <1>23

LEMMA SectionMarks ==
  ASSUME NEW lines, NEW D, NEW section \in Sections(D), NEW s \in Nat \ {0}, NEW e \in Nat,
         s <= e + 1, SectionAt(lines, section, s, e)
  PROVE  Marks(lines, SpansOf(lines, section, e), s, e)
<1>1. s \in Int /\ e \in Int
  OBVIOUS
<1>2. section.text = Run(s, e)
  BY DEF SectionAt
<1>3. CASE TrimSpace(lines, section.text) = <<>> /\ \A n \in s..e : Blank(lines, n)
  BY <1>3, NothingMarks DEF SpansOf
<1>4. ASSUME NEW x \in s..e, NEW y \in s..e, x <= y, ~Blank(lines, x), ~Blank(lines, y),
             \A n \in s..e : ~Blank(lines, n) => n \in x..y,
             TrimSpace(lines, section.text) = Run(x, y)
      PROVE  Marks(lines, SpansOf(lines, section, e), s, e)
  <2>0. y \in x..e /\ x \in Int /\ y \in Int
    BY <1>4
  <2>1. Run(x, y) # <<>>
    BY <1>4, <2>0, RunEnds
  <2>2. CASE Size(lines, Run(x, y)) <= MaxChars
    <3>1. SpansOf(lines, section, e) = <<Span(<<Run(x, y)>>, section.heading, FALSE, section.start, e)>>
      BY <1>4, <2>1, <2>2 DEF SpansOf
    <3> QED
      BY <1>4, <2>0, <3>1, OneMarks
  <2>3. CASE ~(Size(lines, Run(x, y)) <= MaxChars)
    <3>1. Oversized(lines, section.text)
      BY <1>4, <2>1, <2>3 DEF Oversized
    <3> QED
      BY <1>4, <2>0, <3>1, CutMarks
  <2> QED
    BY <2>2, <2>3
<1> QED
  BY <1>1, <1>2, <1>3, <1>4, TrimRun

\* Once k lines are read: the section since line s is open, those above it are
\* spans, and the fence flag is right.
Reading(lines, acc, s, k) ==
  /\ SectionAt(lines, acc.section, s, k)
  /\ acc.inFence <=> Odd(lines, k + 1)
  /\ Marks(lines, acc.spans, 1, s - 1)

LEMMA HeadingStep ==
  ASSUME NEW lines, NEW D, NEW acc \in MarkdownStates(D), NEW k \in Nat,
         NEW s \in 1..(k + 1), Reading(lines, acc, s, k),
         StartsSection(lines, k + 1, acc.inFence)
  PROVE  Reading(lines, MarkdownLine(lines, acc, k + 1), k + 1, k + 1)
<1> DEFINE more == SpansOf(lines, acc.section, (k + 1) - 1)
           section == [text |-> <<k + 1>>, heading |-> k + 1, start |-> k + 1]
           new == MarkdownLine(lines, acc, k + 1)
<1>1. new = [acc EXCEPT !.spans = @ \o more, !.section = section]
  BY DEF MarkdownLine
<1>2. acc.spans \in Seq(Spans(D)) /\ acc.inFence \in BOOLEAN /\ acc.section \in Sections(D)
  BY DEF MarkdownStates
<1>3. k + 1 \in Nat \ {0} /\ (k + 1) - 1 = k /\ s \in Nat \ {0} /\ s <= k + 1 /\ k \in Int
  OBVIOUS
<1>4. more \in Seq(Spans(D))
  BY <1>2, <1>3, SpansOfType
<1>5. Marks(lines, more, s, k)
  BY <1>2, <1>3, SectionMarks DEF Reading
<1>6. new.spans = acc.spans \o more /\ new.section = section /\ new.inFence = acc.inFence
  <2> HIDE DEF more, section, new
  <2> QED
    BY <1>1, <1>2 DEF MarkdownStates
<1> HIDE DEF more, new
<1>7. ~Odd(lines, k + 1) /\ ~acc.inFence /\ Is(lines, k + 1, "heading")
  BY DEF Reading, StartsSection
<1>8. SectionAt(lines, section, k + 1, k + 1)
  <2>1. <<k + 1>> = Run(k + 1, k + 1) /\ k + 1 <= k + 1 /\ k + 1 # 0
    BY <1>3, RunOfOne
  <2>2. \A n \in (k + 1)..(k + 1) : n = k + 1
    BY <1>3
  <2> QED
    BY <1>7, <2>1, <2>2 DEF SectionAt, Title
<1>9. new.inFence <=> Odd(lines, (k + 1) + 1)
  <2>1. ~Is(lines, k + 1, "fence")
    BY <1>7 DEF Is
  <2>2. Odd(lines, (k + 1) + 1) <=> Odd(lines, k + 1)
    BY <1>3, <2>1, OddNext
  <2> QED
    BY <1>6, <1>7, <2>2
<1>10. Marks(lines, acc.spans \o more, 1, k)
  <2>1. 1 \in Nat \ {0} /\ s \in Nat /\ 1 <= s
    BY <1>3
  <2>2. Marks(lines, acc.spans, 1, s - 1) /\ ~Odd(lines, s)
    BY DEF Reading, SectionAt
  <2> QED
    BY <1>2, <1>3, <1>4, <1>5, <2>1, <2>2, ConcatMarks
<1> QED
  BY <1>3, <1>6, <1>8, <1>9, <1>10 DEF Reading, new

LEMMA LineStep ==
  ASSUME NEW lines, NEW D, NEW acc \in MarkdownStates(D), NEW k \in Nat,
         NEW s \in 1..(k + 1), Reading(lines, acc, s, k),
         ~StartsSection(lines, k + 1, acc.inFence)
  PROVE  Reading(lines, MarkdownLine(lines, acc, k + 1), s, k + 1)
<1> DEFINE text == Append(acc.section.text, k + 1)
           flag == IF Is(lines, k + 1, "fence") THEN ~acc.inFence ELSE acc.inFence
           new == MarkdownLine(lines, acc, k + 1)
<1>1. new = [acc EXCEPT !.inFence = flag, !.section.text = text]
  BY DEF MarkdownLine
<1>2. acc.spans \in Seq(Spans(D)) /\ acc.inFence \in BOOLEAN /\ acc.section \in Sections(D)
  BY DEF MarkdownStates
<1>3. k + 1 \in Nat \ {0} /\ s \in Nat \ {0} /\ s <= k + 1 /\ s \in Int /\ k \in Int
  OBVIOUS
<1>4. /\ new.spans = acc.spans /\ new.inFence = flag
      /\ new.section.text = text /\ new.section.heading = acc.section.heading
      /\ new.section.start = acc.section.start
  <2> HIDE DEF text, flag, new
  <2> QED
    BY <1>1, <1>2 DEF MarkdownStates, Sections
<1>5. acc.inFence <=> Odd(lines, k + 1)
  BY DEF Reading
<1>6. flag <=> Odd(lines, (k + 1) + 1)
  <2>1. Odd(lines, (k + 1) + 1)
          <=> IF Is(lines, k + 1, "fence") THEN ~Odd(lines, k + 1) ELSE Odd(lines, k + 1)
    BY <1>3, OddNext
  <2> QED
    BY <1>5, <2>1
<1>7. text = Run(s, k + 1)
  <2>1. acc.section.text = Run(s, k)
    BY DEF Reading, SectionAt
  <2> QED
    BY <1>3, <2>1, RunGrows
<1> HIDE DEF text, flag, new
<1>8. ~Title(lines, k + 1)
  BY <1>5 DEF Title, StartsSection
<1>9. ASSUME NEW n \in s..(k + 1), Title(lines, n) PROVE n = acc.section.heading
  <2>1. n \in s..k \/ n = k + 1
    BY <1>3
  <2>2. n \in s..k
    BY <1>8, <1>9, <2>1
  <2> QED
    BY <1>9, <2>2 DEF Reading, SectionAt
<1>10. /\ ~Odd(lines, s) /\ acc.section.start = s
       /\ acc.section.heading # 0 => acc.section.heading = s /\ Title(lines, s)
       /\ acc.section.heading = 0 => s = 1
  BY DEF Reading, SectionAt
<1>11. SectionAt(lines, new.section, s, k + 1)
  BY <1>3, <1>4, <1>7, <1>9, <1>10 DEF SectionAt
<1> QED
  BY <1>4, <1>6, <1>11 DEF Reading, new

LEMMA MarkdownMarks ==
  ASSUME NEW lines \in Seq(Kinds)
  PROVE  Marks(lines, SplitMarkdown(lines), 1, Len(lines))
<1>1. PICK D : D = DOMAIN lines
  OBVIOUS
<1>2. PICK ids : ids = [n \in DOMAIN lines |-> n]
  OBVIOUS
<1>3. PICK f : MarkdownReads(lines, D, f)
  BY <1>1, <1>2, MarkdownLines
<1>4. PICK L \in Nat : L = Len(lines)
  BY LenProperties
<1> DEFINE T == {k \in 0..L : \E s \in 1..(k + 1) : Reading(lines, f[k], s, k)}
<1>5. T \in SUBSET Nat
  OBVIOUS
<1>6. 0 \in T
  <2>1. /\ f[0].spans = <<>> /\ f[0].inFence = FALSE
        /\ f[0].section = [text |-> <<>>, heading |-> 0, start |-> 1]
    BY <1>3 DEF MarkdownReads
  <2>2. Run(1, 0) = <<>>
    <3>1. 1 \in Int /\ 1 - 1 = 0
      OBVIOUS
    <3> QED
      BY <3>1, NoRun
  <2>3. ~Odd(lines, 1) /\ 0 + 1 = 1 /\ 1 - 1 = 0
    BY OddFirst
  <2>4. \A n \in 1..0 : FALSE
    OBVIOUS
  <2>5. Marks(lines, <<>>, 1, 0)
    BY <2>4, NothingMarks
  <2>6. SectionAt(lines, f[0].section, 1, 0)
    BY <2>1, <2>2, <2>3, <2>4 DEF SectionAt
  <2>7. Reading(lines, f[0], 1, 0)
    BY <2>1, <2>3, <2>5, <2>6 DEF Reading
  <2>8. 1 \in 1..(0 + 1) /\ 0 \in 0..L
    BY <1>4
  <2> QED
    BY <2>7, <2>8
<1>7. ASSUME NEW k \in T, k < L PROVE k + 1 \in T
  <2>1. k \in Nat /\ k \in 0..L
    OBVIOUS
  <2>2. PICK s \in 1..(k + 1) : Reading(lines, f[k], s, k)
    OBVIOUS
  <2> HIDE DEF T
  <2>3. k + 1 \in 1..L /\ (k + 1) - 1 = k /\ k + 1 \in 0..L /\ k + 1 \in Nat
    BY <1>4, <1>7, <2>1
  <2>4. f[k + 1] = MarkdownLine(lines, f[k], k + 1)
    BY <1>3, <1>4, <2>3 DEF MarkdownReads
  <2>5. f[k] \in MarkdownStates(D)
    BY <1>3, <1>4, <2>1 DEF MarkdownReads
  <2>6. CASE StartsSection(lines, k + 1, f[k].inFence)
    <3>1. Reading(lines, f[k + 1], k + 1, k + 1)
      BY <2>1, <2>2, <2>4, <2>5, <2>6, HeadingStep
    <3>2. k + 1 \in 1..((k + 1) + 1)
      BY <2>1
    <3> QED
      BY <2>3, <3>1, <3>2 DEF T
  <2>7. CASE ~StartsSection(lines, k + 1, f[k].inFence)
    <3>1. Reading(lines, f[k + 1], s, k + 1)
      BY <2>1, <2>2, <2>4, <2>5, <2>7, LineStep
    <3>2. s \in 1..((k + 1) + 1)
      BY <2>1
    <3> QED
      BY <2>3, <3>1, <3>2 DEF T
  <2> QED
    BY <2>6, <2>7
<1> HIDE DEF T
<1>8. L \in T
  <2>1. \A k \in 0..L : k \in T
    BY <1>4, <1>5, <1>6, <1>7, Induction
  <2> QED
    BY <1>4, <2>1
<1>9. PICK s \in 1..(L + 1) : Reading(lines, f[L], s, L)
  BY <1>8 DEF T
<1>10. SplitMarkdown(lines) = f[L].spans \o SpansOf(lines, f[L].section, L)
  BY <1>3, <1>4 DEF MarkdownReads, Flushed
<1>11. f[L].spans \in Seq(Spans(D)) /\ f[L].section \in Sections(D)
  <2>1. L \in 0..L
    BY <1>4
  <2> QED
    BY <1>3, <1>4, <2>1 DEF MarkdownReads, MarkdownStates
<1>12. 1 \in Nat \ {0} /\ s \in Nat \ {0} /\ s \in Nat /\ 1 <= s /\ s <= L + 1 /\ L \in Int
  BY <1>4
<1>13. SpansOf(lines, f[L].section, L) \in Seq(Spans(D))
  BY <1>11, <1>12, SpansOfType
<1>14. /\ SectionAt(lines, f[L].section, s, L) /\ Marks(lines, f[L].spans, 1, s - 1)
       /\ ~Odd(lines, s)
  BY <1>9 DEF Reading, SectionAt
<1>15. Marks(lines, SpansOf(lines, f[L].section, L), s, L)
  BY <1>4, <1>11, <1>12, <1>14, SectionMarks
<1>16. Marks(lines, f[L].spans \o SpansOf(lines, f[L].section, L), 1, L)
  BY <1>4, <1>11, <1>12, <1>13, <1>14, <1>15, ConcatMarks
<1> QED
  BY <1>4, <1>10, <1>16

\* The lines of a Markdown span are those of its paragraph.
LEMMA MarkedLines ==
  ASSUME NEW lines, NEW span, NEW u \in Nat, NEW v \in Nat, Marked(lines, span, u, v)
  PROVE  /\ Rising(Lines(span)) /\ Lines(span)[1] = Top(Paragraph(span))
         /\ ToSet(Lines(span)) = Top(Paragraph(span))..Bottom(Paragraph(span))
         /\ Top(Paragraph(span)) \in u..v
         /\ Bottom(Paragraph(span)) \in Top(Paragraph(span))..v
<1>1. PICK p : p = Paragraph(span)
  OBVIOUS
<1>2. span.paragraphs = <<p>> /\ Block(lines, p, u, v)
  BY <1>1 DEF Marked
<1>3. /\ Rising(p) /\ ToSet(p) = Top(p)..Bottom(p) /\ Top(p) \in u..v /\ Bottom(p) \in Top(p)..v
  BY <1>2, BlockRises
<1>4. FlattenSeq(<<p>>) = p
  BY <1>3, FlattenOne DEF Rising
<1> QED
  BY <1>1, <1>2, <1>3, <1>4 DEF Lines, Top

LEMMA MarksSay ==
  ASSUME NEW lines \in Seq(Kinds), NEW W, Marks(lines, W, 1, Len(lines))
  PROVE  Says(lines, W)
<1>1. PICK L \in Nat : L = Len(lines) /\ DOMAIN lines = 1..L
  BY LenProperties
<1>2. ASSUME NEW i \in DOMAIN W
      PROVE  /\ Rising(Lines(W[i])) /\ Lines(W[i])[1] = Top(Paragraph(W[i]))
             /\ ToSet(Lines(W[i])) = Top(Paragraph(W[i]))..Bottom(Paragraph(W[i]))
             /\ Top(Paragraph(W[i])) \in Int /\ Bottom(Paragraph(W[i])) \in Int
  <2>1. Marked(lines, W[i], 1, L) /\ 1 \in Nat
    BY <1>1 DEF Marks
  <2>2. /\ Rising(Lines(W[i])) /\ Lines(W[i])[1] = Top(Paragraph(W[i]))
        /\ ToSet(Lines(W[i])) = Top(Paragraph(W[i]))..Bottom(Paragraph(W[i]))
        /\ Top(Paragraph(W[i])) \in 1..L /\ Bottom(Paragraph(W[i])) \in Top(Paragraph(W[i]))..L
    BY <1>1, <2>1, MarkedLines
  <2>3. Top(Paragraph(W[i])) \in Int /\ Bottom(Paragraph(W[i])) \in Int
    BY <2>2
  <2> QED
    BY <2>2, <2>3
<1>3. ASSUME NEW n \in DOMAIN lines, ~Blank(lines, n)
      PROVE  \E s \in ToSet(W) : n \in ToSet(Lines(s))
  <2>1. PICK i \in DOMAIN W : n \in Top(Paragraph(W[i]))..Bottom(Paragraph(W[i]))
    BY <1>1, <1>3 DEF Marks
  <2>2. n \in ToSet(Lines(W[i]))
    BY <1>2, <2>1
  <2> QED
    BY <2>2 DEF ToSet
<1>4. ASSUME NEW i \in DOMAIN W, NEW j \in DOMAIN W,
             NEW a \in DOMAIN Lines(W[i]), NEW b \in DOMAIN Lines(W[j]),
             i < j \/ (i = j /\ a < b)
      PROVE  Lines(W[i])[a] < Lines(W[j])[b]
  <2>1. CASE i < j
    <3>1. Lines(W[i])[a] \in ToSet(Lines(W[i])) /\ Lines(W[j])[b] \in ToSet(Lines(W[j]))
      BY DEF ToSet
    <3>2. PICK x : x = Lines(W[i])[a]
      OBVIOUS
    <3>3. PICK y : y = Lines(W[j])[b]
      OBVIOUS
    <3>4. PICK c \in Int : c = Bottom(Paragraph(W[i]))
      BY <1>2
    <3>5. PICK d \in Int : d = Top(Paragraph(W[j]))
      BY <1>2
    <3>6. /\ x \in Top(Paragraph(W[i]))..c /\ y \in d..Bottom(Paragraph(W[j])) /\ c < d
      BY <1>2, <2>1, <3>1, <3>2, <3>3, <3>4, <3>5 DEF Marks
    <3>7. x \in Int /\ x <= c /\ y \in Int /\ d <= y
      BY <1>2, <3>6
    <3>8. x < y
      BY <3>6, <3>7
    <3> QED
      BY <3>2, <3>3, <3>8
  <2>2. CASE i = j /\ a < b
    BY <1>2, <2>2 DEF Rising
  <2> QED
    BY <1>4, <2>1, <2>2
<1> QED
  BY <1>3, <1>4 DEF Says

\* Where the spans are those of a Markdown file.
LEMMA InvMarks ==
  ASSUME FileInv, pc = "insert", Markdown
  PROVE  /\ Marks(file.lines, spans, 1, Len(file.lines)) /\ file.lines \in Seq(Kinds)
         /\ \A i \in DOMAIN spans : Marked(file.lines, spans[i], 1, Len(file.lines))
<1>1. file.lines \in Seq(Kinds) /\ spans = SplitMarkdown(file.lines)
  BY DEF FileInv, SplitOf, Markdown
<1>2. Marks(file.lines, spans, 1, Len(file.lines))
  BY <1>1, MarkdownMarks
<1> QED
  BY <1>1, <1>2 DEF Marks

\* No line that says something is lost, or said twice, or out of order,
\* whichever way the file was cut (markdown.go, plaintext.go).
THEOREM LinesAreKept == Spec => []NothingIsLost
<1>1. FileInv => NothingIsLost
  <2> SUFFICES ASSUME FileInv, pc = "insert" PROVE NothingIsLost
    BY DEF NothingIsLost, IsSplit
  <2>1. Says(file.lines, spans)
    <3>1. CASE Markdown
      BY <3>1, InvMarks, MarksSay
    <3>2. CASE ~Markdown
      <4>1. /\ file.lines \in Seq(Kinds) /\ spans = SplitText(file.lines)
            /\ spans \in Seq(Spans(DOMAIN file.lines))
        BY <3>2 DEF FileInv, SplitOf, Markdown
      <4>2. PICK ps : Cut(file.lines, ps, spans)
        BY <4>1, TextIsCutAndPacked
      <4> QED
        BY <4>1, <4>2, TextSaysAll
    <3> QED
      BY <3>1, <3>2
  <2>2. ASSUME Markdown, NEW i \in DOMAIN spans
        PROVE  /\ spans[i].start <= Lines(spans[i])[1]
               /\ \A j \in 1..(i - 1) : spans[j].end < spans[i].start
    <3>1. /\ Marks(file.lines, spans, 1, Len(file.lines)) /\ file.lines \in Seq(Kinds)
          /\ Marked(file.lines, spans[i], 1, Len(file.lines))
      BY <2>2, InvMarks
    <3>2. Len(file.lines) \in Nat /\ 1 \in Nat
      BY <3>1, LenProperties
    <3>3. Lines(spans[i])[1] = Top(Paragraph(spans[i]))
      BY <3>1, <3>2, MarkedLines
    <3>4. spans[i].start <= Top(Paragraph(spans[i]))
      <4>1. spans[i].start \in 1..Top(Paragraph(spans[i]))
        BY <3>1 DEF Marked
      <4> QED
        BY <4>1
    <3>5. ASSUME NEW j \in 1..(i - 1) PROVE spans[j].end < spans[i].start
      <4>1. DOMAIN spans = 1..Len(spans) /\ Len(spans) \in Nat
        BY LenProperties DEF FileInv
      <4>2. j \in DOMAIN spans /\ j < i
        BY <4>1
      <4> QED
        BY <3>1, <4>2 DEF Marks
    <3> QED
      BY <3>3, <3>4, <3>5
  <2> QED
    BY <2>1, <2>2 DEF Says, NothingIsLost
<1> QED
  BY <1>1, InvHolds, PTL

\* A fenced block lies within one span (markdown.go:125-127).
THEOREM FencesAreKept == Spec => []FencesStayWhole
<1>1. FileInv => FencesStayWhole
  <2> SUFFICES ASSUME FileInv, pc = "insert", Markdown,
                      NEW a \in DOMAIN file.lines, NEW b \in DOMAIN file.lines,
                      a < b, Is(file.lines, a, "fence"), ~Fenced(a), Is(file.lines, b, "fence"),
                      \A n \in (a + 1)..(b - 1) : ~Is(file.lines, n, "fence")
               PROVE  \E s \in ToSet(spans) : a..b \subseteq ToSet(Lines(s))
    BY DEF FencesStayWhole, IsSplit
  <2>1. Pair(file.lines, a, b)
    BY DEF Pair, Odd, Fenced, Fences
  <2>2. /\ Marks(file.lines, spans, 1, Len(file.lines)) /\ file.lines \in Seq(Kinds)
    BY InvMarks
  <2>3. Len(file.lines) \in Nat /\ DOMAIN file.lines = 1..Len(file.lines) /\ 1 \in Nat
    BY <2>2, LenProperties
  <2>4. PICK i \in DOMAIN spans : /\ a \in Top(Paragraph(spans[i]))..Bottom(Paragraph(spans[i]))
                                  /\ b \in Top(Paragraph(spans[i]))..Bottom(Paragraph(spans[i]))
    BY <2>1, <2>2, <2>3 DEF Marks
  <2>5. Marked(file.lines, spans[i], 1, Len(file.lines))
    BY InvMarks
  <2>6. /\ ToSet(Lines(spans[i])) = Top(Paragraph(spans[i]))..Bottom(Paragraph(spans[i]))
        /\ Top(Paragraph(spans[i])) \in 1..Len(file.lines)
        /\ Bottom(Paragraph(spans[i])) \in Top(Paragraph(spans[i]))..Len(file.lines)
    BY <2>3, <2>5, MarkedLines
  <2>7. PICK t \in Int : t = Top(Paragraph(spans[i]))
    BY <2>6
  <2>8. PICK c \in Int : c = Bottom(Paragraph(spans[i]))
    BY <2>6
  <2>9. \A n \in a..b : n \in t..c
    BY <2>4, <2>7, <2>8
  <2>10. spans[i] \in ToSet(spans)
    BY DEF ToSet
  <2> QED
    BY <2>6, <2>7, <2>8, <2>9, <2>10
<1> QED
  BY <1>1, InvHolds, PTL

\* A span stands under the last heading above it and says it (markdown.go:51-54).
THEOREM HeadingsAreNamed == Spec => []SectionsAreNamed
<1>1. FileInv => SectionsAreNamed
  <2> SUFFICES ASSUME FileInv, pc = "insert", Markdown, NEW s \in ToSet(spans)
               PROVE  LET above == {n \in 1..Lines(s)[1] : Is(file.lines, n, "heading") /\ ~Fenced(n)} IN
                      /\ s.heading = (IF above = {} THEN 0
                                      ELSE CHOOSE n \in above : \A m \in above : m <= n)
                      /\ s.heading # 0 => s.heading \in ToSet(Content(s))
    BY DEF SectionsAreNamed, IsSplit
  <2> DEFINE above == {n \in 1..Lines(s)[1] : Is(file.lines, n, "heading") /\ ~Fenced(n)}
  <2>1. Marked(file.lines, s, 1, Len(file.lines)) /\ file.lines \in Seq(Kinds)
    BY InvMarks DEF ToSet
  <2>2. Len(file.lines) \in Nat /\ 1 \in Nat
    BY <2>1, LenProperties
  <2>3. /\ Lines(s)[1] = Top(Paragraph(s))
        /\ ToSet(Lines(s)) = Top(Paragraph(s))..Bottom(Paragraph(s))
        /\ Top(Paragraph(s)) \in 1..Len(file.lines)
        /\ Rising(Lines(s))
    BY <2>1, <2>2, MarkedLines
  <2>4. PICK t \in Nat : t = Top(Paragraph(s))
    BY <2>2, <2>3
  <2>5. above = {n \in 1..t : Title(file.lines, n)}
    BY <2>3, <2>4 DEF Title, Odd, Fenced, Fences
  <2> HIDE DEF above
  <2>6. Named(file.lines, s.heading, t)
    BY <2>1, <2>4 DEF Marked
  <2>7. s.heading = (IF above = {} THEN 0 ELSE CHOOSE n \in above : \A m \in above : m <= n)
    <3>1. CASE s.heading = 0 /\ \A n \in 1..t : ~Title(file.lines, n)
      BY <2>5, <3>1
    <3>2. CASE /\ s.heading \in 1..t /\ Title(file.lines, s.heading)
               /\ \A n \in (s.heading + 1)..t : ~Title(file.lines, n)
      <4>1. PICK h \in 1..t : h = s.heading
        BY <3>2
      <4>2. h \in above
        BY <2>5, <3>2, <4>1
      <4>3. ASSUME NEW m \in above PROVE m <= h /\ m \in Int
        <5>1. m \in 1..t /\ Title(file.lines, m)
          BY <2>5
        <5>2. m \notin (h + 1)..t
          BY <3>2, <4>1, <5>1
        <5> QED
          BY <5>1, <5>2
      <4>4. ASSUME NEW n \in above, \A m \in above : m <= n PROVE n = h
        <5>1. h <= n /\ n <= h /\ n \in Int /\ h \in Int
          BY <4>2, <4>3, <4>4
        <5> QED
          BY <5>1
      <4>5. (CHOOSE n \in above : \A m \in above : m <= n) = h
        BY <4>2, <4>3, <4>4
      <4> QED
        BY <4>1, <4>2, <4>5
    <3> QED
      BY <2>6, <3>1, <3>2 DEF Named
  <2>8. s.heading # 0 => s.heading \in ToSet(Content(s))
    <3> SUFFICES ASSUME s.heading # 0 PROVE s.heading \in ToSet(Content(s))
      OBVIOUS
    <3>1. s.heading \in Int
      BY <2>4, <2>6 DEF Named
    <3>2. PICK h \in Int : h = s.heading
      BY <3>1
    <3>3. PICK p \in Seq(Int) : p = Lines(s)
      BY <2>3 DEF Rising
    <3>4. CASE s.repeats
      <4>1. Content(s) = <<h>> \o p
        BY <3>2, <3>3, <3>4 DEF Content
      <4>2. Len(p) \in Nat
        BY LenProperties
      <4>3. <<h>> \in Seq(Int) /\ Len(<<h>>) = 1 /\ <<h>>[1] = h
        OBVIOUS
      <4>4. 1 \in 1..(1 + Len(p)) /\ 1 <= 1
        BY <4>2
      <4>5. (<<h>> \o p)[1] = h /\ 1 \in DOMAIN (<<h>> \o p)
        BY <4>2, <4>3, <4>4, ConcatProperties, LenProperties
      <4> QED
        BY <3>2, <4>1, <4>5 DEF ToSet
    <3>5. CASE ~s.repeats
      <4>1. Content(s) = p
        <5>1. Content(s) = <<>> \o p
          BY <3>3, <3>5 DEF Content
        <5> QED
          BY <5>1
      <4>2. h \in Top(Paragraph(s))..Bottom(Paragraph(s))
        BY <2>1, <3>2, <3>5 DEF Marked
      <4> QED
        BY <2>3, <3>2, <3>3, <4>1, <4>2
    <3> QED
      BY <3>4, <3>5
  <2> QED
    BY <2>7, <2>8 DEF above
<1> QED
  BY <1>1, InvHolds, PTL

\* A round trip leaves the clock a number.
LEMMA ClockRuns ==
  ASSUME clock \in Nat,
         \/ clock' = Deadline
         \/ \E d \in Durations : clock' = clock + d
  PROVE  clock' \in Nat
<1>1. Deadline \in Nat /\ Durations \subseteq Nat
  BY FileIndexingAssumption DEF FileIndexingAssumption
<1> QED
  BY <1>1

LEMMA AnsweredBounds == Bounds /\ Answered => Bounds'
<1> SUFFICES ASSUME Bounds, Answered PROVE Bounds'
  OBVIOUS
<1>1. /\ pc' \in {"failed", "upsert"} /\ UNCHANGED <<attempt, delay, wait>>
      /\ clock' = Deadline \/ \E d \in Durations : clock' = clock + d
  BY DEF Answered, Request, Fail
<1>2. clock' \in Nat
  BY <1>1, ClockRuns DEF Bounds
<1> QED
  BY <1>1, <1>2 DEF Bounds

LEMMA RefusedBounds == Bounds /\ Refused => Bounds'
<1> SUFFICES ASSUME Bounds, Refused PROVE Bounds'
  OBVIOUS
<1>1. /\ pc' = "failed" /\ UNCHANGED <<attempt, delay, wait>>
      /\ clock' = Deadline \/ \E d \in Durations : clock' = clock + d
  BY DEF Refused, Request, Fail
<1>2. clock' \in Nat
  BY <1>1, ClockRuns DEF Bounds
<1> QED
  BY <1>1, <1>2 DEF Bounds

LEMMA RateLimitedBounds == Bounds /\ RateLimited => Bounds'
<1> SUFFICES ASSUME Bounds, RateLimited PROVE Bounds'
  OBVIOUS
<1>1. /\ UNCHANGED <<attempt, delay>>
      /\ clock' = Deadline \/ \E d \in Durations : clock' = clock + d
      /\ \/ pc' = "failed" /\ wait' = wait
         \/ /\ pc' = "sleep" /\ attempt < MaxRetries
            /\ \E hint \in RetryAfters : wait' = Backoff(hint)
  BY DEF RateLimited, Request, Fail, MayRetry
<1>2. clock' \in Nat
  BY <1>1, ClockRuns DEF Bounds
<1>3. wait' \in Nat
  <2>1. delay \in Nat /\ wait \in Nat /\ RetryAfters \subseteq Nat \cup {-1}
    BY FileIndexingAssumption DEF FileIndexingAssumption, Bounds
  <2>2. ASSUME NEW hint \in RetryAfters PROVE Backoff(hint) \in Nat
    BY <2>1 DEF Backoff
  <2> QED
    BY <1>1, <2>1, <2>2
<1> QED
  BY <1>1, <1>2, <1>3 DEF Bounds

LEMMA SleepBounds == Bounds /\ Sleep => Bounds'
<1> SUFFICES ASSUME Bounds, Sleep PROVE Bounds'
  OBVIOUS
<1>1. /\ pc = "sleep" /\ clock' = Awake /\ wait' = wait
      /\ \/ pc' = "failed" /\ UNCHANGED <<attempt, delay>>
         \/ pc' = "request" /\ attempt' = attempt + 1 /\ delay' = 2 * delay
  BY DEF Sleep, Fail
<1>2. /\ attempt \in 0..MaxRetries /\ attempt < MaxRetries /\ MaxRetries \in Nat
      /\ delay \in Nat /\ wait \in Nat /\ clock \in Nat /\ Deadline \in Nat
  BY <1>1, FileIndexingAssumption DEF FileIndexingAssumption, Bounds
<1>3. clock' \in Nat
  BY <1>1, <1>2 DEF Awake
<1>4. attempt' \in 0..MaxRetries /\ delay' \in Nat
  BY <1>1, <1>2
<1> QED
  BY <1>1, <1>2, <1>3, <1>4 DEF Bounds

LEMMA OthersBounds ==
  Bounds /\ (Split \/ ChunkSource \/ Caption \/ StartEmbedding \/ upsertChunkVectors
             \/ updateEmbeddingModel) => Bounds'
<1> SUFFICES ASSUME Bounds, Split \/ ChunkSource \/ Caption \/ StartEmbedding \/ upsertChunkVectors
                             \/ updateEmbeddingModel
             PROVE  Bounds'
  OBVIOUS
<1>1. /\ UNCHANGED <<attempt, delay, wait, clock>>
      /\ pc' \in {"skipped", "insert", "failed", "indexed", "caption", "request", "label"}
  BY DEF Split, ChunkSource, Caption, StartEmbedding, upsertChunkVectors, updateEmbeddingModel,
         Fail, embedding
<1> QED
  BY <1>1 DEF Bounds

LEMMA BoundsStep == Bounds /\ [Next]_vars => Bounds'
<1> SUFFICES ASSUME Bounds, [Next]_vars PROVE Bounds'
  OBVIOUS
<1>1. CASE UNCHANGED vars
  BY <1>1 DEF vars, Bounds
<1>2. CASE Next
  BY <1>1, <1>2, AnsweredBounds, RefusedBounds, RateLimitedBounds, SleepBounds, OthersBounds DEF Next
<1> QED
  BY <1>1, <1>2

\* No span is empty, nor has an empty paragraph.
Filled(W) ==
  \A i \in DOMAIN W : /\ W[i].paragraphs # <<>>
                      /\ \A a \in DOMAIN W[i].paragraphs : W[i].paragraphs[a] # <<>>

LEMMA SplitFills ==
  ASSUME NEW f, f.lines \in Seq(Kinds)
  PROVE  Filled(SplitOf(f))
<1> PICK lines \in Seq(Kinds) : lines = f.lines
  OBVIOUS
<1>1. PICK L \in Nat : L = Len(lines)
  BY LenProperties
<1>2. Filled(SplitMarkdown(lines))
  <2> DEFINE W == SplitMarkdown(lines)
  <2>1. ASSUME NEW i \in DOMAIN W
        PROVE  /\ W[i].paragraphs # <<>>
               /\ \A a \in DOMAIN W[i].paragraphs : W[i].paragraphs[a] # <<>>
    <3>1. Marked(lines, W[i], 1, L) /\ 1 \in Nat
      BY <1>1, MarkdownMarks DEF Marks
    <3>2. PICK p : p = Paragraph(W[i])
      OBVIOUS
    <3>3. W[i].paragraphs = <<p>> /\ Block(lines, p, 1, L)
      BY <3>1, <3>2 DEF Marked
    <3>4. p # <<>>
      BY <1>1, <3>1, <3>3, BlockRises DEF Rising
    <3>5. <<p>> # <<>> /\ \A a \in DOMAIN <<p>> : <<p>>[a] = p
      OBVIOUS
    <3> QED
      BY <3>3, <3>4, <3>5
  <2> QED
    BY <2>1 DEF Filled
<1>3. Filled(SplitText(lines))
  <2> DEFINE W == SplitText(lines)
  <2>1. PICK ps : Cut(lines, ps, W)
    BY TextIsCutAndPacked
  <2>2. Len(ps) \in Nat /\ DOMAIN ps = 1..Len(ps)
    BY <2>1, LenProperties DEF Cut, Ordered
  <2>3. ASSUME NEW m \in 1..Len(ps) PROVE ps[m] # <<>>
    <3>1. Block(lines, ps[m], 1, L) /\ 1 \in Nat
      BY <1>1, <2>1, <2>2 DEF Cut, Cover
    <3> QED
      BY <1>1, <3>1, BlockRises DEF Rising
  <2>4. ASSUME NEW i \in DOMAIN W
        PROVE  /\ W[i].paragraphs # <<>>
               /\ \A a \in DOMAIN W[i].paragraphs : \E m \in 1..Len(ps) : W[i].paragraphs[a] = ps[m]
    BY <2>1 DEF Cut, Packing
  <2>5. PICK V : V = SplitText(lines)
    OBVIOUS
  <2>6. \A i \in DOMAIN V : /\ V[i].paragraphs # <<>>
                           /\ \A a \in DOMAIN V[i].paragraphs : V[i].paragraphs[a] # <<>>
    BY <2>3, <2>4, <2>5
  <2> QED
    BY <2>5, <2>6 DEF Filled
<1> QED
  BY <1>2, <1>3 DEF SplitOf

\* Types; no span has an empty paragraph; a retry is one of those allowed; as many
\* points as rows, or none.
THEOREM TypeCorrect == Spec => []TypeOK
<1>1. Init => FileInv /\ Bounds
  BY InitInv
<1>2. Bounds /\ [Next]_vars => Bounds'
  BY BoundsStep
<1>3. FileInv /\ Bounds => TypeOK
  <2> SUFFICES ASSUME FileInv, Bounds PROVE TypeOK
    OBVIOUS
  <2>1. /\ file.lines \in Seq(Kinds) /\ spans \in Seq(Spans(DOMAIN file.lines))
        /\ spans # <<>> => spans = SplitOf(file)
        /\ rows \in Seq(Rows(DOMAIN file.lines)) /\ chunks = rows
        /\ points = <<>> \/ points = Texts
        /\ next \in 1..(Len(rows) + 1)
    BY DEF FileInv
  <2>2. Filled(spans)
    <3>1. CASE spans = <<>>
      BY <3>1 DEF Filled
    <3>2. CASE spans # <<>>
      BY <2>1, <3>2, SplitFills
    <3> QED
      BY <3>1, <3>2
  <2>3. ASSUME NEW s \in ToSet(spans)
        PROVE  /\ s.paragraphs # <<>>
               /\ \A p \in ToSet(s.paragraphs) : p # <<>> /\ ToSet(p) \subseteq DOMAIN file.lines
    <3>1. PICK i \in DOMAIN spans : s = spans[i]
      BY DEF ToSet
    <3>2. PICK D : D = DOMAIN file.lines
      OBVIOUS
    <3>3. s.paragraphs \in Seq(Seq(D))
      <4>1. spans[i] \in Spans(D)
        BY <2>1, <3>2, ElementOfSeq
      <4> QED
        BY <3>1, <4>1 DEF Spans
    <3>4. s.paragraphs # <<>> /\ \A a \in DOMAIN s.paragraphs : s.paragraphs[a] # <<>>
      BY <2>2, <3>1 DEF Filled
    <3>5. ASSUME NEW p \in ToSet(s.paragraphs) PROVE p # <<>> /\ ToSet(p) \subseteq D
      <4>1. PICK a \in DOMAIN s.paragraphs : p = s.paragraphs[a]
        BY DEF ToSet
      <4>2. p \in Seq(D)
        <5> PICK ps \in Seq(Seq(D)) : ps = s.paragraphs
          BY <3>3
        <5> QED
          BY <4>1, ElementOfSeq
      <4>3. ASSUME NEW k \in DOMAIN p PROVE p[k] \in D
        BY <4>2, ElementOfSeq
      <4> QED
        BY <3>4, <4>1, <4>3 DEF ToSet
    <3> QED
      BY <3>2, <3>4, <3>5
  <2>4. Len(points) \in {0, Len(rows)}
    <3>1. PICK n \in Nat : n = Len(rows) /\ DOMAIN rows = 1..n
      BY <2>1, LenProperties
    <3>2. CASE points = <<>>
      BY <3>2
    <3>3. CASE points = Texts
      <4>1. DOMAIN Texts = 1..n
        BY <2>1, <3>1 DEF Texts
      <4> QED
        BY <3>1, <3>3, <4>1 DEF Texts
    <3> QED
      BY <2>1, <3>2, <3>3
  <2> QED
    BY <2>1, <2>3, <2>4 DEF TypeOK, Bounds
<1> QED
  BY <1>1, <1>2, <1>3, InvHolds, PTL DEF Spec

=============================================================================
