---------------------------- MODULE SequenceFacts ----------------------------
(***************************************************************************)
(* What the operators on sequences that the models use compute.  tlapm has    *)
(* no induction over data; the lemmas argue by the least counterexample.     *)
(***************************************************************************)
EXTENDS Integers, SequencesExt, SequenceTheorems, FiniteSetTheorems, WellFoundedInduction, TLAPS

LEMMA LeastExists ==
    ASSUME NEW S \in SUBSET Nat, S # {}
    PROVE  \E x \in S : \A y \in S : x <= y
<1>1. PICK x \in S : \A y \in S : <<y, x>> \notin OpToRel(<, Nat)
    BY WFMin, NatLessThanWellFounded
<1>2. \A y \in S : ~(y < x)
    BY <1>1 DEF OpToRel
<1> QED
    BY <1>2, SMT

LEMMA GreatestExists ==
    ASSUME NEW n \in Nat, NEW I \in SUBSET (1..n), I # {}
    PROVE  \E x \in I : \A y \in I : x >= y
<1> DEFINE Mirror == {n - i : i \in I}
<1>1. Mirror \in SUBSET Nat
    BY SMT
<1>2. Mirror # {}
    <2>1. PICK i \in I : TRUE
        OBVIOUS
    <2>2. n - i \in Mirror
        BY <2>1
    <2> QED
        BY <2>2
<1>3. PICK m \in Mirror : \A y \in Mirror : m <= y
    <2> HIDE DEF Mirror
    <2> QED
        BY <1>1, <1>2, LeastExists
<1>4. PICK x \in I : m = n - x
    BY <1>3
<1>5. ASSUME NEW y \in I
      PROVE  x >= y
    <2>1. n - y \in Mirror
        OBVIOUS
    <2>2. n - x <= n - y
        BY <1>3, <1>4, <2>1
    <2>3. x \in 1..n /\ y \in 1..n
        OBVIOUS
    <2> QED
        BY <2>2, <2>3
<1> QED
    BY <1>5

LEMMA MaxIsGreatest ==
    ASSUME NEW n \in Nat, NEW I \in SUBSET (1..n), I # {}
    PROVE  Max(I) \in I /\ \A i \in I : i <= Max(I)
<1>1. \E x \in I : \A y \in I : x >= y
    BY GreatestExists
<1>2. Max(I) \in I /\ \A y \in I : Max(I) >= y
    BY <1>1 DEF Max
<1> QED
    BY <1>2

\* i is the greatest of the places I, or 0 if there is none.
IsLastOf(i, I) == IF I = {} THEN i = 0 ELSE i \in I /\ \A j \in I : j <= i

LEMMA LastOf ==
    ASSUME NEW n \in Nat, NEW I \in SUBSET (1..n)
    PROVE  IsLastOf(IF I # {} THEN Max(I) ELSE 0, I)
BY MaxIsGreatest DEF IsLastOf

LEMMA LastIsUnique ==
    ASSUME NEW I \in SUBSET Nat, NEW i, NEW j, IsLastOf(i, I), IsLastOf(j, I)
    PROVE  i = j
<1>1. CASE I = {}
    BY <1>1 DEF IsLastOf
<1>2. CASE I # {}
    <2>1. i \in I /\ j \in I /\ i <= j /\ j <= i
        BY <1>2 DEF IsLastOf
    <2>2. i \in Nat /\ j \in Nat
        BY <2>1
    <2> QED
        BY <2>1, <2>2
<1> QED
    BY <1>1, <1>2

\* A set that holds 0, and with each number up to n the next one, holds all of them.
LEMMA Ladder ==
    ASSUME NEW n \in Nat, NEW S, 0 \in S,
           \A k \in 0..(n - 1) : k \in S => k + 1 \in S
    PROVE  0..n \subseteq S
<1> DEFINE Missing == {k \in 0..n : k \notin S}
<1>1. SUFFICES ASSUME Missing # {}
               PROVE  FALSE
    OBVIOUS
<1>2. PICK k \in Missing : \A j \in Missing : k <= j
    <2>1. Missing \in SUBSET Nat
        OBVIOUS
    <2> HIDE DEF Missing
    <2> QED
        BY <1>1, <2>1, LeastExists
<1>3. k # 0 /\ k - 1 \in 0..(n - 1) /\ k - 1 \notin Missing
    BY <1>2
<1>4. k - 1 \in S
    BY <1>3
<1>5. (k - 1) + 1 = k
    BY <1>2
<1> QED
    BY <1>2, <1>3, <1>4, <1>5

\* A set that holds each number up to n all the larger ones of which it holds.
LEMMA Descent ==
    ASSUME NEW n \in Nat, NEW S,
           \A k \in 1..n : (\A j \in 1..n : k < j => j \in S) => k \in S
    PROVE  1..n \subseteq S
<1> DEFINE Missing == {k \in 1..n : k \notin S}
<1>1. SUFFICES ASSUME Missing # {}
               PROVE  FALSE
    OBVIOUS
<1>2. PICK k \in Missing : \A j \in Missing : k >= j
    <2>1. Missing \in SUBSET (1..n)
        OBVIOUS
    <2> HIDE DEF Missing
    <2> QED
        BY <1>1, <2>1, GreatestExists
<1>3. \A j \in 1..n : k < j => j \in S
    BY <1>2
<1> QED
    BY <1>2, <1>3

------------------------------------------------------------------------------
(* FlattenSeq *)

\* One step of the function that FlattenSeq is defined by.
Flattened(f, ss, i) == IF i = 1 THEN ss[i] ELSE f[i - 1] \o ss[i]

\* f holds the partial results up to n.
Partial(f, T, ss, n) == f \in [1..n -> Seq(T)] /\ \A i \in 1..n : f[i] = Flattened(f, ss, i)

LEMMA FlattensExists ==
    ASSUME NEW T, NEW ss \in Seq(Seq(T)), NEW n \in 0..Len(ss)
    PROVE  \E f : Partial(f, T, ss, n)
<1> DEFINE Has(k) == \E f : Partial(f, T, ss, k)
           S == {k \in 0..Len(ss) : Has(k)}
<1>1. Len(ss) \in Nat /\ \A i \in 1..Len(ss) : ss[i] \in Seq(T)
    OBVIOUS
<1>2. 0 \in S
    <2>1. Partial([i \in 1..0 |-> << >>], T, ss, 0)
        BY DEF Partial
    <2>2. Has(0)
        BY <2>1
    <2> QED
        BY <1>1, <2>2
<1>3. ASSUME NEW k \in 0..(Len(ss) - 1), k \in S
      PROVE  k + 1 \in S
    <2>1. PICK f : Partial(f, T, ss, k)
        BY <1>3
    <2> DEFINE g == [i \in 1..(k + 1) |-> IF i = k + 1 THEN Flattened(f, ss, i) ELSE f[i]]
    <2>2. Flattened(f, ss, k + 1) \in Seq(T)
        <3>1. ss[k + 1] \in Seq(T)
            BY <1>1
        <3>2. CASE k = 0
            BY <3>1, <3>2 DEF Flattened
        <3>3. CASE k # 0
            <4>1. f[k] \in Seq(T) /\ (k + 1) - 1 = k /\ k + 1 # 1
                BY <2>1, <3>3 DEF Partial
            <4> QED
                BY <3>1, <4>1 DEF Flattened
        <3> QED
            BY <3>2, <3>3
    <2>3. g \in [1..(k + 1) -> Seq(T)]
        BY <2>1, <2>2 DEF Partial
    <2>4. \A i \in 1..k : g[i] = f[i]
        OBVIOUS
    <2>5. g[k + 1] = Flattened(f, ss, k + 1)
        OBVIOUS
    <2> HIDE DEF g
    <2>6. \A i \in 1..k : Flattened(g, ss, i) = Flattened(f, ss, i) /\ f[i] = Flattened(f, ss, i)
        <3>1. \A i \in 1..k : i # 1 => i - 1 \in 1..k /\ g[i - 1] = f[i - 1]
            BY <2>4
        <3> QED
            BY <2>1, <3>1 DEF Flattened, Partial
    <2>7. Flattened(g, ss, k + 1) = Flattened(f, ss, k + 1)
        <3>1. (k + 1) - 1 = k /\ (k + 1 # 1 => k \in 1..k)
            OBVIOUS
        <3> QED
            BY <2>4, <3>1 DEF Flattened
    <2>8. \A i \in 1..(k + 1) : i = k + 1 \/ i \in 1..k
        OBVIOUS
    <2>9. Partial(g, T, ss, k + 1)
        BY <2>3, <2>4, <2>5, <2>6, <2>7, <2>8 DEF Partial
    <2>10. k + 1 \in 0..Len(ss)
        BY <1>1
    <2> QED
        BY <2>9, <2>10
<1> HIDE DEF S
<1>4. 0..Len(ss) \subseteq S
    BY <1>1, <1>2, <1>3, Ladder
<1> QED
    BY <1>4 DEF S

LEMMA FlattensUnique ==
    ASSUME NEW ss, NEW n \in Nat, NEW f, NEW g,
           \A i \in 1..n : f[i] = Flattened(f, ss, i) /\ g[i] = Flattened(g, ss, i)
    PROVE  \A i \in 1..n : f[i] = g[i]
<1> DEFINE S == {k \in 0..n : k = 0 \/ f[k] = g[k]}
<1>1. \A k \in 0..(n - 1) : k \in S => k + 1 \in S
    BY DEF Flattened
<1>2. 0 \in S
    OBVIOUS
<1> HIDE DEF S
<1>3. 0..n \subseteq S
    BY <1>1, <1>2, Ladder
<1> QED
    BY <1>3 DEF S

\* What FlattenSeq of a sequence that is not empty is: the last of its partial results.
LEMMA FlattenSeqIs ==
    ASSUME NEW T, NEW ss, NEW n \in Nat \ {0}, Len(ss) = n, NEW f, Partial(f, T, ss, n)
    PROVE  FlattenSeq(ss) = f[n]
<1> DEFINE Is(g) == g = [i \in 1..n |-> IF i = 1 THEN ss[i] ELSE g[i - 1] \o ss[i]]
           h == CHOOSE g : Is(g)
<1>1. FlattenSeq(ss) = h[n]
    BY DEF FlattenSeq
<1>2. Is(f)
    BY DEF Partial, Flattened
<1>3. Is(h)
    <2> HIDE DEF Is
    <2> QED
        BY <1>2
<1>4. \A i \in 1..n : h[i] = Flattened(h, ss, i)
    <2> HIDE DEF h
    <2> QED
        BY <1>3 DEF Flattened
<1> HIDE DEF h
<1>5. h[n] = f[n]
    <2>1. \A i \in 1..n : f[i] = Flattened(f, ss, i) /\ h[i] = Flattened(h, ss, i)
        BY <1>4 DEF Partial
    <2>2. n \in Nat /\ n \in 1..n
        OBVIOUS
    <2>3. \A i \in 1..n : f[i] = h[i]
        BY <2>1, <2>2, FlattensUnique
    <2> QED
        BY <2>2, <2>3
<1> QED
    BY <1>1, <1>5

LEMMA FlattenEmpty == FlattenSeq(<< >>) = << >>
BY DEF FlattenSeq

\* FlattenSeq of one more sequence.
LEMMA FlattenAppend ==
    ASSUME NEW T, NEW ss \in Seq(Seq(T)), NEW s \in Seq(T)
    PROVE  /\ FlattenSeq(ss) \in Seq(T)
           /\ FlattenSeq(Append(ss, s)) = FlattenSeq(ss) \o s
<1> DEFINE n == Len(ss)
           more == Append(ss, s)
<1>1. /\ n \in Nat /\ more \in Seq(Seq(T)) /\ Len(more) = n + 1
      /\ \A i \in 1..n : more[i] = ss[i]
      /\ more[n + 1] = s
    OBVIOUS
<1>2. n = 0 => ss = << >>
    BY EmptySeq
<1> HIDE DEF more, n
<1>3. PICK f : Partial(f, T, more, n + 1)
    <2>1. n + 1 \in 0..Len(more)
        BY <1>1
    <2> QED
        BY <1>1, <2>1, FlattensExists
<1>4. FlattenSeq(more) = f[n + 1]
    <2>1. n + 1 \in Nat \ {0}
        BY <1>1
    <2> QED
        BY <1>1, <1>3, <2>1, FlattenSeqIs
<1>5. CASE n = 0
    <2>1. f[n + 1] = s
        BY <1>1, <1>3, <1>5 DEF Flattened, Partial
    <2>2. FlattenSeq(ss) = << >>
        BY <1>2, <1>5, FlattenEmpty
    <2> QED
        BY <1>4, <2>1, <2>2, ConcatEmptySeq, EmptySeq DEF more
<1>6. CASE n # 0
    <2> DEFINE g == [i \in 1..n |-> f[i]]
    <2>1. \A i \in 1..n : /\ g[i] = f[i] /\ f[i] = Flattened(f, more, i) /\ f[i] \in Seq(T)
                          /\ i # 1 => i - 1 \in 1..n
        <3>1. \A i \in 1..n : i \in 1..(n + 1) /\ (i # 1 => i - 1 \in 1..n)
            BY <1>1
        <3> QED
            BY <1>3, <3>1 DEF Partial
    <2>2. \A i \in 1..n : Flattened(g, ss, i) = Flattened(f, more, i)
        <3>1. \A i \in 1..n : i # 1 => g[i - 1] = f[i - 1]
            BY <2>1
        <3> HIDE DEF g
        <3>2. \A i \in 1..n : more[i] = ss[i]
            BY <1>1
        <3> QED
            BY <3>1, <3>2 DEF Flattened
    <2>3. g \in [1..n -> Seq(T)]
        BY <2>1
    <2> HIDE DEF g
    <2>4. Partial(g, T, ss, n)
        BY <2>1, <2>2, <2>3 DEF Partial
    <2>5. FlattenSeq(ss) = g[n]
        BY <1>1, <1>6, <2>4, FlattenSeqIs DEF n
    <2>6. f[n + 1] = Flattened(f, more, n + 1)
        BY <1>1, <1>3 DEF Partial
    <2>7. (n + 1) - 1 = n /\ n + 1 # 1 /\ n \in 1..n
        BY <1>1, <1>6
    <2>8. f[n + 1] = f[n] \o s
        BY <1>1, <2>6, <2>7 DEF Flattened
    <2> QED
        BY <1>4, <2>1, <2>5, <2>7, <2>8 DEF more
<1> QED
    BY <1>5, <1>6

LEMMA FlattenType ==
    ASSUME NEW T, NEW ss \in Seq(Seq(T))
    PROVE  FlattenSeq(ss) \in Seq(T)
<1>1. << >> \in Seq(T)
    OBVIOUS
<1> QED
    BY <1>1, FlattenAppend

\* A prefix, and the next one.
LEMMA PrefixStep ==
    ASSUME NEW T, NEW s \in Seq(T), NEW k \in 0..(Len(s) - 1)
    PROVE  /\ SubSeq(s, 1, k) \in Seq(T) /\ s[k + 1] \in T
           /\ SubSeq(s, 1, k + 1) = Append(SubSeq(s, 1, k), s[k + 1])
OBVIOUS

\* FlattenSeq distributes over concatenation.
LEMMA FlattenConcat ==
    ASSUME NEW T, NEW ss \in Seq(Seq(T)), NEW tt \in Seq(Seq(T))
    PROVE  FlattenSeq(ss \o tt) = FlattenSeq(ss) \o FlattenSeq(tt)
<1> DEFINE n == Len(tt)
           Pre(k) == SubSeq(tt, 1, k)
           S == {k \in 0..n : FlattenSeq(ss \o Pre(k)) = FlattenSeq(ss) \o FlattenSeq(Pre(k))}
<1>1. n \in Nat /\ FlattenSeq(ss) \in Seq(T)
    BY FlattenType
<1>2. Pre(0) = << >> /\ Pre(n) = tt
    OBVIOUS
<1>3. 0 \in S
    <2>1. ss \o << >> = ss /\ FlattenSeq(ss) \o << >> = FlattenSeq(ss)
        BY <1>1
    <2>2. FlattenSeq(ss \o Pre(0)) = FlattenSeq(ss) \o FlattenSeq(Pre(0))
        <3> HIDE DEF Pre
        <3> QED
            BY <1>2, <2>1, FlattenEmpty
    <2>3. 0 \in 0..n
        BY <1>1
    <2> QED
        BY <2>2, <2>3
<1>4. ASSUME NEW k \in 0..(n - 1), k \in S
      PROVE  k + 1 \in S
    <2>1. Pre(k) \in Seq(Seq(T)) /\ tt[k + 1] \in Seq(T)
        BY <1>1
    <2>2. Pre(k + 1) = Append(Pre(k), tt[k + 1])
        BY <1>1, PrefixStep
    <2>3. ss \o Append(Pre(k), tt[k + 1]) = Append(ss \o Pre(k), tt[k + 1])
        BY <2>1
    <2>4. ss \o Pre(k) \in Seq(Seq(T))
        BY <2>1
    <2> HIDE DEF Pre
    <2>5. FlattenSeq(Append(ss \o Pre(k), tt[k + 1])) = FlattenSeq(ss \o Pre(k)) \o tt[k + 1]
        BY <2>1, <2>4, FlattenAppend
    <2>6. FlattenSeq(Pre(k + 1)) = FlattenSeq(Pre(k)) \o tt[k + 1]
        BY <2>1, <2>2, FlattenAppend
    <2>7. FlattenSeq(ss \o Pre(k)) = FlattenSeq(ss) \o FlattenSeq(Pre(k))
        BY <1>4
    <2>8. FlattenSeq(Pre(k)) \in Seq(T)
        BY <2>1, FlattenType
    <2>9. \A a, b, c \in Seq(T) : (a \o b) \o c = a \o (b \o c)
        OBVIOUS
    <2>10. (FlattenSeq(ss) \o FlattenSeq(Pre(k))) \o tt[k + 1]
            = FlattenSeq(ss) \o (FlattenSeq(Pre(k)) \o tt[k + 1])
        BY <1>1, <2>1, <2>8, <2>9
    <2>11. FlattenSeq(ss \o Pre(k + 1)) = FlattenSeq(ss) \o FlattenSeq(Pre(k + 1))
        BY <2>2, <2>3, <2>5, <2>6, <2>7, <2>10
    <2> QED
        BY <1>1, <2>11
<1> HIDE DEF S
<1>5. \A k \in 0..(n - 1) : k \in S => k + 1 \in S
    BY <1>4
<1>6. n \in Nat
    BY <1>1
<1> HIDE DEF n
<1>7. 0..n \subseteq S
    BY <1>3, <1>5, <1>6, Ladder
<1>8. n \in S
    BY <1>6, <1>7
<1> QED
    BY <1>2, <1>8 DEF S

LEMMA FlattenOne ==
    ASSUME NEW T, NEW s \in Seq(T)
    PROVE  FlattenSeq(<<s>>) = s
<1>1. Append(<< >>, s) = <<s>> /\ << >> \in Seq(Seq(T)) /\ << >> \o s = s
    OBVIOUS
<1> QED
    BY <1>1, FlattenAppend, FlattenEmpty

\* Where the elements of FlattenSeq(ss) come from: the p-th is that of column col[p] in row
\* row[p], row after row, and each element of each row is somewhere.
ComesFrom(ss, flat, row, col) ==
    /\ row \in [DOMAIN flat -> Nat] /\ col \in [DOMAIN flat -> Nat]
    /\ \A p \in DOMAIN flat : /\ row[p] \in DOMAIN ss /\ col[p] \in DOMAIN ss[row[p]]
                              /\ flat[p] = ss[row[p]][col[p]]
    /\ \A p, q \in DOMAIN flat :
        p < q => row[p] < row[q] \/ (row[p] = row[q] /\ col[p] < col[q])
    /\ \A i \in DOMAIN ss : \A j \in DOMAIN ss[i] : \E p \in DOMAIN flat : row[p] = i /\ col[p] = j

\* One more row.
LEMMA ComesFromAppend ==
    ASSUME NEW T, NEW ss \in Seq(Seq(T)), NEW s \in Seq(T), NEW flat \in Seq(T),
           NEW row, NEW col, ComesFrom(ss, flat, row, col)
    PROVE  \E r, c : ComesFrom(Append(ss, s), flat \o s, r, c)
<1> DEFINE n == Len(ss)
           k == Len(flat)
           l == Len(s)
           more == Append(ss, s)
           all == flat \o s
           r == [p \in 1..(k + l) |-> IF p <= k THEN row[p] ELSE n + 1]
           c == [p \in 1..(k + l) |-> IF p <= k THEN col[p] ELSE p - k]
<1>1. /\ n \in Nat /\ k \in Nat /\ l \in Nat
      /\ DOMAIN ss = 1..n /\ DOMAIN flat = 1..k /\ DOMAIN s = 1..l
      /\ DOMAIN more = 1..(n + 1) /\ DOMAIN all = 1..(k + l)
    OBVIOUS
<1>2. /\ \A i \in 1..n : more[i] = ss[i]
      /\ more[n + 1] = s
      /\ \A p \in 1..k : all[p] = flat[p]
      /\ \A p \in 1..(k + l) : p > k => all[p] = s[p - k]
    OBVIOUS
<1> HIDE DEF n, k, l, more, all, r, c
<1>3. /\ row \in [1..k -> Nat] /\ col \in [1..k -> Nat]
      /\ \A p \in 1..k : row[p] \in 1..n /\ col[p] \in DOMAIN ss[row[p]]
                                         /\ flat[p] = ss[row[p]][col[p]]
      /\ \A p, q \in 1..k : p < q => row[p] < row[q] \/ (row[p] = row[q] /\ col[p] < col[q])
      /\ \A i \in 1..n : \A j \in DOMAIN ss[i] : \E p \in 1..k : row[p] = i /\ col[p] = j
    <2>1. DOMAIN flat = 1..k /\ DOMAIN ss = 1..n /\ ComesFrom(ss, flat, row, col)
        BY <1>1
    <2>2. /\ row \in [1..k -> Nat] /\ col \in [1..k -> Nat]
          /\ \A p \in 1..k : row[p] \in 1..n /\ col[p] \in DOMAIN ss[row[p]]
                                             /\ flat[p] = ss[row[p]][col[p]]
        BY <2>1 DEF ComesFrom
    <2>3. \A p, q \in 1..k : p < q => row[p] < row[q] \/ (row[p] = row[q] /\ col[p] < col[q])
        BY <2>1 DEF ComesFrom
    <2>4. \A i \in 1..n : \A j \in DOMAIN ss[i] : \E p \in 1..k : row[p] = i /\ col[p] = j
        BY <2>1 DEF ComesFrom
    <2> QED
        BY <2>2, <2>3, <2>4
<1>4. /\ \A p \in 1..k : r[p] = row[p] /\ c[p] = col[p] /\ p \in 1..(k + l)
      /\ \A p \in 1..(k + l) : p > k => r[p] = n + 1 /\ c[p] = p - k /\ p - k \in 1..l
      /\ \A p \in 1..(k + l) : p > k \/ p \in 1..k
    BY <1>1 DEF r, c
<1>5. r \in [1..(k + l) -> Nat] /\ c \in [1..(k + l) -> Nat]
    <2>1. \A p \in 1..(k + l) : /\ (IF p <= k THEN row[p] ELSE n + 1) \in Nat
                                /\ (IF p <= k THEN col[p] ELSE p - k) \in Nat
        BY <1>1, <1>3
    <2> QED
        BY <2>1 DEF r, c
<1>6. \A p \in 1..(k + l) : /\ r[p] \in 1..(n + 1) /\ c[p] \in DOMAIN more[r[p]]
                            /\ all[p] = more[r[p]][c[p]]
    <2> SUFFICES ASSUME NEW p \in 1..(k + l)
                 PROVE  /\ r[p] \in 1..(n + 1) /\ c[p] \in DOMAIN more[r[p]]
                        /\ all[p] = more[r[p]][c[p]]
        OBVIOUS
    <2>1. CASE p \in 1..k
        <3>1. row[p] \in 1..n /\ row[p] \in 1..(n + 1) /\ more[row[p]] = ss[row[p]]
            BY <1>1, <1>2, <1>3, <2>1
        <3>2. r[p] = row[p] /\ c[p] = col[p] /\ all[p] = flat[p]
            BY <1>2, <1>4, <2>1
        <3>3. col[p] \in DOMAIN ss[row[p]] /\ flat[p] = ss[row[p]][col[p]]
            BY <1>3, <2>1
        <3> QED
            BY <3>1, <3>2, <3>3, Zenon
    <2>2. CASE p > k
        <3>1. r[p] = n + 1 /\ c[p] = p - k /\ p - k \in 1..l
            BY <1>4, <2>2
        <3>2. n + 1 \in 1..(n + 1)
            BY <1>1
        <3> QED
            BY <1>1, <1>2, <2>2, <3>1, <3>2
    <2> QED
        BY <1>4, <2>1, <2>2
<1>7. \A p, q \in 1..(k + l) : p < q => r[p] < r[q] \/ (r[p] = r[q] /\ c[p] < c[q])
    <2> SUFFICES ASSUME NEW p \in 1..(k + l), NEW q \in 1..(k + l), p < q
                 PROVE  r[p] < r[q] \/ (r[p] = r[q] /\ c[p] < c[q])
        OBVIOUS
    <2>1. CASE q \in 1..k
        <3>1. p \in 1..k
            BY <1>1, <2>1
        <3> QED
            BY <1>3, <1>4, <2>1, <3>1
    <2>2. CASE q > k /\ p \in 1..k
        <3>1. r[p] \in 1..n /\ r[q] = n + 1
            BY <1>3, <1>4, <2>2
        <3> QED
            BY <1>1, <3>1
    <2>3. CASE q > k /\ p > k
        <3>1. r[p] = n + 1 /\ r[q] = n + 1 /\ c[p] = p - k /\ c[q] = q - k
            BY <1>4, <2>3
        <3> QED
            BY <1>1, <3>1
    <2> QED
        BY <1>4, <2>1, <2>2, <2>3
<1>8. \A i \in 1..(n + 1) : \A j \in DOMAIN more[i] :
            \E p \in 1..(k + l) : r[p] = i /\ c[p] = j
    <2> SUFFICES ASSUME NEW i \in 1..(n + 1), NEW j \in DOMAIN more[i]
                 PROVE  \E p \in 1..(k + l) : r[p] = i /\ c[p] = j
        OBVIOUS
    <2>1. CASE i \in 1..n
        <3>1. more[i] = ss[i]
            BY <1>2, <2>1
        <3>2. PICK p \in 1..k : row[p] = i /\ col[p] = j
            BY <1>3, <2>1, <3>1
        <3> QED
            BY <1>4, <3>2
    <2>2. CASE i = n + 1
        <3>1. j \in 1..l
            BY <1>1, <1>2, <2>2
        <3>2. k + j \in 1..(k + l) /\ k + j > k /\ (k + j) - k = j
            BY <1>1, <3>1
        <3>3. r[k + j] = i /\ c[k + j] = j
            BY <1>4, <2>2, <3>2
        <3> QED
            BY <3>2, <3>3
    <2> QED
        BY <1>1, <2>1, <2>2
<1>9. ComesFrom(more, all, r, c)
    <2>1. DOMAIN all = 1..(k + l) /\ DOMAIN more = 1..(n + 1)
        BY <1>1
    <2>2. r \in [DOMAIN all -> Nat] /\ c \in [DOMAIN all -> Nat]
        BY <1>5, <2>1
    <2>3. \A p \in DOMAIN all : /\ r[p] \in DOMAIN more /\ c[p] \in DOMAIN more[r[p]]
                                /\ all[p] = more[r[p]][c[p]]
        BY <1>6, <2>1
    <2>4. \A p, q \in DOMAIN all : p < q => r[p] < r[q] \/ (r[p] = r[q] /\ c[p] < c[q])
        BY <1>7, <2>1
    <2>5. \A i \in DOMAIN more : \A j \in DOMAIN more[i] :
            \E p \in DOMAIN all : r[p] = i /\ c[p] = j
        BY <1>8, <2>1
    <2> QED
        BY <2>2, <2>3, <2>4, <2>5 DEF ComesFrom
<1> QED
    BY <1>9 DEF more, all

LEMMA FlattenPlaces ==
    ASSUME NEW T, NEW ss \in Seq(Seq(T))
    PROVE  \E row, col : ComesFrom(ss, FlattenSeq(ss), row, col)
<1> DEFINE n == Len(ss)
           Pre(k) == SubSeq(ss, 1, k)
           Is(k) == \E row, col : ComesFrom(Pre(k), FlattenSeq(Pre(k)), row, col)
           R == {k \in 0..n : Is(k)}
<1>1. n \in Nat /\ Pre(0) = << >> /\ Pre(n) = ss
    OBVIOUS
<1>2. Is(0)
    <2> DEFINE none == [p \in {} |-> 0]
    <2>1. DOMAIN << >> = {} /\ none \in [{} -> Nat]
        OBVIOUS
    <2>2. ComesFrom(<< >>, << >>, none, none)
        BY <2>1 DEF ComesFrom
    <2> HIDE DEF none, Pre
    <2> QED
        BY <1>1, <2>2, FlattenEmpty
<1>3. ASSUME NEW k \in 0..(n - 1), Is(k)
      PROVE  Is(k + 1)
    <2>1. Pre(k) \in Seq(Seq(T)) /\ ss[k + 1] \in Seq(T)
          /\ Pre(k + 1) = Append(Pre(k), ss[k + 1])
        BY <1>1, PrefixStep
    <2>2. PICK row, col : ComesFrom(Pre(k), FlattenSeq(Pre(k)), row, col)
        BY <1>3
    <2> HIDE DEF Pre
    <2>3. /\ FlattenSeq(Pre(k)) \in Seq(T)
          /\ FlattenSeq(Pre(k + 1)) = FlattenSeq(Pre(k)) \o ss[k + 1]
        BY <2>1, FlattenAppend
    <2>4. \E r, c : ComesFrom(Append(Pre(k), ss[k + 1]), FlattenSeq(Pre(k)) \o ss[k + 1], r, c)
        BY <2>1, <2>2, <2>3, ComesFromAppend
    <2> QED
        BY <2>1, <2>3, <2>4
<1> HIDE DEF Is
<1>4. 0 \in R /\ \A k \in 0..(n - 1) : k \in R => k + 1 \in R
    BY <1>1, <1>2, <1>3
<1> HIDE DEF R, n
<1>5. n \in Nat
    BY <1>1
<1>6. 0..n \subseteq R
    BY <1>4, <1>5, Ladder
<1>7. Is(n)
    BY <1>5, <1>6 DEF R
<1> QED
    BY <1>1, <1>7 DEF Is

LEMMA FlattenRange ==
    ASSUME NEW T, NEW ss \in Seq(Seq(T))
    PROVE  Range(FlattenSeq(ss)) = UNION {Range(ss[i]) : i \in DOMAIN ss}
<1> DEFINE flat == FlattenSeq(ss)
<1>1. PICK row, col : ComesFrom(ss, flat, row, col)
    BY FlattenPlaces
<1> HIDE DEF flat
<1>2. ASSUME NEW p \in DOMAIN flat
      PROVE  flat[p] \in UNION {Range(ss[i]) : i \in DOMAIN ss}
    <2>1. row[p] \in DOMAIN ss /\ flat[p] \in Range(ss[row[p]])
        BY <1>1 DEF ComesFrom, Range
    <2> QED
        BY <2>1
<1>3. ASSUME NEW i \in DOMAIN ss, NEW j \in DOMAIN ss[i]
      PROVE  ss[i][j] \in Range(flat)
    <2>1. PICK p \in DOMAIN flat : row[p] = i /\ col[p] = j
        BY <1>1 DEF ComesFrom
    <2>2. flat[p] = ss[i][j]
        BY <1>1, <2>1 DEF ComesFrom
    <2> QED
        BY <2>2 DEF Range
<1>4. Range(flat) \subseteq UNION {Range(ss[i]) : i \in DOMAIN ss}
    BY <1>2 DEF Range
<1>5. UNION {Range(ss[i]) : i \in DOMAIN ss} \subseteq Range(flat)
    <2> SUFFICES ASSUME NEW i \in DOMAIN ss, NEW x \in Range(ss[i])
                 PROVE  x \in Range(flat)
        OBVIOUS
    <2>1. PICK j \in DOMAIN ss[i] : x = ss[i][j]
        BY DEF Range
    <2> QED
        BY <1>3, <2>1
<1> QED
    BY <1>4, <1>5 DEF flat

\* No element twice.
Once(s) == \A i, j \in DOMAIN s : s[i] = s[j] => i = j

\* One element, and a sequence.
LEMMA ConsFacts ==
    ASSUME NEW T, NEW x \in T, NEW s \in Seq(T)
    PROVE  /\ <<x>> \o s \in Seq(T)
           /\ Range(<<x>> \o s) = {x} \cup Range(s)
           /\ x \notin Range(s) /\ Once(s) => Once(<<x>> \o s)
<1> DEFINE t == <<x>> \o s
           n == Len(s)
<1>1. /\ n \in Nat /\ DOMAIN s = 1..n /\ t \in Seq(T) /\ DOMAIN t = 1..(n + 1)
      /\ t[1] = x /\ \A i \in 1..n : t[i + 1] = s[i]
    OBVIOUS
<1>2. \A i \in 1..(n + 1) : i # 1 => i - 1 \in 1..n /\ t[i] = s[i - 1]
    <2> SUFFICES ASSUME NEW i \in 1..(n + 1), i # 1
                 PROVE  i - 1 \in 1..n /\ t[i] = s[i - 1]
        OBVIOUS
    <2>1. i - 1 \in 1..n /\ (i - 1) + 1 = i
        BY <1>1
    <2> HIDE DEF t, n
    <2> QED
        BY <1>1, <2>1
<1>3. \A i \in 1..n : i + 1 \in 1..(n + 1)
    BY <1>1
<1>4. 1 \in 1..(n + 1)
    BY <1>1
<1> HIDE DEF t, n
<1>5. Range(t) \subseteq {x} \cup Range(s)
    BY <1>1, <1>2 DEF Range
<1>6. {x} \cup Range(s) \subseteq Range(t)
    <2>1. x \in Range(t)
        BY <1>1, <1>4 DEF Range
    <2>2. \A i \in DOMAIN s : s[i] \in Range(t)
        <3> SUFFICES ASSUME NEW i \in 1..n
                     PROVE  s[i] \in Range(t)
            BY <1>1
        <3>1. i + 1 \in DOMAIN t /\ t[i + 1] = s[i]
            BY <1>1, <1>3
        <3> QED
            BY <3>1 DEF Range
    <2> QED
        BY <2>1, <2>2 DEF Range
<1>7. ASSUME x \notin Range(s), Once(s)
      PROVE  Once(t)
    <2>1. \A i \in 1..n : s[i] # x
        BY <1>1, <1>7 DEF Range
    <2>2. ASSUME NEW i \in 1..(n + 1), NEW j \in 1..(n + 1), t[i] = t[j]
          PROVE  i = j
        <3>1. CASE i = 1 \/ j = 1
            BY <1>1, <1>2, <2>1, <2>2, <3>1
        <3>2. CASE i # 1 /\ j # 1
            <4>1. i - 1 \in 1..n /\ j - 1 \in 1..n /\ s[i - 1] = s[j - 1]
                BY <1>2, <2>2, <3>2
            <4>2. i - 1 = j - 1
                BY <1>1, <1>7, <4>1 DEF Once
            <4> QED
                BY <1>1, <4>2
        <3> QED
            BY <3>1, <3>2
    <2> QED
        BY <1>1, <2>2 DEF Once
<1> QED
    BY <1>1, <1>5, <1>6, <1>7 DEF t

\* Rows without repetitions that have no element in common give a sequence without any.
LEMMA FlattenOnce ==
    ASSUME NEW T, NEW ss \in Seq(Seq(T)), \A i \in DOMAIN ss : Once(ss[i]),
           \A i, k \in DOMAIN ss : i # k => Range(ss[i]) \cap Range(ss[k]) = {}
    PROVE  Once(FlattenSeq(ss))
<1> DEFINE flat == FlattenSeq(ss)
<1>1. PICK row, col : ComesFrom(ss, flat, row, col)
    BY FlattenPlaces
<1>2. flat \in Seq(T)
    BY FlattenType
<1> HIDE DEF flat
<1>3. ASSUME NEW p \in DOMAIN flat, NEW q \in DOMAIN flat, flat[p] = flat[q], p < q
      PROVE  FALSE
    <2>1. /\ row[p] \in DOMAIN ss /\ col[p] \in DOMAIN ss[row[p]] /\ flat[p] = ss[row[p]][col[p]]
          /\ row[q] \in DOMAIN ss /\ col[q] \in DOMAIN ss[row[q]] /\ flat[q] = ss[row[q]][col[q]]
          /\ row[p] < row[q] \/ (row[p] = row[q] /\ col[p] < col[q])
          /\ row[p] \in Nat /\ row[q] \in Nat /\ col[p] \in Nat /\ col[q] \in Nat
        BY <1>1, <1>3 DEF ComesFrom
    <2>2. flat[p] \in Range(ss[row[p]]) \cap Range(ss[row[q]])
        BY <1>3, <2>1 DEF Range
    <2>3. row[p] = row[q]
        BY <2>1, <2>2
    <2>4. col[p] = col[q]
        BY <1>3, <2>1, <2>3 DEF Once
    <2> QED
        BY <2>1, <2>3, <2>4
<1>4. \A p, q \in DOMAIN flat : p < q \/ q < p \/ p = q
    BY <1>2
<1>5. Once(flat)
    BY <1>3, <1>4 DEF Once
<1> QED
    BY <1>5 DEF flat

\* Rows of at most one element: which rows the elements of FlattenSeq(ss) come from.
Singles(ss, flat, from) ==
    /\ from \in [DOMAIN flat -> DOMAIN ss]
    /\ \A p \in DOMAIN flat : ss[from[p]] = <<flat[p]>>
    /\ \A p, q \in DOMAIN flat : p < q => from[p] < from[q]
    /\ \A i \in DOMAIN ss : ss[i] # << >> => \E p \in DOMAIN flat : from[p] = i

LEMMA FlattenSingles ==
    ASSUME NEW T, NEW ss \in Seq(Seq(T)), \A i \in DOMAIN ss : Len(ss[i]) <= 1
    PROVE  \E from : Singles(ss, FlattenSeq(ss), from)
<1> DEFINE flat == FlattenSeq(ss)
<1>1. PICK row, col : ComesFrom(ss, flat, row, col)
    BY FlattenPlaces
<1> HIDE DEF flat
<1>2. \A i \in DOMAIN ss : \A j \in DOMAIN ss[i] : j = 1 /\ ss[i] = <<ss[i][1]>>
    <2> SUFFICES ASSUME NEW i \in DOMAIN ss, NEW j \in DOMAIN ss[i]
                 PROVE  j = 1 /\ ss[i] = <<ss[i][1]>>
        OBVIOUS
    <2>1. ss[i] \in Seq(T) /\ Len(ss[i]) <= 1
        OBVIOUS
    <2>2. Len(ss[i]) \in Nat /\ DOMAIN ss[i] = 1..Len(ss[i]) /\ j \in DOMAIN ss[i]
        BY <2>1
    <2>3. Len(ss[i]) = 1 /\ DOMAIN ss[i] = 1..1
        BY <2>1, <2>2
    <2> QED
        BY <2>1, <2>3
<1>3. \A p \in DOMAIN flat : row[p] \in DOMAIN ss /\ col[p] = 1 /\ ss[row[p]] = <<flat[p]>>
    BY <1>1, <1>2 DEF ComesFrom
<1>4. row \in [DOMAIN flat -> DOMAIN ss]
    BY <1>1, <1>3 DEF ComesFrom
<1>5. \A p, q \in DOMAIN flat : p < q => row[p] < row[q]
    BY <1>1, <1>3 DEF ComesFrom
<1>6. ASSUME NEW i \in DOMAIN ss, ss[i] # << >>
      PROVE  \E p \in DOMAIN flat : row[p] = i
    <2>1. 1 \in DOMAIN ss[i]
        <3>1. ss[i] \in Seq(T)
            OBVIOUS
        <3>2. Len(ss[i]) # 0 /\ Len(ss[i]) \in Nat /\ DOMAIN ss[i] = 1..Len(ss[i])
            BY <1>6, <3>1, EmptySeq
        <3> QED
            BY <3>2
    <2> QED
        BY <1>1, <2>1 DEF ComesFrom
<1>7. Singles(ss, flat, row)
    BY <1>3, <1>4, <1>5, <1>6 DEF Singles
<1> QED
    BY <1>7 DEF flat

LEMMA UpTo ==
    ASSUME NEW n \in Nat
    PROVE  IsFiniteSet(1..n) /\ Cardinality(1..n) = n
<1>1. 1 \in Int /\ n \in Int
    OBVIOUS
<1>2. IsFiniteSet(1..n) /\ Cardinality(1..n) = IF 1 > n THEN 0 ELSE n - 1 + 1
    BY <1>1, FS_Interval, Zenon
<1>3. (1 > n /\ n = 0) \/ (~(1 > n) /\ n - 1 + 1 = n)
    OBVIOUS
<1> QED
    BY <1>2, <1>3, SMT

\* As many elements as there are rows that have one.
LEMMA SinglesCount ==
    ASSUME NEW T, NEW ss \in Seq(Seq(T)), NEW flat \in Seq(T), NEW from, Singles(ss, flat, from)
    PROVE  Len(flat) = Cardinality({i \in DOMAIN ss : ss[i] # << >>})
<1> DEFINE full == {i \in DOMAIN ss : ss[i] # << >>}
<1>1. DOMAIN flat = 1..Len(flat) /\ Len(flat) \in Nat
    OBVIOUS
<1>2. \A p \in DOMAIN flat : from[p] \in full
    <2>1. \A x : <<x>> # << >>
        OBVIOUS
    <2> QED
        BY <2>1 DEF Singles
<1>3. from \in [DOMAIN flat -> full]
    BY <1>2 DEF Singles
<1>4. \A i \in full : \E p \in DOMAIN flat : from[p] = i
    BY DEF Singles
<1>5. \A p, q \in DOMAIN flat : from[p] = from[q] => p = q
    <2>1. DOMAIN ss \subseteq Nat
        OBVIOUS
    <2>2. \A p \in DOMAIN flat : from[p] \in Nat
        BY <1>3, <2>1
    <2>3. \A p, q \in DOMAIN flat : p < q \/ q < p \/ p = q
        BY <1>1
    <2>4. \A p, q \in DOMAIN flat : p < q => from[p] < from[q]
        BY DEF Singles
    <2>5. \A p, q \in DOMAIN flat : p < q => from[p] # from[q]
        BY <2>2, <2>4
    <2> QED
        BY <2>3, <2>5, Zenon
<1> HIDE DEF full
<1>6. from \in Surjection(DOMAIN flat, full) /\ from \in Injection(DOMAIN flat, full)
    BY <1>3, <1>4, <1>5 DEF Surjection, Injection, IsInjective
<1>7. IsFiniteSet(DOMAIN flat) /\ Cardinality(DOMAIN flat) = Len(flat)
    <2>1. IsFiniteSet(1..Len(flat)) /\ Cardinality(1..Len(flat)) = Len(flat)
        BY <1>1, UpTo
    <2> QED
        BY <1>1, <2>1, Zenon
<1>8. Cardinality(full) = Cardinality(DOMAIN flat)
    BY <1>6, <1>7, FS_Surjection
<1> QED
    BY <1>7, <1>8 DEF full

------------------------------------------------------------------------------
(* The members of a sequence that are in a set *)

Members(s, S) == [i \in DOMAIN s |-> IF s[i] \in S THEN <<s[i]>> ELSE << >>]
Kept(s, S) == FlattenSeq(Members(s, S))

\* The elements of a concatenation.
LEMMA ConcatElements ==
    ASSUME NEW U, NEW b \in Seq(U), NEW c \in Seq(U), NEW i \in 1..(Len(b) + Len(c))
    PROVE  (b \o c)[i] = IF i <= Len(b) THEN b[i] ELSE c[i - Len(b)]
OBVIOUS

LEMMA MembersConcat ==
    ASSUME NEW U, NEW S, NEW s \in Seq(U), NEW t \in Seq(U)
    PROVE  /\ Members(s, S) \in Seq(Seq(S))
           /\ Members(s \o t, S) = Members(s, S) \o Members(t, S)
<1>1. \A u \in Seq(U) : Members(u, S) \in Seq(Seq(S)) /\ Len(Members(u, S)) = Len(u)
    <2> SUFFICES ASSUME NEW u \in Seq(U)
                 PROVE  Members(u, S) \in Seq(Seq(S)) /\ Len(Members(u, S)) = Len(u)
        OBVIOUS
    <2>1. DOMAIN u = 1..Len(u) /\ Len(u) \in Nat
        OBVIOUS
    <2>2. \A i \in 1..Len(u) : (IF u[i] \in S THEN <<u[i]>> ELSE << >>) \in Seq(S)
        OBVIOUS
    <2> QED
        BY <2>1, <2>2, IsASeq DEF Members
<1>2. /\ \A i \in 1..Len(s) : Members(s, S)[i] = Members(s \o t, S)[i]
      /\ \A i \in 1..Len(t) : Members(t, S)[i] = Members(s \o t, S)[Len(s) + i]
    BY DEF Members
<1>3. s \o t \in Seq(U) /\ Len(s \o t) = Len(s) + Len(t) /\ Len(s) \in Nat /\ Len(t) \in Nat
    OBVIOUS
<1> DEFINE a == Members(s \o t, S)
           b == Members(s, S)
           c == Members(t, S)
<1>4. /\ a \in Seq(Seq(S)) /\ b \in Seq(Seq(S)) /\ c \in Seq(Seq(S))
      /\ Len(a) = Len(s) + Len(t) /\ Len(b) = Len(s) /\ Len(c) = Len(t)
    BY <1>1, <1>3
<1> HIDE DEF a, b, c
<1>5. b \o c \in Seq(Seq(S)) /\ Len(b \o c) = Len(s) + Len(t)
    BY <1>4
<1>6. \A i \in 1..(Len(s) + Len(t)) : a[i] = (b \o c)[i]
    <2> SUFFICES ASSUME NEW i \in 1..(Len(s) + Len(t)) PROVE a[i] = (b \o c)[i]
        OBVIOUS
    <2>1. CASE i \in 1..Len(s)
        <3>1. (b \o c)[i] = b[i]
            BY <1>3, <1>4, <2>1
        <3> QED
            BY <1>2, <2>1, <3>1 DEF a, b
    <2>2. CASE i \notin 1..Len(s)
        <3>1. i - Len(s) \in 1..Len(t) /\ Len(s) + (i - Len(s)) = i
            BY <1>3, <2>2
        <3>2. i \in 1..(Len(b) + Len(c)) /\ ~(i <= Len(b))
            BY <1>3, <1>4, <2>2
        <3>3. (b \o c)[i] = c[i - Len(b)]
            BY <1>4, <3>2, ConcatElements
        <3> QED
            BY <1>2, <1>4, <3>1, <3>3 DEF a, c
    <2> QED
        BY <2>1, <2>2
<1> QED
    BY <1>4, <1>5, <1>6, SeqEqual DEF a, b, c

LEMMA KeptConcat ==
    ASSUME NEW U, NEW S, NEW s \in Seq(U), NEW t \in Seq(U)
    PROVE  Kept(s, S) \in Seq(S) /\ Kept(s \o t, S) = Kept(s, S) \o Kept(t, S)
<1>1. Members(s, S) \in Seq(Seq(S)) /\ Members(t, S) \in Seq(Seq(S))
    BY MembersConcat
<1>2. Members(s \o t, S) = Members(s, S) \o Members(t, S)
    BY MembersConcat
<1> QED
    BY <1>1, <1>2, FlattenConcat, FlattenType DEF Kept

LEMMA KeptOne ==
    ASSUME NEW x, NEW S
    PROVE  /\ x \in S => Kept(<<x>>, S) = <<x>>
           /\ x \notin S => Kept(<<x>>, S) = << >>
<1>1. Members(<<x>>, S) = <<IF x \in S THEN <<x>> ELSE << >> >>
    BY DEF Members
<1>2. (IF x \in S THEN <<x>> ELSE << >>) \in Seq(S)
    OBVIOUS
<1> QED
    BY <1>1, <1>2, FlattenOne DEF Kept

LEMMA KeptEmpty == ASSUME NEW S PROVE Kept(<< >>, S) = << >>
BY FlattenEmpty DEF Kept, Members

LEMMA KeptAppend ==
    ASSUME NEW U, NEW S, NEW s \in Seq(U), NEW x \in U
    PROVE  /\ x \in S => Kept(Append(s, x), S) = Append(Kept(s, S), x)
           /\ x \notin S => Kept(Append(s, x), S) = Kept(s, S)
<1>1. Append(s, x) = s \o <<x>> /\ <<x>> \in Seq(U)
    OBVIOUS
<1>2. Kept(s, S) \in Seq(S) /\ Kept(s \o <<x>>, S) = Kept(s, S) \o Kept(<<x>>, S)
    BY <1>1, KeptConcat
<1>3. Kept(s, S) \o << >> = Kept(s, S) /\ (x \in S => Kept(s, S) \o <<x>> = Append(Kept(s, S), x))
    BY <1>2
<1> QED
    BY <1>1, <1>2, <1>3, KeptOne

LEMMA KeptTail ==
    ASSUME NEW U, NEW S, NEW s \in Seq(U), s # << >>
    PROVE  /\ Head(s) \in S => /\ Kept(s, S) # << >> /\ Head(Kept(s, S)) = Head(s)
                               /\ Kept(Tail(s), S) = Tail(Kept(s, S))
           /\ Head(s) \notin S => Kept(Tail(s), S) = Kept(s, S)
<1>1. s = <<Head(s)>> \o Tail(s) /\ <<Head(s)>> \in Seq(U) /\ Tail(s) \in Seq(U)
    OBVIOUS
<1> DEFINE h == Head(s)
           t == Tail(s)
<1> HIDE DEF h, t
<1>2. Kept(s, S) = Kept(<<h>>, S) \o Kept(t, S) /\ Kept(t, S) \in Seq(S)
    BY <1>1, KeptConcat DEF h, t
<1>3. << >> \o Kept(t, S) = Kept(t, S)
    BY <1>2
<1>4. h \in S => /\ <<h>> \o Kept(t, S) # << >> /\ Head(<<h>> \o Kept(t, S)) = h
                 /\ Tail(<<h>> \o Kept(t, S)) = Kept(t, S)
    BY <1>2
<1> QED
    BY <1>2, <1>3, <1>4, KeptOne DEF h, t

LEMMA RangeType == ASSUME NEW T, NEW s \in Seq(T) PROVE Range(s) \subseteq T
BY DEF Range

LEMMA AppendRange ==
    ASSUME NEW U, NEW s \in Seq(U), NEW x \in U
    PROVE  Range(Append(s, x)) = Range(s) \cup {x}
<1>1. /\ Len(s) \in Nat /\ DOMAIN s = 1..Len(s)
      /\ DOMAIN Append(s, x) = 1..(Len(s) + 1)
      /\ \A i \in 1..Len(s) : Append(s, x)[i] = s[i]
      /\ Append(s, x)[Len(s) + 1] = x
    OBVIOUS
<1> DEFINE n == Len(s)
           a == Append(s, x)
<1> HIDE DEF n, a
<1>2. /\ n \in Nat /\ DOMAIN s = 1..n /\ DOMAIN a = 1..(n + 1)
      /\ \A i \in 1..n : a[i] = s[i]
      /\ a[n + 1] = x
    BY <1>1 DEF n, a
<1>3. 1..(n + 1) = (1..n) \cup {n + 1}
    BY <1>2
<1>4. {a[i] : i \in (1..n) \cup {n + 1}} = {s[i] : i \in 1..n} \cup {x}
    BY <1>2
<1> QED
    BY <1>2, <1>3, <1>4 DEF Range, a

LEMMA KeptRange ==
    ASSUME NEW U, NEW S, NEW s \in Seq(U)
    PROVE  Range(Kept(s, S)) = Range(s) \cap S
<1> DEFINE n == Len(s)
           Pre(k) == SubSeq(s, 1, k)
           Is(k) == Range(Kept(Pre(k), S)) = Range(Pre(k)) \cap S
           R == {k \in 0..n : Is(k)}
<1>1. n \in Nat /\ Pre(0) = << >> /\ Pre(n) = s
    OBVIOUS
<1>2. Is(0)
    <2>1. Kept(<< >>, S) = << >> /\ Range(<< >>) = {}
        BY KeptEmpty DEF Range
    <2> QED
        BY <1>1, <2>1
<1>3. ASSUME NEW k \in 0..(n - 1), Is(k)
      PROVE  Is(k + 1)
    <2> DEFINE q == Pre(k)
               x == s[k + 1]
    <2>1. q \in Seq(U) /\ x \in U /\ Pre(k + 1) = Append(q, x)
        BY <1>1
    <2>2. Range(Kept(q, S)) = Range(q) \cap S
        BY <1>3
    <2> HIDE DEF Pre, q, x
    <2>3. Range(Append(q, x)) = Range(q) \cup {x}
        BY <2>1, AppendRange
    <2>4. Kept(q, S) \in Seq(S)
        BY <2>1, KeptConcat
    <2>5. CASE x \in S
        <3>1. Kept(Append(q, x), S) = Append(Kept(q, S), x)
            BY <2>1, <2>5, KeptAppend
        <3>2. Range(Append(Kept(q, S), x)) = Range(Kept(q, S)) \cup {x}
            BY <2>4, <2>5, AppendRange
        <3> QED
            BY <2>1, <2>2, <2>3, <2>5, <3>1, <3>2
    <2>6. CASE x \notin S
        <3>1. Kept(Append(q, x), S) = Kept(q, S)
            BY <2>1, <2>6, KeptAppend
        <3>2. (Range(q) \cup {x}) \cap S = Range(q) \cap S
            BY <2>6
        <3> QED
            BY <2>1, <2>2, <2>3, <3>1, <3>2
    <2> QED
        BY <2>5, <2>6
<1> HIDE DEF Is
<1>4. 0 \in R /\ \A k \in 0..(n - 1) : k \in R => k + 1 \in R
    BY <1>1, <1>2, <1>3
<1> HIDE DEF R, n
<1>5. n \in Nat
    BY <1>1
<1>6. 0..n \subseteq R
    BY <1>4, <1>5, Ladder
<1>7. Is(n)
    BY <1>5, <1>6 DEF R
<1> QED
    BY <1>1, <1>7 DEF Is
=============================================================================
