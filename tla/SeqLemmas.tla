----------------------------- MODULE SeqLemmas ------------------------------
(***************************************************************************)
(* What the proofs need to know of SumSeq and of FlattenSeq: what they     *)
(* give for the empty sequence, when an element is added at the end, and   *)
(* when one is taken from the head.  Both are recursive functions; each    *)
(* fact about them is shown by taking the least index where it fails.      *)
(***************************************************************************)
EXTENDS SeqSum, SequencesExt, SequenceTheorems, WellFoundedInduction, TLAPS

\* A non-empty set of natural numbers has a least element.
LEMMA LeastNat ==
  ASSUME NEW T, T \subseteq Nat, T # {}
  PROVE  \E m \in T : \A k \in T : m <= k
<1>1. PICK m \in T : \A k \in T : ~ (<<k, m>> \in OpToRel(<, Nat))
  BY NatLessThanWellFounded, WFMin
<1>2. \A k \in T : ~ (k < m)
  BY <1>1 DEF OpToRel
<1> QED BY <1>2

\* Concatenation under a name of its own: the SMT backend expands every equation
\* between concatenations into one about elements, which it cannot use as a fact.
Cat(a, b) == a \o b

LEMMA CatType ==
  ASSUME NEW S, NEW a \in Seq(S), NEW b \in Seq(S)
  PROVE  Cat(a, b) \in Seq(S) /\ Len(Cat(a, b)) = Len(a) + Len(b)
BY DEF Cat

LEMMA CatEmpty ==
  ASSUME NEW S, NEW a \in Seq(S)
  PROVE  Cat(a, <<>>) = a /\ Cat(<<>>, a) = a
BY ConcatEmptySeq DEF Cat

LEMMA CatAssociative ==
  ASSUME NEW S, NEW a \in Seq(S), NEW b \in Seq(S), NEW c \in Seq(S)
  PROVE  Cat(Cat(a, b), c) = Cat(a, Cat(b, c))
BY ConcatAssociative DEF Cat

-----------------------------------------------------------------------------
(* SumSeq. *)

\* f adds up the first n elements of s, as the local function of SumSeq does.
AddsUp(f, s, n) == f = [i \in 0..n |-> IF i = 0 THEN 0 ELSE f[i - 1] + s[i]]

\* There is such a function.
LEMMA AddsUpExists ==
  ASSUME NEW s, NEW n \in Nat
  PROVE  \E f : AddsUp(f, s, n)
<1> DEFINE Bad == {k \in Nat : ~ \E f : AddsUp(f, s, k)}
<1>1. SUFFICES ASSUME Bad # {} PROVE FALSE
  OBVIOUS
<1>2. PICK m \in Bad : \A k \in Bad : m <= k
  <2>1. Bad \subseteq Nat
    OBVIOUS
  <2> HIDE DEF Bad
  <2> QED BY <1>1, <2>1, LeastNat
<1>3. CASE m = 0
  <2> DEFINE g == [i \in 0..0 |-> 0]
  <2>1. AddsUp(g, s, 0)
    BY DEF AddsUp
  <2> QED BY <1>2, <1>3, <2>1
<1>4. CASE m # 0
  <2>1. m - 1 \in Nat /\ m \in Nat
    BY <1>4
  <2>2. PICK f : AddsUp(f, s, m - 1)
    BY <1>2, <2>1
  <2> DEFINE g == [i \in 0..m |-> IF i = 0 THEN 0 ELSE f[i - 1] + s[i]]
  <2>3. ASSUME NEW i \in 0..m, i # 0 PROVE g[i - 1] = f[i - 1]
    <3>1. i - 1 \in 0..(m - 1) /\ i - 1 \in 0..m
      BY <2>1, <2>3
    <3>2. f[i - 1] = IF i - 1 = 0 THEN 0 ELSE f[(i - 1) - 1] + s[i - 1]
      BY <2>2, <3>1 DEF AddsUp
    <3> QED BY <3>1, <3>2
  <2>4. g = [i \in 0..m |-> IF i = 0 THEN 0 ELSE g[i - 1] + s[i]]
    <3> HIDE DEF g
    <3>1. g = [i \in 0..m |-> IF i = 0 THEN 0 ELSE f[i - 1] + s[i]]
      BY DEF g
    <3> QED BY <2>3, <3>1
  <2>5. AddsUp(g, s, m)
    BY <2>4 DEF AddsUp
  <2> QED BY <1>2, <2>5
<1> QED BY <1>3, <1>4

\* SumSeq is the last value of it.
LEMMA SumSeqUnfold ==
  ASSUME NEW s, Len(s) \in Nat
  PROVE  \E f : AddsUp(f, s, Len(s)) /\ SumSeq(s) = f[Len(s)]
<1> DEFINE f == CHOOSE f : AddsUp(f, s, Len(s))
<1>1. AddsUp(f, s, Len(s))
  BY AddsUpExists
<1>2. SumSeq(s) = f[Len(s)]
  BY DEF SumSeq, AddsUp
<1> QED BY <1>1, <1>2

\* The partial sums of numbers are numbers.
LEMMA AddsUpNat ==
  ASSUME NEW s, NEW n \in Nat, \A i \in 1..n : s[i] \in Nat, NEW f, AddsUp(f, s, n)
  PROVE  \A k \in 0..n : f[k] \in Nat
<1> DEFINE Bad == {k \in 0..n : f[k] \notin Nat}
<1>1. SUFFICES ASSUME Bad # {} PROVE FALSE
  OBVIOUS
<1>2. PICK m \in Bad : \A k \in Bad : m <= k
  <2>1. Bad \subseteq Nat
    OBVIOUS
  <2> HIDE DEF Bad
  <2> QED BY <1>1, <2>1, LeastNat
<1>3. f[m] = IF m = 0 THEN 0 ELSE f[m - 1] + s[m]
  BY <1>2 DEF AddsUp
<1>4. m # 0 /\ m \in 1..n /\ m - 1 \in 0..n
  BY <1>2, <1>3
<1>5. f[m - 1] \in Nat
  BY <1>2, <1>4
<1> QED BY <1>2, <1>3, <1>4, <1>5

\* The sum of the first k elements depends on these elements only.
LEMMA AddsUpAgree ==
  ASSUME NEW s, NEW n \in Nat, NEW f, AddsUp(f, s, n),
         NEW t, NEW l \in Nat, NEW g, AddsUp(g, t, l),
         NEW k \in Nat, k <= n, k <= l, \A i \in 1..k : s[i] = t[i]
  PROVE  f[k] = g[k]
<1> DEFINE Bad == {i \in 0..k : f[i] # g[i]}
<1>1. SUFFICES ASSUME Bad # {} PROVE FALSE
  OBVIOUS
<1>2. PICK m \in Bad : \A i \in Bad : m <= i
  <2>1. Bad \subseteq Nat
    OBVIOUS
  <2> HIDE DEF Bad
  <2> QED BY <1>1, <2>1, LeastNat
<1>3. m \in 0..n /\ m \in 0..l /\ m \in 0..k
  BY <1>2
<1>4. /\ f[m] = IF m = 0 THEN 0 ELSE f[m - 1] + s[m]
      /\ g[m] = IF m = 0 THEN 0 ELSE g[m - 1] + t[m]
  BY <1>3 DEF AddsUp
<1>5. m # 0 /\ m \in 1..k /\ m - 1 \in 0..k
  BY <1>2, <1>3, <1>4
<1>6. f[m - 1] = g[m - 1]
  BY <1>2, <1>5
<1> QED BY <1>2, <1>4, <1>5, <1>6

\* Nothing adds up to 0.
LEMMA SumEmpty == SumSeq(<<>>) = 0
<1>1. Len(<<>>) = 0
  BY EmptySeq
<1>2. PICK f : AddsUp(f, <<>>, 0) /\ SumSeq(<<>>) = f[0]
  BY <1>1, SumSeqUnfold
<1> QED BY <1>2 DEF AddsUp

\* A sum of natural numbers is one.
LEMMA SumNat ==
  ASSUME NEW s \in Seq(Nat)
  PROVE  SumSeq(s) \in Nat
<1>1. Len(s) \in Nat /\ \A i \in 1..Len(s) : s[i] \in Nat
  BY LenProperties, ElementOfSeq
<1>2. PICK f : AddsUp(f, s, Len(s)) /\ SumSeq(s) = f[Len(s)]
  BY <1>1, SumSeqUnfold
<1>3. \A k \in 0..Len(s) : f[k] \in Nat
  BY <1>1, <1>2, AddsUpNat
<1> QED BY <1>1, <1>2, <1>3

\* An element added at the end adds to the sum.
LEMMA SumAppend ==
  ASSUME NEW s \in Seq(Nat), NEW x \in Nat
  PROVE  SumSeq(Append(s, x)) = SumSeq(s) + x
<1> DEFINE n == Len(s)
           t == Append(s, x)
<1>1. n \in Nat /\ Len(t) = n + 1 /\ t[n + 1] = x /\ \A i \in 1..n : t[i] = s[i]
  BY LenProperties, AppendProperties
<1>2. PICK f : AddsUp(f, s, n) /\ SumSeq(s) = f[n]
  BY <1>1, SumSeqUnfold
<1> HIDE DEF n, t
<1>3. PICK g : AddsUp(g, t, n + 1) /\ SumSeq(t) = g[n + 1]
  <2>1. Len(t) \in Nat
    BY <1>1
  <2> QED BY <1>1, <2>1, SumSeqUnfold
<1>4. g[n + 1] = g[n] + x
  BY <1>1, <1>3 DEF AddsUp
<1>5. f[n] = g[n]
  BY <1>1, <1>2, <1>3, AddsUpAgree
<1> QED BY <1>2, <1>3, <1>4, <1>5 DEF t

\* The head is a summand: the rest adds up to what is left.
LEMMA SumTail ==
  ASSUME NEW s \in Seq(Nat), s # <<>>
  PROVE  SumSeq(s) = Head(s) + SumSeq(Tail(s))
<1> DEFINE n == Len(s)
           t == Tail(s)
<1>1. /\ n \in Nat \ {0} /\ Len(t) = n - 1 /\ Head(s) = s[1]
      /\ \A i \in 1..n : s[i] \in Nat
      /\ \A i \in 1..(n - 1) : t[i] = s[i + 1]
  BY EmptySeq, LenProperties, ElementOfSeq, HeadTailProperties
<1>2. PICK f : AddsUp(f, s, n) /\ SumSeq(s) = f[n]
  BY <1>1, SumSeqUnfold
<1> HIDE DEF n, t
<1>3. PICK g : AddsUp(g, t, n - 1) /\ SumSeq(t) = g[n - 1]
  <2>1. Len(t) \in Nat
    BY <1>1
  <2> QED BY <1>1, <2>1, SumSeqUnfold
<1>4. (\A k \in 0..n : f[k] \in Nat) /\ (\A k \in 0..(n - 1) : g[k] \in Nat)
  <2>1. ASSUME NEW i \in 1..(n - 1) PROVE t[i] \in Nat
    <3>1. i + 1 \in 1..n
      BY <1>1
    <3> QED BY <1>1, <3>1
  <2>2. n \in Nat /\ n - 1 \in Nat
    BY <1>1
  <2>3. \A k \in 0..n : f[k] \in Nat
    BY <1>1, <1>2, <2>2, AddsUpNat
  <2>4. \A k \in 0..(n - 1) : g[k] \in Nat
    BY <1>3, <2>1, <2>2, AddsUpNat
  <2> QED BY <2>3, <2>4
<1> DEFINE Bad == {k \in 0..(n - 1) : f[k + 1] # s[1] + g[k]}
<1>5. Bad = {}
  <2>1. SUFFICES ASSUME Bad # {} PROVE FALSE
    OBVIOUS
  <2>2. PICK m \in Bad : \A k \in Bad : m <= k
    <3>1. Bad \subseteq Nat
      BY <1>1
    <3> HIDE DEF Bad
    <3> QED BY <2>1, <3>1, LeastNat
  <2>3. m \in 0..(n - 1) /\ m + 1 \in 1..n /\ m + 1 # 0 /\ (m + 1) - 1 = m /\ m \in 0..n
    BY <1>1, <2>2
  <2>4. f[m + 1] = f[m] + s[m + 1]
    BY <1>2, <2>3 DEF AddsUp
  <2>5. CASE m = 0
    <3>1. f[0] = 0 /\ g[0] = 0
      BY <1>1, <1>2, <1>3 DEF AddsUp
    <3>2. f[1] = f[0] + s[1]
      BY <2>4, <2>5
    <3> QED BY <1>1, <2>2, <2>5, <3>1, <3>2
  <2>6. CASE m # 0
    <3>1. m - 1 \in 0..(n - 1) /\ (m - 1) + 1 = m /\ m \in 1..(n - 1)
      BY <2>3, <2>6, <1>1
    <3>2. f[m] = s[1] + g[m - 1]
      BY <2>2, <3>1, <1>1
    <3>3. g[m] = g[m - 1] + t[m]
      BY <1>3, <2>3, <2>6 DEF AddsUp
    <3>4. g[m - 1] \in Nat /\ s[1] \in Nat /\ s[m + 1] \in Nat /\ t[m] = s[m + 1]
      BY <1>1, <1>4, <2>3, <3>1
    <3>5. f[m + 1] = s[1] + g[m]
      BY <2>4, <3>2, <3>3, <3>4
    <3> QED BY <2>2, <3>5
  <2> QED BY <2>5, <2>6
<1>6. f[(n - 1) + 1] = s[1] + g[n - 1]
  BY <1>1, <1>5
<1>7. (n - 1) + 1 = n
  BY <1>1
<1> QED BY <1>1, <1>2, <1>3, <1>6, <1>7 DEF t

-----------------------------------------------------------------------------
(* FlattenSeq. *)

\* f joins the first n sequences of q, as the local function of FlattenSeq does.
Joins(f, q, n) == f = [i \in 1..n |-> IF i = 1 THEN q[i] ELSE Cat(f[i - 1], q[i])]

\* There is such a function.
LEMMA JoinsExists ==
  ASSUME NEW q, NEW n \in Nat
  PROVE  \E f : Joins(f, q, n)
<1> DEFINE Bad == {k \in Nat : ~ \E f : Joins(f, q, k)}
<1>1. SUFFICES ASSUME Bad # {} PROVE FALSE
  OBVIOUS
<1>2. PICK m \in Bad : \A k \in Bad : m <= k
  <2>1. Bad \subseteq Nat
    OBVIOUS
  <2> HIDE DEF Bad
  <2> QED BY <1>1, <2>1, LeastNat
<1>3. CASE m = 0
  <2> DEFINE g == [i \in 1..0 |-> 0]
  <2>1. Joins(g, q, 0)
    BY DEF Joins
  <2> QED BY <1>2, <1>3, <2>1
<1>4. CASE m # 0
  <2>1. m - 1 \in Nat /\ m \in Nat
    BY <1>4
  <2>2. PICK f : Joins(f, q, m - 1)
    BY <1>2, <2>1
  <2> DEFINE g == [i \in 1..m |-> IF i = 1 THEN q[i] ELSE Cat(f[i - 1], q[i])]
  <2>3. ASSUME NEW i \in 1..m, i # 1 PROVE g[i - 1] = f[i - 1]
    <3>1. i - 1 \in 1..(m - 1) /\ i - 1 \in 1..m
      BY <2>1, <2>3
    <3>2. f[i - 1] = IF i - 1 = 1 THEN q[i - 1] ELSE Cat(f[(i - 1) - 1], q[i - 1])
      BY <2>2, <3>1 DEF Joins
    <3> QED BY <3>1, <3>2
  <2>4. g = [i \in 1..m |-> IF i = 1 THEN q[i] ELSE Cat(g[i - 1], q[i])]
    <3> HIDE DEF g
    <3>1. g = [i \in 1..m |-> IF i = 1 THEN q[i] ELSE Cat(f[i - 1], q[i])]
      BY DEF g
    <3> QED BY <2>3, <3>1
  <2>5. Joins(g, q, m)
    BY <2>4 DEF Joins
  <2> QED BY <1>2, <2>5
<1> QED BY <1>3, <1>4

\* FlattenSeq is the last value of it.
LEMMA FlattenUnfold ==
  ASSUME NEW q, Len(q) \in Nat \ {0}
  PROVE  \E f : Joins(f, q, Len(q)) /\ FlattenSeq(q) = f[Len(q)]
<1> DEFINE f == CHOOSE f : Joins(f, q, Len(q))
<1>1. Joins(f, q, Len(q))
  BY JoinsExists
<1>2. FlattenSeq(q) = f[Len(q)]
  BY DEF FlattenSeq, Joins, Cat
<1> QED BY <1>1, <1>2

\* What is joined is a sequence of the same elements.
LEMMA JoinsSeq ==
  ASSUME NEW S, NEW q, NEW n \in Nat, \A i \in 1..n : q[i] \in Seq(S), NEW f, Joins(f, q, n)
  PROVE  \A k \in 1..n : f[k] \in Seq(S)
<1> DEFINE Bad == {k \in 1..n : f[k] \notin Seq(S)}
<1>1. SUFFICES ASSUME Bad # {} PROVE FALSE
  OBVIOUS
<1>2. PICK m \in Bad : \A k \in Bad : m <= k
  <2>1. Bad \subseteq Nat
    OBVIOUS
  <2> HIDE DEF Bad
  <2> QED BY <1>1, <2>1, LeastNat
<1>3. f[m] = IF m = 1 THEN q[m] ELSE Cat(f[m - 1], q[m])
  BY <1>2 DEF Joins
<1>4. m # 1 /\ m \in 1..n /\ m - 1 \in 1..n
  BY <1>2, <1>3
<1>5. f[m - 1] \in Seq(S)
  BY <1>2, <1>4
<1>6. Cat(f[m - 1], q[m]) \in Seq(S)
  BY <1>4, <1>5, CatType
<1> QED BY <1>2, <1>3, <1>4, <1>6

\* What the first k sequences give depends on these only.
LEMMA JoinsAgree ==
  ASSUME NEW q, NEW n \in Nat, NEW f, Joins(f, q, n),
         NEW r, NEW l \in Nat, NEW g, Joins(g, r, l),
         NEW k \in Nat \ {0}, k <= n, k <= l, \A i \in 1..k : q[i] = r[i]
  PROVE  f[k] = g[k]
<1> DEFINE Bad == {i \in 1..k : f[i] # g[i]}
<1>1. SUFFICES ASSUME Bad # {} PROVE FALSE
  OBVIOUS
<1>2. PICK m \in Bad : \A i \in Bad : m <= i
  <2>1. Bad \subseteq Nat
    OBVIOUS
  <2> HIDE DEF Bad
  <2> QED BY <1>1, <2>1, LeastNat
<1>3. m \in 1..n /\ m \in 1..l /\ m \in 1..k
  BY <1>2
<1>4. /\ f[m] = IF m = 1 THEN q[m] ELSE Cat(f[m - 1], q[m])
      /\ g[m] = IF m = 1 THEN r[m] ELSE Cat(g[m - 1], r[m])
  BY <1>3 DEF Joins
<1>5. m # 1 /\ m - 1 \in 1..k
  BY <1>2, <1>3, <1>4
<1>6. f[m - 1] = g[m - 1]
  BY <1>2, <1>5
<1> QED BY <1>2, <1>3, <1>4, <1>5, <1>6

\* No blocks hold no bytes.
LEMMA FlattenEmpty == FlattenSeq(<<>>) = <<>>
BY EmptySeq DEF FlattenSeq

\* The bytes of blocks of bytes are bytes.
LEMMA FlattenType ==
  ASSUME NEW S, NEW q \in Seq(Seq(S))
  PROVE  FlattenSeq(q) \in Seq(S)
<1>1. CASE q = <<>>
  BY <1>1, FlattenEmpty, EmptySeq
<1>2. CASE q # <<>>
  <2>1. Len(q) \in Nat \ {0} /\ \A i \in 1..Len(q) : q[i] \in Seq(S)
    BY <1>2, EmptySeq, ElementOfSeq
  <2>2. PICK f : Joins(f, q, Len(q)) /\ FlattenSeq(q) = f[Len(q)]
    BY <2>1, FlattenUnfold
  <2>3. \A k \in 1..Len(q) : f[k] \in Seq(S)
    BY <2>1, <2>2, JoinsSeq
  <2> QED BY <2>1, <2>2, <2>3
<1> QED BY <1>1, <1>2

\* A block added at the end comes last.
LEMMA FlattenAppend ==
  ASSUME NEW S, NEW q \in Seq(Seq(S)), NEW x \in Seq(S)
  PROVE  FlattenSeq(Append(q, x)) = Cat(FlattenSeq(q), x)
<1> DEFINE n == Len(q)
           r == Append(q, x)
<1>1. n \in Nat /\ Len(r) = n + 1 /\ r[n + 1] = x /\ \A i \in 1..n : r[i] = q[i]
  BY LenProperties, AppendProperties
<1>2. PICK g : Joins(g, r, n + 1) /\ FlattenSeq(r) = g[n + 1]
  <2> HIDE DEF n, r
  <2>1. Len(r) \in Nat \ {0}
    BY <1>1
  <2> QED BY <1>1, <2>1, FlattenUnfold
<1>3. CASE q = <<>>
  <2>1. n = 0
    BY <1>3, EmptySeq
  <2> HIDE DEF n, r
  <2>2. g[1] = x
    BY <1>1, <1>2, <2>1 DEF Joins
  <2>3. FlattenSeq(r) = x
    BY <1>2, <2>1, <2>2
  <2> QED BY <1>3, <2>3, FlattenEmpty, CatEmpty DEF r
<1>4. CASE q # <<>>
  <2>1. n \in Nat \ {0}
    BY <1>4, EmptySeq
  <2>2. PICK f : Joins(f, q, n) /\ FlattenSeq(q) = f[n]
    BY <2>1, FlattenUnfold
  <2> HIDE DEF n, r
  <2>3. g[n + 1] = Cat(g[n], x)
    <3>1. n + 1 \in 1..(n + 1) /\ n + 1 # 1 /\ (n + 1) - 1 = n
      BY <2>1
    <3> QED BY <1>1, <1>2, <3>1 DEF Joins
  <2>4. f[n] = g[n]
    BY <1>1, <1>2, <2>1, <2>2, JoinsAgree
  <2> QED BY <1>2, <2>2, <2>3, <2>4 DEF r
<1> QED BY <1>3, <1>4

\* r is q without its first sequence.
Shifts(r, q, n, S) ==
    /\ \A i \in 1..n : q[i] \in Seq(S)
    /\ \A i \in 1..(n - 1) : r[i] = q[i + 1]

\* What is joined without the first sequence follows the first one.
LEMMA JoinsShift ==
  ASSUME NEW S, NEW q, NEW r, NEW n \in Nat \ {0, 1}, Shifts(r, q, n, S),
         NEW f, Joins(f, q, n), NEW g, Joins(g, r, n - 1)
  PROVE  \A k \in 1..(n - 1) : f[k + 1] = Cat(q[1], g[k])
<1>1. n \in Nat /\ n - 1 \in Nat \ {0} /\ 1..(n - 1) \subseteq Nat
  OBVIOUS
<1>2. ASSUME NEW i \in 1..(n - 1)
      PROVE  i + 1 \in 1..n /\ r[i] = q[i + 1] /\ r[i] \in Seq(S)
  <2>1. i + 1 \in 1..n
    BY <1>1
  <2> QED BY <2>1 DEF Shifts
<1>3. \A k \in 1..(n - 1) : g[k] \in Seq(S)
  BY <1>1, <1>2, JoinsSeq
<1> DEFINE Bad == {k \in 1..(n - 1) : f[k + 1] # Cat(q[1], g[k])}
<1>4. SUFFICES ASSUME Bad # {} PROVE FALSE
  OBVIOUS
<1>5. PICK m \in Bad : \A k \in Bad : m <= k
  <2>1. Bad \subseteq Nat
    BY <1>1, Zenon
  <2> HIDE DEF Bad
  <2> QED BY <1>4, <2>1, LeastNat
<1>6. m \in 1..(n - 1) /\ m + 1 \in 1..n /\ m + 1 # 1 /\ (m + 1) - 1 = m
  BY <1>1, <1>5
<1>7. f[m + 1] = Cat(f[m], q[m + 1])
  BY <1>6 DEF Joins
<1>8. CASE m = 1
  <2>1. f[1] = q[1] /\ g[1] = r[1]
    BY <1>1 DEF Joins
  <2>2. m + 1 = 2
    BY <1>8
  <2>3. g[1] = q[2] /\ f[2] = Cat(f[1], q[2])
    BY <1>2, <1>6, <1>7, <1>8, <2>1, <2>2
  <2>4. f[m + 1] = Cat(q[1], g[m])
    BY <1>8, <2>1, <2>2, <2>3
  <2> QED BY <1>5, <2>4
<1>9. CASE m # 1
  <2>1. m - 1 \in 1..(n - 1) /\ (m - 1) + 1 = m /\ ~(m <= m - 1)
    BY <1>1, <1>6, <1>9
  <2>2. f[m] = Cat(q[1], g[m - 1])
    <3>1. m - 1 \notin Bad
      BY <1>5, <2>1
    <3>2. f[(m - 1) + 1] = Cat(q[1], g[m - 1])
      BY <2>1, <3>1
    <3> QED BY <2>1, <3>2
  <2>3. g[m] = Cat(g[m - 1], r[m])
    BY <1>6, <1>9 DEF Joins
  <2>4. q[1] \in Seq(S) /\ g[m - 1] \in Seq(S) /\ r[m] \in Seq(S) /\ r[m] = q[m + 1]
    BY <1>1, <1>2, <1>3, <1>6, <2>1 DEF Shifts
  <2> HIDE DEF Bad
  <2>5. Cat(Cat(q[1], g[m - 1]), r[m]) = Cat(q[1], Cat(g[m - 1], r[m]))
    BY <2>4, CatAssociative
  <2>6. f[m + 1] = Cat(q[1], g[m])
    BY <1>7, <2>2, <2>3, <2>4, <2>5
  <2> QED BY <1>5, <1>6, <2>6 DEF Bad
<1> QED BY <1>8, <1>9

\* The first block comes first.
LEMMA FlattenTail ==
  ASSUME NEW S, NEW q \in Seq(Seq(S)), q # <<>>
  PROVE  FlattenSeq(q) = Cat(Head(q), FlattenSeq(Tail(q)))
<1> DEFINE n == Len(q)
           r == Tail(q)
<1>1. /\ n \in Nat \ {0} /\ Len(r) = n - 1 /\ Head(q) = q[1] /\ r \in Seq(Seq(S))
      /\ \A i \in 1..n : q[i] \in Seq(S)
      /\ \A i \in 1..(n - 1) : r[i] = q[i + 1]
  BY EmptySeq, LenProperties, ElementOfSeq, HeadTailProperties
<1>2. PICK f : Joins(f, q, n) /\ FlattenSeq(q) = f[n]
  BY <1>1, FlattenUnfold
<1> HIDE DEF n, r
<1>3. CASE n = 1
  <2>1. r = <<>>
    BY <1>1, <1>3, EmptySeq
  <2>2. f[1] = q[1] /\ q[1] \in Seq(S)
    BY <1>1, <1>2, <1>3 DEF Joins
  <2> QED BY <1>1, <1>2, <1>3, <2>1, <2>2, FlattenEmpty, CatEmpty DEF r
<1>4. CASE n # 1
  <2>1. n \in Nat /\ n - 1 \in Nat \ {0} /\ Len(r) \in Nat \ {0}
    BY <1>1, <1>4
  <2>2. PICK g : Joins(g, r, n - 1) /\ FlattenSeq(r) = g[n - 1]
    BY <1>1, <2>1, FlattenUnfold
  <2>3. \A k \in 1..(n - 1) : f[k + 1] = Cat(q[1], g[k])
    <3>1. n \in Nat \ {0, 1}
      BY <1>1, <1>4
    <3>2. Shifts(r, q, n, S)
      BY <1>1 DEF Shifts
    <3>3. Joins(f, q, n) /\ Joins(g, r, n - 1)
      BY <1>2, <2>2
    <3> QED BY <3>1, <3>2, <3>3, JoinsShift
  <2>4. f[(n - 1) + 1] = Cat(q[1], g[n - 1])
    <3>1. n - 1 \in 1..(n - 1)
      BY <2>1
    <3> QED BY <3>1, <2>3
  <2>5. (n - 1) + 1 = n
    BY <2>1
  <2> QED BY <1>1, <1>2, <2>2, <2>4, <2>5 DEF r
<1> QED BY <1>3, <1>4
=============================================================================
