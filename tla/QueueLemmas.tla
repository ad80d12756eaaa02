----------------------------- MODULE QueueLemmas -----------------------------
(***************************************************************************)
(* Facts about the data of the models.  First numbers: induction over a    *)
(* set, which needs no operator as a parameter, and counting.  Then the    *)
(* queues of both schedulers, which are sequences of slots without         *)
(* repetitions: list_add_tail at one end, list_first at the other, and     *)
(* list_del anywhere.                                                      *)
(***************************************************************************)
EXTENDS Integers, Functions, SequenceTheorems, FiniteSetTheorems, TLAPS

-----------------------------------------------------------------------------
(* Numbers.                                                                *)

\* Of some natural numbers one is the least.
LEMMA Least ==
  ASSUME NEW T \in SUBSET Nat, T # {}
  PROVE  \E n \in T : \A m \in T : n <= m
<1> DEFINE R == {ss \in Nat \X Nat : ss[1] < ss[2]}
<1>1. IsWellFoundedOn(R, Nat)
  BY NatLessThanWellFounded DEF OpToRel
<1> HIDE DEF R
<1>2. PICK n \in T : \A m \in T : ~ (<<m, n>> \in R)
  BY <1>1, WFMin
<1>3. ASSUME NEW m \in T
      PROVE  n <= m
  <2>1. n \in Nat /\ m \in Nat /\ <<m, n>> \in Nat \X Nat
    OBVIOUS
  <2>2. ~ (m < n)
    BY <1>2, <2>1 DEF R
  <2>3. QED
    BY <2>1, <2>2
<1>4. QED
  BY <1>3

\* A set of natural numbers that holds 0, and with every number the next, holds
\* all: induction, for the formula that defines the set.
LEMMA SetInduction ==
  ASSUME NEW T \in SUBSET Nat, 0 \in T, \A n \in T : n + 1 \in T
  PROVE  T = Nat
<1> SUFFICES ASSUME T # Nat PROVE FALSE
  OBVIOUS
<1>1. PICK n \in Nat \ T : \A m \in Nat \ T : n <= m
  <2>1. Nat \ T \in SUBSET Nat /\ Nat \ T # {}
    OBVIOUS
  <2>2. QED
    BY <2>1, Least
<1>2. n - 1 \in T
  BY <1>1
<1>3. QED
  BY <1>1, <1>2

\* Of a finite set of numbers with more than k one is the k-th, counting from 0:
\* k are less.
LEMMA KthLowest ==
  ASSUME NEW F \in SUBSET Nat, IsFiniteSet(F),
         NEW k \in Nat, k < Cardinality(F)
  PROVE  \E f \in F : Cardinality({g \in F : g < f}) = k
<1> DEFINE below(f) == {g \in F : g < f}
           T == {n \in Nat : n < Cardinality(F) =>
                               \E f \in F : Cardinality(below(f)) = n}
<1>1. \A g \in F : g \in Nat
  OBVIOUS
<1>2. Cardinality(F) \in Nat
  BY FS_CardinalityType
<1>3. ASSUME NEW f \in F
      PROVE  IsFiniteSet(below(f)) /\ f \notin below(f)
             /\ Cardinality(below(f)) \in Nat
  BY FS_Subset, FS_CardinalityType
<1>4. 0 \in T
  <2> SUFFICES ASSUME 0 < Cardinality(F)
               PROVE  \E f \in F : Cardinality(below(f)) = 0
    OBVIOUS
  <2>1. F # {}
    BY FS_EmptySet
  <2>2. PICK f \in F : \A m \in F : f <= m
    BY <2>1, Least
  <2>3. \A g \in F : ~ (g < f)
    BY <2>2, <1>1
  <2>4. below(f) = {}
    BY <2>3
  <2>5. QED
    BY <2>4, FS_EmptySet
<1>5. ASSUME NEW n \in T
      PROVE  n + 1 \in T
  <2> SUFFICES ASSUME n + 1 < Cardinality(F)
               PROVE  \E f \in F : Cardinality(below(f)) = n + 1
    OBVIOUS
  <2>1. PICK f \in F : Cardinality(below(f)) = n
    BY <1>2
  <2> DEFINE above == {g \in F : f < g}
             upto == below(f) \cup {f}
  <2>2. Cardinality(upto) = n + 1
    BY <1>3, <2>1, FS_AddElement
  <2>3. above # {}
    <3>1. SUFFICES ASSUME above = {} PROVE FALSE
      OBVIOUS
    <3>2. \A g \in F : g < f \/ g = f
      BY <3>1, <1>1
    <3>3. F = upto
      BY <3>2
    <3>4. Cardinality(F) = n + 1
      BY <2>2, <3>3
    <3>5. QED
      BY <3>4, <1>5
  <2>4. PICK h \in above : \A m \in above : h <= m
    <3>1. above \in SUBSET Nat
      OBVIOUS
    <3> HIDE DEF above
    <3>2. QED
      BY <2>3, <3>1, Least
  <2>5. \A g \in F : g < h <=> g < f \/ g = f
    BY <2>4, <1>1
  <2>6. below(h) = upto
    BY <2>5
  <2>7. QED
    BY <2>2, <2>4, <2>6
<1>6. T = Nat
  <2>1. T \in SUBSET Nat
    OBVIOUS
  <2> HIDE DEF T
  <2>2. QED
    BY <1>4, <1>5, <2>1, SetInduction
<1>7. QED
  BY <1>6
-----------------------------------------------------------------------------
(* Recursive functions.                                                    *)

\* D gives the value of a function at x, for all the function's other values.  It
\* looks only at those where the measure m is less.
LooksBelow(S, V, m, D) ==
  \A x \in S : \A g, h \in [S -> V] :
     (\A y \in S : m[y] < m[x] => g[y] = h[y]) => D[<<x, g>>] = D[<<x, h>>]

\* Some function has the values that D gives it.
Solvable(S, V, D) == \E f \in [S -> V] : \A x \in S : f[x] = D[<<x, f>>]

\* A recursive definition that comes to an end has a solution.
LEMMA Recursion ==
  ASSUME NEW S, NEW V, V # {},
         NEW m \in [S -> Nat], NEW D \in [S \X [S -> V] -> V],
         LooksBelow(S, V, m, D)
  PROVE  Solvable(S, V, D)
<1> USE DEF LooksBelow
<1> DEFINE A(n) == {f \in [S -> V] : \A x \in S : m[x] < n => f[x] = D[<<x, f>>]}
<1>1. ASSUME NEW n \in Nat, NEW f \in A(n), NEW g \in A(n), NEW x \in S, m[x] < n
      PROVE  f[x] = g[x]
  <2> DEFINE T == {k \in Nat : \E y \in S : m[y] = k /\ k < n /\ f[y] # g[y]}
  <2>1. SUFFICES ASSUME T # {} PROVE FALSE
    BY <1>1
  <2>2. PICK k \in T : \A j \in T : k <= j
    <3>1. T \in SUBSET Nat
      OBVIOUS
    <3> HIDE DEF T
    <3>2. QED
      BY <2>1, <3>1, Least
  <2>3. PICK y \in S : m[y] = k /\ k < n /\ f[y] # g[y]
    BY <2>2
  <2>4. \A z \in S : m[z] < m[y] => f[z] = g[z]
    <3> SUFFICES ASSUME NEW z \in S, m[z] < m[y], f[z] # g[z] PROVE FALSE
      OBVIOUS
    <3>1. m[z] \in Nat /\ k \in Nat /\ m[z] < k /\ m[z] < n
      BY <2>2, <2>3
    <3>2. m[z] \in T
      BY <3>1
    <3>3. QED
      BY <2>2, <3>1, <3>2
  <2>5. D[<<y, f>>] = D[<<y, g>>]
    BY <2>4
  <2>6. QED
    BY <2>3, <2>5
<1>2. ASSUME NEW n \in Nat
      PROVE  A(n) # {}
  <2> DEFINE T == {k \in Nat : A(k) # {}}
  <2>1. 0 \in T
    <3>1. PICK v \in V : TRUE
      OBVIOUS
    <3>2. [x \in S |-> v] \in A(0)
      OBVIOUS
    <3>3. QED
      BY <3>2
  <2>2. ASSUME NEW k \in T
        PROVE  k + 1 \in T
    <3>1. PICK f \in A(k) : TRUE
      OBVIOUS
    <3> DEFINE g == [x \in S |-> IF m[x] = k THEN D[<<x, f>>] ELSE f[x]]
    <3>2. g \in [S -> V]
      OBVIOUS
    <3>3. ASSUME NEW x \in S, m[x] < k + 1
          PROVE  g[x] = D[<<x, g>>]
      <4>1. m[x] \in Nat /\ k \in Nat /\ m[x] <= k
        BY <3>3
      <4>2. \A y \in S : m[y] < m[x] => g[y] = f[y]
        BY <4>1
      <4> HIDE DEF g
      <4>3. D[<<x, g>>] = D[<<x, f>>]
        BY <3>2, <4>2
      <4>4. g[x] = D[<<x, f>>]
        BY <4>1, SMTT(30) DEF g
      <4>5. QED
        BY <4>3, <4>4
    <3>4. g \in A(k + 1)
      BY <3>2, <3>3
    <3>5. k + 1 \in Nat
      OBVIOUS
    <3>6. QED
      BY <3>4, <3>5
  <2>3. T = Nat
    <3>1. T \in SUBSET Nat
      OBVIOUS
    <3> HIDE DEF T
    <3>2. QED
      BY <2>1, <2>2, <3>1, SetInduction
  <2>4. QED
    BY <2>3
<1> DEFINE a(n) == CHOOSE f : f \in A(n)
           F == [x \in S |-> a(m[x] + 1)[x]]
<1>3. \A n \in Nat : a(n) \in A(n)
  BY <1>2
<1> HIDE DEF a
<1>4. F \in [S -> V]
  <2>1. ASSUME NEW x \in S
        PROVE  a(m[x] + 1)[x] \in V
    <3>1. m[x] + 1 \in Nat
      OBVIOUS
    <3>2. a(m[x] + 1) \in [S -> V]
      BY <1>3, <3>1
    <3>3. QED
      BY <3>2
  <2>2. QED
    BY <2>1
<1>5. ASSUME NEW x \in S
      PROVE  F[x] = D[<<x, F>>]
  <2> DEFINE f == a(m[x] + 1)
  <2>1. \A y \in S : m[y] \in Nat /\ m[y] + 1 \in Nat
    OBVIOUS
  <2> HIDE DEF A
  <2>2. m[x] \in Nat /\ f \in A(m[x] + 1)
    BY <1>3, <2>1
  <2>3. ASSUME NEW y \in S, m[y] < m[x]
        PROVE  F[y] = f[y]
    <3>1. m[y] \in Nat /\ m[y] + 1 \in Nat /\ a(m[y] + 1) \in A(m[y] + 1)
      BY <1>3, <2>1
    <3>2. f \in A(m[y] + 1)
      <4>1. \A z \in S : m[z] < m[y] + 1 => m[z] < m[x] + 1
        BY <2>1, <2>3
      <4> HIDE DEF f
      <4>2. QED
        BY <2>2, <4>1 DEF A
    <3> HIDE DEF f
    <3>3. a(m[y] + 1)[y] = f[y]
      BY <1>1, <3>1, <3>2
    <3>4. QED
      BY <3>3
  <2>4. f \in [S -> V] /\ f[x] = D[<<x, f>>]
    <3> HIDE DEF f
    <3>1. m[x] < m[x] + 1
      BY <2>1
    <3>2. f \in [S -> V] /\ \A y \in S : m[y] < m[x] + 1 => f[y] = D[<<y, f>>]
      BY <2>2 DEF A
    <3>3. QED
      BY <3>1, <3>2
  <2>5. F[x] = f[x]
    OBVIOUS
  <2> HIDE DEF F, f
  <2>6. D[<<x, F>>] = D[<<x, f>>]
    BY <1>4, <2>3, <2>4
  <2>7. QED
    BY <2>4, <2>5, <2>6
<1>6. QED
  BY <1>4, <1>5 DEF Solvable
-----------------------------------------------------------------------------
(* Queues.                                                                 *)

\* Queueing t at the tail adds t and nothing else to what is queued.
LEMMA AddTailRange ==
  ASSUME NEW S, NEW q \in Seq(S), NEW t \in S
  PROVE  /\ Append(q, t) \in Seq(S)
         /\ Append(q, t) # <<>>
         /\ Range(Append(q, t)) = Range(q) \cup {t}
<1>1. /\ Append(q, t) \in Seq(S)
      /\ Append(q, t) # <<>>
      /\ Len(Append(q, t)) = Len(q) + 1
      /\ \A i \in 1 .. Len(q) : Append(q, t)[i] = q[i]
      /\ Append(q, t)[Len(q) + 1] = t
  BY AppendProperties
<1>2. Len(q) \in Nat
  BY LenProperties
<1>3. /\ Range(q) = {q[i] : i \in 1 .. Len(q)}
      /\ Range(Append(q, t)) = {Append(q, t)[i] : i \in 1 .. Len(q) + 1}
  BY <1>1, RangeEquality
<1>4. ASSUME NEW x \in Range(Append(q, t))
      PROVE  x \in Range(q) \cup {t}
  <2>1. PICK i \in 1 .. Len(q) + 1 : x = Append(q, t)[i]
    BY <1>3
  <2>2. i = Len(q) + 1 \/ i \in 1 .. Len(q)
    BY <1>2
  <2>3. QED
    BY <1>1, <1>3, <2>1, <2>2
<1>5. ASSUME NEW x \in Range(q) \cup {t}
      PROVE  x \in Range(Append(q, t))
  <2>1. CASE x = t
    <3>1. Len(q) + 1 \in 1 .. Len(q) + 1
      BY <1>2
    <3>2. QED
      BY <1>1, <1>3, <2>1, <3>1
  <2>2. CASE x \in Range(q)
    <3>1. PICK i \in 1 .. Len(q) : x = q[i]
      BY <1>3, <2>2
    <3>2. i \in 1 .. Len(q) + 1 /\ x = Append(q, t)[i]
      BY <1>1, <1>2, <3>1
    <3>3. QED
      BY <1>3, <3>2
  <2>3. QED
    BY <2>1, <2>2
<1>6. QED
  BY <1>1, <1>4, <1>5

\* Queueing a task that is not in the queue leaves no task in it twice.
LEMMA AddTailInjective ==
  ASSUME NEW S, NEW q \in Seq(S), NEW t \in S,
         IsInjective(q), t \notin Range(q)
  PROVE  IsInjective(Append(q, t))
<1>1. /\ Append(q, t) \in Seq(S)
      /\ Len(Append(q, t)) = Len(q) + 1
      /\ \A i \in 1 .. Len(q) : Append(q, t)[i] = q[i]
      /\ Append(q, t)[Len(q) + 1] = t
  BY AppendProperties
<1>2. /\ Len(q) \in Nat
      /\ DOMAIN q = 1 .. Len(q)
      /\ DOMAIN Append(q, t) = 1 .. Len(q) + 1
  BY <1>1, LenProperties
<1>3. \A i \in 1 .. Len(q) : q[i] # t
  BY <1>2 DEF Range
<1>4. SUFFICES ASSUME NEW i \in 1 .. Len(q) + 1, NEW j \in 1 .. Len(q) + 1,
                      Append(q, t)[i] = Append(q, t)[j]
               PROVE  i = j
  BY <1>2 DEF IsInjective
<1>5. CASE i \in 1 .. Len(q) /\ j \in 1 .. Len(q)
  BY <1>1, <1>2, <1>4, <1>5 DEF IsInjective
<1>6. CASE i = Len(q) + 1 \/ j = Len(q) + 1
  <2>1. i \in 1 .. Len(q) \/ i = Len(q) + 1
    BY <1>2
  <2>2. j \in 1 .. Len(q) \/ j = Len(q) + 1
    BY <1>2
  <2>3. QED
    BY <1>1, <1>3, <1>4, <1>6, <2>1, <2>2
<1>7. QED
  BY <1>2, <1>5, <1>6

\* Taking the first of a queue without repetitions takes that task out of it
\* and leaves the rest.
LEMMA TakeFirst ==
  ASSUME NEW S, NEW q \in Seq(S), q # <<>>, IsInjective(q)
  PROVE  /\ Head(q) \in Range(q)
         /\ Head(q) \in S
         /\ Tail(q) \in Seq(S)
         /\ IsInjective(Tail(q))
         /\ Range(Tail(q)) = Range(q) \ {Head(q)}
<1>1. /\ Head(q) \in S
      /\ Tail(q) \in Seq(S)
      /\ Len(Tail(q)) = Len(q) - 1
      /\ \A i \in 1 .. Len(Tail(q)) : Tail(q)[i] = q[i + 1]
  BY HeadTailProperties
<1>2. /\ Len(q) \in Nat \ {0}
      /\ DOMAIN q = 1 .. Len(q)
      /\ DOMAIN Tail(q) = 1 .. Len(q) - 1
  BY <1>1, LenProperties, EmptySeq
<1>3. Head(q) = q[1]
  BY <1>2
<1>4. /\ Range(q) = {q[i] : i \in 1 .. Len(q)}
      /\ Range(Tail(q)) = {Tail(q)[i] : i \in 1 .. Len(q) - 1}
  BY <1>1, RangeEquality
<1>5. Head(q) \in Range(q)
  <2>1. 1 \in 1 .. Len(q)
    BY <1>2
  <2>2. QED
    BY <1>3, <1>4, <2>1
<1>6. IsInjective(Tail(q))
  <2>1. SUFFICES ASSUME NEW i \in 1 .. Len(q) - 1, NEW j \in 1 .. Len(q) - 1,
                        Tail(q)[i] = Tail(q)[j]
                 PROVE  i = j
    BY <1>2 DEF IsInjective
  <2>2. q[i + 1] = q[j + 1] /\ i + 1 \in 1 .. Len(q) /\ j + 1 \in 1 .. Len(q)
    BY <1>1, <1>2, <2>1
  <2>3. i + 1 = j + 1
    BY <1>2, <2>2 DEF IsInjective
  <2>4. QED
    BY <2>3
<1>7. ASSUME NEW x \in Range(Tail(q))
      PROVE  x \in Range(q) \ {Head(q)}
  <2>1. PICK i \in 1 .. Len(q) - 1 : x = Tail(q)[i]
    BY <1>4
  <2>2. x = q[i + 1] /\ i + 1 \in 1 .. Len(q) /\ i + 1 # 1 /\ 1 \in 1 .. Len(q)
    BY <1>1, <1>2, <2>1
  <2>3. x # q[1]
    BY <1>2, <2>2 DEF IsInjective
  <2>4. QED
    BY <1>3, <1>4, <2>2, <2>3
<1>8. ASSUME NEW x \in Range(q) \ {Head(q)}
      PROVE  x \in Range(Tail(q))
  <2>1. PICK i \in 1 .. Len(q) : x = q[i]
    BY <1>4
  <2>2. i # 1
    BY <1>3, <2>1
  <2>3. i - 1 \in 1 .. Len(q) - 1 /\ Tail(q)[i - 1] = q[(i - 1) + 1]
    BY <1>1, <1>2, <2>2
  <2>4. (i - 1) + 1 = i
    BY <1>2
  <2>5. QED
    BY <1>4, <2>1, <2>3, <2>4
<1>9. QED
  BY <1>1, <1>5, <1>6, <1>7, <1>8

\* A queue that holds nothing is empty.
LEMMA EmptyRange ==
  ASSUME NEW S, NEW q \in Seq(S)
  PROVE  q = <<>> <=> Range(q) = {}
<1>1. CASE q = <<>>
  BY <1>1 DEF Range
<1>2. CASE q # <<>>
  <2>1. Len(q) \in Nat \ {0} /\ Range(q) = {q[i] : i \in 1 .. Len(q)}
    BY <1>2, EmptySeq, RangeEquality
  <2>2. q[1] \in Range(q)
    BY <2>1
  <2>3. QED
    BY <1>2, <2>2
<1>3. QED
  BY <1>1, <1>2

\* Taking a task out of the middle of a queue without repetitions, by closing
\* the gap, takes that task out and leaves the rest.
LEMMA TakeAnywhere ==
  ASSUME NEW S, NEW q \in Seq(S), IsInjective(q), NEW at \in 1 .. Len(q)
  PROVE  LET r == [i \in 1 .. Len(q) - 1 |-> IF i < at THEN q[i] ELSE q[i + 1]]
         IN  /\ r \in Seq(S)
             /\ IsInjective(r)
             /\ Range(r) = Range(q) \ {q[at]}
<1> DEFINE r == [i \in 1 .. Len(q) - 1 |-> IF i < at THEN q[i] ELSE q[i + 1]]
           old(i) == IF i < at THEN i ELSE i + 1
<1>1. Len(q) \in Nat \ {0} /\ DOMAIN q = 1 .. Len(q) /\ q \in [1 .. Len(q) -> S]
  BY LenProperties, EmptySeq
<1>2. \A i \in 1 .. Len(q) - 1 : /\ old(i) \in 1 .. Len(q) /\ old(i) # at
                                  /\ r[i] = q[old(i)]
  BY <1>1
<1>3. r \in [1 .. Len(q) - 1 -> S]
  BY <1>1
<1>4. r \in Seq(S) /\ Len(r) = Len(q) - 1
  BY <1>1, <1>3, SeqDef, LenProperties
<1>5. IsInjective(r)
  <2>1. SUFFICES ASSUME NEW i \in 1 .. Len(q) - 1, NEW j \in 1 .. Len(q) - 1,
                        r[i] = r[j]
                 PROVE  i = j
    BY DEF IsInjective
  <2>2. old(i) = old(j)
    BY <1>1, <1>2, <2>1 DEF IsInjective
  <2>3. QED
    BY <1>1, <2>2
<1>6. /\ Range(q) = {q[i] : i \in 1 .. Len(q)}
      /\ Range(r) = {r[i] : i \in 1 .. Len(q) - 1}
  BY <1>1, <1>4, RangeEquality
<1>7. ASSUME NEW x \in Range(r)
      PROVE  x \in Range(q) \ {q[at]}
  <2>1. PICK i \in 1 .. Len(q) - 1 : x = r[i]
    BY <1>6
  <2>2. x = q[old(i)] /\ old(i) \in 1 .. Len(q) /\ old(i) # at
    BY <1>2, <2>1
  <2>3. QED
    BY <1>1, <1>6, <2>2 DEF IsInjective
<1>8. ASSUME NEW x \in Range(q) \ {q[at]}
      PROVE  x \in Range(r)
  <2>1. PICK i \in 1 .. Len(q) : x = q[i]
    BY <1>6
  <2>2. i # at
    BY <2>1
  <2>3. CASE i < at
    <3>1. i \in 1 .. Len(q) - 1 /\ r[i] = q[i]
      BY <1>1, <2>3
    <3>2. QED
      BY <1>6, <2>1, <3>1
  <2>4. CASE ~(i < at)
    <3>1. i - 1 \in 1 .. Len(q) - 1 /\ ~(i - 1 < at) /\ (i - 1) + 1 = i
      BY <1>1, <2>2, <2>4
    <3>2. r[i - 1] = q[i]
      BY <3>1
    <3>3. QED
      BY <1>6, <2>1, <3>1, <3>2
  <2>5. QED
    BY <2>3, <2>4
<1>9. QED
  BY <1>4, <1>5, <1>7, <1>8
=============================================================================
