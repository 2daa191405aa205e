--------------------------- MODULE IngestionProofs ---------------------------
(***************************************************************************)
(* Lemmas about what ingestion and the defenses do to any corpus: which    *)
(* documents a chain of filters keeps, how a text is cut into chunks, and  *)
(* which chunks a defense takes from a context.                            *)
(***************************************************************************)
EXTENDS Answering, FiniteSetTheorems, SequenceTheorems, Induction

-----------------------------------------------------------------------------
(* Sequences.                                                              *)

IsSeq(s) == s \in Seq(ToSet(s))

\* What is a sequence of anything is a sequence.
LEMMA SequenceIs == \A S : \A t \in Seq(S) : IsSeq(t)
<1> TAKE S
<1> TAKE t \in Seq(S)
<1>1. Len(t) \in Nat /\ DOMAIN t = 1..Len(t) /\ t \in [1..Len(t) -> S]
  OBVIOUS
<1>2. \A n \in 1..Len(t) : t[n] \in ToSet(t)
  BY <1>1 DEF ToSet
<1>3. t \in [1..Len(t) -> ToSet(t)]
  BY <1>1, <1>2
<1> QED
  BY <1>1, <1>3, SeqDef DEF IsSeq

\* A sequence is indexed from 1.
LEMMA Extent == \A t : IsSeq(t) => DOMAIN t = 1..Len(t) /\ Len(t) \in Nat
BY DEF IsSeq

\* The positions of a sequence are as many as it is long.
LEMMA FiniteDomain ==
  ASSUME NEW s, IsSeq(s)
  PROVE  IsFiniteSet(DOMAIN s) /\ Cardinality(DOMAIN s) = Len(s) /\ Len(s) \in Nat
<1>1. DOMAIN s = 1..Len(s) /\ Len(s) \in Nat
  BY Extent
<1>2. IsFiniteSet(1..Len(s)) /\ Cardinality(1..Len(s)) = IF 1 > Len(s) THEN 0 ELSE Len(s) - 1 + 1
  BY <1>1, FS_Interval
<1> QED
  BY <1>1, <1>2

\* An array from 1 is a sequence.
LEMMA ArrayIs ==
  ASSUME NEW N \in Nat, NEW S, NEW s \in [1..N -> S]
  PROVE  s \in Seq(S) /\ IsSeq(s) /\ DOMAIN s = 1..N /\ Len(s) = N
<1>1. s \in Seq(S) /\ DOMAIN s = 1..N
  BY SeqDef
<1>2. IsSeq(s)
  BY <1>1, SequenceIs
<1> QED
  BY <1>1, <1>2, Extent

\* What appending does to a sequence.
LEMMA Appended ==
  ASSUME NEW s, IsSeq(s), NEW e
  PROVE  /\ IsSeq(Append(s, e)) /\ Len(s) \in Nat /\ DOMAIN s = 1..Len(s)
         /\ Len(Append(s, e)) = Len(s) + 1 /\ DOMAIN Append(s, e) = 1..Len(s) + 1
         /\ \A n \in DOMAIN s : Append(s, e)[n] = s[n]
         /\ Append(s, e)[Len(s) + 1] = e
<1> DEFINE t == Append(s, e)
           S == ToSet(s) \cup {e}
<1>1. s \in Seq(S)
  <2>1. \A n \in 1..Len(s) : s[n] \in S
    BY DEF ToSet, IsSeq
  <2> QED
    BY <2>1 DEF IsSeq
<1>2. t \in Seq(S) /\ Len(t) = Len(s) + 1 /\ Len(s) \in Nat /\ DOMAIN s = 1..Len(s)
      /\ DOMAIN t = 1..Len(s) + 1 /\ (\A n \in 1..Len(s) : t[n] = s[n]) /\ t[Len(s) + 1] = e
  BY <1>1
<1> HIDE DEF t, S
<1>3. IsSeq(t)
  BY <1>2, SequenceIs
<1> QED
  BY <1>2, <1>3 DEF t

\* What is left of a sequence without its first element.
LEMMA TailIs ==
  ASSUME NEW s, IsSeq(s), s # <<>>
  PROVE  /\ IsSeq(Tail(s)) /\ 1 \in DOMAIN s
         /\ Len(s) \in Nat \ {0} /\ Len(Tail(s)) = Len(s) - 1
         /\ \A n \in DOMAIN Tail(s) : n + 1 \in DOMAIN s /\ n + 1 # 1 /\ n \in Nat /\ Tail(s)[n] = s[n + 1]
<1> DEFINE t == Tail(s)
<1>1. /\ t \in Seq(ToSet(s)) /\ Len(s) \in Nat \ {0} /\ Len(t) = Len(s) - 1
      /\ DOMAIN s = 1..Len(s) /\ DOMAIN t = 1..Len(s) - 1
      /\ \A n \in 1..Len(s) - 1 : t[n] = s[n + 1]
  BY DEF IsSeq
<1> HIDE DEF t
<1>2. IsSeq(t)
  BY <1>1, SequenceIs
<1> QED
  BY <1>1, <1>2 DEF t

\* What joining does to two sequences.
LEMMA Joins ==
  ASSUME NEW s, IsSeq(s), NEW t, IsSeq(t)
  PROVE  /\ IsSeq(s \o t) /\ ToSet(s \o t) = ToSet(s) \cup ToSet(t)
         /\ Len(s) \in Nat /\ Len(t) \in Nat /\ Len(s \o t) = Len(s) + Len(t)
         /\ DOMAIN s = 1..Len(s) /\ DOMAIN t = 1..Len(t) /\ DOMAIN (s \o t) = 1..Len(s) + Len(t)
         /\ \A n \in 1..Len(s) : (s \o t)[n] = s[n]
         /\ \A n \in 1..Len(t) : (s \o t)[Len(s) + n] = t[n]
<1> DEFINE S == ToSet(s) \cup ToSet(t)
           u == s \o t
<1>1. s \in Seq(S) /\ t \in Seq(S)
  <2>1. /\ Len(s) \in Nat /\ s \in [1..Len(s) -> ToSet(s)]
        /\ Len(t) \in Nat /\ t \in [1..Len(t) -> ToSet(t)]
    BY DEF IsSeq
  <2>2. s \in [1..Len(s) -> S] /\ t \in [1..Len(t) -> S]
    BY <2>1
  <2> QED
    BY <2>1, <2>2, SeqDef
<1> HIDE DEF S
<1>2. /\ u \in Seq(S) /\ Len(s) \in Nat /\ Len(t) \in Nat /\ Len(u) = Len(s) + Len(t)
      /\ DOMAIN s = 1..Len(s) /\ DOMAIN t = 1..Len(t) /\ DOMAIN u = 1..Len(s) + Len(t)
      /\ \A n \in 1..Len(s) : u[n] = s[n]
      /\ \A n \in 1..Len(t) : u[Len(s) + n] = t[n]
  BY <1>1
<1> HIDE DEF u
<1>3. IsSeq(u)
  BY <1>2, SequenceIs
<1>4. \A x \in ToSet(u) : x \in ToSet(s) \/ x \in ToSet(t)
  <2> TAKE x \in ToSet(u)
  <2>1. PICK n \in 1..Len(s) + Len(t) : x = u[n]
    BY <1>2 DEF ToSet
  <2>2. CASE n <= Len(s)
    <3>1. n \in 1..Len(s)
      BY <1>2, <2>2
    <3> QED
      BY <1>2, <2>1, <3>1 DEF ToSet
  <2>3. CASE n > Len(s)
    <3>1. n - Len(s) \in 1..Len(t) /\ Len(s) + (n - Len(s)) = n
      BY <1>2, <2>3
    <3>2. x = t[n - Len(s)]
      BY <1>2, <2>1, <3>1
    <3> QED
      BY <1>2, <3>1, <3>2 DEF ToSet
  <2> QED
    BY <1>2, <2>2, <2>3
<1>5. \A x \in ToSet(s) : x \in ToSet(u)
  <2> TAKE x \in ToSet(s)
  <2>1. PICK n \in 1..Len(s) : x = s[n]
    BY <1>2 DEF ToSet
  <2>2. n \in DOMAIN u /\ x = u[n]
    BY <1>2, <2>1
  <2> QED
    BY <2>2 DEF ToSet
<1>6. \A x \in ToSet(t) : x \in ToSet(u)
  <2> TAKE x \in ToSet(t)
  <2>1. PICK n \in 1..Len(t) : x = t[n]
    BY <1>2 DEF ToSet
  <2>2. Len(s) + n \in DOMAIN u /\ x = u[Len(s) + n]
    BY <1>2, <2>1
  <2> QED
    BY <2>2 DEF ToSet
<1>7. ToSet(u) = ToSet(s) \cup ToSet(t)
  BY <1>4, <1>5, <1>6
<1> QED
  BY <1>2, <1>3, <1>7 DEF u

\* The sequences behind one another, up to each of them.
Flattening(seqs) ==
  CHOOSE f : f = [i \in 1..Len(seqs) |-> IF i = 1 THEN seqs[i] ELSE f[i - 1] \o seqs[i]]

\* FlattenSeq joins one sequence after another.
LEMMA FlatteningIs ==
  ASSUME NEW seqs, Len(seqs) \in Nat
  PROVE  /\ FlattenSeq(seqs) = IF Len(seqs) = 0 THEN seqs ELSE Flattening(seqs)[Len(seqs)]
         /\ Len(seqs) # 0 => Flattening(seqs)[1] = seqs[1]
         /\ \A n \in Nat \ {0} : n + 1 <= Len(seqs) =>
              Flattening(seqs)[n + 1] = Flattening(seqs)[n] \o seqs[n + 1]
<1> DEFINE Body(f, i) == IF i = 1 THEN seqs[i] ELSE f[i - 1] \o seqs[i]
           Read(n) == \E f : f = [i \in 1..n |-> Body(f, i)]
           T == {n \in Nat : n <= Len(seqs) => Read(n)}
<1>0. Len(seqs) \in Nat
  OBVIOUS
<1>1. 0 \in T
  <2>1. <<>> = [i \in 1..0 |-> Body(<<>>, i)]
    OBVIOUS
  <2> QED
    BY <2>1
<1>2. ASSUME NEW n \in Nat, n \in T PROVE n + 1 \in T
  <2>1. SUFFICES ASSUME n + 1 <= Len(seqs) PROVE Read(n + 1)
    <3> HIDE DEF Read
    <3> QED
      OBVIOUS
  <2>2. PICK d : d = [i \in 1..n |-> Body(d, i)]
    <3>1. Read(n)
      <4> HIDE DEF Read
      <4> QED
        BY <1>0, <1>2, <2>1
    <3> QED
      BY <3>1
  <2> DEFINE e == [i \in 1..n + 1 |-> IF i = n + 1 THEN Body(d, i) ELSE d[i]]
  <2>3. ASSUME NEW i \in 1..n + 1 PROVE e[i] = Body(e, i)
    <3>1. i = 1 \/ (i - 1 \in 1..n + 1 /\ i - 1 # n + 1 /\ i - 1 \in 1..n)
      OBVIOUS
    <3>2. e[i] = Body(d, i)
      <4>1. CASE i = n + 1
        BY <4>1
      <4>2. CASE i # n + 1
        <5>1. e[i] = d[i] /\ i \in 1..n
          BY <4>2
        <5> HIDE DEF Body, e
        <5> QED
          BY <2>2, <5>1
      <4> QED
        BY <4>1, <4>2
    <3>3. i # 1 => e[i - 1] = d[i - 1]
      BY <3>1
    <3> HIDE DEF e
    <3> QED
      BY <3>2, <3>3
  <2>4. e = [i \in 1..n + 1 |-> e[i]]
    OBVIOUS
  <2> HIDE DEF e
  <2>5. e = [i \in 1..n + 1 |-> Body(e, i)]
    BY <2>3, <2>4
  <2> HIDE DEF Body
  <2> QED
    BY <2>5
<1> HIDE DEF T
<1>3. Len(seqs) \in T /\ Len(seqs) \in Nat
  BY <1>0, <1>1, <1>2, Inductive
<1> DEFINE read == CHOOSE f : f = [i \in 1..Len(seqs) |-> Body(f, i)]
<1>4. read = [i \in 1..Len(seqs) |-> Body(read, i)]
  <2>1. \E f : f = [i \in 1..Len(seqs) |-> Body(f, i)]
    <3>1. Read(Len(seqs))
      <4> HIDE DEF Read
      <4> QED
        BY <1>3 DEF T
    <3> QED
      BY <3>1
  <2> HIDE DEF Body
  <2> QED
    BY <2>1
<1>5. FlattenSeq(seqs) = IF Len(seqs) = 0 THEN seqs ELSE read[Len(seqs)]
  BY DEF FlattenSeq
<1>6. Flattening(seqs) = read
  BY DEF Flattening, read
<1> HIDE DEF read
<1>7. Len(seqs) # 0 => read[1] = seqs[1]
  BY <1>3, <1>4
<1>8. ASSUME NEW n \in Nat \ {0}, n + 1 <= Len(seqs)
      PROVE  read[n + 1] = read[n] \o seqs[n + 1]
  <2>1. n + 1 \in 1..Len(seqs) /\ n + 1 # 1 /\ (n + 1) - 1 = n
    BY <1>3, <1>8
  <2>2. read[n + 1] = Body(read, n + 1)
    <3> HIDE DEF Body
    <3> QED
      BY <1>4, <2>1
  <2> QED
    BY <2>1, <2>2
<1> QED
  BY <1>5, <1>6, <1>7, <1>8

\* What is behind one another has what is in each of them.
LEMMA FlattenedAre ==
  ASSUME NEW seqs, IsSeq(seqs), \A k \in DOMAIN seqs : IsSeq(seqs[k])
  PROVE  /\ IsSeq(FlattenSeq(seqs))
         /\ \A x : x \in ToSet(FlattenSeq(seqs)) <=> \E k \in DOMAIN seqs : x \in ToSet(seqs[k])
<1> DEFINE L == Len(seqs)
           r == Flattening(seqs)
           Good(n) == /\ IsSeq(r[n])
                      /\ \A x : x \in ToSet(r[n]) <=> \E k \in 1..n : x \in ToSet(seqs[k])
           T == {n \in Nat : n + 1 <= L => Good(n + 1)}
<1>1. L \in Nat /\ DOMAIN seqs = 1..L
  BY DEF IsSeq
<1>2. /\ FlattenSeq(seqs) = IF L = 0 THEN seqs ELSE r[L]
      /\ L # 0 => r[1] = seqs[1]
      /\ \A n \in Nat \ {0} : n + 1 <= L => r[n + 1] = r[n] \o seqs[n + 1]
  BY <1>1, FlatteningIs
<1> HIDE DEF L, r
<1>3. 0 \in T
  <2>1. SUFFICES ASSUME 0 + 1 <= L PROVE Good(1)
    OBVIOUS
  <2>2. r[1] = seqs[1] /\ IsSeq(seqs[1])
    BY <1>1, <1>2, <2>1
  <2> QED
    BY <2>2
<1>4. ASSUME NEW n \in Nat, n \in T PROVE n + 1 \in T
  <2>1. SUFFICES ASSUME (n + 1) + 1 <= L PROVE Good((n + 1) + 1)
    OBVIOUS
  <2>2. Good(n + 1)
    <3> HIDE DEF Good
    <3> QED
      BY <1>1, <1>4, <2>1
  <2>3. /\ n + 1 \in Nat \ {0} /\ (n + 1) + 1 \in 1..L /\ IsSeq(seqs[(n + 1) + 1])
        /\ r[(n + 1) + 1] = r[n + 1] \o seqs[(n + 1) + 1]
    <3>1. n + 1 \in Nat \ {0} /\ (n + 1) + 1 \in 1..L
      BY <1>1, <2>1
    <3>2. IsSeq(seqs[(n + 1) + 1])
      BY <1>1, <3>1
    <3> QED
      BY <1>2, <2>1, <3>1, <3>2
  <2> DEFINE a == r[n + 1]
             b == seqs[(n + 1) + 1]
  <2>4. IsSeq(a) /\ IsSeq(b)
    BY <2>2, <2>3
  <2> HIDE DEF a, b
  <2>5. IsSeq(a \o b) /\ ToSet(a \o b) = ToSet(a) \cup ToSet(b)
    BY <2>4, Joins
  <2>6. r[(n + 1) + 1] = a \o b
    BY <2>3 DEF a, b
  <2>7. \A x : x \in ToSet(a) <=> \E k \in 1..n + 1 : x \in ToSet(seqs[k])
    BY <2>2 DEF a
  <2>8. \A x : x \in ToSet(a \o b) <=> \E k \in 1..(n + 1) + 1 : x \in ToSet(seqs[k])
    BY <2>5, <2>7 DEF b
  <2> QED
    BY <2>5, <2>6, <2>8
<1> HIDE DEF T
<1>5. \A n \in Nat : n \in T
  BY <1>3, <1>4, Inductive
<1>6. CASE L = 0
  <2>1. FlattenSeq(seqs) = seqs /\ DOMAIN seqs = {}
    BY <1>1, <1>2, <1>6
  <2> QED
    BY <2>1 DEF ToSet
<1>7. CASE L # 0
  <2>1. L - 1 \in Nat /\ (L - 1) + 1 = L
    BY <1>1, <1>7
  <2>2. Good(L)
    <3> HIDE DEF Good
    <3> QED
      BY <1>5, <2>1 DEF T
  <2>3. FlattenSeq(seqs) = r[L]
    BY <1>2, <1>7
  <2> QED
    BY <1>1, <2>2, <2>3
<1> QED
  BY <1>6, <1>7

\* Sequences over a set, joined, are a sequence over it.
LEMMA Flattened ==
  ASSUME NEW S, NEW seqs \in Seq(Seq(S))
  PROVE  FlattenSeq(seqs) \in Seq(S)
<1> DEFINE f == FlattenSeq(seqs)
<1>1. \A k \in DOMAIN seqs : IsSeq(seqs[k]) /\ ToSet(seqs[k]) \subseteq S
  <2> TAKE k \in DOMAIN seqs
  <2>1. seqs[k] \in Seq(S)
    OBVIOUS
  <2> QED
    BY <2>1, SequenceIs DEF ToSet
<1>2. IsSeq(seqs)
  BY SequenceIs
<1>3. IsSeq(f) /\ \A x : x \in ToSet(f) <=> \E k \in DOMAIN seqs : x \in ToSet(seqs[k])
  BY <1>1, <1>2, FlattenedAre
<1> HIDE DEF f
<1>4. ToSet(f) \subseteq S
  BY <1>1, <1>3
<1>5. Len(f) \in Nat /\ f \in [1..Len(f) -> ToSet(f)]
  BY <1>3 DEF IsSeq
<1>6. f \in [1..Len(f) -> S]
  BY <1>4, <1>5
<1>7. f \in Seq(S)
  BY <1>5, <1>6, SeqDef
<1> QED
  BY <1>7 DEF f

\* A set of numbers has a least one, and Min chooses it.
LEMMA LeastIs ==
  ASSUME NEW S \in SUBSET Nat, S # {}
  PROVE  Min(S) \in S /\ \A x \in S : Min(S) <= x
<1> DEFINE R == OpToRel(<, Nat)
<1>1. IsWellFoundedOn(R, Nat)
  BY NatLessThanWellFounded
<1>2. \A m, n \in Nat : <<m, n>> \in R <=> m < n
  BY DEF OpToRel
<1> HIDE DEF R
<1>3. PICK x \in S : \A y \in S : ~(<<y, x>> \in R)
  BY <1>1, WFMin
<1>4. x \in Nat /\ \A y \in S : y \in Nat /\ ~(y < x)
  BY <1>2, <1>3
<1>5. \A y \in S : x <= y
  BY <1>4
<1>6. \E z \in S : \A y \in S : z <= y
  BY <1>5
<1> QED
  BY <1>6 DEF Min

\* A bounded set of numbers has a greatest one, and Max chooses it.
LEMMA GreatestIs ==
  ASSUME NEW N \in Nat, NEW S \in SUBSET (0..N), S # {}
  PROVE  Max(S) \in S /\ \A x \in S : Max(S) >= x
<1> DEFINE U == {n \in Nat : n <= N /\ N - n \in S}
<1>1. U \in SUBSET Nat /\ U # {}
  <2>1. PICK x \in S : TRUE
    OBVIOUS
  <2>2. x \in 0..N /\ N - x \in Nat /\ N - x <= N /\ N - (N - x) = x
    OBVIOUS
  <2>3. N - x \in U
    BY <2>2
  <2> QED
    BY <2>3
<1> DEFINE m == Min(U)
<1>2. m \in U /\ \A n \in U : m <= n
  BY <1>1, LeastIs
<1> HIDE DEF m
<1>3. m \in Nat /\ N - m \in S
  BY <1>2
<1>4. ASSUME NEW x \in S PROVE N - m >= x
  <2>1. x \in Nat /\ x <= N /\ N - x \in Nat /\ N - (N - x) = x
    OBVIOUS
  <2>2. N - x \in U
    BY <2>1
  <2>3. m <= N - x
    BY <1>2, <2>2
  <2> QED
    BY <1>3, <2>1, <2>3
<1>5. \E z \in S : \A y \in S : z >= y
  BY <1>3, <1>4
<1> QED
  BY <1>5 DEF Max

\* The positions of a sequence that are chosen, from the first on.
Taking(seq, positions) ==
  LET those[n \in 0..Len(seq)] ==
        IF n = 0 THEN <<>>
        ELSE IF n \in positions THEN Append(those[n - 1], seq[n]) ELSE those[n - 1]
  IN  those

\* Those takes or leaves one position after another.
LEMMA TakingIs ==
  ASSUME NEW s, IsSeq(s), NEW P
  PROVE  /\ Those(s, P) = Taking(s, P)[Len(s)]
         /\ Taking(s, P) = [n \in 0..Len(s) |->
              IF n = 0 THEN <<>>
              ELSE IF n \in P THEN Append(Taking(s, P)[n - 1], s[n]) ELSE Taking(s, P)[n - 1]]
<1> DEFINE Body(f, n) == IF n = 0 THEN <<>>
                         ELSE IF n \in P THEN Append(f[n - 1], s[n]) ELSE f[n - 1]
           Read(n) == \E f : f = [i \in 0..n |-> Body(f, i)]
           T == {n \in Nat : Read(n)}
<1>0. Len(s) \in Nat
  BY DEF IsSeq
<1>1. 0 \in T
  <2> DEFINE e == [i \in 0..0 |-> <<>>]
  <2>1. e = [i \in 0..0 |-> Body(e, i)]
    OBVIOUS
  <2> HIDE DEF e, Body
  <2> QED
    BY <2>1
<1>2. ASSUME NEW n \in Nat, n \in T PROVE n + 1 \in T
  <2>1. PICK d : d = [i \in 0..n |-> Body(d, i)]
    <3>1. Read(n)
      <4> HIDE DEF Read
      <4> QED
        BY <1>2
    <3> QED
      BY <3>1
  <2> DEFINE e == [i \in 0..n + 1 |-> IF i = n + 1 THEN Body(d, i) ELSE d[i]]
  <2>2. ASSUME NEW i \in 0..n + 1 PROVE e[i] = Body(e, i)
    <3>1. i = 0 \/ (i - 1 \in 0..n + 1 /\ i - 1 # n + 1)
      OBVIOUS
    <3>2. e[i] = Body(d, i)
      <4>1. CASE i = n + 1
        BY <4>1
      <4>2. CASE i # n + 1
        <5>1. e[i] = d[i] /\ i \in 0..n
          BY <4>2
        <5> HIDE DEF Body, e
        <5> QED
          BY <2>1, <5>1
      <4> QED
        BY <4>1, <4>2
    <3>3. i # 0 => e[i - 1] = d[i - 1]
      BY <3>1
    <3> HIDE DEF e
    <3> QED
      BY <3>2, <3>3
  <2>3. e = [i \in 0..n + 1 |-> e[i]]
    OBVIOUS
  <2> HIDE DEF e
  <2>4. e = [i \in 0..n + 1 |-> Body(e, i)]
    BY <2>2, <2>3
  <2> HIDE DEF Body
  <2> QED
    BY <2>4
<1> HIDE DEF T
<1>3. Len(s) \in T
  BY <1>0, <1>1, <1>2, Inductive
<1>4. \E f : f = [i \in 0..Len(s) |-> Body(f, i)]
  <2>1. Read(Len(s))
    <3> HIDE DEF Read
    <3> QED
      BY <1>3 DEF T
  <2> QED
    BY <2>1
<1>5. Taking(s, P) = CHOOSE f : f = [i \in 0..Len(s) |-> Body(f, i)]
  BY DEF Taking
<1>6. Taking(s, P) = [i \in 0..Len(s) |-> Body(Taking(s, P), i)]
  <2> HIDE DEF Body
  <2> QED
    BY <1>4, <1>5
<1>7. Those(s, P) = Taking(s, P)[Len(s)]
  BY Zenon DEF Those, Taking
<1> QED
  BY <1>6, <1>7

\* Step by step.
LEMMA Takes ==
  ASSUME NEW s, IsSeq(s), NEW P
  PROVE  /\ Taking(s, P)[0] = <<>>
         /\ Len(s) \in Nat /\ DOMAIN s = 1..Len(s)
         /\ \A n \in Nat : n + 1 <= Len(s) =>
              Taking(s, P)[n + 1] = IF n + 1 \in P THEN Append(Taking(s, P)[n], s[n + 1])
                                    ELSE Taking(s, P)[n]
<1> DEFINE t == Taking(s, P)
           Body(n) == IF n = 0 THEN <<>> ELSE IF n \in P THEN Append(t[n - 1], s[n]) ELSE t[n - 1]
<1>1. Len(s) \in Nat /\ DOMAIN s = 1..Len(s)
  BY DEF IsSeq
<1>2. t = [n \in 0..Len(s) |-> Body(n)]
  BY TakingIs
<1> HIDE DEF t
<1>3. t[0] = <<>>
  BY <1>1, <1>2
<1>4. ASSUME NEW n \in Nat, n + 1 <= Len(s)
      PROVE  t[n + 1] = IF n + 1 \in P THEN Append(t[n], s[n + 1]) ELSE t[n]
  <2>1. n + 1 \in 0..Len(s) /\ n + 1 # 0 /\ (n + 1) - 1 = n
    BY <1>1, <1>4
  <2>2. t[n + 1] = Body(n + 1)
    <3> HIDE DEF Body
    <3> QED
      BY <1>2, <2>1
  <2> QED
    BY <2>1, <2>2
<1> QED
  BY <1>1, <1>3, <1>4 DEF t

\* What is chosen is the choice.
LEMMA ThoseAre ==
  ASSUME NEW s, IsSeq(s), NEW P
  PROVE  /\ IsSeq(Those(s, P))
         /\ ToSet(Those(s, P)) = {s[n] : n \in {i \in DOMAIN s : i \in P}}
<1> DEFINE t == Taking(s, P)
           S == ToSet(s)
           Good(n) == /\ t[n] \in Seq(S)
                      /\ \A x : x \in ToSet(t[n]) <=> \E i \in 1..n : i \in P /\ x = s[i]
           T == {n \in Nat : n <= Len(s) => Good(n)}
<1>1. /\ t[0] = <<>> /\ Len(s) \in Nat /\ DOMAIN s = 1..Len(s)
      /\ \A n \in Nat : n + 1 <= Len(s) =>
           t[n + 1] = IF n + 1 \in P THEN Append(t[n], s[n + 1]) ELSE t[n]
  BY Takes
<1>2. \A n \in 1..Len(s) : s[n] \in S
  BY <1>1 DEF ToSet
<1> HIDE DEF t, S
<1>3. 0 \in T
  <2>1. <<>> \in Seq(S) /\ ToSet(<<>>) = {}
    BY DEF ToSet
  <2>2. Good(0)
    BY <1>1, <2>1
  <2> HIDE DEF Good
  <2> QED
    BY <2>2
<1>4. ASSUME NEW n \in Nat, n \in T PROVE n + 1 \in T
  <2> SUFFICES ASSUME n + 1 <= Len(s) PROVE Good(n + 1)
    OBVIOUS
  <2>1. Good(n)
    BY <1>1, <1>4
  <2>2. CASE n + 1 \notin P
    <3>1. t[n + 1] = t[n]
      BY <1>1, <2>2
    <3> QED
      BY <2>1, <2>2, <3>1
  <2>3. CASE n + 1 \in P
    <3>0. n + 1 \in 1..Len(s)
      BY <1>1
    <3>1. t[n + 1] = Append(t[n], s[n + 1]) /\ s[n + 1] \in S
      BY <1>1, <1>2, <2>3, <3>0
    <3>2. /\ t[n + 1] \in Seq(S) /\ Len(t[n]) \in Nat /\ DOMAIN t[n] = 1..Len(t[n])
          /\ DOMAIN t[n + 1] = 1..Len(t[n]) + 1 /\ t[n + 1][Len(t[n]) + 1] = s[n + 1]
          /\ \A k \in 1..Len(t[n]) : t[n + 1][k] = t[n][k]
      BY <2>1, <3>1
    <3>3. \A x : x \in ToSet(t[n + 1]) <=> x \in ToSet(t[n]) \/ x = s[n + 1]
      BY SMTT(30), <3>2 DEF ToSet
    <3>4. \A x : x \in ToSet(t[n]) <=> \E i \in 1..n : i \in P /\ x = s[i]
      BY <2>1
    <3>5. \A x : x \in ToSet(t[n + 1]) <=> \E i \in 1..n + 1 : i \in P /\ x = s[i]
      BY <2>3, <3>3, <3>4
    <3> QED
      BY <3>2, <3>5
  <2> QED
    BY <2>2, <2>3
<1> HIDE DEF T
<1>5. Len(s) \in T
  BY <1>1, <1>3, <1>4, Inductive
<1>6. Good(Len(s))
  BY <1>1, <1>5 DEF T
<1>7. Those(s, P) = t[Len(s)]
  BY TakingIs DEF t
<1> HIDE DEF Good
<1>8. Those(s, P) \in Seq(S)
  BY <1>6, <1>7 DEF Good
<1>9. \A x : x \in ToSet(Those(s, P)) <=> \E i \in 1..Len(s) : i \in P /\ x = s[i]
  BY <1>6, <1>7 DEF Good
<1>10. IsSeq(Those(s, P))
  BY <1>8, SequenceIs
<1> QED
  BY <1>1, <1>9, <1>10

\* The chosen positions in their order.
LEMMA ThosePlaces ==
  ASSUME NEW s, IsSeq(s), NEW P
  PROVE  \E e \in [1..Len(Those(s, P)) -> DOMAIN s] :
           /\ \A k \in 1..Len(Those(s, P)) : e[k] \in P /\ Those(s, P)[k] = s[e[k]]
           /\ \A k, l \in 1..Len(Those(s, P)) : k < l => e[k] < e[l]
           /\ \A n \in DOMAIN s : n \in P => \E k \in 1..Len(Those(s, P)) : n = e[k]
<1> DEFINE t == Taking(s, P)
           At(n) == {i \in 1..n : i \in P}
           Good(n) == /\ IsSeq(t[n])
                      /\ \E e \in [1..Len(t[n]) -> At(n)] :
                           /\ \A k \in 1..Len(t[n]) : t[n][k] = s[e[k]]
                           /\ \A k, l \in 1..Len(t[n]) : k < l => e[k] < e[l]
                           /\ \A i \in At(n) : \E k \in 1..Len(t[n]) : i = e[k]
           T == {n \in Nat : n <= Len(s) => Good(n)}
<1>1. /\ t[0] = <<>> /\ Len(s) \in Nat /\ DOMAIN s = 1..Len(s)
      /\ \A n \in Nat : n + 1 <= Len(s) =>
           t[n + 1] = IF n + 1 \in P THEN Append(t[n], s[n + 1]) ELSE t[n]
  BY Takes
<1> HIDE DEF t
<1>2. 0 \in T
  <2>1. IsSeq(<<>>) /\ Len(<<>>) = 0
    BY DEF IsSeq
  <2>2. 1..0 = {} /\ At(0) = {}
    OBVIOUS
  <2> DEFINE e == [k \in 1..0 |-> 0]
  <2>3. e \in [1..0 -> At(0)]
    BY <2>2
  <2> HIDE DEF e
  <2>4. Good(0)
    BY <1>1, <2>1, <2>2, <2>3
  <2> HIDE DEF Good
  <2> QED
    BY <2>4
<1>3. ASSUME NEW n \in Nat, n \in T PROVE n + 1 \in T
  <2> SUFFICES ASSUME n + 1 <= Len(s) PROVE Good(n + 1)
    OBVIOUS
  <2>1. Good(n)
    <3> HIDE DEF Good
    <3> QED
      BY <1>1, <1>3
  <2>2. CASE n + 1 \notin P
    <3>1. t[n + 1] = t[n]
      BY <1>1, <2>2
    <3>2. At(n + 1) = At(n)
      BY <2>2
    <3> HIDE DEF At
    <3> QED
      BY SMTT(30), <2>1, <3>1, <3>2
  <2>3. CASE n + 1 \in P
    <3> DEFINE m == Len(t[n])
    <3>1. PICK e \in [1..m -> At(n)] :
            /\ \A k \in 1..m : t[n][k] = s[e[k]]
            /\ \A k, l \in 1..m : k < l => e[k] < e[l]
            /\ \A i \in At(n) : \E k \in 1..m : i = e[k]
      BY <2>1
    <3>2. t[n + 1] = Append(t[n], s[n + 1]) /\ IsSeq(t[n])
      BY <1>1, <2>1, <2>3
    <3> DEFINE u == t[n]
               x == s[n + 1]
    <3> HIDE DEF u, x
    <3>3. /\ IsSeq(Append(u, x)) /\ Len(u) \in Nat /\ Len(Append(u, x)) = Len(u) + 1
          /\ DOMAIN u = 1..Len(u) /\ (\A k \in DOMAIN u : Append(u, x)[k] = u[k])
          /\ Append(u, x)[Len(u) + 1] = x
      <4>1. IsSeq(u)
        BY <3>2 DEF u
      <4> QED
        BY <4>1, Appended
    <3>4. /\ IsSeq(t[n + 1]) /\ m \in Nat /\ Len(t[n + 1]) = m + 1
          /\ (\A k \in 1..m : t[n + 1][k] = t[n][k]) /\ t[n + 1][m + 1] = s[n + 1]
      BY <3>2, <3>3 DEF u, x
    <3> DEFINE d == [k \in 1..m + 1 |-> IF k = m + 1 THEN n + 1 ELSE e[k]]
    <3> HIDE DEF m
    <3>5. \A k \in 1..m + 1 : k = m + 1 \/ (k \in 1..m /\ k # m + 1)
      BY <3>4
    <3>6. /\ d[m + 1] = n + 1 /\ \A k \in 1..m : d[k] = e[k] /\ e[k] \in At(n)
      BY <3>1, <3>4
    <3>7. \A i \in At(n) : i \in Nat /\ i < n + 1 /\ i \in At(n + 1)
      OBVIOUS
    <3>8. n + 1 \in At(n + 1)
      BY <2>3
    <3>9. \A i \in At(n + 1) : i = n + 1 \/ i \in At(n)
      OBVIOUS
    <3> HIDE DEF At
    <3>10. d \in [1..m + 1 -> At(n + 1)]
      <4>1. \A k \in 1..m + 1 : d[k] \in At(n + 1)
        <5> HIDE DEF d
        <5> QED
          BY <3>5, <3>6, <3>7, <3>8
      <4> QED
        BY <4>1
    <3> HIDE DEF d
    <3>11. \A k \in 1..m + 1 : t[n + 1][k] = s[d[k]]
      BY <3>1, <3>4, <3>5, <3>6
    <3>12. \A k, l \in 1..m + 1 : k < l => d[k] < d[l]
      <4> TAKE k, l \in 1..m + 1
      <4> HAVE k < l
      <4>1. k \in 1..m
        BY <3>4
      <4>2. CASE l = m + 1
        BY <3>6, <3>7, <4>1, <4>2
      <4>3. CASE l \in 1..m
        BY <3>1, <3>6, <4>1, <4>3
      <4> QED
        BY <3>5, <4>2, <4>3
    <3>13. \A i \in At(n + 1) : \E k \in 1..m + 1 : i = d[k]
      <4> TAKE i \in At(n + 1)
      <4>1. CASE i = n + 1
        BY <3>4, <3>6, <4>1
      <4>2. CASE i \in At(n)
        <5>1. PICK k \in 1..m : i = e[k]
          BY <3>1, <4>2
        <5>2. k \in 1..m + 1 /\ i = d[k]
          BY <3>4, <3>6, <5>1
        <5> QED
          BY <5>2
      <4> QED
        BY <3>9, <4>1, <4>2
    <3> QED
      BY SMTT(30), <3>4, <3>10, <3>11, <3>12, <3>13
  <2> QED
    BY <2>2, <2>3
<1> HIDE DEF T
<1>4. Len(s) \in T
  BY <1>1, <1>2, <1>3, Inductive
<1>5. Good(Len(s))
  <2> HIDE DEF Good
  <2> QED
    BY <1>1, <1>4 DEF T
<1>6. Those(s, P) = t[Len(s)]
  BY TakingIs DEF t
<1>7. \A n : n \in At(Len(s)) <=> n \in DOMAIN s /\ n \in P
  BY <1>1
<1> HIDE DEF At
<1> DEFINE r == t[Len(s)]
<1>8. PICK e \in [1..Len(r) -> At(Len(s))] :
           /\ \A k \in 1..Len(r) : r[k] = s[e[k]]
           /\ \A k, l \in 1..Len(r) : k < l => e[k] < e[l]
           /\ \A i \in At(Len(s)) : \E k \in 1..Len(r) : i = e[k]
  BY <1>5
<1> HIDE DEF r
<1>9. e \in [1..Len(r) -> DOMAIN s] /\ \A k \in 1..Len(r) : e[k] \in P
  BY <1>7, <1>8
<1>10. \A n \in DOMAIN s : n \in P => \E k \in 1..Len(r) : n = e[k]
  BY <1>7, <1>8
<1> QED
  BY <1>6, <1>8, <1>9, <1>10 DEF r

-----------------------------------------------------------------------------
(* The defenses.                                                           *)

\* A claim is read in a chunk that states such a quantity.
LEMMA ClaimsAre ==
  ASSUME NEW s, NEW c \in Claims(s)
  PROVE  /\ c.chunk \in DOMAIN s
         /\ \E q \in Quantities(s[c.chunk]) : q.unit = c.unit /\ q.value = c.value
<1>1. PICK n \in DOMAIN s : \E q \in Quantities(s[n]) :
        c = [value |-> q.value, unit |-> q.unit, chunk |-> n, doc |-> s[n].doc,
             verified |-> s[n].provenance.verified, trust |-> s[n].provenance.trust]
  BY DEF Claims
<1>2. c.chunk = n /\ \E q \in Quantities(s[n]) : q.unit = c.unit /\ q.value = c.value
  BY <1>1
<1> QED
  BY <1>2

\* A decision that is no abstention drops only chunks with a quantity in conflict.
LEMMA ResolveIs ==
  ASSUME NEW s, IsSeq(s)
  PROVE  /\ Resolve(s).abstain \in BOOLEAN
         /\ Resolve(s).abstain => Resolve(s).context = s
         /\ IsSeq(Resolve(s).context)
         /\ ToSet(Resolve(s).context) \subseteq ToSet(s)
         /\ \A n \in DOMAIN s : s[n] \notin ToSet(Resolve(s).context) =>
              \E q \in Quantities(s[n]) : q.unit \in Conflicts(s)
<1> DEFINE of(unit) == {c \in Claims(s) : c.unit = unit}
           Winners(unit) == {v \in {c.value : c \in of(unit)} : Decided(of(unit), v)}
           rejected == {c.chunk : c \in {x \in Claims(s) :
                          x.unit \in Conflicts(s) /\ x.value \notin Winners(x.unit)}}
           left == Those(s, (DOMAIN s) \ rejected)
           clear == \A unit \in Conflicts(s) : Winners(unit) # {}
           said == {Word("quantity", c.value, "") : c \in UNION {of(unit) : unit \in Conflicts(s)}}
<1>1. Resolve(s) = IF clear THEN [abstain |-> FALSE, said |-> {}, context |-> left]
                   ELSE [abstain |-> TRUE, context |-> s, said |-> said]
  BY Zenon DEF Resolve
<1>2. \A n \in rejected : \E q \in Quantities(s[n]) : q.unit \in Conflicts(s)
  <2> TAKE n \in rejected
  <2>1. PICK c \in Claims(s) : c.chunk = n /\ c.unit \in Conflicts(s)
    OBVIOUS
  <2> QED
    BY <2>1, ClaimsAre
<1> HIDE DEF rejected, clear, said
<1>3. IsSeq(left) /\ ToSet(left) = {s[n] : n \in {i \in DOMAIN s : i \in (DOMAIN s) \ rejected}}
  BY ThoseAre
<1> HIDE DEF left
<1>4. ToSet(left) \subseteq ToSet(s)
  BY <1>3 DEF ToSet
<1>5. \A n \in DOMAIN s : s[n] \notin ToSet(left) => n \in rejected
  BY <1>3
<1>6. \A n \in DOMAIN s : s[n] \in ToSet(s)
  BY DEF ToSet
<1>7. CASE clear
  <2>1. Resolve(s).abstain = FALSE /\ Resolve(s).context = left
    BY <1>1, <1>7
  <2> QED
    BY <2>1, <1>2, <1>3, <1>4, <1>5
<1>8. CASE ~clear
  <2>1. Resolve(s).abstain = TRUE /\ Resolve(s).context = s
    BY <1>1, <1>8
  <2> QED
    BY <2>1, <1>6
<1> QED
  BY <1>7, <1>8

\* What a defense leaves of a context, and what it may have taken: a chunk it
\* screens, or one with a quantity in conflict.
LEMMA DefendedIs ==
  ASSUME NEW s, IsSeq(s), NEW d
  PROVE  /\ ToSet(Defended(s, {d}).context) \subseteq ToSet(s)
         /\ \A n \in DOMAIN s :
              /\ Screened(s[n], d) /\ ~Defended(s, {d}).abstain =>
                   s[n] \notin ToSet(Defended(s, {d}).context)
              /\ ~Screened(s[n], d) /\ s[n] \notin ToSet(Defended(s, {d}).context) =>
                   \E q \in Quantities(s[n]) : q.unit \in Conflicts(s)
<1> DEFINE D == Defended(s, {d})
           screened == IF "injection_filter" \in {d} THEN FilterInjected(s) ELSE s
           decision == Resolve(screened)
           trusted == FilterUntrusted(decision.context)
           Goal == /\ ToSet(D.context) \subseteq ToSet(s)
                   /\ \A n \in DOMAIN s :
                        /\ Screened(s[n], d) /\ ~D.abstain => s[n] \notin ToSet(D.context)
                        /\ ~Screened(s[n], d) /\ s[n] \notin ToSet(D.context) =>
                             \E q \in Quantities(s[n]) : q.unit \in Conflicts(s)
<1>1. D = IF "answer_integrity" \notin {d}
          THEN [abstain |-> FALSE, said |-> {}, context |-> screened]
          ELSE IF decision.abstain THEN decision
          ELSE [abstain |-> trusted = <<>>, said |-> {}, context |-> trusted]
  BY Zenon DEF Defended
<1>2. \A n \in DOMAIN s : s[n] \in ToSet(s)
  BY DEF ToSet
<1>3. ASSUME d = "injection_filter" PROVE Goal
  <2>1. D.context = FilterInjected(s) /\ D.abstain = FALSE
    <3>1. screened = FilterInjected(s)
      BY <1>3
    <3>2. "answer_integrity" \notin {d}
      BY <1>3
    <3> HIDE DEF D, screened, decision, trusted
    <3> QED
      BY <1>1, <3>1, <3>2
  <2>2. FilterInjected(s) = Those(s, {n \in DOMAIN s : ~LooksLikeInjection(s[n])})
    BY DEF FilterInjected
  <2> DEFINE P == {n \in DOMAIN s : ~LooksLikeInjection(s[n])}
  <2>3. ToSet(Those(s, P)) = {s[n] : n \in {i \in DOMAIN s : i \in P}}
    BY ThoseAre
  <2>4. \A n \in DOMAIN s : s[n] \in ToSet(Those(s, P)) <=> ~LooksLikeInjection(s[n])
    BY <2>3
  <2>5. \A n \in DOMAIN s : Screened(s[n], d) <=> LooksLikeInjection(s[n])
    BY <1>3 DEF Screened
  <2>6. ToSet(Those(s, P)) \subseteq ToSet(s)
    BY <1>2, <2>3
  <2> HIDE DEF D, P
  <2> QED
    BY <2>1, <2>2, <2>4, <2>5, <2>6 DEF P
<1>4. ASSUME d = "answer_integrity" PROVE Goal
  <2>1. D = IF Resolve(s).abstain THEN Resolve(s)
            ELSE [abstain |-> FilterUntrusted(Resolve(s).context) = <<>>, said |-> {},
                  context |-> FilterUntrusted(Resolve(s).context)]
    <3>1. screened = s /\ ~("answer_integrity" \notin {d})
      BY <1>4
    <3> HIDE DEF D, screened
    <3> QED
      BY <1>1, <3>1
  <2>2. \A n \in DOMAIN s : Screened(s[n], d) <=> ~Trusted(s[n])
    BY <1>4 DEF Screened
  <2> HIDE DEF D
  <2>3. ASSUME Resolve(s).abstain PROVE Goal
    <3>1. D.context = s /\ D.abstain
      BY <2>1, <2>3, ResolveIs
    <3> QED
      BY <1>2, <3>1
  <2>4. ASSUME ~Resolve(s).abstain PROVE Goal
    <3> DEFINE t == Resolve(s).context
               P == {n \in DOMAIN t : Trusted(t[n])}
    <3>1. D.context = Those(t, P)
      BY <2>1, <2>4 DEF FilterUntrusted
    <3>2. /\ IsSeq(t) /\ ToSet(t) \subseteq ToSet(s)
          /\ \A n \in DOMAIN s : s[n] \notin ToSet(t) =>
               \E q \in Quantities(s[n]) : q.unit \in Conflicts(s)
      BY ResolveIs
    <3> HIDE DEF t
    <3>3. ToSet(Those(t, P)) = {t[n] : n \in {i \in DOMAIN t : i \in P}}
      BY <3>2, ThoseAre
    <3>4. \A x : x \in ToSet(Those(t, P)) <=> x \in ToSet(t) /\ Trusted(x)
      BY <3>3 DEF ToSet
    <3> HIDE DEF P
    <3> QED
      BY <1>2, <2>2, <3>1, <3>2, <3>4
  <2> HIDE DEF Goal
  <2> QED
    BY <2>3, <2>4
<1>5. ASSUME d # "injection_filter" /\ d # "answer_integrity" PROVE Goal
  <2>1. D.context = s
    <3>1. screened = s /\ "answer_integrity" \notin {d}
      BY <1>5
    <3> HIDE DEF D, screened, decision, trusted
    <3> QED
      BY <1>1, <3>1
  <2>2. \A n \in DOMAIN s : ~Screened(s[n], d)
    BY <1>5 DEF Screened
  <2> HIDE DEF D
  <2> QED
    BY <1>2, <2>1, <2>2
<1>6. Goal
  <2> HIDE DEF Goal
  <2> QED
    BY <1>3, <1>4, <1>5
<1> QED
  BY <1>6

-----------------------------------------------------------------------------
(* The chunkers.                                                           *)

\* A text is a sequence of words of some width.
IsText(text) == IsSeq(text) /\ \A n \in DOMAIN text : text[n].is \in DOMAIN Width

\* Every word of a text has a width.
LEMMA WordIs ==
  ASSUME NEW text, IsText(text)
  PROVE  /\ Len(text) \in Nat /\ DOMAIN text = 1..Len(text)
         /\ \A n \in 1..Len(text) : Width[text[n].is] \in Nat \ {0}
<1>1. Len(text) \in Nat /\ DOMAIN text = 1..Len(text)
  BY DEF IsText, IsSeq
<1> QED
  BY <1>1, IngestionAssumption DEF IsText, IngestionAssumption

\* Each word starts behind the one before it.
LEMMA StartIs ==
  ASSUME NEW text, IsText(text)
  PROVE  Start(text) = [n \in 1..Len(text) + 1 |->
           IF n = 1 THEN 0 ELSE Start(text)[n - 1] + Width[text[n - 1].is] + 1]
<1> DEFINE Body(f, n) == IF n = 1 THEN 0 ELSE f[n - 1] + Width[text[n - 1].is] + 1
           Read(n) == \E f : f = [i \in 1..n |-> Body(f, i)]
           T == {n \in Nat : Read(n)}
<1>0. Len(text) + 1 \in Nat
  BY WordIs
<1>1. 0 \in T
  <2> DEFINE e == [i \in 1..0 |-> 0]
  <2>1. e = [i \in 1..0 |-> Body(e, i)]
    OBVIOUS
  <2> HIDE DEF e, Body
  <2> QED
    BY <2>1
<1>2. ASSUME NEW n \in Nat, n \in T PROVE n + 1 \in T
  <2>1. PICK d : d = [i \in 1..n |-> Body(d, i)]
    <3>1. Read(n)
      <4> HIDE DEF Read
      <4> QED
        BY <1>2
    <3> QED
      BY <3>1
  <2> DEFINE e == [i \in 1..n + 1 |-> IF i = n + 1 THEN Body(d, i) ELSE d[i]]
  <2>2. ASSUME NEW i \in 1..n + 1 PROVE e[i] = Body(e, i)
    <3>1. i = 1 \/ (i - 1 \in 1..n + 1 /\ i - 1 # n + 1)
      OBVIOUS
    <3>2. e[i] = Body(d, i)
      <4>1. CASE i = n + 1
        BY <4>1
      <4>2. CASE i # n + 1
        <5>1. e[i] = d[i] /\ i \in 1..n
          BY <4>2
        <5> HIDE DEF Body, e
        <5> QED
          BY <2>1, <5>1
      <4> QED
        BY <4>1, <4>2
    <3>3. i # 1 => e[i - 1] = d[i - 1]
      BY <3>1
    <3> HIDE DEF e
    <3> QED
      BY <3>2, <3>3
  <2>3. e = [i \in 1..n + 1 |-> e[i]]
    OBVIOUS
  <2> HIDE DEF e
  <2>4. e = [i \in 1..n + 1 |-> Body(e, i)]
    BY <2>2, <2>3
  <2> HIDE DEF Body
  <2> QED
    BY <2>4
<1> HIDE DEF T
<1>3. Len(text) + 1 \in T
  BY <1>0, <1>1, <1>2, Inductive
<1>4. \E f : f = [i \in 1..Len(text) + 1 |-> Body(f, i)]
  <2>1. Read(Len(text) + 1)
    <3> HIDE DEF Read
    <3> QED
      BY <1>3 DEF T
  <2> QED
    BY <2>1
<1>5. Start(text) = CHOOSE f : f = [i \in 1..Len(text) + 1 |-> Body(f, i)]
  BY DEF Start
<1>6. Start(text) = [i \in 1..Len(text) + 1 |-> Body(Start(text), i)]
  <2> HIDE DEF Body
  <2> QED
    BY <1>4, <1>5
<1> QED
  BY <1>6

\* Words begin one behind the other, with a character between two.
LEMMA Starts ==
  ASSUME NEW text, IsText(text)
  PROVE  /\ Start(text)[1] = 0
         /\ \A n \in 1..Len(text) + 1 : Start(text)[n] \in Nat
         /\ \A n \in 1..Len(text) : /\ End(text, n) \in Nat
                                    /\ Start(text)[n] < End(text, n)
                                    /\ Start(text)[n + 1] = End(text, n) + 1
<1> DEFINE t == Start(text)
           W(n) == Width[text[n].is]
           T == {n \in Nat : n <= Len(text) => t[n + 1] \in Nat}
<1>1. Len(text) \in Nat /\ \A n \in 1..Len(text) : W(n) \in Nat \ {0}
  BY WordIs
<1> HIDE DEF W
<1>2. t = [n \in 1..Len(text) + 1 |-> IF n = 1 THEN 0 ELSE t[n - 1] + W(n - 1) + 1]
  BY StartIs DEF W
<1>3. \A n \in 1..Len(text) : End(text, n) = t[n] + W(n)
  BY DEF End, W
<1> HIDE DEF t
<1>4. t[1] = 0
  BY <1>1, <1>2
<1>5. ASSUME NEW n \in 1..Len(text) PROVE t[n + 1] = t[n] + W(n) + 1
  <2>1. n + 1 \in 1..Len(text) + 1 /\ n + 1 # 1 /\ (n + 1) - 1 = n
    BY <1>1
  <2> QED
    BY <1>2, <2>1
<1>6. 0 \in T
  BY <1>4
<1>7. ASSUME NEW n \in Nat, n \in T PROVE n + 1 \in T
  <2> SUFFICES ASSUME n + 1 <= Len(text) PROVE t[(n + 1) + 1] \in Nat
    OBVIOUS
  <2>1. n + 1 \in 1..Len(text) /\ t[n + 1] \in Nat
    BY <1>1, <1>7
  <2>2. t[(n + 1) + 1] = t[n + 1] + W(n + 1) + 1 /\ W(n + 1) \in Nat
    BY <1>1, <1>5, <2>1
  <2> QED
    BY <2>1, <2>2
<1> HIDE DEF T
<1>8. \A n \in Nat : n \in T
  BY <1>6, <1>7, Inductive
<1>9. \A n \in 1..Len(text) + 1 : t[n] \in Nat
  <2> TAKE n \in 1..Len(text) + 1
  <2>1. n - 1 \in Nat /\ n - 1 <= Len(text) /\ (n - 1) + 1 = n
    BY <1>1
  <2> QED
    BY <1>8, <2>1 DEF T
<1>10. ASSUME NEW n \in 1..Len(text)
       PROVE  End(text, n) \in Nat /\ t[n] < End(text, n) /\ t[n + 1] = End(text, n) + 1
  <2>1. t[n] \in Nat /\ W(n) \in Nat \ {0} /\ End(text, n) = t[n] + W(n)
    BY <1>1, <1>3, <1>9
  <2> QED
    BY <1>5, <2>1
<1> QED
  BY <1>4, <1>9, <1>10 DEF t

\* Words start in their order.
LEMMA Ordered ==
  ASSUME NEW text, IsText(text), NEW m \in 1..Len(text) + 1, NEW n \in 1..Len(text) + 1, m <= n
  PROVE  Start(text)[m] <= Start(text)[n]
<1> DEFINE t == Start(text)
           T == {k \in Nat : m + k <= Len(text) + 1 => t[m] <= t[m + k]}
<1>1. /\ Len(text) \in Nat /\ \A k \in 1..Len(text) + 1 : t[k] \in Nat
      /\ \A k \in 1..Len(text) : t[k] < t[k + 1]
  BY WordIs, Starts
<1> HIDE DEF t
<1>2. 0 \in T
  BY <1>1
<1>3. ASSUME NEW k \in Nat, k \in T PROVE k + 1 \in T
  <2> SUFFICES ASSUME m + (k + 1) <= Len(text) + 1 PROVE t[m] <= t[m + (k + 1)]
    OBVIOUS
  <2>1. m + k \in 1..Len(text) /\ m + (k + 1) = (m + k) + 1
    BY <1>1
  <2>2. t[m] <= t[m + k] /\ t[m + k] < t[(m + k) + 1] /\ t[m] \in Nat
    BY <1>1, <1>3, <2>1
  <2>3. t[m + k] \in Nat /\ t[(m + k) + 1] \in Nat
    BY <1>1, <2>1
  <2> QED
    BY <2>1, <2>2, <2>3
<1> HIDE DEF T
<1>4. n - m \in Nat /\ m + (n - m) = n
  OBVIOUS
<1>5. n - m \in T
  BY <1>2, <1>3, <1>4, Inductive
<1> QED
  BY <1>4, <1>5 DEF T, t

\* A part of a text is a text, measured from where it begins.
LEMMA PartIs ==
  ASSUME NEW text, IsText(text), NEW a \in 1..Len(text), NEW b \in a..Len(text)
  PROVE  LET part == SubSeq(text, a, b) IN
         /\ IsText(part) /\ Len(part) = b - a + 1
         /\ \A k \in 1..Len(part) : part[k] = text[a + k - 1]
         /\ \A k \in 1..Len(part) + 1 : Start(part)[k] = Start(text)[a + k - 1] - Start(text)[a]
         /\ \A k \in 1..Len(part) : End(part, k) = End(text, a + k - 1) - Start(text)[a]
<1> DEFINE part == SubSeq(text, a, b)
           s == Start(text)
           u == Start(part)
           T == {n \in Nat : n <= b - a + 1 => u[n + 1] = s[a + n] - s[a]}
<1>1. Len(text) \in Nat /\ DOMAIN text = 1..Len(text) /\ text \in Seq(ToSet(text))
  BY WordIs DEF IsText, IsSeq
<1>2. /\ part \in Seq(ToSet(text)) /\ Len(part) = b - a + 1 /\ DOMAIN part = 1..b - a + 1
      /\ \A k \in 1..b - a + 1 : part[k] = text[a + k - 1]
  BY <1>1
<1> HIDE DEF part
<1>3. IsText(part)
  <2>1. IsSeq(part)
    BY <1>2, SequenceIs
  <2>2. \A k \in 1..b - a + 1 : a + k - 1 \in DOMAIN text
    BY <1>1
  <2> QED
    BY <1>2, <2>1, <2>2 DEF IsText
<1>4. /\ u[1] = 0 /\ \A n \in 1..b - a + 2 : u[n] \in Nat
      /\ \A n \in 1..b - a + 1 : u[n + 1] = End(part, n) + 1 /\ End(part, n) \in Nat
  <2>1. Len(part) + 1 = b - a + 2
    BY <1>1, <1>2
  <2> QED
    BY <1>2, <1>3, <2>1, Starts
<1>5. /\ \A n \in 1..Len(text) + 1 : s[n] \in Nat
      /\ \A n \in 1..Len(text) : s[n + 1] = End(text, n) + 1 /\ End(text, n) \in Nat
  BY Starts
<1>6. \A n \in 1..b - a + 1 : End(part, n) - u[n] = End(text, a + n - 1) - s[a + n - 1]
  <2> TAKE n \in 1..b - a + 1
  <2>1. part[n] = text[a + n - 1] /\ n \in 1..Len(part) /\ a + n - 1 \in 1..Len(text)
    BY <1>1, <1>2
  <2>2. Width[part[n].is] \in Nat
    BY <1>3, <2>1, WordIs
  <2>4. u[n] \in Nat /\ s[a + n - 1] \in Nat
    BY <1>1, <1>4, <1>5, <2>1
  <2>3. End(part, n) = u[n] + Width[part[n].is] /\ End(text, a + n - 1) = s[a + n - 1] + Width[part[n].is]
    BY <2>1 DEF End
  <2> QED
    BY <2>2, <2>3, <2>4
<1> HIDE DEF s, u
<1>7. 0 \in T
  <2>1. s[a] \in Nat /\ u[0 + 1] = 0 /\ a + 0 = a
    BY <1>1, <1>4, <1>5
  <2> QED
    BY <2>1
<1>8. ASSUME NEW n \in Nat, n \in T PROVE n + 1 \in T
  <2> SUFFICES ASSUME n + 1 <= b - a + 1 PROVE u[(n + 1) + 1] = s[a + (n + 1)] - s[a]
    OBVIOUS
  <2>1. /\ n + 1 \in 1..b - a + 1 /\ a + n \in 1..Len(text) /\ a + (n + 1) = (a + n) + 1
        /\ a + (n + 1) - 1 = a + n
    BY <1>1
  <2>2. u[n + 1] = s[a + n] - s[a]
    BY <1>8
  <2>3. /\ u[(n + 1) + 1] = End(part, n + 1) + 1 /\ s[(a + n) + 1] = End(text, a + n) + 1
        /\ End(part, n + 1) - u[n + 1] = End(text, a + n) - s[a + n]
    BY <1>4, <1>5, <1>6, <2>1
  <2>4. /\ u[n + 1] \in Nat /\ s[a] \in Nat /\ s[a + n] \in Nat
        /\ End(part, n + 1) \in Nat /\ End(text, a + n) \in Nat
    BY SMTT(30), <1>1, <1>4, <1>5, <2>1
  <2> DEFINE p == End(part, n + 1)
             q == End(text, a + n)
             c == s[a]
             d == s[a + n]
             e == u[n + 1]
  <2>5. /\ p \in Nat /\ q \in Nat /\ c \in Nat /\ d \in Nat /\ e \in Nat
        /\ p - e = q - d /\ e = d - c
        /\ u[(n + 1) + 1] = p + 1 /\ s[a + (n + 1)] = q + 1
    BY <2>1, <2>2, <2>3, <2>4
  <2> HIDE DEF p, q, d, e
  <2>6. p + 1 = (q + 1) - c
    <3> HIDE DEF c
    <3> QED
      BY <2>5
  <2> QED
    BY <2>5, <2>6
<1> HIDE DEF T
<1>9. \A n \in Nat : n \in T
  BY <1>7, <1>8, Inductive
<1>10. \A k \in 1..b - a + 2 : u[k] = s[a + k - 1] - s[a]
  <2> TAKE k \in 1..b - a + 2
  <2>1. k - 1 \in Nat /\ k - 1 <= b - a + 1 /\ (k - 1) + 1 = k /\ a + (k - 1) = a + k - 1
    OBVIOUS
  <2> QED
    BY <1>9, <2>1 DEF T
<1>11. \A k \in 1..b - a + 1 : End(part, k) = End(text, a + k - 1) - s[a]
  <2> TAKE k \in 1..b - a + 1
  <2>1. k \in 1..b - a + 2 /\ a + k - 1 \in 1..Len(text) /\ k \in 1..Len(part)
    BY <1>1, <1>2
  <2> DEFINE c == a + k - 1
  <2>5. c \in 1..Len(text) /\ a \in 1..Len(text) + 1 /\ c \in 1..Len(text) + 1 /\ k \in 1..b - a + 1
    BY <1>1, <2>1
  <2> HIDE DEF c
  <2>6. u[k] \in Nat /\ End(part, k) \in Nat
    BY <1>4, <2>1
  <2>7. s[a] \in Nat /\ s[c] \in Nat /\ End(text, c) \in Nat
    BY <1>5, <2>5
  <2>2. /\ u[k] \in Nat /\ s[a] \in Nat /\ s[a + k - 1] \in Nat
        /\ End(part, k) \in Nat /\ End(text, a + k - 1) \in Nat
    BY <2>6, <2>7 DEF c
  <2>3. u[k] = s[a + k - 1] - s[a]
    BY <1>10, <2>1
  <2>4. End(part, k) - u[k] = End(text, a + k - 1) - s[a + k - 1]
    BY <1>6
  <2> QED
    BY SMTT(30), <2>2, <2>3, <2>4
<1> QED
  BY <1>1, <1>2, <1>3, <1>10, <1>11 DEF part, s, u

\* The last word of the window that begins with a word.
Fitting(text, i) == Max({i} \cup {j \in i..Len(text) : End(text, j) - Start(text)[i] <= Size})

\* A window has at least a word, and further ones only as they fit.
LEMMA FittingIs ==
  ASSUME NEW text, IsText(text), NEW i \in 1..Len(text)
  PROVE  LET j == Fitting(text, i) IN
         j \in i..Len(text) /\ (j = i \/ End(text, j) - Start(text)[i] <= Size)
<1> DEFINE S == {i} \cup {j \in i..Len(text) : End(text, j) - Start(text)[i] <= Size}
<1>1. Len(text) \in Nat
  BY WordIs
<1>2. S \in SUBSET (0..Len(text)) /\ S # {}
  BY <1>1
<1> HIDE DEF S
<1>3. Max(S) \in S
  BY <1>1, <1>2, GreatestIs
<1>4. Fitting(text, i) \in S
  BY <1>3 DEF Fitting, S
<1> QED
  BY <1>1, <1>4 DEF S

\* The next window starts further on, leaves no gap, and goes back by no more than Overlap.
LEMMA NextIs ==
  ASSUME NEW text, IsText(text), NEW i \in 1..Len(text), NEW j \in i..Len(text)
  PROVE  LET n == NextWindow(text, i, j) IN
         n \in i + 1..j + 1 /\ (n <= j => Start(text)[n] >= End(text, j) - Overlap)
<1> DEFINE S == {n \in i + 1..j + 1 : n = j + 1 \/ Start(text)[n] >= End(text, j) - Overlap}
<1>1. Len(text) \in Nat
  BY WordIs
<1>2. S \in SUBSET Nat /\ j + 1 \in S
  BY <1>1
<1> HIDE DEF S
<1>3. Min(S) \in S
  BY <1>2, LeastIs
<1>4. NextWindow(text, i, j) \in S
  BY <1>3 DEF NextWindow, S
<1> QED
  BY <1>1, <1>4 DEF S

\* The windows of a text from one of its words on.
Cutting(text) ==
  LET Fit(i) == Max({i} \cup {j \in i..Len(text) : End(text, j) - Start(text)[i] <= Size})
      from[i \in 1..Len(text) + 1] ==
        IF i > Len(text) THEN <<>>
        ELSE <<<<i, Fit(i)>>>> \o
             (IF Fit(i) = Len(text) THEN <<>> ELSE from[NextWindow(text, i, Fit(i))])
  IN  from

\* The windows from a word on are its own and those from the next one on.
LEMMA CuttingIs ==
  ASSUME NEW text, IsText(text)
  PROVE  /\ FixedSpans(text) = Cutting(text)[1]
         /\ Cutting(text) = [i \in 1..Len(text) + 1 |->
              IF i > Len(text) THEN <<>>
              ELSE <<<<i, Fitting(text, i)>>>> \o
                   (IF Fitting(text, i) = Len(text) THEN <<>>
                    ELSE Cutting(text)[NextWindow(text, i, Fitting(text, i))])]
<1> DEFINE L == Len(text)
           Body(f, i) == IF i > L THEN <<>>
              ELSE <<<<i, Fitting(text, i)>>>> \o
                   (IF Fitting(text, i) = L THEN <<>>
                    ELSE f[NextWindow(text, i, Fitting(text, i))])
           Read(n) == \E f : f = [i \in L + 1 - n..L + 1 |-> Body(f, i)]
           T == {n \in Nat : n <= L => Read(n)}
<1>0. L \in Nat
  BY WordIs
<1>1. \A i \in 1..L : /\ Fitting(text, i) \in i..L
                      /\ NextWindow(text, i, Fitting(text, i)) \in i + 1..Fitting(text, i) + 1
  BY FittingIs, NextIs
<1>2. 0 \in T
  <2> DEFINE e == [i \in L + 1 - 0..L + 1 |-> <<>>]
  <2>1. \A i \in L + 1 - 0..L + 1 : i > L
    BY <1>0
  <2>2. e = [i \in L + 1 - 0..L + 1 |-> Body(e, i)]
    BY <2>1
  <2> HIDE DEF e, Body
  <2> QED
    BY <2>2
<1>3. ASSUME NEW n \in Nat, n \in T PROVE n + 1 \in T
  <2>0. SUFFICES ASSUME n + 1 <= L PROVE Read(n + 1)
    <3> HIDE DEF Read
    <3> QED
      OBVIOUS
  <2>1. PICK d : d = [i \in L + 1 - n..L + 1 |-> Body(d, i)]
    <3>1. Read(n)
      <4> HIDE DEF Read
      <4> QED
        BY <1>0, <1>3, <2>0
    <3> QED
      BY <3>1
  <2> DEFINE m == L + 1 - (n + 1)
             e == [i \in m..L + 1 |-> IF i = m THEN Body(d, i) ELSE d[i]]
  <2>2. m \in 1..L /\ m + 1 = L + 1 - n
    BY <1>0, <2>0
  <2>3. ASSUME NEW i \in m..L + 1 PROVE e[i] = Body(e, i)
    <3>1. e[i] = Body(d, i)
      <4>1. CASE i = m
        BY <4>1
      <4>2. CASE i # m
        <5>1. e[i] = d[i] /\ i \in L + 1 - n..L + 1
          BY <2>2, <4>2, <1>0
        <5> HIDE DEF Body, e
        <5> QED
          BY <2>1, <5>1
      <4> QED
        BY <4>1, <4>2
    <3> DEFINE fit == Fitting(text, i)
               next == NextWindow(text, i, fit)
    <3>2. i <= L /\ fit # L => e[next] = d[next]
      <4> HAVE i <= L /\ fit # L
      <4>1. i \in 1..L
        BY <1>0, <2>2
      <4>2. fit \in i..L /\ next \in i + 1..fit + 1
        BY <1>1, <4>1
      <4> HIDE DEF fit, next
      <4>3. next \in m..L + 1 /\ next # m
        BY <1>0, <2>2, <4>1, <4>2
      <4> HIDE DEF Body, m
      <4> QED
        BY <4>3
    <3>3. i > L \/ i <= L
      BY <1>0, <2>2
    <3>4. CASE i > L
      <4> HIDE DEF e, fit, next
      <4> QED
        BY <3>1, <3>4
    <3>5. CASE i <= L
      <4>1. ~(i > L)
        BY <1>0, <2>2, <3>5
      <4>2. Body(d, i) = <<<<i, fit>>>> \o (IF fit = L THEN <<>> ELSE d[next])
        BY <4>1
      <4>3. Body(e, i) = <<<<i, fit>>>> \o (IF fit = L THEN <<>> ELSE e[next])
        <5> HIDE DEF e
        <5> QED
          BY <4>1
      <4> HIDE DEF e, fit, next, Body
      <4> QED
        BY <3>1, <3>2, <3>5, <4>2, <4>3
    <3> HIDE DEF e, Body
    <3> QED
      BY <3>3, <3>4, <3>5
  <2>4. e = [i \in m..L + 1 |-> e[i]]
    OBVIOUS
  <2> HIDE DEF e
  <2>5. e = [i \in m..L + 1 |-> Body(e, i)]
    BY <2>3, <2>4
  <2> HIDE DEF Body
  <2> QED
    BY <2>5
<1> HIDE DEF T
<1>4. L \in T /\ L + 1 - L = 1
  BY <1>0, <1>2, <1>3, Inductive
<1>5. \E f : f = [i \in 1..L + 1 |-> Body(f, i)]
  <2>1. Read(L)
    <3> HIDE DEF Read
    <3> QED
      BY <1>0, <1>4 DEF T
  <2> HIDE DEF Body, L
  <2> QED
    BY <2>1, <1>4
<1>6. Cutting(text) = CHOOSE f : f = [i \in 1..L + 1 |-> Body(f, i)]
  BY DEF Cutting, Fitting
<1>7. Cutting(text) = [i \in 1..L + 1 |-> Body(Cutting(text), i)]
  <2> HIDE DEF Body
  <2> QED
    BY <1>5, <1>6
<1>8. FixedSpans(text) = Cutting(text)[1]
  BY Zenon DEF FixedSpans, Cutting
<1> QED
  BY <1>7, <1>8

\* The spans S cut the words lo..hi of a text: they hold every one of them,
\* begin one behind the other, and keep to the size and the overlap.
Cuts(text, S, lo, hi) ==
  /\ \A s \in S : s[1] \in lo..hi /\ s[2] \in s[1]..hi
  /\ \A p \in lo..hi : \E s \in S : p \in s[1]..s[2]
  /\ \A s \in S : s[1] = s[2] \/ End(text, s[2]) - Start(text)[s[1]] <= Size
  /\ \A s, t \in S : s[1] = t[1] => s = t
  /\ \A s, t \in S : s[1] < t[1] /\ t[1] <= s[2] =>
       End(text, s[2]) - Start(text)[t[1]] <= Overlap

\* A window and what is cut behind it.
LEMMA WindowCuts ==
  ASSUME NEW text, IsText(text), NEW i \in 1..Len(text), NEW R,
         LET n == NextWindow(text, i, Fitting(text, i)) IN
           IF Fitting(text, i) = Len(text) THEN R = {} ELSE Cuts(text, R, n, Len(text))
  PROVE  Cuts(text, {<<i, Fitting(text, i)>>} \cup R, i, Len(text))
<1> DEFINE L == Len(text)
           j == Fitting(text, i)
           n == NextWindow(text, i, j)
           S == {<<i, j>>} \cup R
<1>1. L \in Nat /\ j \in i..L /\ (j = i \/ End(text, j) - Start(text)[i] <= Size)
  BY WordIs, FittingIs
<1>2. n \in i + 1..j + 1 /\ (n <= j => Start(text)[n] >= End(text, j) - Overlap)
  BY <1>1, NextIs
<1>3. /\ \A k \in 1..L + 1 : Start(text)[k] \in Nat
      /\ \A k \in 1..L : End(text, k) \in Nat
      /\ \A k, l \in 1..L + 1 : k <= l => Start(text)[k] <= Start(text)[l]
  BY Starts, Ordered
<1>4. Overlap \in Nat /\ Size \in Nat
  BY IngestionAssumption DEF IngestionAssumption
<1>5. IF j = L THEN R = {} ELSE Cuts(text, R, n, L)
  OBVIOUS
<1> HIDE DEF j, n, L
<1>6. \A s \in R : s[1] \in n..L /\ s[2] \in s[1]..L /\ s[1] \in i + 1..L /\ Cuts(text, R, n, L) /\ j # L
  BY <1>1, <1>2, <1>5 DEF Cuts
<1>7. <<i, j>>[1] = i /\ <<i, j>>[2] = j
  OBVIOUS
<1>8. \A s \in S : s = <<i, j>> \/ s \in R
  OBVIOUS
<1> HIDE DEF S
<1>9. \A s \in S : s[1] \in i..L /\ s[2] \in s[1]..L
  BY <1>1, <1>6, <1>7, <1>8
<1>10. \A p \in i..L : \E s \in S : p \in s[1]..s[2]
  <2> TAKE p \in i..L
  <2>1. CASE p <= j
    <3>1. <<i, j>> \in S /\ p \in i..j
      BY <1>1, <2>1 DEF S
    <3> QED
      BY <1>7, <3>1
  <2>2. CASE p > j
    <3>1. j # L /\ p \in n..L
      BY <1>1, <1>2, <2>2
    <3>2. \E s \in R : p \in s[1]..s[2]
      BY <1>5, <3>1 DEF Cuts
    <3> QED
      BY <3>2 DEF S
  <2> QED
    BY <1>1, <2>1, <2>2
<1>11. \A s \in S : s[1] = s[2] \/ End(text, s[2]) - Start(text)[s[1]] <= Size
  BY <1>1, <1>6, <1>7, <1>8 DEF Cuts
<1>12. \A s, t \in S : s[1] = t[1] => s = t
  <2> TAKE s, t \in S
  <2>1. CASE s \in R /\ t \in R
    BY <1>6, <2>1 DEF Cuts
  <2>2. CASE s = <<i, j>> /\ t \in R
    <3>1. t[1] # i
      BY <1>1, <1>6, <2>2
    <3> QED
      BY <1>7, <2>2, <3>1
  <2>3. CASE s \in R /\ t = <<i, j>>
    <3>1. s[1] # i
      BY <1>1, <1>6, <2>3
    <3> QED
      BY <1>7, <2>3, <3>1
  <2> QED
    BY <1>8, <2>1, <2>2, <2>3
<1>13. \A s, t \in S : s[1] < t[1] /\ t[1] <= s[2] =>
         End(text, s[2]) - Start(text)[t[1]] <= Overlap
  <2> TAKE s, t \in S
  <2> HAVE s[1] < t[1] /\ t[1] <= s[2]
  <2>1. CASE s \in R /\ t \in R
    BY <1>6, <2>1 DEF Cuts
  <2>2. CASE s = <<i, j>> /\ t \in R
    <3>1. t[1] \in n..L /\ t[1] <= j
      BY <1>6, <1>7, <2>2
    <3>2. n <= j /\ n \in 1..L + 1 /\ t[1] \in 1..L + 1 /\ n <= t[1]
      BY <1>1, <1>2, <3>1
    <3>3. Start(text)[n] >= End(text, j) - Overlap /\ Start(text)[n] <= Start(text)[t[1]]
      BY <1>2, <1>3, <3>2
    <3>4. Start(text)[n] \in Nat /\ Start(text)[t[1]] \in Nat /\ End(text, j) \in Nat
      BY <1>1, <1>3, <3>2
    <3>5. End(text, j) - Start(text)[t[1]] <= Overlap
      BY <1>4, <3>3, <3>4
    <3> QED
      BY <1>7, <2>2, <3>5
  <2>3. CASE t = <<i, j>>
    <3>1. s[1] \in i..L
      BY <1>9
    <3> QED
      BY <1>1, <1>7, <2>3, <3>1
  <2> QED
    BY <1>8, <2>1, <2>2, <2>3
<1>14. Cuts(text, S, i, L)
  BY <1>9, <1>10, <1>11, <1>12, <1>13 DEF Cuts
<1> QED
  BY <1>14 DEF S, j, L

\* The windows of a text cut it.
LEMMA FixedSpansCut ==
  ASSUME NEW text, IsText(text)
  PROVE  IsSeq(FixedSpans(text)) /\ Cuts(text, ToSet(FixedSpans(text)), 1, Len(text))
<1> DEFINE L == Len(text)
           c == Cutting(text)
           Good(i) == IsSeq(c[i]) /\ Cuts(text, ToSet(c[i]), i, L)
           T == {n \in Nat : n <= L => \A i \in L + 1 - n..L + 1 : Good(i)}
           Rest(i) == IF Fitting(text, i) = L THEN <<>>
                      ELSE c[NextWindow(text, i, Fitting(text, i))]
<1>1. L \in Nat
  BY WordIs
<1>2. /\ FixedSpans(text) = c[1]
      /\ c = [i \in 1..L + 1 |-> IF i > L THEN <<>> ELSE <<<<i, Fitting(text, i)>>>> \o Rest(i)]
  BY CuttingIs
<1> HIDE DEF c
<1>3. IsSeq(<<>>) /\ ToSet(<<>>) = {}
  BY DEF IsSeq, ToSet
<1>4. \A i \in 1..L : c[i] = <<<<i, Fitting(text, i)>>>> \o Rest(i)
  <2> TAKE i \in 1..L
  <2>1. i \in 1..L + 1 /\ ~(i > L)
    BY <1>1
  <2> HIDE DEF Rest
  <2> QED
    BY <1>2, <2>1
<1>5. c[L + 1] = <<>>
  <2>1. L + 1 \in 1..L + 1 /\ L + 1 > L
    BY <1>1
  <2> HIDE DEF Rest
  <2> QED
    BY <1>2, <2>1
<1>6. Good(L + 1)
  <2>1. L + 1..L = {}
    BY <1>1
  <2>2. Cuts(text, {}, L + 1, L)
    BY <2>1 DEF Cuts
  <2> QED
    BY <1>3, <1>5, <2>2
<1>7. 0 \in T
  <2>1. \A i \in L + 1 - 0..L + 1 : i = L + 1
    BY <1>1
  <2> HIDE DEF Good
  <2> QED
    BY <1>6, <2>1
<1>8. ASSUME NEW n \in Nat, n \in T PROVE n + 1 \in T
  <2> SUFFICES ASSUME n + 1 <= L, NEW i \in L + 1 - (n + 1)..L + 1 PROVE Good(i)
    OBVIOUS
  <2>1. \A k \in L + 1 - n..L + 1 : Good(k)
    <3> HIDE DEF Good
    <3> QED
      BY <1>1, <1>8
  <2>2. CASE i # L + 1 - (n + 1)
    <3>1. i \in L + 1 - n..L + 1
      BY <1>1, <2>2
    <3> HIDE DEF Good
    <3> QED
      BY <2>1, <3>1
  <2>3. CASE i = L + 1 - (n + 1)
    <3>1. i \in 1..L /\ L + 1 - n = i + 1
      BY <1>1, <2>3
    <3>2. c[i] = <<<<i, Fitting(text, i)>>>> \o Rest(i)
      BY <1>4, <3>1
    <3>3. Fitting(text, i) \in i..L
      BY <3>1, FittingIs
    <3>4. NextWindow(text, i, Fitting(text, i)) \in i + 1..Fitting(text, i) + 1
      BY <3>1, <3>3, NextIs
    <3>5. NextWindow(text, i, Fitting(text, i)) \in L + 1 - n..L + 1
      BY <1>1, <3>1, <3>3, <3>4
    <3>6. Fitting(text, i) # L => Good(NextWindow(text, i, Fitting(text, i)))
      <4> HIDE DEF Good
      <4> QED
        BY <2>1, <3>5
    <3>7. IsSeq(Rest(i))
      BY <1>3, <3>6
    <3>8. IF Fitting(text, i) = L THEN ToSet(Rest(i)) = {}
          ELSE Cuts(text, ToSet(Rest(i)), NextWindow(text, i, Fitting(text, i)), L)
      BY <1>3, <3>6
    <3> HIDE DEF Rest
    <3> DEFINE R == ToSet(Rest(i))
    <3>9. Cuts(text, {<<i, Fitting(text, i)>>} \cup R, i, L)
      <4> HIDE DEF R
      <4>1. IF Fitting(text, i) = L THEN R = {}
            ELSE Cuts(text, R, NextWindow(text, i, Fitting(text, i)), L)
        BY <3>8 DEF R
      <4> QED
        BY <3>1, <4>1, WindowCuts
    <3> DEFINE w == <<i, Fitting(text, i)>>
    <3> HIDE DEF w
    <3>10. IsSeq(<<w>>) /\ ToSet(<<w>>) = {w}
      BY DEF IsSeq, ToSet
    <3> DEFINE ww == <<w>>
    <3>11. IsSeq(ww \o Rest(i)) /\ ToSet(ww \o Rest(i)) = ToSet(ww) \cup ToSet(Rest(i))
      <4> HIDE DEF ww
      <4>1. IsSeq(ww)
        BY <3>10 DEF ww
      <4> QED
        BY <3>7, <4>1, Joins
    <3>12. c[i] = ww \o Rest(i)
      BY <3>2 DEF w
    <3> QED
      BY <3>9, <3>10, <3>11, <3>12 DEF w
  <2> QED
    BY <2>2, <2>3
<1> HIDE DEF T
<1>9. L \in T
  BY <1>1, <1>7, <1>8, Inductive
<1>10. Good(1)
  <2>1. 1 \in L + 1 - L..L + 1
    BY <1>1
  <2> HIDE DEF Good
  <2> QED
    BY <1>1, <1>9, <2>1 DEF T
<1> QED
  BY <1>2, <1>10

\* Sections are parts of a text that follow each other, up to its end.
Apart(S, L) ==
  /\ \A s \in S : s = <<s[1], s[2]>> /\ s[1] \in 1..L /\ s[2] \in s[1]..L
  /\ \A p \in 1..L : \E s \in S : p \in s[1]..s[2]
  /\ \A s, t \in S : s = t \/ s[2] < t[1] \/ t[2] < s[1]

\* Sections are apart and leave out nothing.
LEMMA SectionsAre ==
  ASSUME NEW text, IsText(text)
  PROVE  /\ IsSeq(Sections(text))
         /\ Sections(text) # <<>> => Apart(ToSet(Sections(text)), Len(text))
<1> DEFINE L == Len(text)
           all == [n \in DOMAIN text |-> n]
           where == {n \in DOMAIN text : text[n].is = "heading"}
           h == Those(all, where)
           H == Len(h)
           ends == [k \in DOMAIN h |-> IF k = Len(h) THEN Len(text) ELSE h[k + 1] - 1]
           preamble == IF h # <<>> /\ h[1] > 1 THEN <<<<1, h[1] - 1>>>> ELSE <<>>
           from == [k \in DOMAIN h |-> <<h[k], ends[k]>>]
<1>1. Sections(text) = preamble \o from
  BY Zenon DEF Sections
<1>2. L \in Nat /\ DOMAIN text = 1..L
  BY WordIs
<1>3. IsSeq(all) /\ DOMAIN all = 1..L /\ \A n \in 1..L : all[n] = n
  <2>1. all \in Seq(1..L)
    BY <1>2
  <2> QED
    BY <1>2, <2>1, SequenceIs
<1> HIDE DEF all, where
<1>4. IsSeq(h)
  BY <1>3, ThoseAre
<1>5. H \in Nat /\ DOMAIN h = 1..H
  BY <1>4 DEF IsSeq
<1>6. PICK e \in [1..H -> DOMAIN all] :
           /\ \A k \in 1..H : h[k] = all[e[k]]
           /\ \A k, l \in 1..H : k < l => e[k] < e[l]
  BY <1>3, ThosePlaces
<1>7. /\ \A k \in 1..H : h[k] \in 1..L
      /\ \A k, l \in 1..H : k < l => h[k] < h[l]
  <2>1. \A k \in 1..H : e[k] \in 1..L
    BY <1>3, <1>6
  <2>2. \A k \in 1..H : h[k] = e[k]
    BY <1>3, <1>6, <2>1
  <2> QED
    BY <1>6, <2>1, <2>2
<1> HIDE DEF h
<1>8. \A k \in 1..H : ends[k] = IF k = H THEN L ELSE h[k + 1] - 1
  BY <1>5
<1>h. Len(h) = H /\ Len(text) = L
  OBVIOUS
<1> HIDE DEF H, L, ends
<1>9. \A k \in 1..H : ends[k] \in h[k]..L
  <2> TAKE k \in 1..H
  <2>1. CASE k = H
    <3>1. ends[k] = L /\ h[k] \in 1..L
      BY <1>7, <1>8, <2>1
    <3> QED
      BY <1>2, <3>1
  <2>2. CASE k # H
    <3>1. k + 1 \in 1..H /\ k < k + 1
      BY <1>5, <2>2
    <3>2. h[k] < h[k + 1] /\ h[k + 1] \in 1..L /\ h[k] \in 1..L
      BY <1>7, <3>1
    <3>3. ends[k] = h[k + 1] - 1
      BY <1>8, <2>2
    <3> QED
      BY <1>2, <3>2, <3>3
  <2> QED
    BY <2>1, <2>2
<1>10. DOMAIN from = 1..H /\ \A k \in 1..H : from[k] = <<h[k], ends[k]>>
  BY <1>5
<1>11. IsSeq(from)
  <2>1. \A k \in 1..H : from[k] \in (1..L) \X (1..L)
    BY <1>2, <1>7, <1>9, <1>10
  <2>2. from \in Seq((1..L) \X (1..L))
    <3>1. from \in [1..H -> (1..L) \X (1..L)]
      BY <1>10, <2>1
    <3> HIDE DEF from
    <3> QED
      BY <1>5, <3>1, SeqDef
  <2> HIDE DEF from
  <2> QED
    BY <2>2, SequenceIs
<1>12. Len(from) = H
  <2> HIDE DEF from
  <2> QED
    BY <1>5, <1>10, <1>11 DEF IsSeq
<1> HIDE DEF from
<1>13. CASE H = 0
  <2>1. preamble = <<>>
    BY <1>4, <1>13, <1>h DEF IsSeq
  <2>2. from = <<>>
    BY <1>11, <1>12, <1>13 DEF IsSeq
  <2>3. Sections(text) = <<>>
    BY <1>1, <2>1, <2>2
  <2> QED
    BY <2>3 DEF IsSeq
<1>14. CASE H # 0
  <2>1. 1 \in 1..H /\ h[1] \in 1..L /\ h # <<>>
    BY <1>5, <1>7, <1>14
  <2> DEFINE pair == <<1, h[1] - 1>>
  <2>2. preamble = IF h[1] > 1 THEN <<pair>> ELSE <<>>
    BY <2>1
  <2> HIDE DEF preamble, pair
  <2>3. IsSeq(preamble) /\ \A x : x \in ToSet(preamble) <=> h[1] > 1 /\ x = pair
    <3>1. CASE h[1] > 1
      <4>1. preamble = <<pair>>
        BY <2>2, <3>1
      <4>2. IsSeq(<<pair>>) /\ ToSet(<<pair>>) = {pair}
        BY DEF IsSeq, ToSet
      <4> QED
        BY <3>1, <4>1, <4>2
    <3>2. CASE ~(h[1] > 1)
      <4>1. preamble = <<>>
        BY <2>2, <3>2
      <4>2. IsSeq(<<>>) /\ ToSet(<<>>) = {}
        BY DEF IsSeq, ToSet
      <4> QED
        BY <3>2, <4>1, <4>2
    <3> QED
      BY <3>1, <3>2
  <2> DEFINE S == ToSet(preamble) \cup ToSet(from)
  <2>4. IsSeq(preamble \o from) /\ ToSet(preamble \o from) = S
    BY <1>11, <2>3, Joins
  <2>5. \A x \in S : (h[1] > 1 /\ x = pair) \/ \E k \in 1..H : x = <<h[k], ends[k]>>
    BY <1>10, <2>3 DEF ToSet
  <2>6. \A k \in 1..H : <<h[k], ends[k]>> \in S
    BY <1>10 DEF ToSet
  <2>7. h[1] > 1 => pair \in S
    BY <2>3
  <2> HIDE DEF S
  <2>8. pair = <<pair[1], pair[2]>> /\ pair[1] = 1 /\ pair[2] = h[1] - 1
    BY DEF pair
  <2>9. \A k \in 1..H : <<h[k], ends[k]>>[1] = h[k] /\ <<h[k], ends[k]>>[2] = ends[k]
    OBVIOUS
  <2>10. \A s \in S : s = <<s[1], s[2]>> /\ s[1] \in 1..L /\ s[2] \in s[1]..L
    <3> TAKE s \in S
    <3>1. CASE h[1] > 1 /\ s = pair
      BY <1>2, <2>1, <2>8, <3>1
    <3>2. CASE \E k \in 1..H : s = <<h[k], ends[k]>>
      BY <1>7, <1>9, <2>9, <3>2
    <3> QED
      BY <2>5, <3>1, <3>2
  <2>11. \A p \in 1..L : \E s \in S : p \in s[1]..s[2]
    <3> TAKE p \in 1..L
    <3>1. CASE p < h[1]
      <4>1. h[1] > 1 /\ p \in pair[1]..pair[2]
        BY <1>2, <2>1, <2>8, <3>1
      <4> QED
        BY <2>7, <4>1
    <3>2. CASE p >= h[1]
      <4> DEFINE B == {k \in 1..H : h[k] <= p}
                 k == Max(B)
      <4>1. B \in SUBSET (0..H) /\ B # {}
        BY <1>5, <2>1, <3>2
      <4> HIDE DEF B
      <4>2. k \in B /\ \A l \in B : k >= l
        BY <1>5, <4>1, GreatestIs
      <4> HIDE DEF k
      <4>3. k \in 1..H /\ h[k] <= p
        BY <4>2 DEF B
      <4>4. p <= ends[k]
        <5>1. CASE k = H
          BY <1>8, <4>3, <5>1
        <5>2. CASE k # H
          <6>1. k + 1 \in 1..H /\ ~(k >= k + 1)
            BY <1>5, <4>3, <5>2
          <6>2. h[k + 1] \in 1..L /\ ~(h[k + 1] <= p)
            BY <1>7, <4>2, <6>1 DEF B
          <6>3. ends[k] = h[k + 1] - 1
            BY <1>8, <4>3, <5>2
          <6> QED
            BY <1>2, <6>2, <6>3
        <5> QED
          BY <5>1, <5>2
      <4>5. h[k] \in 1..L /\ ends[k] \in h[k]..L
        BY <1>7, <1>9, <4>3
      <4>6. p \in h[k]..ends[k]
        BY <1>2, <4>3, <4>4, <4>5
      <4> QED
        BY <2>6, <2>9, <4>3, <4>6
    <3> QED
      BY <1>2, <2>1, <3>1, <3>2
  <2>12. \A k, l \in 1..H : k < l => ends[k] < h[l]
    <3> TAKE k, l \in 1..H
    <3> HAVE k < l
    <3>1. k # H /\ k + 1 \in 1..H
      BY <1>5
    <3>2. ends[k] = h[k + 1] - 1 /\ h[k + 1] \in 1..L /\ h[l] \in 1..L
      BY <1>7, <1>8, <3>1
    <3>3. k + 1 = l \/ k + 1 < l
      BY <1>5
    <3>4. h[k + 1] <= h[l]
      <4>1. CASE k + 1 = l
        BY <3>2, <4>1
      <4>2. CASE k + 1 < l
        BY <1>7, <3>1, <3>2, <4>2
      <4> QED
        BY <3>3, <4>1, <4>2
    <3> QED
      BY <1>2, <3>2, <3>4
  <2>13. \A l \in 1..H : h[1] <= h[l]
    <3> TAKE l \in 1..H
    <3>1. 1 = l \/ 1 < l
      BY <1>5
    <3>2. h[l] \in 1..L
      BY <1>7
    <3> QED
      BY <1>7, <2>1, <3>1, <3>2
  <2>14. \A s, t \in S : s = t \/ s[2] < t[1] \/ t[2] < s[1]
    <3> TAKE s, t \in S
    <3>1. CASE s = pair /\ t = pair
      BY <3>1
    <3>2. ASSUME NEW k \in 1..H, {s, t} = {pair, <<h[k], ends[k]>>}
          PROVE  s = t \/ s[2] < t[1] \/ t[2] < s[1]
      <4> DEFINE w == <<h[k], ends[k]>>
      <4>1. w[1] = h[k] /\ pair[2] = h[1] - 1
        BY <2>8, <2>9
      <4>2. h[1] <= h[k] /\ h[1] \in 1..L /\ h[k] \in 1..L
        BY <1>7, <2>1, <2>13
      <4>3. pair[2] < w[1]
        BY <1>2, <4>1, <4>2
      <4>4. {s, t} = {pair, w}
        BY <3>2
      <4> HIDE DEF w
      <4> QED
        BY <4>3, <4>4
    <3>3. ASSUME NEW k \in 1..H, NEW l \in 1..H, s = <<h[k], ends[k]>>, t = <<h[l], ends[l]>>
          PROVE  s = t \/ s[2] < t[1] \/ t[2] < s[1]
      <4>1. s[1] = h[k] /\ s[2] = ends[k] /\ t[1] = h[l] /\ t[2] = ends[l]
        BY <3>3
      <4>2. k = l \/ k < l \/ l < k
        BY <1>5
      <4>3. k = l => s = t
        BY <3>3
      <4> QED
        BY <2>12, <4>1, <4>2, <4>3
    <3>4. (s = pair \/ \E k \in 1..H : s = <<h[k], ends[k]>>)
          /\ (t = pair \/ \E k \in 1..H : t = <<h[k], ends[k]>>)
      BY <2>5
    <3> QED
      BY <3>1, <3>2, <3>3, <3>4
  <2> QED
    BY <1>1, <1>h, <2>4, <2>10, <2>11, <2>14 DEF Apart
<1> QED
  BY <1>5, <1>13, <1>14

\* What becomes of a section.
CutOf(text, s) ==
  LET Length == IF s[2] = Len(text) THEN End(text, s[2]) - Start(text)[s[1]]
                ELSE Start(text)[s[2] + 1] - Start(text)[s[1]]
  IN  IF Length <= Size THEN <<s>>
      ELSE [k \in DOMAIN FixedSpans(SubSeq(text, s[1], s[2])) |->
              LET part == FixedSpans(SubSeq(text, s[1], s[2]))[k]
              IN  <<s[1] + part[1] - 1, s[1] + part[2] - 1>>]

\* The spans of a section cut it.
LEMMA SectionCuts ==
  ASSUME NEW text, IsText(text), NEW a \in Nat, NEW b \in Nat, 1 <= a, a <= b, b <= Len(text)
  PROVE  IsSeq(CutOf(text, <<a, b>>)) /\ Cuts(text, ToSet(CutOf(text, <<a, b>>)), a, b)
<1> DEFINE L == Len(text)
           s == <<a, b>>
           part == SubSeq(text, a, b)
           F == FixedSpans(part)
           Length == IF b = L THEN End(text, b) - Start(text)[a] ELSE Start(text)[b + 1] - Start(text)[a]
           shifted == [k \in DOMAIN F |-> <<a + F[k][1] - 1, a + F[k][2] - 1>>]
<1>1. CutOf(text, s) = IF Length <= Size THEN <<s>> ELSE shifted
  BY DEF CutOf
<1>2. /\ L \in Nat /\ a \in 1..L /\ b \in a..L
      /\ a \in Nat /\ b \in Nat /\ 1 <= a /\ a <= b /\ b <= L
  BY WordIs
<1>3. /\ \A k \in 1..L + 1 : Start(text)[k] \in Nat
      /\ \A k \in 1..L : End(text, k) \in Nat /\ Start(text)[k + 1] = End(text, k) + 1
  BY Starts
<1>4. Size \in Nat /\ Overlap \in Nat
  BY IngestionAssumption DEF IngestionAssumption
<1>5. CASE Length <= Size
  <2>1. CutOf(text, s) = <<s>>
    <3> HIDE DEF Length, shifted
    <3> QED
      BY <1>1, <1>5
  <2>2. IsSeq(<<s>>) /\ ToSet(<<s>>) = {s}
    BY DEF IsSeq, ToSet
  <2>3. End(text, b) - Start(text)[a] <= Size
    <3>1. End(text, b) \in Nat /\ Start(text)[a] \in Nat /\ Start(text)[b + 1] = End(text, b) + 1
      BY <1>2, <1>3
    <3> HIDE DEF L
    <3> QED
      BY <1>4, <1>5, <3>1
  <2>4. Cuts(text, {s}, a, b)
    <3>1. s[1] = a /\ s[2] = b
      OBVIOUS
    <3>2. a \in a..b /\ b \in a..b /\ a \in Nat
      BY <1>2
    <3> QED
      BY <2>3, <3>1, <3>2 DEF Cuts
  <2> QED
    BY <2>1, <2>2, <2>4
<1>6. CASE ~(Length <= Size)
  <2>1. CutOf(text, s) = shifted
    <3> HIDE DEF Length, shifted
    <3> QED
      BY <1>1, <1>6
  <2> HIDE DEF Length
  <2>2. /\ IsText(part) /\ Len(part) = b - a + 1
        /\ \A k \in 1..b - a + 2 : Start(part)[k] = Start(text)[a + k - 1] - Start(text)[a]
        /\ \A k \in 1..b - a + 1 : End(part, k) = End(text, a + k - 1) - Start(text)[a]
    <3>1. b - a + 1 + 1 = b - a + 2
      BY <1>2
    <3> QED
      BY <1>2, <3>1, PartIs DEF L
  <2> HIDE DEF L
  <2>3. IsSeq(F) /\ Cuts(part, ToSet(F), 1, b - a + 1)
    BY <2>2, FixedSpansCut
  <2> HIDE DEF part
  <2> DEFINE G == ToSet(F)
             To(f) == <<a + f[1] - 1, a + f[2] - 1>>
             R == ToSet(shifted)
  <2>4. DOMAIN F = 1..Len(F) /\ Len(F) \in Nat /\ \A k \in 1..Len(F) : F[k] \in G
    BY <2>3 DEF IsSeq, ToSet
  <2>5. \A f \in G : /\ f[1] \in 1..b - a + 1 /\ f[2] \in f[1]..b - a + 1
                     /\ f[1] \in Nat /\ f[2] \in Nat /\ 1 <= f[1] /\ f[1] <= f[2] /\ f[2] <= b - a + 1
    <3> TAKE f \in G
    <3>1. f[1] \in 1..b - a + 1 /\ f[2] \in f[1]..b - a + 1
      BY <2>3 DEF Cuts
    <3> QED
      BY <1>2, <3>1
  <2>6. \A f \in G : /\ a + f[1] - 1 = To(f)[1] /\ a + f[2] - 1 = To(f)[2]
                     /\ To(f)[1] \in a..b /\ To(f)[2] \in To(f)[1]..b
    <3> TAKE f \in G
    <3>1. f[1] \in Nat /\ f[2] \in Nat /\ 1 <= f[1] /\ f[1] <= f[2] /\ f[2] <= b - a + 1
      BY <2>5
    <3>2. a + f[1] - 1 = To(f)[1] /\ a + f[2] - 1 = To(f)[2]
      OBVIOUS
    <3>3. \A x, y \in Nat : 1 <= x /\ x <= y /\ y <= b - a + 1 =>
            a + x - 1 \in a..b /\ a + y - 1 \in (a + x - 1)..b
      BY <1>2
    <3>4. a + f[1] - 1 \in a..b /\ a + f[2] - 1 \in (a + f[1] - 1)..b
      BY <3>1, <3>3
    <3> HIDE DEF To
    <3> QED
      BY <3>2, <3>4
  <2>7. \A r \in R : \E f \in G : r = To(f)
    BY <2>4 DEF ToSet
  <2>8. \A f \in G : To(f) \in R
    <3>1. \A f \in G : \E k \in DOMAIN F : f = F[k]
      BY DEF ToSet
    <3> HIDE DEF F, G
    <3> QED
      BY <3>1 DEF ToSet
  <2>9. IsSeq(shifted)
    <3>1. shifted \in [1..Len(F) -> R]
      <4>1. \A k \in 1..Len(F) : To(F[k]) \in R
        BY <2>4, <2>8
      <4> HIDE DEF R
      <4> QED
        BY <2>4, <4>1
    <3>2. shifted \in Seq(R)
      <4> HIDE DEF shifted, R
      <4> QED
        BY <2>4, <3>1, SeqDef
    <3> HIDE DEF shifted, R
    <3> QED
      BY <3>2, SequenceIs
  <2> HIDE DEF R, To, F
  <2> HIDE DEF G, shifted
  <2>10. Cuts(text, R, a, b)
    <3>1. \A r \in R : r[1] \in a..b /\ r[2] \in r[1]..b
      BY <2>6, <2>7
    <3>2. \A p \in a..b : \E r \in R : p \in r[1]..r[2]
      <4> TAKE p \in a..b
      <4>1. p - a + 1 \in 1..b - a + 1
        BY <1>2
      <4>2. PICK f \in G : p - a + 1 \in f[1]..f[2]
        BY <2>3, <4>1 DEF Cuts, G
      <4>3. p \in To(f)[1]..To(f)[2]
        <5>1. f[1] \in Nat /\ f[2] \in Nat /\ 1 <= f[1] /\ f[1] <= f[2] /\ f[2] <= b - a + 1
          BY <2>5
        <5>2. a + f[1] - 1 = To(f)[1] /\ a + f[2] - 1 = To(f)[2]
          BY <2>6
        <5> QED
          BY SMTT(30), <1>2, <4>2, <5>1, <5>2
      <4> QED
        BY <2>8, <4>3
    <3>3. \A r \in R : r[1] = r[2] \/ End(text, r[2]) - Start(text)[r[1]] <= Size
      <4> TAKE r \in R
      <4>1. PICK f \in G : r = To(f)
        BY <2>7
      <4>2. f[1] = f[2] \/ End(part, f[2]) - Start(part)[f[1]] <= Size
        BY <2>3 DEF Cuts, G
      <4>3. f[1] \in Nat /\ f[2] \in Nat /\ 1 <= f[1] /\ f[1] <= f[2] /\ f[2] <= b - a + 1
        BY <2>5
      <4>4. a + f[1] - 1 = r[1] /\ a + f[2] - 1 = r[2]
        BY <2>6, <4>1
      <4>5. End(part, f[2]) = End(text, r[2]) - Start(text)[a] /\ Start(part)[f[1]] = Start(text)[r[1]] - Start(text)[a]
        <5>1. f[2] \in 1..b - a + 1 /\ f[1] \in 1..b - a + 2
          BY <1>2, <4>3
        <5> QED
          BY <2>2, <4>4, <5>1
      <4>6. r[1] \in 1..L + 1 /\ r[2] \in 1..L /\ a \in 1..L + 1
        <5> HIDE DEF s
        <5> QED
          BY SMTT(30), <1>2, <4>3, <4>4
      <4>7. End(text, r[2]) \in Nat /\ Start(text)[r[1]] \in Nat /\ Start(text)[a] \in Nat
        BY <1>3, <4>6
      <4> QED
        BY <1>4, <4>2, <4>4, <4>5, <4>7
    <3>4. \A r, t \in R : r[1] = t[1] => r = t
      <4> TAKE r, t \in R
      <4> HAVE r[1] = t[1]
      <4>1. PICK f \in G : r = To(f)
        BY <2>7
      <4>2. PICK g \in G : t = To(g)
        BY <2>7
      <4>3. f[1] \in Nat /\ g[1] \in Nat /\ a + f[1] - 1 = r[1] /\ a + g[1] - 1 = t[1]
        BY <2>5, <2>6, <4>1, <4>2
      <4>4. f[1] = g[1]
        BY <1>2, <4>3
      <4>5. f = g
        BY <2>3, <4>4 DEF Cuts, G
      <4> QED
        BY <4>1, <4>2, <4>5
    <3>5. \A r, t \in R : r[1] < t[1] /\ t[1] <= r[2] => End(text, r[2]) - Start(text)[t[1]] <= Overlap
      <4> TAKE r, t \in R
      <4> HAVE r[1] < t[1] /\ t[1] <= r[2]
      <4>1. PICK f \in G : r = To(f)
        BY <2>7
      <4>2. PICK g \in G : t = To(g)
        BY <2>7
      <4>3. /\ f[1] \in Nat /\ f[2] \in Nat /\ 1 <= f[1] /\ f[1] <= f[2] /\ f[2] <= b - a + 1
            /\ g[1] \in Nat /\ 1 <= g[1] /\ g[1] <= b - a + 1
            /\ a + f[1] - 1 = r[1] /\ a + f[2] - 1 = r[2] /\ a + g[1] - 1 = t[1]
        BY SMTT(30), <2>5, <2>6, <4>1, <4>2
      <4>4. f[1] < g[1] /\ g[1] <= f[2]
        BY SMTT(30), <1>2, <4>3
      <4>5. End(part, f[2]) - Start(part)[g[1]] <= Overlap
        BY <2>3, <4>4 DEF Cuts, G
      <4>6. End(part, f[2]) = End(text, r[2]) - Start(text)[a] /\ Start(part)[g[1]] = Start(text)[t[1]] - Start(text)[a]
        <5>1. f[2] \in 1..b - a + 1 /\ g[1] \in 1..b - a + 2
          BY <1>2, <4>3
        <5> QED
          BY <2>2, <4>3, <5>1
      <4>7. r[2] \in 1..L /\ t[1] \in 1..L + 1 /\ a \in 1..L + 1
        <5> HIDE DEF s
        <5>1. a + f[2] - 1 \in 1..L
          BY SMTT(30), <1>2, <4>3
        <5>2. a + g[1] - 1 \in 1..L + 1 /\ a \in 1..L + 1
          BY SMTT(30), <1>2, <4>3
        <5> QED
          BY <4>3, <5>1, <5>2
      <4>8. End(text, r[2]) \in Nat /\ Start(text)[t[1]] \in Nat /\ Start(text)[a] \in Nat
        BY <1>3, <4>7
      <4> QED
        BY <1>4, <4>5, <4>6, <4>8
    <3> QED
      BY <3>1, <3>2, <3>3, <3>4, <3>5 DEF Cuts
  <2> QED
    BY <2>1, <2>9, <2>10 DEF R
<1> QED
  BY <1>5, <1>6

\* Whichever chunker it goes through, a text is cut.
THEOREM SpansCut ==
  ASSUME NEW text, IsText(text), NEW chunker
  PROVE  IsSeq(Spans(text, chunker)) /\ Cuts(text, ToSet(Spans(text, chunker)), 1, Len(text))
<1> DEFINE L == Len(text)
           sec == Sections(text)
           cut == [k \in DOMAIN sec |-> CutOf(text, sec[k])]
           Goal == IsSeq(Spans(text, chunker)) /\ Cuts(text, ToSet(Spans(text, chunker)), 1, L)
<1>1. IsSeq(FixedSpans(text)) /\ Cuts(text, ToSet(FixedSpans(text)), 1, L)
  BY FixedSpansCut
<1>2. Spans(text, chunker) = IF chunker = "fixed" \/ sec = <<>> THEN FixedSpans(text) ELSE FlattenSeq(cut)
  BY DEF Spans, StructureSpans, CutOf
<1>3. IsSeq(sec) /\ (sec # <<>> => Apart(ToSet(sec), L))
  BY SectionsAre
<1> HIDE DEF sec
<1>4. ASSUME chunker = "fixed" \/ sec = <<>> PROVE Goal
  <2>1. Spans(text, chunker) = FixedSpans(text)
    <3> HIDE DEF cut
    <3> QED
      BY <1>2, <1>4
  <2> QED
    BY <1>1, <2>1
<1>5. ASSUME ~(chunker = "fixed" \/ sec = <<>>) PROVE Goal
  <2>1. Spans(text, chunker) = FlattenSeq(cut)
    <3> HIDE DEF cut
    <3> QED
      BY <1>2, <1>5
  <2>2. Apart(ToSet(sec), L)
    BY <1>3, <1>5
  <2>3. L \in Nat /\ Len(sec) \in Nat /\ DOMAIN sec = 1..Len(sec)
    BY <1>3, WordIs DEF IsSeq
  <2> DEFINE S == ToSet(sec)
             C(s) == ToSet(CutOf(text, s))
  <2>4. /\ \A k \in DOMAIN sec : sec[k] \in S
        /\ \A s \in S : \E k \in DOMAIN sec : s = sec[k]
    BY DEF ToSet
  <2> HIDE DEF S
  <2>5. \A s \in S : s = <<s[1], s[2]>> /\ s[1] \in 1..L /\ s[2] \in s[1]..L
    BY <2>2 DEF Apart, S
  <2>6. \A s \in S : IsSeq(CutOf(text, s)) /\ Cuts(text, C(s), s[1], s[2])
    <3> HIDE DEF L
    <3> TAKE s \in S
    <3>1. s = <<s[1], s[2]>> /\ s[1] \in 1..L /\ s[2] \in s[1]..L
      BY <2>5
    <3> DEFINE a == s[1]
               b == s[2]
    <3>2. a \in Nat /\ b \in Nat /\ 1 <= a /\ a <= b /\ b <= L /\ <<a, b>> = s
      BY <2>3, <3>1
    <3> HIDE DEF a, b
    <3>3. IsSeq(CutOf(text, <<a, b>>)) /\ Cuts(text, ToSet(CutOf(text, <<a, b>>)), a, b)
      BY <3>2, SectionCuts DEF L
    <3> QED
      BY <3>2, <3>3 DEF a, b
  <2>7. \A k \in DOMAIN sec : cut[k] = CutOf(text, sec[k]) /\ IsSeq(cut[k])
    BY <2>4, <2>6
  <2>8. DOMAIN cut = DOMAIN sec
    OBVIOUS
  <2>9. IsSeq(cut)
    <3>1. cut \in [1..Len(sec) -> {cut[k] : k \in DOMAIN sec}]
      BY <2>3
    <3>2. cut \in Seq({cut[k] : k \in DOMAIN sec})
      <4> HIDE DEF cut
      <4> QED
        BY <2>3, <3>1, SeqDef
    <3> HIDE DEF cut
    <3> QED
      BY <3>2, SequenceIs
  <2> HIDE DEF cut
  <2> DEFINE f == FlattenSeq(cut)
             U == ToSet(f)
  <2>10. IsSeq(f) /\ \A x : x \in ToSet(f) <=> \E k \in DOMAIN cut : x \in ToSet(cut[k])
    BY <2>7, <2>8, <2>9, FlattenedAre
  <2>11. \A x : x \in U <=> \E s \in S : x \in C(s)
    BY <2>4, <2>7, <2>8, <2>10
  <2> HIDE DEF f, U, C
  <2>12. /\ \A p \in 1..L : \E s \in S : p \in s[1]..s[2]
         /\ \A s, t \in S : s = t \/ s[2] < t[1] \/ t[2] < s[1]
    BY <2>2 DEF Apart, S
  <2>13. Cuts(text, U, 1, L)
    <3>1. \A x \in U : \E s \in S : x \in C(s) /\ x[1] \in s[1]..s[2] /\ x[2] \in x[1]..s[2]
      <4> TAKE x \in U
      <4>1. PICK s \in S : x \in C(s)
        BY <2>11
      <4>2. x[1] \in s[1]..s[2] /\ x[2] \in x[1]..s[2]
        BY <2>6, <4>1 DEF Cuts
      <4> QED
        BY <4>1, <4>2
    <3>2. \A x \in U : x[1] \in 1..L /\ x[2] \in x[1]..L
      <4> TAKE x \in U
      <4>1. PICK s \in S : x \in C(s) /\ x[1] \in s[1]..s[2] /\ x[2] \in x[1]..s[2]
        BY <3>1
      <4>2. s[1] \in 1..L /\ s[2] \in s[1]..L
        BY <2>5
      <4> QED
        BY <2>3, <4>1, <4>2
    <3>3. \A p \in 1..L : \E x \in U : p \in x[1]..x[2]
      <4> TAKE p \in 1..L
      <4>1. PICK s \in S : p \in s[1]..s[2]
        BY <2>12
      <4>2. \E x \in C(s) : p \in x[1]..x[2]
        BY <2>6, <4>1 DEF Cuts
      <4> QED
        BY <2>11, <4>2
    <3>4. \A x \in U : x[1] = x[2] \/ End(text, x[2]) - Start(text)[x[1]] <= Size
      BY <2>6, <2>11 DEF Cuts
    <3>5. ASSUME NEW x \in U, NEW y \in U, x[1] <= y[1], y[1] <= x[2]
          PROVE  \E s \in S : x \in C(s) /\ y \in C(s)
      <4>1. PICK s \in S : x \in C(s) /\ x[1] \in s[1]..s[2] /\ x[2] \in x[1]..s[2]
        BY <3>1
      <4>2. PICK t \in S : y \in C(t) /\ y[1] \in t[1]..t[2] /\ y[2] \in y[1]..t[2]
        BY <3>1
      <4>3. s[1] \in Nat /\ s[2] \in Nat /\ t[1] \in Nat /\ t[2] \in Nat
        <5>1. s[1] \in 1..L /\ s[2] \in s[1]..L /\ t[1] \in 1..L /\ t[2] \in t[1]..L
          BY <2>5
        <5> QED
          BY <2>3, <5>1
      <4>4. ~(s[2] < t[1]) /\ ~(t[2] < s[1])
        BY <3>5, <4>1, <4>2, <4>3
      <4>5. s = t
        BY <2>12, <4>4
      <4> QED
        BY <4>1, <4>2, <4>5
    <3>6. \A x, y \in U : x[1] = y[1] => x = y
      <4> TAKE x, y \in U
      <4> HAVE x[1] = y[1]
      <4>1. x[1] <= y[1] /\ y[1] <= x[2]
        BY <2>3, <3>2
      <4>2. PICK s \in S : x \in C(s) /\ y \in C(s)
        BY <3>5, <4>1
      <4> QED
        BY <2>6, <4>2 DEF Cuts
    <3>7. \A x, y \in U : x[1] < y[1] /\ y[1] <= x[2] =>
            End(text, x[2]) - Start(text)[y[1]] <= Overlap
      <4> TAKE x, y \in U
      <4> HAVE x[1] < y[1] /\ y[1] <= x[2]
      <4>1. x[1] <= y[1]
        BY <2>3, <3>2
      <4>2. PICK s \in S : x \in C(s) /\ y \in C(s)
        BY <3>5, <4>1
      <4> QED
        BY <2>6, <4>2 DEF Cuts
    <3> QED
      BY <3>2, <3>3, <3>4, <3>6, <3>7 DEF Cuts
  <2> QED
    BY <2>1, <2>10, <2>13 DEF U, f
<1>6. Goal
  <2> HIDE DEF Goal
  <2> QED
    BY <1>4, <1>5
<1> QED
  BY <1>6

-----------------------------------------------------------------------------
(* The filters.                                                            *)

IsDocument(d) == d = [id |-> d.id, source |-> d.source, text |-> d.text] /\ IsText(d.text)
IsDocs(docs) == IsSeq(docs) /\ \A n \in DOMAIN docs : IsDocument(docs[n])

FilterNames == {"dedup", "language", "boilerplate", "pii"}

\* r has documents of s, in their order: the k-th is the one at e[k], and says
\* nothing that one does not say.
Drawn(r, s, e) ==
  /\ e \in [DOMAIN r -> DOMAIN s]
  /\ \A k, l \in DOMAIN r : k < l => e[k] < e[l]
  /\ \A k \in DOMAIN r : /\ r[k].id = s[e[k]].id
                         /\ r[k].source = s[e[k]].source
                         /\ \A w \in ToSet(r[k].text) : w \in ToSet(s[e[k]].text) \/ w = Redaction

\* What is drawn from documents drawn is drawn.
LEMMA DrawnThrough ==
  ASSUME NEW r, NEW s, NEW t, NEW e, NEW f, Drawn(r, s, e), Drawn(s, t, f)
  PROVE  Drawn(r, t, [k \in DOMAIN r |-> f[e[k]]])
<1> DEFINE g == [k \in DOMAIN r |-> f[e[k]]]
<1>1. /\ \A k \in DOMAIN r : e[k] \in DOMAIN s /\ f[e[k]] \in DOMAIN t /\ g[k] = f[e[k]]
      /\ g \in [DOMAIN r -> DOMAIN t]
  BY DEF Drawn
<1> HIDE DEF g
<1>2. \A k, l \in DOMAIN r : k < l => g[k] < g[l]
  <2> TAKE k, l \in DOMAIN r
  <2> HAVE k < l
  <2>1. e[k] < e[l]
    BY DEF Drawn
  <2>2. f[e[k]] < f[e[l]]
    BY <1>1, <2>1 DEF Drawn
  <2> QED
    BY <1>1, <2>2
<1>3. \A k \in DOMAIN r : /\ r[k].id = t[g[k]].id /\ r[k].source = t[g[k]].source
                          /\ \A w \in ToSet(r[k].text) : w \in ToSet(t[g[k]].text) \/ w = Redaction
  <2> TAKE k \in DOMAIN r
  <2> DEFINE d == s[e[k]]
             b == t[g[k]]
  <2>1. /\ r[k].id = d.id /\ r[k].source = d.source
        /\ \A w \in ToSet(r[k].text) : w \in ToSet(d.text) \/ w = Redaction
    BY DEF Drawn
  <2>2. /\ d.id = b.id /\ d.source = b.source
        /\ \A w \in ToSet(d.text) : w \in ToSet(b.text) \/ w = Redaction
    <3>1. e[k] \in DOMAIN s /\ g[k] = f[e[k]]
      BY <1>1
    <3> QED
      BY <3>1 DEF Drawn
  <2> HIDE DEF d, b
  <2>3. /\ r[k].id = b.id /\ r[k].source = b.source
        /\ \A w \in ToSet(r[k].text) : w \in ToSet(b.text) \/ w = Redaction
    BY <2>1, <2>2
  <2> QED
    BY <2>3 DEF b
<1>4. Drawn(r, t, g)
  BY <1>1, <1>2, <1>3 DEF Drawn
<1> QED
  BY <1>4 DEF g

\* Some of the documents are drawn from them.
LEMMA ThoseDocs ==
  ASSUME NEW docs, IsDocs(docs), NEW P
  PROVE  IsDocs(Those(docs, P)) /\ \E e : Drawn(Those(docs, P), docs, e)
<1> DEFINE r == Those(docs, P)
<1>1. IsSeq(docs) /\ IsSeq(r)
  BY ThoseAre DEF IsDocs
<1>2. DOMAIN r = 1..Len(r)
  BY <1>1 DEF IsSeq
<1>3. PICK e \in [1..Len(r) -> DOMAIN docs] :
         /\ \A k \in 1..Len(r) : r[k] = docs[e[k]]
         /\ \A k, l \in 1..Len(r) : k < l => e[k] < e[l]
  BY <1>1, ThosePlaces
<1> HIDE DEF r
<1>4. \A k \in DOMAIN r : e[k] \in DOMAIN docs /\ r[k] = docs[e[k]]
  BY <1>2, <1>3
<1>5. e \in [DOMAIN r -> DOMAIN docs]
  BY <1>2, <1>3
<1>6. Drawn(r, docs, e)
  <2>1. \A k, l \in DOMAIN r : k < l => e[k] < e[l]
    BY <1>2, <1>3
  <2>2. \A k \in DOMAIN r : /\ r[k].id = docs[e[k]].id /\ r[k].source = docs[e[k]].source
                            /\ \A w \in ToSet(r[k].text) : w \in ToSet(docs[e[k]].text) \/ w = Redaction
    BY <1>4
  <2> QED
    BY <1>5, <2>1, <2>2 DEF Drawn
<1>7. IsDocs(r)
  BY <1>1, <1>4 DEF IsDocs
<1> QED
  BY <1>6, <1>7 DEF r

\* Words replaced one by one.
LEMMA RedactedIs ==
  ASSUME NEW text, IsText(text)
  PROVE  /\ IsText(Redacted(text)) /\ DOMAIN Redacted(text) = DOMAIN text
         /\ \A w \in ToSet(Redacted(text)) : w.is # "secret" /\ (w \in ToSet(text) \/ w = Redaction)
<1> DEFINE r == Redacted(text)
           S == ToSet(text) \cup {Redaction}
<1>1. Len(text) \in Nat /\ DOMAIN text = 1..Len(text)
  BY WordIs
<1>2. \A n \in 1..Len(text) : r[n] = IF text[n].is = "secret" THEN Redaction ELSE text[n]
  BY <1>1 DEF Redacted
<1>3. Redaction.is = "redacted"
  BY DEF Redaction, Word
<1>4. \A n \in 1..Len(text) : r[n] \in S /\ r[n].is # "secret" /\ r[n].is \in DOMAIN Width
  <2> TAKE n \in 1..Len(text)
  <2>1. text[n] \in ToSet(text) /\ text[n].is \in DOMAIN Width
    BY <1>1 DEF ToSet, IsText
  <2>2. "redacted" \in DOMAIN Width
    BY IngestionAssumption DEF IngestionAssumption
  <2> HIDE DEF r
  <2> QED
    BY <1>2, <1>3, <2>1, <2>2
<1>5. r \in [1..Len(text) -> S]
  <2>1. r = [n \in 1..Len(text) |-> r[n]]
    BY <1>1 DEF Redacted
  <2> HIDE DEF r, S
  <2> QED
    BY <1>4, <2>1
<1>6. DOMAIN r = 1..Len(text)
  BY <1>1 DEF Redacted
<1> HIDE DEF r
<1>7. r \in Seq(S)
  BY <1>1, <1>5, SeqDef
<1>8. IsSeq(r)
  BY <1>7, SequenceIs
<1>9. IsText(r)
  BY <1>4, <1>6, <1>8 DEF IsText
<1>10. \A w \in ToSet(r) : w.is # "secret" /\ w \in S
  BY <1>4, <1>6 DEF ToSet
<1> QED
  BY <1>1, <1>6, <1>9, <1>10 DEF r

\* Documents with texts t in the place of their own.
LEMMA RewordedIs ==
  ASSUME NEW docs, IsDocs(docs), NEW t,
         \A n \in DOMAIN docs : /\ IsText(t[n])
                                /\ \A w \in ToSet(t[n]) : w \in ToSet(docs[n].text) \/ w = Redaction,
         NEW r, [n \in DOMAIN docs |-> [docs[n] EXCEPT !.text = t[n]]] = r
  PROVE  /\ IsDocs(r) /\ DOMAIN r = DOMAIN docs /\ \E e : Drawn(r, docs, e)
         /\ \A n \in DOMAIN docs : r[n].text = t[n] /\ r[n].id = docs[n].id /\ r[n].source = docs[n].source
<1> DEFINE S == {r[n] : n \in 1..Len(docs)}
           e == [n \in DOMAIN docs |-> n]
<1>1. Len(docs) \in Nat /\ DOMAIN docs = 1..Len(docs)
  BY DEF IsDocs, IsSeq
<1>2. DOMAIN r = DOMAIN docs /\ \A n \in DOMAIN docs : r[n] = [docs[n] EXCEPT !.text = t[n]]
  OBVIOUS
<1>3. \A n \in DOMAIN docs : /\ r[n] = [id |-> docs[n].id, source |-> docs[n].source, text |-> t[n]]
                             /\ r[n].id = docs[n].id /\ r[n].source = docs[n].source /\ r[n].text = t[n]
  <2> TAKE n \in DOMAIN docs
  <2>1. docs[n] = [id |-> docs[n].id, source |-> docs[n].source, text |-> docs[n].text]
    BY DEF IsDocs, IsDocument
  <2>2. r[n] = [docs[n] EXCEPT !.text = t[n]]
    BY <1>2
  <2> QED
    BY <2>1, <2>2
<1>4. r \in [1..Len(docs) -> S]
  <2>1. r = [n \in 1..Len(docs) |-> r[n]]
    BY <1>1
  <2> QED
    BY <2>1
<1> HIDE DEF S
<1>5. IsSeq(r)
  <2>1. r \in Seq(S)
    BY <1>1, <1>4, SeqDef
  <2> QED
    BY <2>1, SequenceIs
<1>6. \A n \in DOMAIN docs : IsDocument(r[n])
  BY <1>3 DEF IsDocument
<1>7. Drawn(r, docs, e)
  <2>1. e \in [DOMAIN r -> DOMAIN docs]
    BY <1>2
  <2>2. \A k, l \in DOMAIN r : k < l => e[k] < e[l]
    BY <1>2
  <2>3. \A k \in DOMAIN r : /\ r[k].id = docs[e[k]].id /\ r[k].source = docs[e[k]].source
                            /\ \A w \in ToSet(r[k].text) : w \in ToSet(docs[e[k]].text) \/ w = Redaction
    BY SMTT(30), <1>2, <1>3
  <2> HIDE DEF e
  <2> QED
    BY <2>1, <2>2, <2>3 DEF Drawn
<1> QED
  BY <1>2, <1>3, <1>5, <1>6, <1>7 DEF IsDocs

\* No word of these is a secret.
NoSecret(docs) == \A n \in DOMAIN docs : \A w \in ToSet(docs[n].text) : w.is # "secret"

\* Redacting takes the secrets out and leaves the documents what they are.
LEMMA RedactIs ==
  ASSUME NEW docs, IsDocs(docs)
  PROVE  /\ IsDocs(Redact(docs)) /\ NoSecret(Redact(docs)) /\ DOMAIN Redact(docs) = DOMAIN docs
         /\ \E e : Drawn(Redact(docs), docs, e)
         /\ \A n \in DOMAIN docs : /\ Redact(docs)[n].text = Redacted(docs[n].text)
                                   /\ Redact(docs)[n].id = docs[n].id
                                   /\ Redact(docs)[n].source = docs[n].source
<1> DEFINE t == [n \in DOMAIN docs |-> Redacted(docs[n].text)]
           r == Redact(docs)
<1>1. \A n \in DOMAIN docs : /\ IsText(t[n]) /\ t[n] = Redacted(docs[n].text)
                             /\ \A w \in ToSet(t[n]) : w.is # "secret" /\ (w \in ToSet(docs[n].text) \/ w = Redaction)
  BY RedactedIs DEF IsDocs, IsDocument
<1>2. [n \in DOMAIN docs |-> [docs[n] EXCEPT !.text = t[n]]] = r
  BY DEF Redact
<1> HIDE DEF r, t
<1>w. \A n \in DOMAIN docs : /\ IsText(t[n])
                             /\ \A w \in ToSet(t[n]) : w \in ToSet(docs[n].text) \/ w = Redaction
  BY <1>1
<1>3. /\ IsDocs(r) /\ DOMAIN r = DOMAIN docs /\ \E e : Drawn(r, docs, e)
      /\ \A n \in DOMAIN docs : r[n].text = t[n] /\ r[n].id = docs[n].id /\ r[n].source = docs[n].source
  <2>1. IsDocs(r) /\ \E e : Drawn(r, docs, e)
    BY <1>2, <1>w, RewordedIs
  <2>2. DOMAIN r = DOMAIN docs
    BY <1>2
  <2>3. \A n \in DOMAIN docs : r[n].text = t[n] /\ r[n].id = docs[n].id /\ r[n].source = docs[n].source
    <3> TAKE n \in DOMAIN docs
    <3>1. docs[n] = [id |-> docs[n].id, source |-> docs[n].source, text |-> docs[n].text]
      BY DEF IsDocs, IsDocument
    <3>2. r[n] = [docs[n] EXCEPT !.text = t[n]]
      BY <1>2
    <3> QED
      BY <3>1, <3>2
  <2> QED
    BY <2>1, <2>2, <2>3
<1>4. NoSecret(r)
  BY <1>1, <1>3 DEF NoSecret
<1> QED
  BY <1>1, <1>3, <1>4 DEF r

\* Documents without their boilerplate.
Kept(text) == Those(text, {w \in DOMAIN text : text[w].is # "boiler"})
Cleaned(docs) == [n \in DOMAIN docs |-> [docs[n] EXCEPT !.text = Kept(docs[n].text)]]

\* Documents without their boilerplate are drawn from those with it.
LEMMA CleanedAre ==
  ASSUME NEW docs, IsDocs(docs)
  PROVE  IsDocs(Cleaned(docs)) /\ DOMAIN Cleaned(docs) = DOMAIN docs /\ \E e : Drawn(Cleaned(docs), docs, e)
<1> DEFINE t == [n \in DOMAIN docs |-> Kept(docs[n].text)]
           cleaned == Cleaned(docs)
<1>1. \A n \in DOMAIN docs : /\ IsText(t[n])
                             /\ \A w \in ToSet(t[n]) : w \in ToSet(docs[n].text) \/ w = Redaction
  <2> TAKE n \in DOMAIN docs
  <2> DEFINE x == docs[n].text
             Q == {w \in DOMAIN x : x[w].is # "boiler"}
  <2>1. t[n] = Those(x, Q)
    BY DEF Kept
  <2>2. IsText(x)
    BY DEF IsDocs, IsDocument
  <2> HIDE DEF x, Q, t
  <2>3. IsSeq(Those(x, Q)) /\ ToSet(Those(x, Q)) = {x[i] : i \in {j \in DOMAIN x : j \in Q}}
    BY <2>2, ThoseAre DEF IsText
  <2>4. \A w \in ToSet(Those(x, Q)) : w \in ToSet(x) /\ w.is \in DOMAIN Width
    BY <2>2, <2>3 DEF IsText, ToSet
  <2>5. \A i \in DOMAIN Those(x, Q) : Those(x, Q)[i] \in ToSet(Those(x, Q))
    BY DEF ToSet
  <2>6. IsText(Those(x, Q))
    BY <2>3, <2>4, <2>5 DEF IsText
  <2> QED
    BY <2>1, <2>4, <2>6 DEF x
<1>2. [n \in DOMAIN docs |-> [docs[n] EXCEPT !.text = t[n]]] = cleaned
  BY DEF Cleaned
<1> HIDE DEF cleaned, t
<1>3. IsDocs(cleaned) /\ DOMAIN cleaned = DOMAIN docs /\ \E e : Drawn(cleaned, docs, e)
  BY <1>1, <1>2, RewordedIs
<1> QED
  BY <1>3 DEF cleaned

\* The boilerplate filter leaves the documents that are long enough without it.
LEMMA BoilerplateIs ==
  ASSUME NEW docs, IsDocs(docs)
  PROVE  /\ Boilerplate(docs) =
              Those(Cleaned(docs), {n \in DOMAIN docs : Len(Cleaned(docs)[n].text) >= MinDoc})
         /\ IsDocs(Boilerplate(docs)) /\ \E e : Drawn(Boilerplate(docs), docs, e)
<1> DEFINE cleaned == Cleaned(docs)
           P == {n \in DOMAIN docs : Len(cleaned[n].text) >= MinDoc}
<1>1. Boilerplate(docs) = Those(cleaned, P)
  BY DEF Boilerplate, Cleaned, Kept
<1> HIDE DEF cleaned, P
<1>2. IsDocs(cleaned) /\ \E e : Drawn(cleaned, docs, e)
  BY CleanedAre DEF cleaned
<1>3. IsDocs(Those(cleaned, P)) /\ \E e : Drawn(Those(cleaned, P), cleaned, e)
  BY <1>2, ThoseDocs
<1>4. \E e : Drawn(Those(cleaned, P), docs, e)
  BY <1>2, <1>3, DrawnThrough
<1> QED
  BY <1>1, <1>3, <1>4 DEF cleaned, P

\* Every filter draws from the documents, and one of them leaves no secret.
LEMMA FilterIs ==
  ASSUME NEW docs, IsDocs(docs), NEW name \in FilterNames
  PROVE  /\ IsDocs(Filter(name, docs)) /\ \E e : Drawn(Filter(name, docs), docs, e)
         /\ name = "pii" => NoSecret(Filter(name, docs))
<1>1. CASE name = "dedup"
  <2>1. Filter(name, docs) = Dedup(docs)
    BY <1>1 DEF Filter
  <2> QED
    BY <1>1, <2>1, ThoseDocs DEF Dedup
<1>2. CASE name = "language"
  <2>1. Filter(name, docs) = Language(docs)
    BY <1>2 DEF Filter
  <2> QED
    BY <1>2, <2>1, ThoseDocs DEF Language
<1>3. CASE name = "boilerplate"
  <2>1. Filter(name, docs) = Boilerplate(docs)
    BY <1>3 DEF Filter
  <2> QED
    BY <1>3, <2>1, BoilerplateIs
<1>4. CASE name = "pii"
  <2>1. Filter(name, docs) = Redact(docs)
    BY <1>4 DEF Filter
  <2> QED
    BY <1>4, <2>1, RedactIs
<1> QED
  BY <1>1, <1>2, <1>3, <1>4 DEF FilterNames

-----------------------------------------------------------------------------
(* The chain of filters.                                                   *)

\* Each filter of a chain works on what the one before it left.
LEMMA FilteredIs ==
  ASSUME NEW docs, NEW names, Len(names) \in Nat
  PROVE  /\ Filtered(docs, names)[0] = docs
         /\ \A k \in Nat : k + 1 <= Len(names) =>
              Filtered(docs, names)[k + 1] = Filter(names[k + 1], Filtered(docs, names)[k])
<1> DEFINE L == Len(names)
           Body(f, k) == IF k = 0 THEN docs ELSE Filter(names[k], f[k - 1])
           Read(n) == \E f : f = [i \in 0..n |-> Body(f, i)]
           T == {n \in Nat : Read(n)}
           left == Filtered(docs, names)
<1>1. 0 \in T
  <2> DEFINE e == [i \in 0..0 |-> docs]
  <2>1. e = [i \in 0..0 |-> Body(e, i)]
    OBVIOUS
  <2> HIDE DEF e, Body
  <2> QED
    BY <2>1
<1>2. ASSUME NEW n \in Nat, n \in T PROVE n + 1 \in T
  <2>1. PICK d : d = [i \in 0..n |-> Body(d, i)]
    <3>1. Read(n)
      <4> HIDE DEF Read
      <4> QED
        BY <1>2
    <3> QED
      BY <3>1
  <2> DEFINE e == [i \in 0..n + 1 |-> IF i = n + 1 THEN Body(d, i) ELSE d[i]]
  <2>2. ASSUME NEW i \in 0..n + 1 PROVE e[i] = Body(e, i)
    <3>1. i = 0 \/ (i - 1 \in 0..n + 1 /\ i - 1 # n + 1)
      OBVIOUS
    <3>2. e[i] = Body(d, i)
      <4>1. CASE i = n + 1
        BY <4>1
      <4>2. CASE i # n + 1
        <5>1. e[i] = d[i] /\ i \in 0..n
          BY <4>2
        <5> HIDE DEF Body, e
        <5> QED
          BY <2>1, <5>1
      <4> QED
        BY <4>1, <4>2
    <3>3. i # 0 => e[i - 1] = d[i - 1]
      BY <3>1
    <3> HIDE DEF e
    <3> QED
      BY <3>2, <3>3
  <2>3. e = [i \in 0..n + 1 |-> e[i]]
    OBVIOUS
  <2> HIDE DEF e
  <2>4. e = [i \in 0..n + 1 |-> Body(e, i)]
    BY <2>2, <2>3
  <2> HIDE DEF Body
  <2> QED
    BY <2>4
<1> HIDE DEF T
<1>3. L \in T
  BY <1>1, <1>2, Inductive
<1>4. \E f : f = [i \in 0..L |-> Body(f, i)]
  <2>1. Read(L)
    <3> HIDE DEF Read, L
    <3> QED
      BY <1>3 DEF T
  <2> QED
    BY <2>1
<1>5. left = CHOOSE f : f = [i \in 0..L |-> Body(f, i)]
  BY Zenon DEF Filtered
<1> HIDE DEF left
<1>6. left = [i \in 0..L |-> Body(left, i)]
  <2> HIDE DEF Body
  <2> QED
    BY <1>4, <1>5
<1>7. left[0] = docs
  <2>1. 0 \in 0..L
    OBVIOUS
  <2>2. left[0] = Body(left, 0)
    <3> HIDE DEF Body, L
    <3> QED
      BY <1>6, <2>1
  <2> QED
    BY <2>2
<1>8. ASSUME NEW k \in Nat, k + 1 <= L
      PROVE  left[k + 1] = Filter(names[k + 1], left[k])
  <2>1. k + 1 \in 0..L /\ k + 1 # 0 /\ (k + 1) - 1 = k
    BY <1>8
  <2>2. left[k + 1] = Body(left, k + 1)
    <3> HIDE DEF Body, L
    <3> QED
      BY <1>6, <2>1
  <2> QED
    BY <2>1, <2>2
<1> QED
  BY <1>7, <1>8 DEF left

Chained(names) == Len(names) \in Nat /\ \A k \in 1..Len(names) : names[k] \in FilterNames

\* What is left of well-formed documents is well-formed; behind pii it has no
\* secret.
LEMMA FiltersLeave ==
  ASSUME NEW docs, IsDocs(docs), NEW names, Chained(names), NEW n \in 0..Len(names)
  PROVE  /\ IsDocs(Filtered(docs, names)[n]) /\ \E e : Drawn(Filtered(docs, names)[n], docs, e)
         /\ (\E k \in 1..n : names[k] = "pii") => NoSecret(Filtered(docs, names)[n])
<1> DEFINE left == Filtered(docs, names)
           Good(k) == /\ IsDocs(left[k]) /\ \E e : Drawn(left[k], docs, e)
                      /\ (\E i \in 1..k : names[i] = "pii") => NoSecret(left[k])
           T == {k \in Nat : k <= Len(names) => Good(k)}
<1>1. /\ Len(names) \in Nat /\ left[0] = docs
      /\ \A k \in Nat : k + 1 <= Len(names) => left[k + 1] = Filter(names[k + 1], left[k])
  BY FilteredIs DEF Chained
<1> HIDE DEF left
<1>2. 0 \in T
  <2> DEFINE e == [k \in DOMAIN docs |-> k]
  <2>1. Drawn(docs, docs, e)
    BY DEF Drawn
  <2>2. Good(0)
    <3> HIDE DEF e
    <3> QED
      BY <1>1, <2>1
  <2> HIDE DEF Good
  <2> QED
    BY <2>2
<1>3. ASSUME NEW k \in Nat, k \in T PROVE k + 1 \in T
  <2>1. SUFFICES ASSUME k + 1 <= Len(names) PROVE Good(k + 1)
    <3> HIDE DEF Good
    <3> QED
      OBVIOUS
  <2>2. Good(k)
    <3>1. k <= Len(names)
      BY <1>1, <2>1
    <3> HIDE DEF Good
    <3> QED
      BY <1>3, <3>1
  <2> DEFINE r == left[k]
             name == names[k + 1]
             s == Filter(name, r)
  <2>3. left[k + 1] = s
    BY <1>1, <2>1
  <2>4. name \in FilterNames
    BY <1>1, <2>1 DEF Chained
  <2>5. IsDocs(r) /\ \E e : Drawn(r, docs, e)
    BY <2>2
  <2> HIDE DEF r, name
  <2>6. IsDocs(s) /\ (\E e : Drawn(s, r, e)) /\ (name = "pii" => NoSecret(s))
    BY <2>4, <2>5, FilterIs
  <2> HIDE DEF s
  <2>7. \E e : Drawn(s, docs, e)
    BY <2>5, <2>6, DrawnThrough
  <2>8. ASSUME NEW i \in 1..k + 1, names[i] = "pii" PROVE NoSecret(s)
    <3>1. CASE i = k + 1
      BY <2>6, <2>8, <3>1 DEF name
    <3>2. CASE i # k + 1
      <4>1. i \in 1..k
        BY <3>2
      <4>2. NoSecret(r)
        BY <2>2, <2>8, <4>1 DEF r
      <4>3. PICK e : Drawn(s, r, e)
        BY <2>6
      <4>4. \A m \in DOMAIN s : \A w \in ToSet(s[m].text) : w.is # "secret"
        <5> TAKE m \in DOMAIN s
        <5> TAKE w \in ToSet(s[m].text)
        <5>1. e[m] \in DOMAIN r /\ (w \in ToSet(r[e[m]].text) \/ w = Redaction)
          BY <4>3 DEF Drawn
        <5>2. Redaction.is = "redacted"
          BY DEF Redaction, Word
        <5> QED
          BY <4>2, <5>1, <5>2 DEF NoSecret
      <4> QED
        BY <4>4 DEF NoSecret
    <3> QED
      BY <3>1, <3>2
  <2> QED
    BY <2>3, <2>6, <2>7, <2>8
<1> HIDE DEF T
<1>4. n \in T
  <2>1. n \in Nat
    BY <1>1
  <2> QED
    BY <1>2, <1>3, <2>1, Inductive
<1> QED
  BY <1>1, <1>4 DEF T, left

-----------------------------------------------------------------------------
(* Filters of two corpora, one behind the other.                           *)

\* Sequences of the same length and elements are the same.
LEMMA SameSequence ==
  ASSUME NEW s, IsSeq(s), NEW t, IsSeq(t), Len(s) = Len(t), \A n \in 1..Len(s) : s[n] = t[n]
  PROVE  s = t
<1>1. /\ DOMAIN s = 1..Len(s) /\ s = [n \in 1..Len(s) |-> s[n]]
      /\ DOMAIN t = 1..Len(t) /\ t = [n \in 1..Len(t) |-> t[n]]
  BY DEF IsSeq
<1> QED
  BY <1>1

\* Nothing joined changes nothing.
LEMMA JoinsEmpty ==
  ASSUME NEW s, IsSeq(s)
  PROVE  s \o <<>> = s /\ IsSeq(<<>>)
<1>1. IsSeq(<<>>)
  BY DEF IsSeq, ToSet
<1>2. Len(<<>>) = 0
  OBVIOUS
<1> DEFINE e == <<>>
<1> HIDE DEF e
<1>3. IsSeq(e) /\ Len(e) = 0
  BY <1>1, <1>2 DEF e
<1> DEFINE u == s \o e
<1>4. IsSeq(u) /\ Len(s) \in Nat /\ Len(u) = Len(s) + Len(e) /\ \A n \in 1..Len(s) : u[n] = s[n]
  BY <1>3, Joins
<1> HIDE DEF u
<1>5. u = s
  BY <1>3, <1>4, SameSequence
<1> QED
  BY <1>1, <1>5 DEF u, e

\* What is appended to two joined sequences is appended to the second.
LEMMA AppendJoins ==
  ASSUME NEW s, IsSeq(s), NEW t, IsSeq(t), NEW e
  PROVE  Append(s \o t, e) = s \o Append(t, e)
<1> DEFINE u == s \o t
           ue == Append(u, e)
           te == Append(t, e)
           v == s \o te
<1>1. /\ IsSeq(u) /\ Len(s) \in Nat /\ Len(t) \in Nat /\ Len(u) = Len(s) + Len(t)
      /\ \A n \in 1..Len(s) : u[n] = s[n]
      /\ \A n \in 1..Len(t) : u[Len(s) + n] = t[n]
  BY Joins
<1> HIDE DEF u
<1>2. /\ IsSeq(ue) /\ Len(ue) = Len(u) + 1 /\ ue[Len(u) + 1] = e
      /\ \A n \in 1..Len(u) : ue[n] = u[n]
  <2>1. DOMAIN u = 1..Len(u)
    BY <1>1 DEF IsSeq
  <2> QED
    BY <1>1, <2>1, Appended
<1>3. /\ IsSeq(te) /\ Len(te) = Len(t) + 1 /\ te[Len(t) + 1] = e
      /\ \A n \in 1..Len(t) : te[n] = t[n]
  <2>1. DOMAIN t = 1..Len(t)
    BY DEF IsSeq
  <2> QED
    BY <2>1, Appended
<1> HIDE DEF te, ue
<1>4. /\ IsSeq(v) /\ Len(v) = Len(s) + Len(te)
      /\ \A n \in 1..Len(s) : v[n] = s[n]
      /\ \A n \in 1..Len(te) : v[Len(s) + n] = te[n]
  <2>1. \A x : IsSeq(x) => /\ IsSeq(s \o x) /\ Len(s \o x) = Len(s) + Len(x)
                           /\ \A n \in 1..Len(s) : (s \o x)[n] = s[n]
                           /\ \A n \in 1..Len(x) : (s \o x)[Len(s) + n] = x[n]
    BY Joins
  <2> QED
    BY <1>3, <2>1
<1> HIDE DEF v
<1>5. Len(ue) = Len(v) /\ Len(v) = Len(s) + Len(t) + 1
  BY <1>1, <1>2, <1>3, <1>4
<1>6. ASSUME NEW n \in 1..Len(ue) PROVE ue[n] = v[n]
  <2>1. CASE n \in 1..Len(s)
    <3>1. n \in 1..Len(u)
      BY <1>1, <2>1
    <3> QED
      BY <1>1, <1>2, <1>4, <2>1, <3>1
  <2>2. CASE n \in Len(s) + 1..Len(s) + Len(t)
    <3> DEFINE k == n - Len(s)
    <3>1. k \in 1..Len(t) /\ k \in 1..Len(te) /\ Len(s) + k = n /\ n \in 1..Len(u)
      BY <1>1, <1>3, <2>2
    <3> HIDE DEF k
    <3>2. u[n] = t[k]
      BY <1>1, <3>1
    <3>3. v[n] = te[k]
      BY <1>4, <3>1
    <3> QED
      BY <1>2, <1>3, <3>1, <3>2, <3>3
  <2>3. CASE n = Len(s) + Len(t) + 1
    <3>1. Len(te) \in 1..Len(te) /\ Len(s) + Len(te) = n
      BY <1>1, <1>3, <2>3
    <3>2. v[n] = te[Len(te)]
      BY <1>4, <3>1
    <3> QED
      BY <1>1, <1>2, <1>3, <2>3, <3>2
  <2> QED
    BY <1>1, <1>5, <2>1, <2>2, <2>3
<1>7. ue = v
  BY <1>2, <1>4, <1>5, <1>6, SameSequence
<1> QED
  BY <1>7 DEF ue, v, u, te

\* The choice goes by the positions that are there.
LEMMA ThoseAgree ==
  ASSUME NEW s, IsSeq(s), NEW P, NEW Q, \A n \in DOMAIN s : n \in P <=> n \in Q
  PROVE  Those(s, P) = Those(s, Q)
<1> DEFINE t == Taking(s, P)
           u == Taking(s, Q)
           T == {n \in Nat : n <= Len(s) => t[n] = u[n]}
<1>1. /\ Len(s) \in Nat /\ DOMAIN s = 1..Len(s) /\ t[0] = <<>>
      /\ \A n \in Nat : n + 1 <= Len(s) =>
           t[n + 1] = IF n + 1 \in P THEN Append(t[n], s[n + 1]) ELSE t[n]
  BY Takes
<1>2. /\ u[0] = <<>>
      /\ \A n \in Nat : n + 1 <= Len(s) =>
           u[n + 1] = IF n + 1 \in Q THEN Append(u[n], s[n + 1]) ELSE u[n]
  BY Takes
<1>3. Those(s, P) = t[Len(s)] /\ Those(s, Q) = u[Len(s)]
  BY TakingIs
<1> HIDE DEF t, u
<1>4. 0 \in T
  BY <1>1, <1>2
<1>5. ASSUME NEW n \in Nat, n \in T PROVE n + 1 \in T
  <2>1. SUFFICES ASSUME n + 1 <= Len(s) PROVE t[n + 1] = u[n + 1]
    OBVIOUS
  <2>2. n <= Len(s) /\ n + 1 \in DOMAIN s
    BY <1>1, <2>1
  <2>3. t[n] = u[n]
    BY <1>5, <2>2
  <2> QED
    BY <1>1, <1>2, <2>1, <2>2, <2>3
<1> HIDE DEF T
<1>6. Len(s) \in T
  BY <1>1, <1>4, <1>5, Inductive
<1> QED
  BY <1>1, <1>3, <1>6 DEF T

\* The positions of b that are among these of both.
Behind(a, b, P) == {n \in DOMAIN b : Len(a) + n \in P}

\* What is taken of two joined sequences is taken of each.
LEMMA ThoseSplit ==
  ASSUME NEW a, IsSeq(a), NEW b, IsSeq(b), NEW P
  PROVE  Those(a \o b, P) = Those(a, P) \o Those(b, Behind(a, b, P))
<1> DEFINE ab == a \o b
           Q == Behind(a, b, P)
           t == Taking(ab, P)
           u == Taking(a, P)
           v == Taking(b, Q)
           A == Len(a)
           B == Len(b)
           S == {n \in Nat : n <= A => t[n] = u[n]}
           w == u[A]
           Good(n) == IsSeq(v[n]) /\ t[A + n] = w \o v[n]
           T == {n \in Nat : n <= B => Good(n)}
<1>1. /\ IsSeq(ab) /\ A \in Nat /\ B \in Nat /\ Len(ab) = A + B /\ DOMAIN b = 1..B
      /\ \A n \in 1..A : ab[n] = a[n]
      /\ \A n \in 1..B : ab[A + n] = b[n]
  BY Joins
<1> HIDE DEF ab
<1>2. /\ t[0] = <<>>
      /\ \A n \in Nat : n + 1 <= A + B =>
           t[n + 1] = IF n + 1 \in P THEN Append(t[n], ab[n + 1]) ELSE t[n]
  BY <1>1, Takes
<1>3. /\ u[0] = <<>>
      /\ \A n \in Nat : n + 1 <= A =>
           u[n + 1] = IF n + 1 \in P THEN Append(u[n], a[n + 1]) ELSE u[n]
  BY Takes
<1>4. /\ v[0] = <<>>
      /\ \A n \in Nat : n + 1 <= B =>
           v[n + 1] = IF n + 1 \in Q THEN Append(v[n], b[n + 1]) ELSE v[n]
  <2> HIDE DEF Q
  <2> QED
    BY Takes
<1>5. Those(ab, P) = t[A + B] /\ Those(a, P) = w /\ Those(b, Q) = v[B]
  <2> HIDE DEF Q
  <2>1. \A R : Those(ab, R) = Taking(ab, R)[Len(ab)]
    BY <1>1, TakingIs, SMT
  <2>2. \A R : Those(a, R) = Taking(a, R)[Len(a)] /\ Those(b, R) = Taking(b, R)[Len(b)]
    BY TakingIs, SMT
  <2> QED
    BY <1>1, <2>1, <2>2, SMT
<1>6. \A n \in Nat : n + 1 <= B => (n + 1 \in Q <=> A + (n + 1) \in P)
  BY <1>1 DEF Behind
<1>7. IsSeq(w)
  BY <1>5, ThoseAre
<1> HIDE DEF t, u, v, Q, A, B, ab
<1>8. A \in S
  <2>1. 0 \in S
    BY <1>2, <1>3
  <2>2. ASSUME NEW n \in Nat, n \in S PROVE n + 1 \in S
    <3>1. SUFFICES ASSUME n + 1 <= A PROVE t[n + 1] = u[n + 1]
      OBVIOUS
    <3>2. n <= A /\ n + 1 <= A + B /\ n + 1 \in 1..A
      BY <1>1, <3>1
    <3>3. t[n] = u[n] /\ ab[n + 1] = a[n + 1]
      BY <1>1, <2>2, <3>2
    <3> QED
      BY <1>2, <1>3, <3>1, <3>2, <3>3
  <2> HIDE DEF S
  <2> QED
    BY <1>1, <2>1, <2>2, Inductive
<1>9. t[A] = w
  BY <1>1, <1>8
<1> HIDE DEF w
<1>10. B \in T
  <2>1. 0 \in T
    <3>1. IsSeq(<<>>) /\ w \o <<>> = w
      BY <1>7, JoinsEmpty
    <3>2. A + 0 = A
      BY <1>1
    <3> QED
      BY <1>4, <1>9, <3>1, <3>2
  <2>2. ASSUME NEW n \in Nat, n \in T PROVE n + 1 \in T
    <3>1. SUFFICES ASSUME n + 1 <= B PROVE Good(n + 1)
      <4> HIDE DEF Good
      <4> QED
        OBVIOUS
    <3>2. /\ n <= B /\ n + 1 \in 1..B /\ A + n \in Nat /\ (A + n) + 1 <= A + B
          /\ A + (n + 1) = (A + n) + 1
      BY <1>1, <3>1
    <3>3. IsSeq(v[n]) /\ t[A + n] = w \o v[n]
      <4>1. Good(n)
        <5> HIDE DEF Good
        <5> QED
          BY <2>2, <3>2
      <4> QED
        BY <4>1
    <3>4. ab[A + (n + 1)] = b[n + 1]
      BY <1>1, <3>2
    <3>5. t[(A + n) + 1] = IF (A + n) + 1 \in P THEN Append(t[A + n], ab[(A + n) + 1]) ELSE t[A + n]
      BY <1>2, <3>2
    <3> DEFINE x == v[n]
               e == b[n + 1]
    <3>6. IsSeq(x)
      BY <3>3
    <3> HIDE DEF x, e
    <3>7. IsSeq(Append(x, e))
      BY <3>6, Appended
    <3>8. Append(w \o x, e) = w \o Append(x, e)
      <4>1. \A z : IsSeq(z) => Append(w \o z, e) = w \o Append(z, e)
        BY <1>7, AppendJoins
      <4> QED
        BY <3>6, <4>1
    <3>9. CASE n + 1 \in Q
      <4>1. v[n + 1] = Append(x, e)
        BY <1>4, <3>1, <3>9 DEF x, e
      <4>2. t[A + (n + 1)] = Append(w \o x, e)
        BY <1>6, <3>1, <3>2, <3>3, <3>4, <3>5, <3>9 DEF x, e
      <4> QED
        BY <3>7, <3>8, <4>1, <4>2
    <3>10. CASE n + 1 \notin Q
      <4>1. v[n + 1] = x
        BY <1>4, <3>1, <3>10 DEF x
      <4>2. t[A + (n + 1)] = w \o x
        BY <1>6, <3>1, <3>2, <3>3, <3>5, <3>10 DEF x
      <4> QED
        BY <3>6, <4>1, <4>2
    <3> QED
      BY <3>9, <3>10
  <2> HIDE DEF T
  <2> QED
    BY <1>1, <2>1, <2>2, Inductive
<1>11. t[A + B] = w \o v[B]
  <2>1. B \in Nat /\ B <= B
    BY <1>1
  <2>2. Good(B)
    <3> HIDE DEF Good
    <3> QED
      BY <1>10, <2>1
  <2> QED
    BY <2>2
<1> QED
  BY <1>5, <1>11 DEF ab, Q, A, w

\* Documents behind documents.
LEMMA DocsJoin ==
  ASSUME NEW a, IsDocs(a), NEW b, IsDocs(b)
  PROVE  IsDocs(a \o b)
<1> DEFINE ab == a \o b
<1>1. /\ IsSeq(ab) /\ Len(a) \in Nat /\ Len(b) \in Nat
      /\ DOMAIN a = 1..Len(a) /\ DOMAIN b = 1..Len(b) /\ DOMAIN ab = 1..Len(a) + Len(b)
      /\ \A n \in 1..Len(a) : ab[n] = a[n]
      /\ \A n \in 1..Len(b) : ab[Len(a) + n] = b[n]
  BY Joins DEF IsDocs
<1> HIDE DEF ab
<1>2. ASSUME NEW n \in DOMAIN ab PROVE IsDocument(ab[n])
  <2>1. CASE n \in 1..Len(a)
    BY <1>1, <2>1 DEF IsDocs
  <2>2. CASE n \notin 1..Len(a)
    <3> DEFINE k == n - Len(a)
    <3>1. k \in 1..Len(b) /\ Len(a) + k = n
      BY <1>1, <2>2
    <3> HIDE DEF k
    <3>2. ab[n] = b[k]
      BY <1>1, <3>1
    <3> QED
      BY <1>1, <3>1, <3>2 DEF IsDocs
  <2> QED
    BY <2>1, <2>2
<1>3. IsDocs(ab)
  BY <1>1, <1>2 DEF IsDocs
<1> QED
  BY <1>3 DEF ab

\* A sequence of two halves.
LEMMA Halves ==
  ASSUME NEW x, IsSeq(x), NEW y, IsSeq(y), NEW z, IsSeq(z), Len(z) = Len(x) + Len(y),
         \A n \in 1..Len(x) : z[n] = x[n], \A n \in 1..Len(y) : z[Len(x) + n] = y[n]
  PROVE  z = x \o y
<1> DEFINE xy == x \o y
<1>1. /\ IsSeq(xy) /\ Len(x) \in Nat /\ Len(y) \in Nat /\ Len(xy) = Len(x) + Len(y)
      /\ \A n \in 1..Len(x) : xy[n] = x[n]
      /\ \A n \in 1..Len(y) : xy[Len(x) + n] = y[n]
  BY Joins
<1> HIDE DEF xy
<1>2. ASSUME NEW n \in 1..Len(z) PROVE z[n] = xy[n]
  <2>1. CASE n \in 1..Len(x)
    BY <1>1, <2>1
  <2>2. CASE n \notin 1..Len(x)
    <3> DEFINE k == n - Len(x)
    <3>1. k \in 1..Len(y) /\ Len(x) + k = n
      BY <1>1, <2>2
    <3> HIDE DEF k
    <3> QED
      BY <1>1, <3>1
  <2> QED
    BY <2>1, <2>2
<1>3. z = xy
  BY <1>1, <1>2, SameSequence
<1> QED
  BY <1>3 DEF xy

\* A filter leaves of a corpus what it would leave without what is behind it.
LEMMA FilterSplits ==
  ASSUME NEW a, IsDocs(a), NEW b, IsDocs(b), NEW name \in FilterNames
  PROVE  \E r : /\ Filter(name, a \o b) = Filter(name, a) \o r
                /\ IsDocs(r) /\ \E e : Drawn(r, b, e)
<1> DEFINE ab == a \o b
           A == Len(a)
           Goal == \E r : /\ Filter(name, ab) = Filter(name, a) \o r
                          /\ IsDocs(r) /\ \E e : Drawn(r, b, e)
<1>s. IsSeq(a) /\ IsSeq(b)
  BY DEF IsDocs
<1>1. /\ IsSeq(a) /\ IsSeq(b) /\ IsSeq(ab) /\ A \in Nat /\ Len(b) \in Nat
      /\ Len(ab) = A + Len(b)
      /\ DOMAIN a = 1..A /\ DOMAIN b = 1..Len(b) /\ DOMAIN ab = 1..A + Len(b)
      /\ \A n \in 1..A : ab[n] = a[n]
      /\ \A n \in 1..Len(b) : ab[A + n] = b[n]
  BY Joins DEF IsDocs
<1>2. IsDocs(ab)
  BY DocsJoin
<1>3. ASSUME NEW P, NEW Q, Filter(name, ab) = Those(ab, P), Filter(name, a) = Those(a, Q),
             \A n \in DOMAIN a : n \in P <=> n \in Q
      PROVE  Goal
  <2> DEFINE B == Behind(a, b, P)
             r == Those(b, B)
  <2>1. Those(ab, P) = Those(a, P) \o r
    BY <1>s, ThoseSplit
  <2>2. Those(a, P) = Those(a, Q)
    BY <1>1, <1>3, ThoseAgree
  <2> HIDE DEF B
  <2>3. IsDocs(r) /\ \E e : Drawn(r, b, e)
    BY ThoseDocs
  <2> HIDE DEF r, ab
  <2>4. Filter(name, ab) = Filter(name, a) \o r
    BY <1>3, <2>1, <2>2
  <2> QED
    BY <2>3, <2>4
<1>4. ASSUME name = "dedup" PROVE Goal
  <2> DEFINE P == {n \in DOMAIN ab : \A m \in 1..n - 1 : Normalized(ab[m].text) # Normalized(ab[n].text)}
             Q == {n \in DOMAIN a : \A m \in 1..n - 1 : Normalized(a[m].text) # Normalized(a[n].text)}
  <2>1. Filter(name, ab) = Those(ab, P) /\ Filter(name, a) = Those(a, Q)
    BY <1>4 DEF Filter, Dedup
  <2>2. ASSUME NEW n \in DOMAIN a PROVE n \in P <=> n \in Q
    <3> HIDE DEF ab
    <3>1. n \in DOMAIN ab /\ ab[n] = a[n] /\ \A m \in 1..n - 1 : ab[m] = a[m]
      BY <1>1
    <3> QED
      BY <3>1
  <2> HIDE DEF P, Q, ab, Goal
  <2> QED
    BY <1>3, <2>1, <2>2
<1>5. ASSUME name = "language" PROVE Goal
  <2> DEFINE English(text) == {w \in DOMAIN text : text[w].is = "prose"}
             Passes(text) == \/ Len(text) < MinTokens
                             \/ Cardinality(English(text)) * Ratio >= Len(text)
             P == {n \in DOMAIN ab : Passes(ab[n].text)}
             Q == {n \in DOMAIN a : Passes(a[n].text)}
  <2>1. Filter(name, ab) = Those(ab, P) /\ Filter(name, a) = Those(a, Q)
    BY <1>5 DEF Filter, Language
  <2> HIDE DEF Passes
  <2>2. ASSUME NEW n \in DOMAIN a PROVE n \in P <=> n \in Q
    <3> HIDE DEF ab
    <3>1. n \in DOMAIN ab /\ ab[n] = a[n]
      BY <1>1
    <3> QED
      BY <3>1
  <2> HIDE DEF P, Q, ab, Goal
  <2> QED
    BY <1>3, <2>1, <2>2
<1>6. ASSUME name = "pii" PROVE Goal
  <2>1. Filter(name, ab) = Redact(ab) /\ Filter(name, a) = Redact(a)
    BY <1>6 DEF Filter
  <2> DEFINE x == Redact(a)
             y == Redact(b)
             z == Redact(ab)
  <2>2. /\ IsDocs(x) /\ DOMAIN x = DOMAIN a /\ IsDocs(y) /\ DOMAIN y = DOMAIN b
        /\ \E e : Drawn(y, b, e)
    BY RedactIs
  <2> HIDE DEF ab
  <2>3. IsDocs(z) /\ DOMAIN z = DOMAIN ab
    BY <1>2, RedactIs
  <2>4. /\ \A n \in 1..A : z[n] = x[n]
        /\ \A n \in 1..Len(b) : z[A + n] = y[n]
    <3>1. \A n \in 1..A : n \in DOMAIN ab /\ ab[n] = a[n]
      BY <1>1
    <3>2. \A n \in 1..Len(b) : A + n \in DOMAIN ab /\ ab[A + n] = b[n]
      BY <1>1
    <3> QED
      BY <1>1, <3>1, <3>2 DEF Redact
  <2> HIDE DEF x, y, z
  <2>5. IsSeq(x) /\ IsSeq(y) /\ IsSeq(z) /\ Len(x) = Len(a) /\ Len(y) = Len(b) /\ Len(z) = A + Len(b)
    BY <1>1, <2>2, <2>3 DEF IsDocs, IsSeq
  <2>6. z = x \o y
    <3> HIDE DEF ab
    <3>1. Len(z) = Len(x) + Len(y) /\ Len(x) = A
      BY <2>5
    <3>2. (\A n \in 1..Len(x) : z[n] = x[n]) /\ (\A n \in 1..Len(y) : z[Len(x) + n] = y[n])
      BY <2>4, <2>5
    <3>3. IsSeq(x) /\ IsSeq(y) /\ IsSeq(z) /\ Len(z) = Len(x) + Len(y)
      BY <2>5, <3>1
    <3> HIDE DEF A
    <3> QED
      BY <3>2, <3>3, Halves
  <2> QED
    BY <2>1, <2>2, <2>6 DEF x, z
<1>7. ASSUME name = "boilerplate" PROVE Goal
  <2>1. Filter(name, ab) = Boilerplate(ab) /\ Filter(name, a) = Boilerplate(a)
    BY <1>7 DEF Filter
  <2> DEFINE x == Cleaned(a)
             y == Cleaned(b)
             z == Cleaned(ab)
             P == {n \in DOMAIN ab : Len(z[n].text) >= MinDoc}
             Q == {n \in DOMAIN a : Len(x[n].text) >= MinDoc}
             B == Behind(x, y, P)
             r == Those(y, B)
  <2>2. Boilerplate(ab) = Those(z, P) /\ Boilerplate(a) = Those(x, Q)
    BY <1>2, BoilerplateIs
  <2>3. /\ IsDocs(x) /\ DOMAIN x = DOMAIN a /\ IsDocs(y) /\ DOMAIN y = DOMAIN b
        /\ \E e : Drawn(y, b, e)
    BY CleanedAre
  <2>4. IsDocs(z) /\ DOMAIN z = DOMAIN ab
    <3> HIDE DEF ab
    <3> QED
      BY <1>2, CleanedAre
  <2>5. /\ \A n \in 1..A : z[n] = x[n]
        /\ \A n \in 1..Len(b) : z[A + n] = y[n]
    <3> HIDE DEF ab
    <3>1. \A n \in 1..A : n \in DOMAIN ab /\ ab[n] = a[n]
      BY <1>1
    <3>2. \A n \in 1..Len(b) : A + n \in DOMAIN ab /\ ab[A + n] = b[n]
      BY <1>1
    <3> QED
      BY <1>1, <3>1, <3>2 DEF Cleaned
  <2> HIDE DEF x, y, z
  <2>6. IsSeq(x) /\ IsSeq(y) /\ IsSeq(z) /\ Len(x) = Len(a) /\ Len(y) = Len(b) /\ Len(z) = A + Len(b)
    BY <1>1, <2>3, <2>4 DEF IsDocs, IsSeq
  <2>7. z = x \o y
    <3> HIDE DEF ab
    <3>1. Len(z) = Len(x) + Len(y) /\ Len(x) = A
      BY <2>6
    <3>2. (\A n \in 1..Len(x) : z[n] = x[n]) /\ (\A n \in 1..Len(y) : z[Len(x) + n] = y[n])
      BY <2>5, <2>6
    <3>3. IsSeq(x) /\ IsSeq(y) /\ IsSeq(z) /\ Len(z) = Len(x) + Len(y)
      BY <2>6, <3>1
    <3> HIDE DEF A
    <3> QED
      BY <3>2, <3>3, Halves
  <2>8. Those(x \o y, P) = Those(x, P) \o Those(y, Behind(x, y, P))
    BY <2>6, ThoseSplit
  <2>10. Those(x, P) = Those(x, Q)
    <3>1. ASSUME NEW n \in DOMAIN x PROVE n \in P <=> n \in Q
      <4> HIDE DEF ab
      <4>1. n \in DOMAIN ab /\ n \in DOMAIN a /\ z[n] = x[n]
        BY <1>1, <2>3, <2>5
      <4> QED
        BY <4>1
    <3> HIDE DEF P, Q
    <3> QED
      BY <2>6, <3>1, ThoseAgree
  <2> HIDE DEF B, P, Q
  <2>11. IsDocs(r) /\ \E e : Drawn(r, y, e)
    BY <2>3, ThoseDocs
  <2> HIDE DEF r
  <2>12. \E e : Drawn(r, b, e)
    BY <2>3, <2>11, DrawnThrough
  <2>13. Filter(name, ab) = Filter(name, a) \o r
    <3> HIDE DEF ab
    <3> QED
      BY <2>1, <2>2, <2>7, <2>8, <2>10 DEF r, B
  <2> QED
    BY <2>11, <2>12, <2>13
<1> QED
  BY <1>4, <1>5, <1>6, <1>7 DEF FilterNames

\* The chain leaves of a corpus what it would leave without what is behind it,
\* and of that some documents in their order.
Divided(z, x, b) == \E r : z = x \o r /\ IsDocs(r) /\ \E e : Drawn(r, b, e)

\* Every filter of a chain leaves of a corpus what it would without the batch behind it.
LEMMA FiltersSplit ==
  ASSUME NEW a, IsDocs(a), NEW b, IsDocs(b), NEW names, Chained(names), NEW n \in 0..Len(names)
  PROVE  Divided(Filtered(a \o b, names)[n], Filtered(a, names)[n], b)
<1> DEFINE left == Filtered(a, names)
           ab == a \o b
           both == Filtered(ab, names)
           L == Len(names)
           Good(k) == \E r : both[k] = left[k] \o r /\ IsDocs(r) /\ \E e : Drawn(r, b, e)
           T == {k \in Nat : k <= L => Good(k)}
<1>1. /\ L \in Nat /\ left[0] = a
      /\ \A k \in Nat : k + 1 <= L => left[k + 1] = Filter(names[k + 1], left[k])
  BY FilteredIs DEF Chained
<1>2. /\ both[0] = a \o b
      /\ \A k \in Nat : k + 1 <= L => both[k + 1] = Filter(names[k + 1], both[k])
  <2> HIDE DEF ab
  <2>1. /\ both[0] = ab
        /\ \A k \in Nat : k + 1 <= L => both[k + 1] = Filter(names[k + 1], both[k])
    BY FilteredIs DEF Chained
  <2> QED
    BY <2>1 DEF ab
<1>3. \A k \in 0..L : IsDocs(left[k])
  BY FiltersLeave
<1> HIDE DEF left, both
<1>4. Good(0)
  <2> DEFINE e == [k \in DOMAIN b |-> k]
  <2>1. Drawn(b, b, e)
    BY DEF Drawn
  <2> HIDE DEF e
  <2> QED
    BY <1>1, <1>2, <2>1
<1>5. ASSUME NEW k \in Nat, k + 1 <= L, Good(k) PROVE Good(k + 1)
  <2>1. PICK r : both[k] = left[k] \o r /\ IsDocs(r) /\ \E e : Drawn(r, b, e)
    BY <1>5
  <2> DEFINE x == left[k]
             name == names[k + 1]
  <2>2. IsDocs(x) /\ name \in FilterNames
    BY <1>1, <1>3, <1>5 DEF Chained
  <2>3. left[k + 1] = Filter(name, x) /\ both[k + 1] = Filter(name, x \o r)
    BY <1>1, <1>2, <1>5, <2>1
  <2> HIDE DEF x, name
  <2>4. PICK s : /\ Filter(name, x \o r) = Filter(name, x) \o s
                 /\ IsDocs(s) /\ \E e : Drawn(s, r, e)
    BY <2>1, <2>2, FilterSplits
  <2>5. \E e : Drawn(s, b, e)
    BY <2>1, <2>4, DrawnThrough
  <2> QED
    BY <2>3, <2>4, <2>5
<1> HIDE DEF Good
<1>6. 0 \in T
  BY <1>4
<1>7. ASSUME NEW k \in Nat, k \in T PROVE k + 1 \in T
  <2>1. k + 1 <= L => k <= L
    BY <1>1
  <2> QED
    BY <1>5, <1>7, <2>1
<1> HIDE DEF T
<1>8. n \in T /\ n \in Nat /\ n <= L
  <2>1. n \in Nat /\ n <= L
    BY <1>1
  <2> QED
    BY <1>6, <1>7, <2>1, Inductive
<1> QED
  BY <1>8 DEF T, Good, left, both, ab, Divided

\* No filter brings in a document.
LEMMA FiltersShrink ==
  ASSUME NEW docs, IsDocs(docs), NEW names, Chained(names), NEW k \in Nat, k + 1 <= Len(names)
  PROVE  Ids(Filtered(docs, names)[k + 1]) \subseteq Ids(Filtered(docs, names)[k])
<1> DEFINE r == Filtered(docs, names)[k]
           s == Filtered(docs, names)[k + 1]
           name == names[k + 1]
<1>1. Len(names) \in Nat /\ name \in FilterNames
  BY DEF Chained
<1>2. s = Filter(name, r)
  BY <1>1, FilteredIs
<1>3. IsDocs(r)
  BY <1>1, FiltersLeave
<1> HIDE DEF r, s, name
<1>4. PICK e : Drawn(s, r, e)
  BY <1>1, <1>2, <1>3, FilterIs
<1>5. Ids(s) \subseteq Ids(r)
  BY <1>4 DEF Drawn, Ids
<1> QED
  BY <1>5 DEF r, s

\* What is drawn from documents has their ids.
LEMMA DrawnIds ==
  ASSUME NEW r, NEW s, NEW e, Drawn(r, s, e)
  PROVE  Ids(r) \subseteq Ids(s)
BY DEF Drawn, Ids

\* Of sets each of which has the next one a member leaves once.
LEMMA LeavesOnce ==
  ASSUME NEW m \in Nat, NEW D, \A k \in Nat : k + 1 <= m => D[k + 1] \subseteq D[k],
         NEW x, x \in D[0],
         NEW S, \A k : k \in S <=> k \in 1..m /\ x \in D[k - 1] /\ x \notin D[k]
  PROVE  Cardinality(S) = IF x \in D[m] THEN 0 ELSE 1
<1> DEFINE In(k) == \A i \in 0..k : x \in D[i]
           T == {k \in Nat : k <= m /\ x \in D[k] => In(k)}
<1>1. 0 \in T
  OBVIOUS
<1>2. ASSUME NEW k \in Nat, k \in T PROVE k + 1 \in T
  <2>1. SUFFICES ASSUME k + 1 <= m, x \in D[k + 1] PROVE In(k + 1)
    <3> HIDE DEF In
    <3> QED
      OBVIOUS
  <2>2. x \in D[k] /\ k <= m
    BY <2>1
  <2>3. In(k)
    <3> HIDE DEF In
    <3> QED
      BY <1>2, <2>2
  <2>4. \A i \in 0..k + 1 : i = k + 1 \/ i \in 0..k
    OBVIOUS
  <2> QED
    BY <2>1, <2>3, <2>4
<1> HIDE DEF T
<1>3. \A k \in Nat : k \in T
  BY <1>1, <1>2, Inductive
<1>4. \A k \in Nat : k <= m /\ x \in D[k] => \A i \in 0..k : x \in D[i]
  BY <1>3 DEF T
<1>5. CASE x \in D[m]
  <2>1. \A k \in 1..m : x \in D[k]
    BY <1>4, <1>5
  <2>2. S = {}
    BY <2>1
  <2> QED
    BY <1>5, <2>2, FS_EmptySet
<1>6. CASE x \notin D[m]
  <2> DEFINE gone == {k \in 0..m : x \notin D[k]}
             g == Min(gone)
  <2>1. gone \in SUBSET Nat /\ gone # {}
    BY <1>6
  <2> HIDE DEF gone
  <2>2. g \in gone /\ \A k \in gone : g <= k
    BY <2>1, LeastIs
  <2> HIDE DEF g
  <2>3. g \in 1..m /\ g \in Nat /\ x \notin D[g] /\ x \in D[g - 1]
    <3>1. g \in 0..m /\ x \notin D[g]
      BY <2>2 DEF gone
    <3>2. g # 0
      BY <3>1
    <3>3. g - 1 \in 0..m
      BY <3>1, <3>2
    <3>4. g - 1 \notin gone
      BY <2>2, <3>1, <3>3
    <3> QED
      BY <3>1, <3>2, <3>3, <3>4 DEF gone
  <2>4. g \in S
    BY <2>3
  <2>5. ASSUME NEW k \in S PROVE k = g
    <3>1. k \in 1..m /\ k \in Nat /\ k - 1 \in Nat /\ k - 1 <= m /\ x \in D[k - 1] /\ x \notin D[k]
      BY <2>5
    <3>2. k \in gone
      BY <3>1 DEF gone
    <3>3. g <= k
      BY <2>2, <3>2
    <3>4. \A i \in 0..k - 1 : x \in D[i]
      BY <1>4, <3>1
    <3>5. ~(g \in 0..k - 1)
      BY <2>3, <3>4
    <3> QED
      BY <2>3, <3>1, <3>3, <3>5
  <2>6. S = {g}
    BY <2>4, <2>5
  <2> QED
    BY <1>6, <2>6, FS_Singleton
<1> QED
  BY <1>5, <1>6

\* There is one order of a set of numbers.
LEMMA OneOrder ==
  ASSUME NEW m \in Nat, NEW n \in Nat, NEW e \in [1..m -> Nat], NEW f \in [1..n -> Nat],
         \A k, l \in 1..m : k < l => e[k] < e[l], \A k, l \in 1..n : k < l => f[k] < f[l],
         \A k \in 1..m : \E l \in 1..n : e[k] = f[l],
         \A k \in 1..n : \E l \in 1..m : f[k] = e[l]
  PROVE  m <= n /\ \A k \in 1..m : e[k] = f[k]
<1> DEFINE Same(k) == k <= n /\ \A i \in 1..k : e[i] = f[i]
           T == {k \in Nat : k <= m => Same(k)}
<1>1. 0 \in T
  OBVIOUS
<1>2. ASSUME NEW k \in Nat, k \in T PROVE k + 1 \in T
  <2>1. SUFFICES ASSUME k + 1 <= m PROVE Same(k + 1)
    <3> HIDE DEF Same
    <3> QED
      OBVIOUS
  <2>2. k <= m
    BY <2>1
  <2>3. Same(k)
    <3> HIDE DEF Same
    <3> QED
      BY <1>2, <2>2
  <2>4. k + 1 \in 1..m
    BY <2>1
  <2>5. PICK j \in 1..n : e[k + 1] = f[j]
    BY <2>4
  <2>6. j >= k + 1
    <3>1. SUFFICES ASSUME j \in 1..k PROVE FALSE
      OBVIOUS
    <3>2. f[j] = e[j] /\ j \in 1..m /\ j < k + 1
      BY <2>1, <2>3, <3>1
    <3>3. e[j] < e[k + 1] /\ e[j] \in Nat
      BY <2>4, <3>2
    <3> QED
      BY <2>5, <3>2, <3>3
  <2>7. k + 1 \in 1..n
    BY <2>6
  <2>8. PICK i \in 1..m : f[k + 1] = e[i]
    BY <2>7
  <2>9. i >= k + 1
    <3>1. SUFFICES ASSUME i \in 1..k PROVE FALSE
      OBVIOUS
    <3>2. e[i] = f[i] /\ i \in 1..n /\ i < k + 1
      BY <2>3, <2>7, <3>1
    <3>3. f[i] < f[k + 1] /\ f[i] \in Nat
      BY <2>7, <3>2
    <3> QED
      BY <2>8, <3>2, <3>3
  <2>10. e[k + 1] <= e[i] /\ f[k + 1] <= f[j] /\ e[k + 1] \in Nat /\ f[k + 1] \in Nat
    <3>1. i = k + 1 \/ k + 1 < i
      BY <2>9
    <3>2. j = k + 1 \/ k + 1 < j
      BY <2>6
    <3>3. e[i] \in Nat /\ e[k + 1] \in Nat /\ f[j] \in Nat /\ f[k + 1] \in Nat
      BY <2>4, <2>7
    <3>4. e[k + 1] <= e[i]
      <4>1. CASE i = k + 1
        BY <3>3, <4>1
      <4>2. CASE k + 1 < i
        <5>1. e[k + 1] < e[i]
          BY <2>4, <4>2
        <5> DEFINE x == e[k + 1]
                   y == e[i]
        <5>2. x \in Nat /\ y \in Nat /\ x < y
          BY <3>3, <5>1
        <5> HIDE DEF x, y
        <5>3. x <= y
          BY <5>2
        <5> QED
          BY <5>3 DEF x, y
      <4> QED
        BY <3>1, <4>1, <4>2
    <3>5. f[k + 1] <= f[j]
      <4>1. CASE j = k + 1
        BY <3>3, <4>1
      <4>2. CASE k + 1 < j
        <5>1. f[k + 1] < f[j]
          BY <2>7, <4>2
        <5> DEFINE x == f[k + 1]
                   y == f[j]
        <5>2. x \in Nat /\ y \in Nat /\ x < y
          BY <3>3, <5>1
        <5> HIDE DEF x, y
        <5>3. x <= y
          BY <5>2
        <5> QED
          BY <5>3 DEF x, y
      <4> QED
        BY <3>2, <4>1, <4>2
    <3> QED
      BY <3>3, <3>4, <3>5
  <2>11. e[k + 1] = f[k + 1]
    BY <2>5, <2>8, <2>10
  <2>12. (\A l \in 1..k + 1 : l = k + 1 \/ l \in 1..k) /\ k + 1 <= n
    BY <2>7
  <2> QED
    BY <2>3, <2>7, <2>11, <2>12
<1> HIDE DEF T
<1>3. m \in T
  BY <1>1, <1>2, Inductive
<1> QED
  BY <1>3 DEF T

\* What is left of a chain, and what its filters have dropped.
LEMMA AppliedIs ==
  ASSUME NEW docs, IsDocs(docs), NEW names, Chained(names)
  PROVE  /\ ApplyFilters(docs, names).kept = Filtered(docs, names)[Len(names)]
         /\ IsDocs(ApplyFilters(docs, names).kept)
         /\ \E e : Drawn(ApplyFilters(docs, names).kept, docs, e)
         /\ (\E k \in 1..Len(names) : names[k] = "pii") => NoSecret(ApplyFilters(docs, names).kept)
         /\ Len(ApplyFilters(docs, names).dropped) = Len(names)
         /\ DOMAIN ApplyFilters(docs, names).dropped = 1..Len(names)
<1> DEFINE left == Filtered(docs, names)
           L == Len(names)
           Lost(k) == {n \in DOMAIN left[k - 1] : left[k - 1][n].id \notin Ids(left[k])}
           dropped == [k \in 1..L |-> Those(left[k - 1], Lost(k))]
           all == ApplyFilters(docs, names)
<1>1. all = [kept |-> left[L], dropped |-> dropped]
  BY Zenon DEF ApplyFilters
<1>2. L \in Nat
  BY DEF Chained
<1>3. \A k \in 0..L : IsDocs(left[k])
  BY FiltersLeave
<1>4. IsDocs(left[L]) /\ \E e : Drawn(left[L], docs, e)
  <2>1. L \in 0..L
    BY <1>2
  <2> QED
    BY <2>1, FiltersLeave
<1>5. (\E k \in 1..L : names[k] = "pii") => NoSecret(left[L])
  <2>1. L \in 0..L
    BY <1>2
  <2> QED
    BY <2>1, FiltersLeave
<1> HIDE DEF left, all
<1>6. all.kept = left[L] /\ all.dropped = dropped
  BY <1>1
<1>7. Len(dropped) = L /\ DOMAIN dropped = 1..L
  BY <1>2
<1> HIDE DEF dropped
<1> QED
  BY <1>4, <1>5, <1>6, <1>7 DEF all, left

\* What a filter of a chain has dropped was left before it, and is not behind it.
LEMMA DroppedIs ==
  ASSUME NEW docs, IsDocs(docs), NEW names, Chained(names), NEW k \in 1..Len(names)
  PROVE  /\ IsDocs(ApplyFilters(docs, names).dropped[k])
         /\ \A id : id \in Ids(ApplyFilters(docs, names).dropped[k]) <=>
              /\ id \in Ids(Filtered(docs, names)[k - 1])
              /\ id \notin Ids(Filtered(docs, names)[k])
<1> DEFINE left == Filtered(docs, names)
           L == Len(names)
           Lost(i) == {n \in DOMAIN left[i - 1] : left[i - 1][n].id \notin Ids(left[i])}
           dropped == [i \in 1..L |-> Those(left[i - 1], Lost(i))]
           all == ApplyFilters(docs, names)
<1>1. all = [kept |-> left[L], dropped |-> dropped]
  BY Zenon DEF ApplyFilters
<1>2. L \in Nat
  BY DEF Chained
<1>3. \A i \in 0..L : IsDocs(left[i])
  BY FiltersLeave
<1> HIDE DEF left, all
<1>6. all.kept = left[L] /\ all.dropped = dropped
  BY <1>1
<1>7. Len(dropped) = L /\ DOMAIN dropped = 1..L
  BY <1>2
<1>8. IsDocs(dropped[k]) /\ Ids(dropped[k]) = Ids(left[k - 1]) \ Ids(left[k])
  <2> DEFINE before == left[k - 1]
             P == Lost(k)
             r == Those(before, P)
  <2>1. k - 1 \in 0..L /\ dropped[k] = r
    BY <1>2
  <2>2. IsDocs(before) /\ IsSeq(before)
    BY <1>3, <2>1 DEF IsDocs
  <2>3. P = {n \in DOMAIN before : before[n].id \notin Ids(left[k])}
    OBVIOUS
  <2> HIDE DEF before, P, r
  <2>4. IsDocs(r)
    BY <2>2, ThoseDocs DEF r
  <2>5. ToSet(r) = {before[n] : n \in {i \in DOMAIN before : i \in P}}
    BY <2>2, ThoseAre DEF r
  <2>6. Ids(r) = {d.id : d \in ToSet(r)} /\ Ids(before) = {before[n].id : n \in DOMAIN before}
    BY DEF Ids, ToSet
  <2>7. Ids(r) = Ids(before) \ Ids(left[k])
    BY <2>3, <2>5, <2>6
  <2> QED
    BY <2>1, <2>4, <2>7 DEF before
<1> HIDE DEF dropped
<1> QED
  BY <1>6, <1>8 DEF all, left

\* A document of a corpus is left of the chain, or one filter has dropped it.
LEMMA DroppedOnce ==
  ASSUME NEW docs, IsDocs(docs), NEW names, Chained(names), NEW id \in Ids(docs),
         NEW D, DOMAIN D = 1..Len(names),
         \A k \in 1..Len(names) : id \in Ids(D[k]) <=> id \in Ids(ApplyFilters(docs, names).dropped[k])
  PROVE  Cardinality({k \in DOMAIN D : id \in Ids(D[k])})
           = IF id \in Ids(ApplyFilters(docs, names).kept) THEN 0 ELSE 1
<1> DEFINE all == ApplyFilters(docs, names)
           left == Filtered(docs, names)
           L == Len(names)
           M == [k \in 0..L |-> Ids(left[k])]
           S == {k \in DOMAIN D : id \in Ids(D[k])}
<1>1. L \in Nat /\ left[0] = docs
  BY FilteredIs DEF Chained
<1>2. /\ all.kept = left[L]
      /\ \A k \in 1..L : id \in Ids(all.dropped[k]) <=>
           id \in Ids(left[k - 1]) /\ id \notin Ids(left[k])
  <2>1. all.kept = left[L]
    BY AppliedIs
  <2>2. \A k \in 1..L : id \in Ids(all.dropped[k]) <=>
          id \in Ids(left[k - 1]) /\ id \notin Ids(left[k])
    BY DroppedIs
  <2> QED
    BY <2>1, <2>2
<1>3. \A k \in Nat : k + 1 <= L => Ids(left[k + 1]) \subseteq Ids(left[k])
  BY FiltersShrink
<1> HIDE DEF all, left
<1>4. \A k \in 0..L : M[k] = Ids(left[k])
  OBVIOUS
<1> HIDE DEF M
<1>5. \A k \in Nat : k + 1 <= L => M[k + 1] \subseteq M[k]
  <2> TAKE k \in Nat
  <2> HAVE k + 1 <= L
  <2>1. k \in 0..L /\ k + 1 \in 0..L
    BY <1>1
  <2>2. M[k] = Ids(left[k]) /\ M[k + 1] = Ids(left[k + 1])
    BY <1>4, <2>1
  <2> QED
    BY <1>3, <2>2
<1>6. id \in M[0] /\ M[L] = Ids(all.kept)
  <2>1. 0 \in 0..L /\ L \in 0..L
    BY <1>1
  <2> QED
    BY <1>1, <1>2, <1>4, <2>1
<1>7. \A k : k \in S <=> k \in 1..L /\ id \in M[k - 1] /\ id \notin M[k]
  <2>1. \A k \in 1..L : id \in Ids(D[k]) <=> id \in M[k - 1] /\ id \notin M[k]
    <3> TAKE k \in 1..L
    <3>1. k - 1 \in 0..L /\ k \in 0..L
      BY <1>1
    <3> QED
      BY <1>2, <1>4, <3>1 DEF all
  <2> QED
    BY <2>1
<1> HIDE DEF S, L
<1>8. Cardinality(S) = IF id \in M[L] THEN 0 ELSE 1
  BY <1>1, <1>5, <1>6, <1>7, LeavesOnce
<1> QED
  BY <1>6, <1>8 DEF S, all

-----------------------------------------------------------------------------
(* The chain behind a corpus.                                              *)

\* t is what s has at the positions P, the k-th at e[k].
Listed(t, s, P, e) ==
  /\ e \in [1..Len(t) -> DOMAIN s]
  /\ \A k \in 1..Len(t) : e[k] \in P /\ t[k] = s[e[k]]
  /\ \A k, l \in 1..Len(t) : k < l => e[k] < e[l]
  /\ \A n \in DOMAIN s : n \in P => \E k \in 1..Len(t) : n = e[k]

\* Those lists the positions it takes in their order.
LEMMA ThoseListed ==
  ASSUME NEW s, IsSeq(s), NEW P
  PROVE  \E e : Listed(Those(s, P), s, P, e)
BY ThosePlaces DEF Listed

\* Of no position nothing is taken.
LEMMA ThoseNone ==
  ASSUME NEW s, IsSeq(s), NEW P, \A n \in DOMAIN s : n \notin P
  PROVE  Those(s, P) = <<>>
<1> DEFINE r == Those(s, P)
<1>1. IsSeq(r) /\ ToSet(r) = {s[n] : n \in {i \in DOMAIN s : i \in P}}
  BY ThoseAre
<1>2. ToSet(r) = {}
  BY <1>1
<1> HIDE DEF r
<1>3. r \in Seq({})
  BY <1>1, <1>2 DEF IsSeq
<1>4. r = <<>>
  BY <1>3
<1> QED
  BY <1>4 DEF r

\* A list of numbers in their order, and one that has all of another.
Rising(e, m) == e \in [1..m -> Nat] /\ \A k, l \in 1..m : k < l => e[k] < e[l]
Reaches(f, n, e, m) == \A k \in 1..m : \E l \in 1..n : e[k] = f[l]

\* Two lists of the same positions in order are the same.
LEMMA SameOrder ==
  ASSUME NEW m \in Nat, NEW n \in Nat, NEW e, NEW f, Rising(e, m), Rising(f, n),
         Reaches(f, n, e, m), Reaches(e, m, f, n)
  PROVE  m = n /\ \A k \in 1..m : e[k] = f[k]
<1>1. /\ e \in [1..m -> Nat] /\ \A k, l \in 1..m : k < l => e[k] < e[l]
      /\ f \in [1..n -> Nat] /\ \A k, l \in 1..n : k < l => f[k] < f[l]
  BY DEF Rising
<1>2. /\ \A k \in 1..m : \E l \in 1..n : e[k] = f[l]
      /\ \A k \in 1..n : \E l \in 1..m : f[k] = e[l]
  BY DEF Reaches
<1>3. m <= n /\ \A k \in 1..m : e[k] = f[k]
  BY <1>1, <1>2, OneOrder
<1>4. n <= m
  BY <1>1, <1>2, OneOrder
<1> QED
  BY <1>3, <1>4

\* Of every position everything is taken.
LEMMA ThoseAll ==
  ASSUME NEW s, IsSeq(s), NEW P, \A n \in DOMAIN s : n \in P
  PROVE  Those(s, P) = s
<1> DEFINE r == Those(s, P)
<1>1. IsSeq(r)
  BY ThoseAre
<1>0. PICK e : Listed(r, s, P, e)
  BY ThoseListed
<1>2. /\ e \in [1..Len(r) -> DOMAIN s]
      /\ \A k \in 1..Len(r) : e[k] \in P /\ r[k] = s[e[k]]
      /\ \A k, l \in 1..Len(r) : k < l => e[k] < e[l]
      /\ \A n \in DOMAIN s : n \in P => \E k \in 1..Len(r) : n = e[k]
  <2> HIDE DEF r
  <2> QED
    BY <1>0 DEF Listed
<1> DEFINE m == Len(r)
           L == Len(s)
           f == [k \in 1..L |-> k]
<1>3. m \in Nat /\ L \in Nat /\ DOMAIN s = 1..L
  BY <1>1 DEF IsSeq
<1>4. \A k, l \in 1..m : k < l => e[k] < e[l]
  BY <1>2
<1> HIDE DEF r, m, L
<1>5. e \in [1..m -> Nat] /\ \A k \in 1..m : e[k] \in 1..L
  BY <1>2, <1>3 DEF m
<1>6. f \in [1..L -> Nat] /\ \A k \in 1..L : f[k] = k
  BY <1>3
<1>7. \A k, l \in 1..L : k < l => f[k] < f[l]
  BY <1>6
<1>8. \A k \in 1..m : \E l \in 1..L : e[k] = f[l]
  BY <1>5, <1>6
<1>9. \A k \in 1..L : \E l \in 1..m : f[k] = e[l]
  BY <1>2, <1>3, <1>6 DEF m
<1> HIDE DEF f
<1>10. Rising(e, m) /\ Rising(f, L)
  BY <1>4, <1>5, <1>6, <1>7 DEF Rising
<1>11. Reaches(f, L, e, m) /\ Reaches(e, m, f, L)
  BY <1>8, <1>9 DEF Reaches
<1>12. m = L /\ \A k \in 1..m : e[k] = f[k]
  BY <1>3, <1>10, <1>11, SameOrder
<1>13. \A k \in 1..m : r[k] = s[k]
  BY <1>2, <1>6, <1>12 DEF m
<1>14. r = s
  <2>1. Len(r) = Len(s) /\ \A k \in 1..Len(r) : r[k] = s[k]
    BY <1>12, <1>13 DEF m, L
  <2> QED
    BY <1>1, <2>1, SameSequence
<1> QED
  BY <1>14 DEF r

\* The ids of documents, one by one.
LEMMA IdsAre ==
  ASSUME NEW s, IsSeq(s)
  PROVE  \A id : id \in Ids(s) <=> \E d \in ToSet(s) : d.id = id
BY DEF Ids, ToSet

\* The ids of joined documents are those of either.
LEMMA IdsJoin ==
  ASSUME NEW s, IsSeq(s), NEW t, IsSeq(t)
  PROVE  \A id : id \in Ids(s \o t) <=> id \in Ids(s) \/ id \in Ids(t)
<1> DEFINE r == s \o t
<1>1. IsSeq(r) /\ ToSet(r) = ToSet(s) \cup ToSet(t)
  BY Joins
<1> HIDE DEF r
<1>2. \A id : id \in Ids(r) <=> \E d \in ToSet(r) : d.id = id
  BY <1>1, IdsAre
<1>3. /\ \A id : id \in Ids(s) <=> \E d \in ToSet(s) : d.id = id
      /\ \A id : id \in Ids(t) <=> \E d \in ToSet(t) : d.id = id
  BY IdsAre
<1>4. \A id : id \in Ids(r) <=> id \in Ids(s) \/ id \in Ids(t)
  BY <1>1, <1>2, <1>3
<1> QED
  BY <1>4 DEF r

\* The documents with an id of the batch b.
OwnOf(docs, b) == Those(docs, {n \in DOMAIN docs : docs[n].id \in Ids(b)})

\* A batch's own documents are those with an id of the batch.
LEMMA OwnIs ==
  ASSUME NEW docs, IsDocs(docs), NEW b
  PROVE  /\ IsDocs(OwnOf(docs, b))
         /\ \A id : id \in Ids(OwnOf(docs, b)) <=> id \in Ids(docs) /\ id \in Ids(b)
<1> DEFINE P == {n \in DOMAIN docs : docs[n].id \in Ids(b)}
           r == Those(docs, P)
<1>1. IsSeq(docs)
  BY DEF IsDocs
<1>2. OwnOf(docs, b) = r
  BY DEF OwnOf
<1>3. \A n \in DOMAIN docs : n \in P <=> docs[n].id \in Ids(b)
  OBVIOUS
<1> HIDE DEF P
<1>4. IsDocs(r)
  BY ThoseDocs
<1>5. ToSet(r) = {docs[n] : n \in {i \in DOMAIN docs : i \in P}}
  BY <1>1, ThoseAre
<1> HIDE DEF r
<1>6. \A d : d \in ToSet(r) <=> \E n \in DOMAIN docs : docs[n].id \in Ids(b) /\ docs[n] = d
  BY <1>3, <1>5
<1>7. \A id : id \in Ids(r) <=> \E d \in ToSet(r) : d.id = id
  BY <1>4, IdsAre DEF IsDocs
<1>8. \A id : id \in Ids(docs) <=> \E n \in DOMAIN docs : docs[n].id = id
  BY DEF Ids
<1>9. \A id : id \in Ids(r) <=> id \in Ids(docs) /\ id \in Ids(b)
  BY <1>6, <1>7, <1>8
<1> QED
  BY <1>2, <1>4, <1>9

\* Behind documents of other ids those of the batch are found again.
LEMMA OwnBehind ==
  ASSUME NEW x, IsDocs(x), NEW r, IsDocs(r), NEW b,
         \A id \in Ids(x) : id \notin Ids(b), \A id \in Ids(r) : id \in Ids(b)
  PROVE  OwnOf(x \o r, b) = r
<1> DEFINE z == x \o r
           P == {n \in DOMAIN z : z[n].id \in Ids(b)}
           Q == Behind(x, r, P)
<1>1. IsSeq(x) /\ IsSeq(r)
  BY DEF IsDocs
<1>2. /\ Len(x) \in Nat /\ Len(r) \in Nat /\ DOMAIN x = 1..Len(x) /\ DOMAIN r = 1..Len(r)
      /\ DOMAIN z = 1..Len(x) + Len(r)
      /\ \A n \in 1..Len(x) : z[n] = x[n]
      /\ \A n \in 1..Len(r) : z[Len(x) + n] = r[n]
  BY <1>1, Joins
<1>3. OwnOf(z, b) = Those(z, P)
  BY DEF OwnOf
<1>4. Those(z, P) = Those(x, P) \o Those(r, Q)
  <2> HIDE DEF P
  <2> QED
    BY <1>1, ThoseSplit
<1> HIDE DEF z
<1>5. \A n \in DOMAIN x : n \notin P
  BY <1>2 DEF Ids
<1>6. \A n \in DOMAIN r : n \in Q
  <2> TAKE n \in DOMAIN r
  <2>1. n \in 1..Len(r) /\ Len(x) + n \in DOMAIN z
    BY <1>2
  <2>2. r[n].id \in Ids(b)
    BY DEF Ids
  <2> QED
    BY <1>2, <2>1, <2>2 DEF Behind
<1> HIDE DEF P, Q
<1>7. Those(x, P) = <<>> /\ Those(r, Q) = r
  BY <1>1, <1>5, <1>6, ThoseNone, ThoseAll
<1>8. <<>> \o r = r
  BY <1>1 DEF IsSeq
<1> QED
  BY <1>3, <1>4, <1>7, <1>8 DEF z

\* The corpus is filtered as without the batch: the batch only adds its own
\* half, and only it loses documents to the filters besides.
THEOREM AppliedAfter ==
  ASSUME NEW a, IsDocs(a), NEW b, IsDocs(b), NEW names, Chained(names),
         \A id \in Ids(a) : id \notin Ids(b)
  PROVE  /\ \E r : /\ ApplyFiltersAfter(a, b, names).kept = r
                   /\ ApplyFilters(a \o b, names).kept = ApplyFilters(a, names).kept \o r
                   /\ IsDocs(r) /\ \E e : Drawn(r, b, e)
         /\ \A k \in 1..Len(names) :
              \A id : id \in Ids(ApplyFilters(a, names).dropped[k] \o ApplyFiltersAfter(a, b, names).dropped[k])
                        <=> id \in Ids(ApplyFilters(a \o b, names).dropped[k])
<1> DEFINE ab == a \o b
           all == ApplyFilters(ab, names)
           one == ApplyFilters(a, names)
           after == ApplyFiltersAfter(a, b, names)
           L == Len(names)
<1>1. /\ after.kept = OwnOf(all.kept, b)
      /\ after.dropped = [n \in DOMAIN all.dropped |-> OwnOf(all.dropped[n], b)]
  BY DEF ApplyFiltersAfter, OwnOf
<1>2. IsDocs(ab)
  BY DocsJoin
<1>3. \A n \in 0..L : Divided(Filtered(ab, names)[n], Filtered(a, names)[n], b)
  BY FiltersSplit
<1>4. /\ L \in Nat
      /\ \A n \in 0..L : IsDocs(Filtered(a, names)[n])
      /\ \A n \in 0..L : \E e : Drawn(Filtered(a, names)[n], a, e)
  BY FiltersLeave DEF Chained
<1>5. \A n \in 0..L : \A id \in Ids(Filtered(a, names)[n]) : id \notin Ids(b)
  <2> TAKE n \in 0..L
  <2> DEFINE x == Filtered(a, names)[n]
  <2>1. PICK e : Drawn(x, a, e)
    BY <1>4
  <2> HIDE DEF x
  <2>2. Ids(x) \subseteq Ids(a)
    BY <2>1, DrawnIds
  <2>3. \A id \in Ids(x) : id \notin Ids(b)
    BY <2>2
  <2> QED
    BY <2>3 DEF x
<1>6. \E r : /\ after.kept = r /\ all.kept = one.kept \o r
             /\ IsDocs(r) /\ \E e : Drawn(r, b, e)
  <2> DEFINE x == Filtered(a, names)[L]
  <2>1. L \in 0..L
    BY <1>4
  <2>2. PICK r : /\ Filtered(ab, names)[L] = x \o r
                 /\ IsDocs(r) /\ \E e : Drawn(r, b, e)
    BY <1>3, <2>1 DEF Divided
  <2>3. all.kept = Filtered(ab, names)[L] /\ one.kept = x
    <3> HIDE DEF ab
    <3> QED
      BY <1>2, AppliedIs
  <2>4. IsDocs(x) /\ \A id \in Ids(x) : id \notin Ids(b)
    BY <1>4, <1>5, <2>1
  <2> HIDE DEF x, all, one, after, ab, L
  <2>5. \A id \in Ids(r) : id \in Ids(b)
    BY <2>2, DrawnIds
  <2>6. OwnOf(x \o r, b) = r
    BY <2>2, <2>4, <2>5, OwnBehind
  <2>7. after.kept = r /\ all.kept = one.kept \o r
    BY <1>1, <2>2, <2>3, <2>6
  <2> QED
    BY <2>2, <2>7
<1>7. ASSUME NEW k \in 1..L, NEW id
      PROVE  id \in Ids(one.dropped[k] \o after.dropped[k]) <=> id \in Ids(all.dropped[k])
  <2> DEFINE x == Filtered(a, names)[k - 1]
             y == Filtered(a, names)[k]
             p == one.dropped[k]
             q == all.dropped[k]
  <2>1. k - 1 \in 0..L /\ k \in 0..L
    BY <1>4
  <2>2. PICK r : Filtered(ab, names)[k - 1] = x \o r /\ IsDocs(r) /\ \E e : Drawn(r, b, e)
    BY <1>3, <2>1 DEF Divided
  <2>3. PICK s : Filtered(ab, names)[k] = y \o s /\ IsDocs(s) /\ \E e : Drawn(s, b, e)
    BY <1>3, <2>1 DEF Divided
  <2>4. IsDocs(x) /\ IsDocs(y) /\ \A i : i \in Ids(x) \/ i \in Ids(y) => i \notin Ids(b)
    BY <1>4, <1>5, <2>1
  <2>5. IsDocs(p) /\ (id \in Ids(p) <=> id \in Ids(x) /\ id \notin Ids(y))
    BY DroppedIs
  <2>6. IsDocs(q) /\ (id \in Ids(q) <=> id \in Ids(Filtered(ab, names)[k - 1]) /\ id \notin Ids(Filtered(ab, names)[k]))
    <3> HIDE DEF ab
    <3> QED
      BY <1>2, DroppedIs
  <2>7. after.dropped[k] = OwnOf(q, b)
    <3>1. DOMAIN all.dropped = 1..L
      <4> HIDE DEF ab
      <4> QED
        BY <1>2, AppliedIs
    <3> HIDE DEF all, after
    <3> QED
      BY <1>1, <3>1
  <2> HIDE DEF x, y, p, q, all, one, after, ab, L
  <2>8. id \in Ids(Filtered(ab, names)[k - 1]) <=> id \in Ids(x) \/ id \in Ids(r)
    BY <2>2, <2>4, IdsJoin DEF IsDocs
  <2>9. id \in Ids(Filtered(ab, names)[k]) <=> id \in Ids(y) \/ id \in Ids(s)
    BY <2>3, <2>4, IdsJoin DEF IsDocs
  <2>10. (id \in Ids(r) => id \in Ids(b)) /\ (id \in Ids(s) => id \in Ids(b))
    BY <2>2, <2>3, DrawnIds
  <2> DEFINE own == OwnOf(q, b)
  <2>11. IsDocs(own) /\ (id \in Ids(own) <=> id \in Ids(q) /\ id \in Ids(b))
    BY <2>6, OwnIs
  <2> HIDE DEF own
  <2>12. id \in Ids(p \o own) <=> id \in Ids(p) \/ id \in Ids(own)
    BY <2>5, <2>11, IdsJoin DEF IsDocs
  <2>13. id \in Ids(p \o own) <=> id \in Ids(q)
    BY <2>4, <2>5, <2>6, <2>8, <2>9, <2>10, <2>11, <2>12
  <2> QED
    BY <2>7, <2>13 DEF p, q, own
<1> QED
  BY <1>6, <1>7

-----------------------------------------------------------------------------
(* What an answer says.                                                    *)

\* What a quoting answer may take from a document.
Quotable(w) == w.is \in {"quantity", "token", "secret"}

\* Somebody in this context says so.
Quoted(context, what) ==
  \E n \in DOMAIN context : \E w \in ToSet(context[n].text) : Quotable(w) /\ w.what = what

\* The quantities of a chunk stand in its text.
LEMMA QuantitiesAre ==
  ASSUME NEW chunk, NEW q \in Quantities(chunk)
  PROVE  \E x \in ToSet(chunk.text) : x.is = "quantity" /\ q.value = x.what
<1> DEFINE W == {x \in ToSet(chunk.text) : x.is = "quantity" /\ x.form \in DOMAIN Units}
<1>1. Quantities(chunk) = {[value |-> w.what, unit |-> Units[w.form]] : w \in W}
  BY DEF Quantities
<1>2. PICK w \in W : q = [value |-> w.what, unit |-> Units[w.form]]
  BY <1>1
<1> QED
  BY <1>2

\* A message that names a conflict names values the context states.
LEMMA SaidIs ==
  ASSUME NEW s
  PROVE  \A w \in Resolve(s).said : Quoted(s, w.what)
<1> DEFINE of(unit) == {c \in Claims(s) : c.unit = unit}
           Winners(unit) == {v \in {c.value : c \in of(unit)} : Decided(of(unit), v)}
           rejected == {c.chunk : c \in {x \in Claims(s) :
                          x.unit \in Conflicts(s) /\ x.value \notin Winners(x.unit)}}
           left == Those(s, (DOMAIN s) \ rejected)
           clear == \A unit \in Conflicts(s) : Winners(unit) # {}
           said == {Word("quantity", c.value, "") : c \in UNION {of(unit) : unit \in Conflicts(s)}}
<1>1. Resolve(s) = IF clear THEN [abstain |-> FALSE, said |-> {}, context |-> left]
                   ELSE [abstain |-> TRUE, context |-> s, said |-> said]
  BY Zenon DEF Resolve
<1>2. ASSUME NEW w \in said PROVE Quoted(s, w.what)
  <2>1. PICK c \in Claims(s) : w = Word("quantity", c.value, "")
    OBVIOUS
  <2>2. w.what = c.value
    BY <2>1 DEF Word
  <2>3. /\ c.chunk \in DOMAIN s
        /\ \E q \in Quantities(s[c.chunk]) : q.unit = c.unit /\ q.value = c.value
    BY ClaimsAre
  <2>4. PICK q \in Quantities(s[c.chunk]) : q.value = c.value
    BY <2>3
  <2>5. PICK x \in ToSet(s[c.chunk].text) : x.is = "quantity" /\ q.value = x.what
    BY <2>4, QuantitiesAre
  <2> QED
    BY <2>2, <2>3, <2>4, <2>5 DEF Quoted, Quotable
<1> HIDE DEF left, clear, said
<1> QED
  BY <1>1, <1>2

\* Under whatever defenses, the context that is left is one of chunks that were
\* retrieved, and an answer says only what it quotes from them.
THEOREM AnswersQuote ==
  ASSUME NEW s, IsSeq(s), NEW ds
  PROVE  /\ IsSeq(Defended(s, ds).context) /\ ToSet(Defended(s, ds).context) \subseteq ToSet(s)
         /\ \A w \in Defended(s, ds).said : Quoted(Defended(s, ds).context, w.what)
<1> DEFINE D == Defended(s, ds)
           screened == IF "injection_filter" \in ds THEN FilterInjected(s) ELSE s
           decision == Resolve(screened)
           trusted == FilterUntrusted(decision.context)
<1>1. D = IF "answer_integrity" \notin ds
          THEN [abstain |-> FALSE, said |-> {}, context |-> screened]
          ELSE IF decision.abstain THEN decision
          ELSE [abstain |-> trusted = <<>>, said |-> {}, context |-> trusted]
  BY Zenon DEF Defended
<1>2. IsSeq(screened) /\ ToSet(screened) \subseteq ToSet(s)
  <2> DEFINE P == {n \in DOMAIN s : ~LooksLikeInjection(s[n])}
  <2>1. FilterInjected(s) = Those(s, P)
    BY DEF FilterInjected
  <2> HIDE DEF P
  <2>2. IsSeq(Those(s, P)) /\ ToSet(Those(s, P)) \subseteq ToSet(s)
    BY ThoseAre DEF ToSet
  <2> QED
    BY <2>1, <2>2
<1> HIDE DEF screened
<1>3. /\ IsSeq(decision.context) /\ ToSet(decision.context) \subseteq ToSet(screened)
      /\ decision.abstain => decision.context = screened
      /\ \A w \in decision.said : Quoted(screened, w.what)
  BY <1>2, ResolveIs, SaidIs
<1> HIDE DEF decision
<1>4. IsSeq(trusted) /\ ToSet(trusted) \subseteq ToSet(decision.context)
  <2> DEFINE t == decision.context
             P == {n \in DOMAIN t : Trusted(t[n])}
  <2>1. FilterUntrusted(t) = Those(t, P)
    BY DEF FilterUntrusted
  <2> HIDE DEF P, t
  <2>2. IsSeq(t)
    BY <1>3 DEF t
  <2>3. IsSeq(Those(t, P)) /\ ToSet(Those(t, P)) \subseteq ToSet(t)
    BY <2>2, ThoseAre DEF ToSet
  <2> QED
    BY <2>1, <2>3 DEF t
<1> HIDE DEF trusted, D
<1>5. CASE "answer_integrity" \notin ds
  <2>1. D.context = screened /\ D.said = {}
    BY <1>1, <1>5
  <2> QED
    BY <1>2, <2>1 DEF D
<1>6. CASE "answer_integrity" \in ds /\ decision.abstain
  <2>1. D = decision
    BY <1>1, <1>6
  <2> QED
    BY <1>2, <1>3, <1>6, <2>1 DEF D
<1>7. CASE "answer_integrity" \in ds /\ ~decision.abstain
  <2>1. D.context = trusted /\ D.said = {}
    BY <1>1, <1>7
  <2> QED
    BY <1>2, <1>3, <1>4, <2>1 DEF D
<1> QED
  BY <1>5, <1>6, <1>7

\* What a generator replies it quotes.
LEMMA RepliesQuote ==
  ASSUME NEW s, NEW text \in Replies(s)
  PROVE  \A w \in text : Quoted(s, w.what)
<1> TAKE w \in text
<1>1. w \in UNION {ToSet(s[n].text) : n \in DOMAIN s} /\ Quotable(w)
  BY DEF Replies, Notable, Quotable
<1>2. PICK n \in DOMAIN s : w \in ToSet(s[n].text)
  BY <1>1
<1> QED
  BY <1>1, <1>2 DEF Quoted

\* What a sequence has is a finite set.
LEMMA FiniteSequence ==
  ASSUME NEW s, IsSeq(s)
  PROVE  IsFiniteSet(ToSet(s))
<1>1. Len(s) \in Nat /\ DOMAIN s = 1..Len(s)
  BY DEF IsSeq
<1>2. IsFiniteSet(1..Len(s))
  BY <1>1, FS_Interval
<1>3. s \in Surjection(1..Len(s), ToSet(s))
  BY <1>1 DEF Surjection, ToSet, IsSeq
<1> QED
  BY <1>2, <1>3, FS_Surjection

\* A corpus has finitely many chunks.
LEMMA FiniteChunks ==
  ASSUME NEW docs, IsDocs(docs), NEW chunker, NEW channel
  PROVE  IsFiniteSet(Chunks(docs, chunker, channel))
<1> DEFINE Cut(n) == ToSet(Spans(docs[n].text, chunker))
           Part(n, s) == [doc |-> docs[n].id, source |-> docs[n].source, span |-> s,
                          text |-> SubSeq(docs[n].text, s[1], s[2]), provenance |-> Provenance(channel)]
           Parts(n) == {Part(n, s) : s \in Cut(n)}
           all == {Parts(n) : n \in DOMAIN docs}
<1>1. Chunks(docs, chunker, channel) = UNION all
  BY DEF Chunks
<1>2. ASSUME NEW n \in DOMAIN docs PROVE IsFiniteSet(Parts(n))
  <2>1. IsText(docs[n].text)
    BY DEF IsDocs, IsDocument
  <2>2. IsFiniteSet(Cut(n))
    BY <2>1, SpansCut, FiniteSequence
  <2> DEFINE f == [s \in Cut(n) |-> Part(n, s)]
  <2> HIDE DEF Cut, Part
  <2>3. f \in Surjection(Cut(n), Parts(n))
    BY DEF Surjection
  <2> QED
    BY <2>2, <2>3, FS_Surjection
<1>3. IsFiniteSet(all)
  <2>1. DOMAIN docs = 1..Len(docs) /\ Len(docs) \in Nat
    BY DEF IsDocs, IsSeq
  <2>2. IsFiniteSet(DOMAIN docs)
    BY <2>1, FS_Interval
  <2> DEFINE f == [n \in DOMAIN docs |-> Parts(n)]
  <2> HIDE DEF Parts
  <2>3. f \in Surjection(DOMAIN docs, all)
    BY DEF Surjection
  <2> QED
    BY <2>2, <2>3, FS_Surjection
<1> HIDE DEF Parts
<1>4. IsFiniteSet(UNION all)
  BY <1>2, <1>3, FS_UNION
<1> QED
  BY <1>1, <1>4

\* What is retrieved from a finite index is a sequence of its chunks, each once.
LEMMA ContextsAre ==
  ASSUME NEW chunks, IsFiniteSet(chunks), NEW s \in Contexts(chunks)
  PROVE  /\ IsSeq(s) /\ ToSet(s) \subseteq chunks
         /\ \A m, n \in DOMAIN s : s[m] = s[n] => m = n
<1> DEFINE S == {K, TopN, Cardinality(chunks)}
           m == Min(S)
<1>1. S \in SUBSET Nat /\ S # {}
  BY AnsweringAssumption, FS_CardinalityType
<1>2. m \in Nat
  BY <1>1, LeastIs
<1> HIDE DEF S
<1>3. s \in [1..m -> chunks] /\ \A a, b \in 1..m : s[a] = s[b] => a = b
  BY DEF Contexts, Arrangements, S
<1> HIDE DEF m
<1>4. s \in Seq(chunks) /\ DOMAIN s = 1..m
  BY <1>2, <1>3, SeqDef
<1>5. IsSeq(s)
  BY <1>4, SequenceIs
<1> QED
  BY <1>3, <1>4, <1>5 DEF ToSet

\* A chunk is a part of the text of its document.
LEMMA ChunkIs ==
  ASSUME NEW docs, IsDocs(docs), NEW chunker, NEW channel, NEW c \in Chunks(docs, chunker, channel)
  PROVE  \E n \in DOMAIN docs : \E s \in ToSet(Spans(docs[n].text, chunker)) :
           /\ c.doc = docs[n].id /\ c.span = s /\ c.text = SubSeq(docs[n].text, s[1], s[2])
           /\ \A w \in ToSet(c.text) : w \in ToSet(docs[n].text)
<1> DEFINE Part(n, s) == [doc |-> docs[n].id, source |-> docs[n].source, span |-> s,
                          text |-> SubSeq(docs[n].text, s[1], s[2]), provenance |-> Provenance(channel)]
           Parts(n) == {Part(n, s) : s \in ToSet(Spans(docs[n].text, chunker))}
<1>1. Chunks(docs, chunker, channel) = UNION {Parts(n) : n \in DOMAIN docs}
  BY DEF Chunks
<1> HIDE DEF Parts
<1>2. PICK n \in DOMAIN docs : c \in Parts(n)
  BY <1>1
<1> USE DEF Parts
<1> HIDE DEF Part
<1>3. PICK s \in ToSet(Spans(docs[n].text, chunker)) : c = Part(n, s)
  BY <1>2
<1> HIDE DEF Parts
<1>4. c.doc = docs[n].id /\ c.span = s /\ c.text = SubSeq(docs[n].text, s[1], s[2])
  BY <1>3 DEF Part
<1> DEFINE t == docs[n].text
<1> HIDE DEF t
<1>5. IsText(t) /\ s \in ToSet(Spans(t, chunker)) /\ c.text = SubSeq(t, s[1], s[2])
  BY <1>3, <1>4 DEF IsDocs, IsDocument, t
<1>6. Cuts(t, ToSet(Spans(t, chunker)), 1, Len(t))
  BY <1>5, SpansCut
<1>7. s[1] \in 1..Len(t) /\ s[2] \in s[1]..Len(t) /\ Len(t) \in Nat
  BY <1>5, <1>6, WordIs DEF Cuts
<1>8. \A w \in ToSet(c.text) : w \in ToSet(t)
  <2> DEFINE a == s[1]
             b == s[2]
             part == SubSeq(t, a, b)
  <2>1. a \in 1..Len(t) /\ b \in a..Len(t) /\ Len(t) \in Nat
    BY <1>7
  <2> HIDE DEF a, b
  <2>2. /\ IsText(part) /\ Len(part) = b - a + 1
        /\ \A k \in 1..Len(part) : part[k] = t[a + k - 1]
    BY <1>5, <2>1, PartIs
  <2> HIDE DEF part
  <2>3. DOMAIN part = 1..Len(part) /\ DOMAIN t = 1..Len(t)
    BY <1>5, <2>2, WordIs
  <2>4. \A k \in 1..Len(part) : a + k - 1 \in 1..Len(t)
    BY <2>1, <2>2
  <2>5. \A w \in ToSet(part) : w \in ToSet(t)
    BY <2>2, <2>3, <2>4 DEF ToSet
  <2> QED
    BY <1>5, <2>5 DEF part, a, b
<1>9. \A w \in ToSet(c.text) : w \in ToSet(docs[n].text)
  BY <1>8 DEF t
<1> QED
  BY <1>3, <1>4, <1>9

\* No reply quotes what stands for a redacted secret.
LEMMA NothingRedacted == ~Quotable(Redaction)
<1> DEFINE r == Redaction
<1>1. r = [is |-> "redacted", what |-> "[REDACTED]", form |-> ""]
  BY DEF Redaction, Word
<1>2. r.is = "redacted"
  BY <1>1
<1> HIDE DEF r
<1>3. ~Quotable(r)
  BY <1>2 DEF Quotable
<1> QED
  BY <1>3 DEF r

-----------------------------------------------------------------------------
(* Chunks and the documents they are cut from.                             *)

\* A chunk is a span of a document.
Cut(docs, n, s, channel) ==
  [doc |-> docs[n].id, source |-> docs[n].source, span |-> s,
   text |-> SubSeq(docs[n].text, s[1], s[2]), provenance |-> Provenance(channel)]

\* Chunks are the spans of the documents.
LEMMA ChunksAre ==
  ASSUME NEW docs, NEW chunker, NEW channel, NEW c
  PROVE  c \in Chunks(docs, chunker, channel) <=>
           \E n \in DOMAIN docs : \E s \in ToSet(Spans(docs[n].text, chunker)) : c = Cut(docs, n, s, channel)
<1> DEFINE Parts(n) == {Cut(docs, n, s, channel) : s \in ToSet(Spans(docs[n].text, chunker))}
<1>1. Chunks(docs, chunker, channel) = UNION {Parts(n) : n \in DOMAIN docs}
  BY Zenon DEF Chunks, Cut
<1>2. c \in Chunks(docs, chunker, channel) <=> \E n \in DOMAIN docs : c \in Parts(n)
  <2> HIDE DEF Parts
  <2> QED
    BY <1>1
<1> QED
  BY <1>2

\* What a span of a document is as a chunk.
IsCut(c, d, s) ==
  /\ c.doc = d.id /\ c.span = s
  /\ s[1] \in 1..Len(d.text) /\ s[2] \in s[1]..Len(d.text)
  /\ Len(c.text) = s[2] - s[1] + 1
  /\ End(c.text, Len(c.text)) = End(d.text, s[2]) - Start(d.text)[s[1]]
  /\ \A p \in s[1]..s[2] :
       Start(c.text)[p - s[1] + 1] = Start(d.text)[p] - Start(d.text)[s[1]]

\* Where a span of a document begins and ends as a text of its own.
LEMMA CutIs ==
  ASSUME NEW docs, IsDocs(docs), NEW n \in DOMAIN docs, NEW channel, NEW chunker,
         NEW s \in ToSet(Spans(docs[n].text, chunker))
  PROVE  IsCut(Cut(docs, n, s, channel), docs[n], s)
<1> DEFINE c == Cut(docs, n, s, channel)
<1> DEFINE t == docs[n].text
           a == s[1]
           b == s[2]
           part == SubSeq(t, a, b)
<1>1. c.doc = docs[n].id /\ c.span = s /\ c.text = part
  BY DEF Cut
<1> HIDE DEF c
<1>2. IsText(t) /\ s \in ToSet(Spans(t, chunker))
  BY DEF IsDocs, IsDocument
<1> HIDE DEF t
<1>3. Cuts(t, ToSet(Spans(t, chunker)), 1, Len(t)) /\ Len(t) \in Nat
  BY <1>2, SpansCut, WordIs
<1>4. a \in 1..Len(t) /\ b \in a..Len(t)
  BY <1>2, <1>3 DEF Cuts
<1> HIDE DEF a, b
<1>5. /\ Len(part) = b - a + 1
      /\ \A k \in 1..Len(part) + 1 : Start(part)[k] = Start(t)[a + k - 1] - Start(t)[a]
      /\ \A k \in 1..Len(part) : End(part, k) = End(t, a + k - 1) - Start(t)[a]
  BY <1>2, <1>4, PartIs
<1> HIDE DEF part
<1>6. End(part, Len(part)) = End(t, b) - Start(t)[a]
  <2>1. Len(part) \in 1..Len(part) /\ a + Len(part) - 1 = b
    BY <1>3, <1>4, <1>5
  <2> QED
    BY <1>5, <2>1
<1>7. \A p \in a..b : Start(part)[p - a + 1] = Start(t)[p] - Start(t)[a]
  <2> TAKE p \in a..b
  <2>1. p - a + 1 \in 1..Len(part) + 1 /\ a + (p - a + 1) - 1 = p
    BY <1>3, <1>4, <1>5
  <2> QED
    BY <1>5, <2>1
<1> QED
  BY <1>1, <1>4, <1>5, <1>6, <1>7 DEF t, a, b, c, IsCut

\* What chunks say of the documents they are cut from.
Covering(chunks, docs) ==
  /\ \A n \in DOMAIN docs :
       UNION {c.span[1]..c.span[2] : c \in {x \in chunks : x.doc = docs[n].id}} = DOMAIN docs[n].text
  /\ \A c \in chunks : End(c.text, Len(c.text)) <= Size \/ Len(c.text) = 1
  /\ \A c, e \in chunks : c.doc = e.doc /\ c # e => c.span[1] # e.span[1]
  /\ \A c, e \in chunks :
       c.doc = e.doc /\ c.span[1] < e.span[1] /\ e.span[1] <= c.span[2] =>
         End(c.text, Len(c.text)) - Start(c.text)[e.span[1] - c.span[1] + 1] <= Overlap

\* The chunks of documents that have ids of their own cover each of them.
LEMMA ChunksCovering ==
  ASSUME NEW docs, IsDocs(docs), \A m, n \in DOMAIN docs : docs[m].id = docs[n].id => m = n,
         NEW chunker, NEW channel, NEW chunks, chunks = Chunks(docs, chunker, channel)
  PROVE  Covering(chunks, docs)
<1> DEFINE P(n) == ToSet(Spans(docs[n].text, chunker))
           L(n) == Len(docs[n].text)
<1>1. \A c \in chunks : \E n \in DOMAIN docs : \E s \in P(n) : c = Cut(docs, n, s, channel)
  BY ChunksAre
<1>2. \A n \in DOMAIN docs : \A s \in P(n) : Cut(docs, n, s, channel) \in chunks
  BY ChunksAre
<1>3. \A n \in DOMAIN docs : /\ IsText(docs[n].text) /\ L(n) \in Nat /\ DOMAIN docs[n].text = 1..L(n)
                             /\ Cuts(docs[n].text, P(n), 1, L(n))
  <2> TAKE n \in DOMAIN docs
  <2> DEFINE t == docs[n].text
  <2>1. IsText(t)
    BY DEF IsDocs, IsDocument
  <2> HIDE DEF t
  <2>2. Len(t) \in Nat /\ DOMAIN t = 1..Len(t) /\ Cuts(t, ToSet(Spans(t, chunker)), 1, Len(t))
    BY <2>1, SpansCut, WordIs
  <2> QED
    BY <2>1, <2>2 DEF t
<1>4. \A n \in DOMAIN docs : \A s \in P(n) : IsCut(Cut(docs, n, s, channel), docs[n], s)
  BY CutIs
<1> HIDE DEF P
<1>5. ASSUME NEW n \in DOMAIN docs
      PROVE  UNION {c.span[1]..c.span[2] : c \in {x \in chunks : x.doc = docs[n].id}} = DOMAIN docs[n].text
  <2>1. ASSUME NEW p \in 1..L(n)
        PROVE  \E c \in chunks : c.doc = docs[n].id /\ p \in c.span[1]..c.span[2]
    <3>1. PICK s \in P(n) : p \in s[1]..s[2]
      BY <1>3, <2>1 DEF Cuts
    <3> DEFINE c == Cut(docs, n, s, channel)
    <3>2. c \in chunks /\ c.doc = docs[n].id /\ c.span = s
      BY <1>2, <1>4 DEF IsCut
    <3> HIDE DEF c
    <3> QED
      BY <3>1, <3>2
  <2>2. ASSUME NEW c \in chunks, c.doc = docs[n].id, NEW p \in c.span[1]..c.span[2]
        PROVE  p \in 1..L(n)
    <3>1. PICK m \in DOMAIN docs : \E s \in P(m) : c = Cut(docs, m, s, channel)
      BY <1>1
    <3>2. PICK s \in P(m) : c = Cut(docs, m, s, channel)
      BY <3>1
    <3>3. c.doc = docs[m].id /\ c.span = s /\ s[1] \in 1..L(m) /\ s[2] \in s[1]..L(m)
      BY <1>4, <3>2 DEF IsCut
    <3>4. m = n
      BY <2>2, <3>3
    <3> QED
      BY <1>3, <3>3, <3>4
  <2> QED
    BY <1>3, <2>1, <2>2
<1>6. ASSUME NEW c \in chunks
      PROVE  End(c.text, Len(c.text)) <= Size \/ Len(c.text) = 1
  <2>1. PICK n \in DOMAIN docs : \E s \in P(n) : c = Cut(docs, n, s, channel)
    BY <1>1
  <2>2. PICK s \in P(n) : c = Cut(docs, n, s, channel)
    BY <2>1
  <2>3. s[1] = s[2] \/ End(docs[n].text, s[2]) - Start(docs[n].text)[s[1]] <= Size
    BY <1>3 DEF Cuts
  <2>4. /\ End(c.text, Len(c.text)) = End(docs[n].text, s[2]) - Start(docs[n].text)[s[1]]
        /\ Len(c.text) = s[2] - s[1] + 1 /\ s[1] \in 1..L(n) /\ s[2] \in s[1]..L(n)
    BY <1>4, <2>2 DEF IsCut
  <2>5. s[1] = s[2] => Len(c.text) = 1
    BY <2>4, <1>3
  <2> QED
    BY <2>3, <2>4, <2>5
<1>7. ASSUME NEW c \in chunks, NEW e \in chunks, c.doc = e.doc
      PROVE  /\ c # e => c.span[1] # e.span[1]
             /\ c.span[1] < e.span[1] /\ e.span[1] <= c.span[2] =>
                  End(c.text, Len(c.text)) - Start(c.text)[e.span[1] - c.span[1] + 1] <= Overlap
  <2>1. PICK n \in DOMAIN docs : \E s \in P(n) : c = Cut(docs, n, s, channel)
    BY <1>1
  <2>2. PICK s \in P(n) : c = Cut(docs, n, s, channel)
    BY <2>1
  <2>3. PICK m \in DOMAIN docs : \E r \in P(m) : e = Cut(docs, m, r, channel)
    BY <1>1
  <2>4. PICK r \in P(m) : e = Cut(docs, m, r, channel)
    BY <2>3
  <2>5. c.doc = docs[n].id /\ e.doc = docs[m].id /\ c.span = s /\ e.span = r
    BY <1>4, <2>2, <2>4 DEF IsCut
  <2>6. m = n
    BY <1>7, <2>5
  <2>7. s[1] = r[1] => s = r
    BY <1>3, <2>6 DEF Cuts
  <2>8. c # e => c.span[1] # e.span[1]
    BY <2>2, <2>4, <2>5, <2>6, <2>7
  <2>9. ASSUME s[1] < r[1], r[1] <= s[2]
        PROVE  End(c.text, Len(c.text)) - Start(c.text)[r[1] - s[1] + 1] <= Overlap
    <3> DEFINE t == docs[n].text
    <3>1. /\ End(c.text, Len(c.text)) = End(t, s[2]) - Start(t)[s[1]]
          /\ s[1] \in 1..L(n) /\ s[2] \in s[1]..L(n)
          /\ \A p \in s[1]..s[2] : Start(c.text)[p - s[1] + 1] = Start(t)[p] - Start(t)[s[1]]
      BY <1>4, <2>2 DEF IsCut
    <3>2. r[1] \in 1..L(n)
      BY <1>4, <2>4, <2>6 DEF IsCut
    <3>3. End(t, s[2]) - Start(t)[r[1]] <= Overlap
      BY <1>3, <2>6, <2>9 DEF Cuts
    <3>4. IsText(t) /\ L(n) \in Nat
      BY <1>3
    <3>5. r[1] \in s[1]..s[2]
      BY <2>9, <3>1, <3>2, <3>4
    <3>6. Start(c.text)[r[1] - s[1] + 1] = Start(t)[r[1]] - Start(t)[s[1]]
      BY <3>1, <3>5
    <3>7. Start(t)[r[1]] \in Nat /\ Start(t)[s[1]] \in Nat /\ End(t, s[2]) \in Nat
      <4>1. L(n) = Len(t)
        OBVIOUS
      <4> HIDE DEF t, L
      <4>2. \A i \in 1..Len(t) : Start(t)[i] \in Nat /\ End(t, i) \in Nat
        BY <3>4, <4>1, Starts
      <4>3. r[1] \in 1..Len(t) /\ s[1] \in 1..Len(t) /\ s[2] \in 1..Len(t)
        BY <3>1, <3>2, <3>4, <4>1
      <4> QED
        BY <4>2, <4>3
    <3> HIDE DEF t, L
    <3>8. End(c.text, Len(c.text)) - Start(c.text)[r[1] - s[1] + 1] = End(t, s[2]) - Start(t)[r[1]]
      BY <3>1, <3>6, <3>7
    <3> QED
      BY <3>3, <3>8
  <2> QED
    BY <2>5, <2>8, <2>9
<1> HIDE DEF L
<1> QED
  BY <1>5, <1>6, <1>7 DEF Covering

-----------------------------------------------------------------------------
(* Numeric conflicts: what a decision removes, and what it leaves.          *)

\* Every claim is of a verified document, trusted to the full.
Full(claims) == \A c \in claims : c.verified /\ c.trust = 10

\* The documents that state a value.
Stating(claims, value) == {c.doc : c \in {x \in claims : x.value = value}}

\* The trust in a document that states the value.
TrustIn(claims, value, d) == Max({c.trust : c \in {x \in {y \in claims : y.value = value} : x.doc = d}})

\* What a set of documents adds up to, one after another.
Adding(claims, value, D) ==
  CHOOSE it : it = [s \in SUBSET D |->
    IF s = {} THEN 0
    ELSE TrustIn(claims, value, CHOOSE d \in s : TRUE) + it[s \ {CHOOSE d \in s : TRUE}]]

\* The score adds up, over the documents that state the value, the trust in each.
LEMMA ScoreIs ==
  ASSUME NEW claims, NEW value
  PROVE  Score(claims, value) = Adding(claims, value, Stating(claims, value))[Stating(claims, value)]
BY Zenon DEF Score, Adding, Stating, TrustIn, MapThenSumSet, MapThenFoldSet

\* Where every claim is trusted alike, so is each document.
LEMMA TrustIs ==
  ASSUME NEW claims, Full(claims), NEW value, NEW d \in Stating(claims, value)
  PROVE  TrustIn(claims, value, d) = 10
<1> DEFINE S == {c.trust : c \in {x \in {y \in claims : y.value = value} : x.doc = d}}
<1>1. S = {10}
  BY DEF Full, Stating
<1>2. Max(S) \in S
  <2> HIDE DEF S
  <2>1. \E x \in S : \A y \in S : x >= y
    BY <1>1
  <2> QED
    BY <2>1 DEF Max
<1> HIDE DEF S
<1>3. Max(S) = 10
  BY <1>1, <1>2
<1> QED
  BY <1>3 DEF TrustIn, S

\* Of documents trusted alike, the score is their number.
LEMMA ScoreCounts ==
  ASSUME NEW claims, Full(claims), NEW value, IsFiniteSet(Stating(claims, value))
  PROVE  /\ Cardinality(Stating(claims, value)) \in Nat
         /\ Score(claims, value) = 10 * Cardinality(Stating(claims, value))
<1> DEFINE D == Stating(claims, value)
           it == Adding(claims, value, D)
           x(s) == CHOOSE d \in s : TRUE
           f(s) == TrustIn(claims, value, x(s))
           ten == [s \in SUBSET D |-> 10 * Cardinality(s)]
<1>1. \A s \in SUBSET D : IsFiniteSet(s) /\ Cardinality(s) \in Nat
  BY FS_Subset, FS_CardinalityType
<1>2. ASSUME NEW s \in SUBSET D, s # {}
      PROVE  /\ x(s) \in D /\ f(s) = 10 /\ s \ {x(s)} \in SUBSET D
             /\ Cardinality(s) = Cardinality(s \ {x(s)}) + 1
  <2>1. x(s) \in s
    BY <1>2
  <2> HIDE DEF D, x
  <2>2. Cardinality(s \ {x(s)}) = Cardinality(s) - 1
    BY <1>1, <2>1, FS_RemoveElement
  <2>3. f(s) = 10
    BY <2>1, TrustIs DEF D
  <2> HIDE DEF f
  <2> QED
    BY <1>1, <2>1, <2>2, <2>3
<1>3. Cardinality({}) = 0
  BY FS_EmptySet
<1>4. ten = [s \in SUBSET D |-> IF s = {} THEN 0 ELSE f(s) + ten[s \ {x(s)}]]
  <2> HIDE DEF D, x, f
  <2>1. ASSUME NEW s \in SUBSET D
        PROVE  10 * Cardinality(s) = IF s = {} THEN 0 ELSE f(s) + ten[s \ {x(s)}]
    <3>1. CASE s = {}
      BY <1>3, <3>1
    <3>2. CASE s # {}
      <4> DEFINE r == s \ {x(s)}
      <4>1. f(s) = 10 /\ r \in SUBSET D /\ Cardinality(s) = Cardinality(r) + 1 /\ Cardinality(r) \in Nat
        BY <1>1, <1>2, <3>2
      <4>2. ten[r] = 10 * Cardinality(r)
        BY <4>1
      <4> HIDE DEF r, ten
      <4>3. 10 * Cardinality(s) = f(s) + ten[r]
        BY <4>1, <4>2
      <4> QED
        BY <3>2, <4>3 DEF r
    <3> QED
      BY <3>1, <3>2
  <2> QED
    BY <2>1
<1>5. it = [s \in SUBSET D |-> IF s = {} THEN 0 ELSE f(s) + it[s \ {x(s)}]]
  <2> HIDE DEF ten, D
  <2> QED
    BY <1>4, Zenon DEF Adding
<1> HIDE DEF it, ten
<1> DEFINE T == {n \in Nat : \A s \in SUBSET D : Cardinality(s) = n => it[s] = 10 * n}
<1> HIDE DEF D, x, f
<1>6. 0 \in T
  <2>1. \A s \in SUBSET D : Cardinality(s) = 0 => s = {}
    BY <1>1, FS_EmptySet
  <2>2. it[{}] = 0
    BY <1>5
  <2> QED
    BY <2>1, <2>2
<1>7. ASSUME NEW n \in Nat, n \in T PROVE n + 1 \in T
  <2> SUFFICES ASSUME NEW s \in SUBSET D, Cardinality(s) = n + 1
               PROVE  it[s] = 10 * (n + 1)
    OBVIOUS
  <2> DEFINE r == s \ {x(s)}
  <2>1. s # {}
    BY <1>3
  <2>2. f(s) = 10 /\ r \in SUBSET D /\ Cardinality(s) = Cardinality(r) + 1 /\ Cardinality(r) \in Nat
    BY <1>1, <1>2, <2>1
  <2>3. it[s] = f(s) + it[r]
    BY <1>5, <2>1
  <2> HIDE DEF r
  <2>4. Cardinality(r) = n
    BY <2>2
  <2>5. it[r] = 10 * n
    BY <1>7, <2>2, <2>4
  <2> QED
    BY <2>2, <2>3, <2>5
<1>8. \A n \in Nat : n \in T
  <2> HIDE DEF T
  <2> QED
    BY <1>6, <1>7, Inductive
<1>9. it[D] = 10 * Cardinality(D) /\ Cardinality(D) \in Nat
  BY <1>1, <1>8
<1> QED
  BY <1>9, ScoreIs DEF D, it

\* The image of a finite set is finite.
LEMMA FiniteImage ==
  ASSUME NEW S, IsFiniteSet(S), NEW f
  PROVE  IsFiniteSet({f[x] : x \in S})
<1> DEFINE g == [x \in S |-> f[x]]
           T == {f[x] : x \in S}
<1>1. g \in Surjection(S, T)
  BY DEF Surjection
<1> HIDE DEF g, T
<1>2. IsFiniteSet(T)
  BY <1>1, FS_Surjection
<1> QED
  BY <1>2 DEF T

\* The chunks of a context are texts of the corpus, and none is twice in it.
Vouched(s) ==
  /\ IsSeq(s)
  /\ \A n \in DOMAIN s : IsSeq(s[n].text) /\ s[n].provenance.verified /\ s[n].provenance.trust = 10
  /\ \A m, n \in DOMAIN s : s[m] = s[n] => m = n

\* What a quantity of a chunk claims.
Claim(s, n, q) ==
  [value |-> q.value, unit |-> q.unit, chunk |-> n, doc |-> s[n].doc,
   verified |-> s[n].provenance.verified, trust |-> s[n].provenance.trust]
Repeats(s, n, q) == \E m \in 1..n - 1 : s[m].doc = s[n].doc /\ q \in Quantities(s[m])

\* Claims are quantities no chunk before states of the same document.
LEMMA ClaimedIs ==
  ASSUME NEW s, NEW c
  PROVE  c \in Claims(s) <=> \E n \in DOMAIN s : \E q \in Quantities(s[n]) :
                               ~Repeats(s, n, q) /\ c = Claim(s, n, q)
<1> DEFINE Of(n) == {Claim(s, n, q) : q \in {x \in Quantities(s[n]) : ~Repeats(s, n, x)}}
<1>1. Claims(s) = UNION {Of(n) : n \in DOMAIN s}
  BY Zenon DEF Claims, Claim, Repeats
<1> HIDE DEF Of
<1>2. c \in Claims(s) <=> \E n \in DOMAIN s : c \in Of(n)
  BY <1>1
<1>3. \A n \in DOMAIN s : c \in Of(n) <=> \E q \in Quantities(s[n]) : ~Repeats(s, n, q) /\ c = Claim(s, n, q)
  BY Zenon DEF Of
<1> QED
  BY <1>2, <1>3, Zenon

\* What a claim says stands in its chunk.
LEMMA ClaimSays ==
  ASSUME NEW s, Vouched(s), NEW c \in Claims(s)
  PROVE  /\ c.chunk \in DOMAIN s /\ c.doc = s[c.chunk].doc /\ c.verified /\ c.trust = 10
         /\ \E q \in Quantities(s[c.chunk]) : q.value = c.value /\ q.unit = c.unit
<1>1. PICK n \in DOMAIN s : \E q \in Quantities(s[n]) : c = Claim(s, n, q)
  BY ClaimedIs
<1>2. PICK q \in Quantities(s[n]) : c = Claim(s, n, q)
  BY <1>1
<1>3. /\ c.value = q.value /\ c.unit = q.unit /\ c.chunk = n /\ c.doc = s[n].doc
      /\ c.verified = s[n].provenance.verified /\ c.trust = s[n].provenance.trust
  BY <1>2 DEF Claim
<1> QED
  BY <1>3 DEF Vouched

\* Every quantity of a chunk is claimed for its document.
LEMMA Claimed ==
  ASSUME NEW s, IsSeq(s), NEW n \in DOMAIN s, NEW q \in Quantities(s[n])
  PROVE  \E c \in Claims(s) : c.value = q.value /\ c.unit = q.unit /\ c.doc = s[n].doc
<1> DEFINE S == {m \in DOMAIN s : s[m].doc = s[n].doc /\ q \in Quantities(s[m])}
           f == Min(S)
<1>1. DOMAIN s = 1..Len(s) /\ Len(s) \in Nat
  BY Extent
<1>2. S \in SUBSET Nat /\ S # {}
  BY <1>1
<1>3. f \in S /\ \A m \in S : f <= m
  <2> HIDE DEF S
  <2> QED
    BY <1>2, LeastIs
<1> HIDE DEF f
<1>4. f \in DOMAIN s /\ s[f].doc = s[n].doc /\ q \in Quantities(s[f])
  BY <1>3
<1>5. ~Repeats(s, f, q)
  <2> SUFFICES ASSUME NEW m \in 1..f - 1, s[m].doc = s[f].doc, q \in Quantities(s[m]) PROVE FALSE
    BY DEF Repeats
  <2>1. f \in Nat /\ m \in DOMAIN s /\ m < f /\ m \in Nat
    BY <1>1, <1>4
  <2>2. m \in S
    BY <1>4, <2>1
  <2> HIDE DEF S
  <2> QED
    BY <1>3, <2>1, <2>2
<1> DEFINE c == Claim(s, f, q)
<1>6. c.value = q.value /\ c.unit = q.unit /\ c.doc = s[f].doc
  BY DEF Claim
<1> HIDE DEF c, S
<1>7. c \in Claims(s)
  BY <1>4, <1>5, ClaimedIs DEF c
<1> QED
  BY <1>4, <1>6, <1>7

\* There are finitely many claims.
LEMMA FiniteClaims ==
  ASSUME NEW s, Vouched(s)
  PROVE  IsFiniteSet(Claims(s))
<1> DEFINE Of(n) == {Claim(s, n, q) : q \in {x \in Quantities(s[n]) : ~Repeats(s, n, x)}}
           all == {Of(n) : n \in DOMAIN s}
<1>1. Claims(s) = UNION all
  BY Zenon DEF Claims, Claim, Repeats
<1>2. ASSUME NEW n \in DOMAIN s PROVE IsFiniteSet(Of(n))
  <2> DEFINE words == {x \in ToSet(s[n].text) : x.is = "quantity" /\ x.form \in DOMAIN Units}
             said == [w \in words |-> [value |-> w.what, unit |-> Units[w.form]]]
             fresh == {x \in Quantities(s[n]) : ~Repeats(s, n, x)}
             claim == [q \in fresh |-> Claim(s, n, q)]
  <2>1. IsSeq(s[n].text)
    BY DEF Vouched
  <2>2. IsFiniteSet(ToSet(s[n].text))
    BY <2>1, FiniteSequence
  <2>3. IsFiniteSet(words)
    BY <2>2, FS_Subset
  <2>4. Quantities(s[n]) = {said[w] : w \in words}
    BY DEF Quantities
  <2> HIDE DEF words, said
  <2>5. IsFiniteSet(Quantities(s[n]))
    BY <2>3, <2>4, FiniteImage
  <2>6. IsFiniteSet(fresh)
    BY <2>5, FS_Subset
  <2>7. Of(n) = {claim[q] : q \in fresh}
    OBVIOUS
  <2> HIDE DEF fresh, claim, Of
  <2> QED
    BY <2>6, <2>7, FiniteImage
<1>3. IsFiniteSet(all)
  <2> DEFINE of == [n \in DOMAIN s |-> Of(n)]
  <2>1. IsFiniteSet(DOMAIN s)
    BY FiniteDomain DEF Vouched
  <2>2. all = {of[n] : n \in DOMAIN s}
    OBVIOUS
  <2> HIDE DEF of, all, Of
  <2> QED
    BY <2>1, <2>2, FiniteImage
<1>4. \A T \in all : IsFiniteSet(T)
  BY <1>2
<1> HIDE DEF all, Of
<1> QED
  BY <1>1, <1>3, <1>4, FS_UNION

\* The claims of a unit, and the documents that state a value in it.
ClaimsOf(s, unit) == {c \in Claims(s) : c.unit = unit}
StatedBy(s, unit, value) == {c.doc : c \in {x \in Claims(s) : x.unit = unit /\ x.value = value}}

\* More than one of finitely many is two that differ.
LEMMA SeveralIs ==
  ASSUME NEW S, IsFiniteSet(S)
  PROVE  Cardinality(S) > 1 <=> \E x, y \in S : x # y
<1>1. Cardinality(S) \in Nat
  BY FS_CardinalityType
<1>2. ASSUME Cardinality(S) > 1 PROVE \E x, y \in S : x # y
  <2>1. S # {}
    BY <1>2, FS_EmptySet
  <2>2. PICK x \in S : TRUE
    BY <2>1
  <2>3. S # {x}
    BY <1>2, FS_Singleton
  <2> QED
    BY <2>2, <2>3
<1>3. ASSUME NEW x \in S, NEW y \in S, x # y PROVE Cardinality(S) > 1
  <2>1. S # {}
    OBVIOUS
  <2>2. \A z : S # {z}
    BY <1>3
  <2>3. Cardinality(S) # 0 /\ Cardinality(S) # 1
    BY <2>1, <2>2, FS_EmptySet, FS_Singleton
  <2> QED
    BY <1>1, <2>3
<1> QED
  BY <1>2, <1>3

\* A unit is in conflict if documents that differ state values that differ.
LEMMA ConflictIs ==
  ASSUME NEW s, Vouched(s), NEW unit
  PROVE  unit \in Conflicts(s) <=>
           /\ \E c, e \in ClaimsOf(s, unit) : c.value # e.value
           /\ \E c, e \in ClaimsOf(s, unit) : c.doc # e.doc
<1> DEFINE C == ClaimsOf(s, unit)
           values == {c.value : c \in C}
           docs == {c.doc : c \in C}
           valueOf == [c \in C |-> c.value]
           docOf == [c \in C |-> c.doc]
<1>1. IsFiniteSet(C)
  BY FiniteClaims, FS_Subset DEF ClaimsOf
<1>2. unit \in Conflicts(s) <=> C # {} /\ Cardinality(values) > 1 /\ Cardinality(docs) > 1
  <2>1. unit \in {c.unit : c \in Claims(s)} <=> C # {}
    BY DEF ClaimsOf
  <2>2. unit \in Conflicts(s) <=> /\ unit \in {c.unit : c \in Claims(s)}
                                  /\ Cardinality(values) > 1 /\ Cardinality(docs) > 1
    BY Zenon DEF Conflicts, ClaimsOf
  <2> QED
    BY <2>1, <2>2
<1>3. values = {valueOf[c] : c \in C} /\ docs = {docOf[c] : c \in C}
  OBVIOUS
<1> HIDE DEF C, valueOf, docOf, values, docs
<1>4. IsFiniteSet(values) /\ IsFiniteSet(docs)
  BY <1>1, <1>3, FiniteImage
<1>5. Cardinality(values) > 1 <=> \E c, e \in C : c.value # e.value
  <2>1. Cardinality(values) > 1 <=> \E x, y \in values : x # y
    BY <1>4, SeveralIs
  <2> QED
    BY <2>1 DEF values
<1>6. Cardinality(docs) > 1 <=> \E c, e \in C : c.doc # e.doc
  <2>1. Cardinality(docs) > 1 <=> \E x, y \in docs : x # y
    BY <1>4, SeveralIs
  <2> QED
    BY <2>1 DEF docs
<1>7. (\E c, e \in C : c.value # e.value) => C # {}
  OBVIOUS
<1> QED
  BY <1>2, <1>5, <1>6, <1>7 DEF C

\* How much evidence there is for a value: one count per document.
LEMMA EvidenceIs ==
  ASSUME NEW s, Vouched(s), NEW unit, NEW value
  PROVE  /\ Cardinality(StatedBy(s, unit, value)) \in Nat
         /\ Score(ClaimsOf(s, unit), value) = 10 * Cardinality(StatedBy(s, unit, value))
<1> DEFINE C == ClaimsOf(s, unit)
           T == {x \in C : x.value = value}
           docOf == [c \in T |-> c.doc]
<1>1. StatedBy(s, unit, value) = Stating(C, value)
  BY DEF StatedBy, Stating, ClaimsOf
<1>2. Full(C)
  BY ClaimSays DEF Full, ClaimsOf
<1>3. IsFiniteSet(T)
  BY FiniteClaims, FS_Subset DEF ClaimsOf
<1>4. Stating(C, value) = {docOf[c] : c \in T}
  BY DEF Stating
<1> HIDE DEF docOf, T, C
<1>5. IsFiniteSet(Stating(C, value))
  BY <1>3, <1>4, FiniteImage
<1> QED
  BY <1>1, <1>2, <1>5, ScoreCounts DEF C

\* The values of a unit that win, and the chunks that introduce others.
WinnersOf(s, unit) == {v \in {c.value : c \in ClaimsOf(s, unit)} : Decided(ClaimsOf(s, unit), v)}
RejectedOf(s) == {c.chunk : c \in {x \in Claims(s) :
                    x.unit \in Conflicts(s) /\ x.value \notin WinnersOf(s, x.unit)}}

\* A value wins only if more documents state it than any other.
LEMMA WinnerIs ==
  ASSUME NEW s, Vouched(s), NEW unit, NEW v \in WinnersOf(s, unit)
  PROVE  /\ \E e \in ClaimsOf(s, unit) : e.value = v
         /\ \A c \in ClaimsOf(s, unit) : c.value # v =>
              Cardinality(StatedBy(s, unit, v)) > Cardinality(StatedBy(s, unit, c.value))
<1>1. \E e \in ClaimsOf(s, unit) : e.value = v
  BY DEF WinnersOf
<1>2. ASSUME NEW c \in ClaimsOf(s, unit), c.value # v
      PROVE  Cardinality(StatedBy(s, unit, v)) > Cardinality(StatedBy(s, unit, c.value))
  <2> DEFINE w == c.value
             m == Cardinality(StatedBy(s, unit, w))
             n == Cardinality(StatedBy(s, unit, v))
  <2>1. Score(ClaimsOf(s, unit), w) < Score(ClaimsOf(s, unit), v)
    BY <1>2 DEF WinnersOf, Decided
  <2> HIDE DEF w
  <2>2. m \in Nat /\ n \in Nat /\ 10 * m < 10 * n
    BY <2>1, EvidenceIs
  <2> HIDE DEF m, n
  <2>3. n > m
    BY <2>2
  <2> QED
    BY <2>3 DEF m, n, w
<1> QED
  BY <1>1, <1>2

\* A decision that is no abstention leaves what is not rejected.
LEMMA ResolvedIs ==
  ASSUME NEW s, ~Resolve(s).abstain
  PROVE  /\ \A unit \in Conflicts(s) : WinnersOf(s, unit) # {}
         /\ Resolve(s).context = Those(s, (DOMAIN s) \ RejectedOf(s))
<1> DEFINE left == Those(s, (DOMAIN s) \ RejectedOf(s))
           clear == \A unit \in Conflicts(s) : WinnersOf(s, unit) # {}
           said == {Word("quantity", c.value, "") : c \in UNION {ClaimsOf(s, unit) : unit \in Conflicts(s)}}
<1>1. Resolve(s) = IF clear THEN [abstain |-> FALSE, said |-> {}, context |-> left]
                   ELSE [abstain |-> TRUE, context |-> s, said |-> said]
  BY Zenon DEF Resolve, ClaimsOf, WinnersOf, RejectedOf
<1> HIDE DEF left, clear, said
<1>2. CASE clear
  BY <1>1, <1>2 DEF left, clear
<1>3. CASE ~clear
  BY <1>1, <1>3
<1> QED
  BY <1>2, <1>3

\* A claim of what is taken of a context is one of the context.
LEMMA ClaimsKept ==
  ASSUME NEW s, Vouched(s), NEW t, Vouched(t), ToSet(t) \subseteq ToSet(s), NEW c \in Claims(t)
  PROVE  \E e \in Claims(s) : e.value = c.value /\ e.unit = c.unit /\ e.doc = c.doc
<1>1. PICK q \in Quantities(t[c.chunk]) : q.value = c.value /\ q.unit = c.unit
  BY ClaimSays
<1>2. c.chunk \in DOMAIN t /\ c.doc = t[c.chunk].doc
  BY ClaimSays
<1>3. t[c.chunk] \in ToSet(s)
  BY <1>2 DEF ToSet
<1>4. PICK n \in DOMAIN s : s[n] = t[c.chunk]
  BY <1>3 DEF ToSet
<1>5. q \in Quantities(s[n])
  BY <1>4
<1>6. \E e \in Claims(s) : e.value = q.value /\ e.unit = q.unit /\ e.doc = s[n].doc
  BY <1>5, Claimed DEF Vouched
<1> QED
  BY <1>1, <1>2, <1>4, <1>6

\* What is left of a context is vouched for as it was.
LEMMA LeftIs ==
  ASSUME NEW s, Vouched(s), NEW P
  PROVE  /\ Vouched(Those(s, P)) /\ ToSet(Those(s, P)) \subseteq ToSet(s)
         /\ \A n \in DOMAIN s : s[n] \in ToSet(Those(s, P)) <=> n \in P
<1> DEFINE t == Those(s, P)
<1>1. IsSeq(s) /\ \A m, n \in DOMAIN s : s[m] = s[n] => m = n
  BY DEF Vouched
<1>2. IsSeq(t) /\ ToSet(t) = {s[n] : n \in {i \in DOMAIN s : i \in P}}
  BY <1>1, ThoseAre
<1>3. /\ Len(t) \in Nat
      /\ \E e \in [1..Len(t) -> DOMAIN s] :
           /\ \A k \in 1..Len(t) : t[k] = s[e[k]]
           /\ \A k, l \in 1..Len(t) : k < l => e[k] < e[l]
  BY <1>1, ThosePlaces
<1> HIDE DEF t
<1>4. DOMAIN t = 1..Len(t)
  BY <1>2, Extent
<1>5. \A m, n \in DOMAIN t : t[m] = t[n] => m = n
  <2>1. PICK e \in [1..Len(t) -> DOMAIN s] : /\ \A k \in 1..Len(t) : t[k] = s[e[k]]
                                             /\ \A k, l \in 1..Len(t) : k < l => e[k] < e[l]
    BY <1>3
  <2>2. ASSUME NEW m \in 1..Len(t), NEW n \in 1..Len(t), t[m] = t[n], m < n PROVE FALSE
    <3>1. e[m] \in DOMAIN s /\ e[n] \in DOMAIN s /\ e[m] < e[n]
      BY <2>1, <2>2
    <3>2. s[e[m]] = s[e[n]]
      BY <2>1, <2>2
    <3>3. e[m] = e[n]
      BY <1>1, <3>1, <3>2
    <3>4. e[m] \in Nat
      BY <1>1, <3>1, Extent
    <3> QED
      BY <3>1, <3>3, <3>4
  <2>3. \A m, n \in 1..Len(t) : m < n \/ n < m \/ m = n
    BY <1>3
  <2> QED
    BY <1>4, <2>2, <2>3
<1>6. \A k \in DOMAIN t : \E n \in DOMAIN s : t[k] = s[n]
  BY <1>3, <1>4
<1>7. \A k \in DOMAIN t : IsSeq(t[k].text) /\ t[k].provenance.verified /\ t[k].provenance.trust = 10
  BY <1>6 DEF Vouched
<1>8. Vouched(t)
  BY <1>2, <1>5, <1>7 DEF Vouched
<1>9. ToSet(t) \subseteq ToSet(s)
  BY <1>2 DEF ToSet
<1>10. \A n \in DOMAIN s : s[n] \in ToSet(t) <=> n \in P
  BY <1>1, <1>2
<1> QED
  BY <1>8, <1>9, <1>10 DEF t

\* What a decision removes has lost, to a value more documents state; and what
\* contradicts still does so in a document a chunk of which is removed.
Removes(s, t) ==
  \A n \in DOMAIN s : s[n] \notin ToSet(t) =>
    \E c, e \in Claims(s) :
      /\ c.chunk = n /\ e.unit = c.unit
      /\ Cardinality(StatedBy(s, e.unit, e.value)) > Cardinality(StatedBy(s, c.unit, c.value))
Leaves(s, t) ==
  \A unit \in Conflicts(t) : \E n \in DOMAIN s :
    s[n] \notin ToSet(t) /\ \E c \in Claims(t) : c.unit = unit /\ c.doc = s[n].doc

\* answer_integrity, where it does not abstain, settles every conflict so.
LEMMA Resolution ==
  ASSUME NEW s, Vouched(s), ~Resolve(s).abstain
  PROVE  /\ Vouched(Resolve(s).context)
         /\ Removes(s, Resolve(s).context) /\ Leaves(s, Resolve(s).context)
<1> DEFINE P == (DOMAIN s) \ RejectedOf(s)
           t == Resolve(s).context
<1>1. t = Those(s, P) /\ \A unit \in Conflicts(s) : WinnersOf(s, unit) # {}
  BY ResolvedIs
<1>2. /\ Vouched(t) /\ ToSet(t) \subseteq ToSet(s)
      /\ \A n \in DOMAIN s : s[n] \in ToSet(t) <=> n \notin RejectedOf(s)
  <2>1. \A n \in DOMAIN s : n \in P <=> n \notin RejectedOf(s)
    OBVIOUS
  <2> HIDE DEF P, t
  <2> QED
    BY <1>1, <2>1, LeftIs
<1> HIDE DEF P, t
<1>3. Removes(s, t)
  <2> SUFFICES ASSUME NEW n \in DOMAIN s, s[n] \notin ToSet(t)
               PROVE  \E c, e \in Claims(s) :
                        /\ c.chunk = n /\ e.unit = c.unit
                        /\ Cardinality(StatedBy(s, e.unit, e.value)) > Cardinality(StatedBy(s, c.unit, c.value))
    BY DEF Removes
  <2>1. PICK c \in Claims(s) : /\ c.chunk = n /\ c.unit \in Conflicts(s)
                               /\ c.value \notin WinnersOf(s, c.unit)
    BY <1>2 DEF RejectedOf
  <2> DEFINE unit == c.unit
  <2>2. PICK v \in WinnersOf(s, unit) : TRUE
    BY <1>1, <2>1
  <2>3. c \in ClaimsOf(s, unit) /\ c.value # v
    BY <2>1, <2>2 DEF ClaimsOf
  <2>4. PICK e \in ClaimsOf(s, unit) : e.value = v
    BY <2>2, WinnerIs
  <2>5. Cardinality(StatedBy(s, unit, v)) > Cardinality(StatedBy(s, unit, c.value))
    BY <2>2, <2>3, WinnerIs
  <2>6. e \in Claims(s) /\ e.unit = unit
    BY <2>4 DEF ClaimsOf
  <2> QED
    BY <2>1, <2>4, <2>5, <2>6
<1>4. Leaves(s, t)
  <2> SUFFICES ASSUME NEW unit \in Conflicts(t)
               PROVE  \E n \in DOMAIN s : /\ s[n] \notin ToSet(t)
                                          /\ \E c \in Claims(t) : c.unit = unit /\ c.doc = s[n].doc
    BY DEF Leaves
  <2>1. \A c \in ClaimsOf(t, unit) :
          \E e \in ClaimsOf(s, unit) : e.value = c.value /\ e.doc = c.doc
    <3> TAKE c \in ClaimsOf(t, unit)
    <3>1. c \in Claims(t) /\ c.unit = unit
      BY DEF ClaimsOf
    <3>2. PICK e \in Claims(s) : e.value = c.value /\ e.unit = c.unit /\ e.doc = c.doc
      BY <1>2, <3>1, ClaimsKept
    <3> QED
      BY <3>1, <3>2 DEF ClaimsOf
  <2>2. PICK c \in ClaimsOf(t, unit), d \in ClaimsOf(t, unit) : c.value # d.value
    BY <1>2, ConflictIs
  <2>3. unit \in Conflicts(s)
    <3>1. \E x, y \in ClaimsOf(s, unit) : x.value # y.value
      BY <2>1, <2>2
    <3>2. \E x, y \in ClaimsOf(t, unit) : x.doc # y.doc
      BY <1>2, ConflictIs
    <3>3. \E x, y \in ClaimsOf(s, unit) : x.doc # y.doc
      BY <2>1, <3>2
    <3> QED
      BY <3>1, <3>3, ConflictIs
  <2>4. \E x \in ClaimsOf(t, unit) : x.value \notin WinnersOf(s, unit)
    <3> SUFFICES ASSUME c.value \in WinnersOf(s, unit), d.value \in WinnersOf(s, unit) PROVE FALSE
      BY <2>2
    <3> DEFINE m == Cardinality(StatedBy(s, unit, c.value))
               n == Cardinality(StatedBy(s, unit, d.value))
    <3>1. \A v, w \in WinnersOf(s, unit) : v # w =>
            Cardinality(StatedBy(s, unit, v)) > Cardinality(StatedBy(s, unit, w))
      <4> TAKE v, w \in WinnersOf(s, unit)
      <4>1. \E e \in ClaimsOf(s, unit) : e.value = w
        BY WinnerIs
      <4> QED
        BY <4>1, WinnerIs
    <3>2. m > n /\ n > m
      BY <2>2, <3>1
    <3>3. m \in Nat /\ n \in Nat
      BY EvidenceIs
    <3> HIDE DEF m, n
    <3> QED
      BY <3>2, <3>3
  <2>5. PICK x \in ClaimsOf(t, unit) : x.value \notin WinnersOf(s, unit)
    BY <2>4
  <2>6. PICK e \in ClaimsOf(s, unit) : e.value = x.value /\ e.doc = x.doc
    BY <2>1
  <2>7. e \in Claims(s) /\ e.unit = unit /\ x \in Claims(t) /\ x.unit = unit
    BY <2>6 DEF ClaimsOf
  <2>8. e.chunk \in RejectedOf(s)
    BY <2>3, <2>5, <2>6, <2>7 DEF RejectedOf
  <2>9. e.chunk \in DOMAIN s /\ s[e.chunk].doc = x.doc
    BY <2>6, <2>7, ClaimSays
  <2> QED
    BY <1>2, <2>7, <2>8, <2>9
<1> QED
  BY <1>2, <1>3, <1>4 DEF t

\* Where everything is trusted, answer_integrity does what the decision does.
LEMMA IntegrityIs ==
  ASSUME NEW s, Vouched(s), NEW d, d = "answer_integrity", ~Defended(s, {d}).abstain
  PROVE  Removes(s, Defended(s, {d}).context) /\ Leaves(s, Defended(s, {d}).context)
<1> DEFINE D == Defended(s, {d})
           t == Resolve(s).context
           screened == IF "injection_filter" \in {d} THEN FilterInjected(s) ELSE s
           decision == Resolve(screened)
           trusted == FilterUntrusted(decision.context)
<1>1. D = IF "answer_integrity" \notin {d}
          THEN [abstain |-> FALSE, said |-> {}, context |-> screened]
          ELSE IF decision.abstain THEN decision
          ELSE [abstain |-> trusted = <<>>, said |-> {}, context |-> trusted]
  BY Zenon DEF Defended
<1>2. screened = s /\ ~("answer_integrity" \notin {d})
  OBVIOUS
<1>3. ~D.abstain
  OBVIOUS
<1> HIDE DEF D, screened
<1>4. D = IF Resolve(s).abstain THEN Resolve(s)
          ELSE [abstain |-> FilterUntrusted(t) = <<>>, said |-> {}, context |-> FilterUntrusted(t)]
  BY <1>1, <1>2
<1>5. ~Resolve(s).abstain
  BY <1>3, <1>4
<1>6. D.context = FilterUntrusted(t)
  BY <1>4, <1>5
<1>7. Vouched(t) /\ Removes(s, t) /\ Leaves(s, t)
  BY <1>5, Resolution
<1> HIDE DEF t
<1>8. \A n \in DOMAIN t : Trusted(t[n])
  BY <1>7 DEF Vouched, Trusted, MinimumTrust
<1>9. FilterUntrusted(t) = t
  <2> DEFINE P == {n \in DOMAIN t : Trusted(t[n])}
  <2>1. \A n \in DOMAIN t : n \in P
    BY <1>8
  <2>2. FilterUntrusted(t) = Those(t, P)
    BY DEF FilterUntrusted
  <2> HIDE DEF P
  <2>3. IsSeq(t)
    BY <1>7 DEF Vouched
  <2> QED
    BY <2>1, <2>2, <2>3, ThoseAll
<1> QED
  BY <1>6, <1>7, <1>9 DEF D


\* The chunks of a trusted corpus are texts that are verified, and trusted to
\* the full.
LEMMA TrustedChunks ==
  ASSUME NEW docs, IsDocs(docs), NEW chunker, NEW c \in Chunks(docs, chunker, "trusted_corpus")
  PROVE  IsSeq(c.text) /\ c.provenance.verified /\ c.provenance.trust = 10
<1>1. PICK n \in DOMAIN docs : \E s \in ToSet(Spans(docs[n].text, chunker)) :
        c = Cut(docs, n, s, "trusted_corpus")
  BY ChunksAre
<1>2. PICK s \in ToSet(Spans(docs[n].text, chunker)) : c = Cut(docs, n, s, "trusted_corpus")
  BY <1>1
<1> DEFINE t == docs[n].text
           part == SubSeq(t, s[1], s[2])
<1>3. c.text = part /\ c.provenance = Provenance("trusted_corpus")
  BY <1>2 DEF Cut
<1>4. c.provenance.verified /\ c.provenance.trust = 10
  BY <1>3 DEF Provenance
<1>5. IsText(t)
  BY DEF IsDocs, IsDocument
<1> HIDE DEF t, part
<1>6. s \in ToSet(Spans(t, chunker)) /\ Cuts(t, ToSet(Spans(t, chunker)), 1, Len(t))
  BY <1>2, <1>5, SpansCut DEF t
<1>7. s[1] \in 1..Len(t) /\ s[2] \in s[1]..Len(t) /\ Len(t) \in Nat
  BY <1>5, <1>6, WordIs DEF Cuts
<1>8. IsSeq(part)
  <2> DEFINE a == s[1]
             b == s[2]
  <2>1. a \in 1..Len(t) /\ b \in a..Len(t) /\ Len(t) \in Nat
    BY <1>7
  <2>2. part = SubSeq(t, a, b)
    BY DEF part
  <2> HIDE DEF a, b
  <2> QED
    BY <1>5, <2>1, <2>2, PartIs DEF IsText
<1> QED
  BY <1>3, <1>4, <1>8

=============================================================================
