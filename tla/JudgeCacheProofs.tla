--------------------------- MODULE JudgeCacheProofs ---------------------------
(***************************************************************************)
(* Theorems about JudgeCache, for any runs, answers, claims, replies and   *)
(* number of failed appends.                                               *)
(***************************************************************************)
EXTENDS JudgeCache, Induction

-----------------------------------------------------------------------------
(* The dictionary a file makes.                                            *)

\* d holds, for each prefix of the lines, the dictionary made of it.
Reads(d, lines) ==
  d = [n \in 0..Len(lines) |->
         IF n = 0 THEN Nothing ELSE With(d[n - 1], lines[n].key, lines[n].supported)]

\* m is the last of the first n lines about k.
IsLast(lines, n, m, k) ==
  m \in 1..n /\ lines[m].key = k /\ \A j \in m + 1..n : lines[j].key # k

Fcn(f) == f = [x \in DOMAIN f |-> f[x]]

LEMMA FcnEqual ==
  ASSUME NEW f, NEW g, Fcn(f), Fcn(g), DOMAIN f = DOMAIN g, \A x \in DOMAIN f : f[x] = g[x]
  PROVE  f = g
BY DEF Fcn

\* What With makes is a function ...
LEMMA WithFcn ==
  ASSUME NEW d, NEW k, NEW v
  PROVE  Fcn(With(d, k, v))
BY DEF With, Fcn

\* ... of one key more ...
LEMMA WithDomain ==
  ASSUME NEW d, NEW k, NEW v
  PROVE  DOMAIN With(d, k, v) = DOMAIN d \cup {k}
BY DEF With

\* ... that has the new value ...
LEMMA WithNew ==
  ASSUME NEW d, NEW k, NEW v
  PROVE  With(d, k, v)[k] = v
BY DEF With

\* ... and keeps the others.
LEMMA WithOld ==
  ASSUME NEW d, NEW k, NEW v, NEW x \in DOMAIN d, x # k
  PROVE  With(d, k, v)[x] = d[x]
BY DEF With

\* The recursion of Load has a solution, so Load is one.
LEMMA LoadReads ==
  ASSUME NEW lines \in Seq(Entry)
  PROVE  \E d : Reads(d, lines) /\ Load(lines) = d[Len(lines)]
<1> DEFINE Step(d, n) ==
             IF n = 0 THEN Nothing ELSE With(d[n - 1], lines[n].key, lines[n].supported)
           T == {n \in Nat : \E d : d = [i \in 0..n |-> Step(d, i)]}
<1>1. 0 \in T
  <2> DEFINE d == [i \in 0..0 |-> Nothing]
  <2>1. d = [i \in 0..0 |-> Step(d, i)]
    OBVIOUS
  <2> QED
    BY <2>1
<1>2. ASSUME NEW n \in Nat, n \in T PROVE n + 1 \in T
  <2>1. PICK d : d = [i \in 0..n |-> Step(d, i)]
    BY <1>2
  <2> DEFINE e == [i \in 0..n + 1 |-> IF i = n + 1 THEN Step(d, i) ELSE d[i]]
  <2>2. \A i \in 0..n + 1 : i # n + 1 => i \in 0..n
    OBVIOUS
  <2>3. ASSUME NEW i \in 0..n + 1 PROVE e[i] = Step(e, i)
    <3>1. i = 0 \/ (i - 1 \in 0..n + 1 /\ i - 1 # n + 1 /\ i - 1 \in 0..n)
      OBVIOUS
    <3>2. e[i] = Step(d, i)
      <4>1. CASE i = n + 1
        BY <4>1
      <4>2. CASE i # n + 1
        <5>1. e[i] = d[i] /\ i \in 0..n
          BY <2>2, <4>2
        <5> HIDE DEF Step, e
        <5> QED
          BY <2>1, <5>1
      <4> QED
        BY <4>1, <4>2
    <3>3. i # 0 => e[i - 1] = d[i - 1]
      BY <3>1
    <3> HIDE DEF e
    <3> QED
      BY <3>2, <3>3
  <2>4. e = [i \in 0..n + 1 |-> e[i]]
    OBVIOUS
  <2> HIDE DEF e
  <2>5. e = [i \in 0..n + 1 |-> Step(e, i)]
    BY <2>3, <2>4
  <2> HIDE DEF Step
  <2> QED
    BY <2>5
<1> HIDE DEF T
<1>3. Len(lines) \in T
  BY <1>1, <1>2, Inductive
<1>4. PICK d : d = [n \in 0..Len(lines) |-> Step(d, n)]
  BY <1>3 DEF T
<1> DEFINE read == CHOOSE c : c = [n \in 0..Len(lines) |-> Step(c, n)]
<1>5. read = [n \in 0..Len(lines) |-> Step(read, n)]
  <2> HIDE DEF Step
  <2> QED
    BY <1>4
<1>6. Load(lines) = read[Len(lines)]
  BY DEF Load
<1> HIDE DEF read
<1> QED
  BY <1>5, <1>6 DEF Reads

\* What is known of the dictionary of the first n lines.
Keeps(dict, lines, n) ==
  /\ Fcn(dict)
  /\ \A m \in 1..n : lines[m].key \in DOMAIN dict
  /\ \A k \in DOMAIN dict : \E m \in 1..n :
       IsLast(lines, n, m, k) /\ dict[k] = lines[m].supported

\* The dictionary has a value for each key of the lines, that of the last one.
LEMMA LoadKeeps ==
  ASSUME NEW lines \in Seq(Entry)
  PROVE  Keeps(Load(lines), lines, Len(lines))
<1>1. PICK d : Reads(d, lines) /\ Load(lines) = d[Len(lines)]
  BY LoadReads
<1> DEFINE T == {n \in Nat : n <= Len(lines) => Keeps(d[n], lines, n)}
<1>2. Len(lines) \in Nat
  OBVIOUS
<1>3. d[0] = Nothing
  BY <1>1, <1>2 DEF Reads
<1>4. 0 \in T
  BY <1>3 DEF Keeps, Nothing, Fcn
<1>5. ASSUME NEW n \in Nat, n \in T PROVE n + 1 \in T
  <2>1. SUFFICES ASSUME n + 1 <= Len(lines) PROVE Keeps(d[n + 1], lines, n + 1)
    OBVIOUS
  <2> DEFINE e == lines[n + 1]
  <2>2. Keeps(d[n], lines, n)
    BY <1>2, <1>5, <2>1
  <2>3. d[n + 1] = With(d[n], e.key, e.supported)
    BY <1>1, <1>2, <2>1 DEF Reads
  <2> HIDE DEF T
  <2>4. Fcn(d[n + 1])
    BY <2>3, WithFcn
  <2>5. DOMAIN d[n + 1] = DOMAIN d[n] \cup {e.key}
    <3>1. DOMAIN With(d[n], e.key, e.supported) = DOMAIN d[n] \cup {e.key}
      BY WithDomain
    <3> QED
      BY <2>3, <3>1
  <2>6. ASSUME NEW m \in 1..n + 1 PROVE lines[m].key \in DOMAIN d[n + 1]
    <3>1. CASE m = n + 1
      BY <2>5, <3>1
    <3>2. CASE m # n + 1
      <4>1. m \in 1..n
        BY <3>2
      <4>2. lines[m].key \in DOMAIN d[n]
        BY <2>2, <4>1 DEF Keeps
      <4> QED
        BY <2>5, <4>2
    <3> QED
      BY <3>1, <3>2
  <2>7. ASSUME NEW k \in DOMAIN d[n + 1]
        PROVE  \E m \in 1..n + 1 : IsLast(lines, n + 1, m, k) /\ d[n + 1][k] = lines[m].supported
    <3>1. CASE k = e.key
      <4>1. d[n + 1][k] = e.supported
        BY <2>3, <3>1, WithNew
      <4>2. IsLast(lines, n + 1, n + 1, k)
        BY <3>1 DEF IsLast
      <4> QED
        BY <4>1, <4>2
    <3>2. CASE k # e.key
      <4>1. k \in DOMAIN d[n] /\ d[n + 1][k] = d[n][k]
        <5>1. k \in DOMAIN d[n]
          BY <2>5, <3>2
        <5> QED
          BY <2>3, <3>2, <5>1, WithOld
      <4>2. PICK m \in 1..n : IsLast(lines, n, m, k) /\ d[n][k] = lines[m].supported
        BY <2>2, <4>1 DEF Keeps
      <4>3. IsLast(lines, n + 1, m, k)
        <5>1. \A j \in m + 1..n + 1 : j = n + 1 \/ j \in m + 1..n
          BY <4>2
        <5> QED
          BY <3>2, <4>2, <5>1 DEF IsLast
      <4> QED
        BY <4>1, <4>2, <4>3
    <3> QED
      BY <3>1, <3>2
  <2> QED
    BY <2>4, <2>6, <2>7 DEF Keeps
<1>6. Len(lines) \in T
  <2> HIDE DEF T
  <2> QED
    BY <1>2, <1>4, <1>5, Inductive
<1> QED
  BY <1>1, <1>2, <1>6

\* One line more is one more value put.
LEMMA LoadAppend ==
  ASSUME NEW lines \in Seq(Entry), NEW e \in Entry
  PROVE  Load(Append(lines, e)) = With(Load(lines), e.key, e.supported)
<1> DEFINE more == Append(lines, e)
           old == Load(lines)
           n == Len(lines)
<1>1. /\ more \in Seq(Entry) /\ Len(more) = n + 1 /\ more[n + 1] = e /\ n \in Nat
      /\ \A m \in 1..n : more[m] = lines[m]
  OBVIOUS
<1>2. Keeps(old, lines, n) /\ Keeps(Load(more), more, n + 1)
  BY <1>1, LoadKeeps
<1> HIDE DEF more, old, n
<1>3. DOMAIN Load(more) = DOMAIN old \cup {e.key}
  <2>1. ASSUME NEW k \in DOMAIN Load(more) PROVE k \in DOMAIN old \cup {e.key}
    <3>1. PICK m \in 1..n + 1 : more[m].key = k
      BY <1>2 DEF Keeps, IsLast
    <3>2. m = n + 1 \/ m \in 1..n
      BY <1>1
    <3> QED
      BY <1>1, <1>2, <3>1, <3>2 DEF Keeps
  <2>2. ASSUME NEW k \in DOMAIN old PROVE k \in DOMAIN Load(more)
    <3>1. PICK m \in 1..n : lines[m].key = k
      BY <1>2 DEF Keeps, IsLast
    <3>2. m \in 1..n + 1 /\ more[m].key = k
      BY <1>1, <3>1
    <3> QED
      BY <1>2, <3>2 DEF Keeps
  <2>3. e.key \in DOMAIN Load(more)
    <3>1. n + 1 \in 1..n + 1
      BY <1>1
    <3> QED
      BY <1>1, <1>2, <3>1 DEF Keeps
  <2> QED
    BY <2>1, <2>2, <2>3
<1>4. ASSUME NEW k \in DOMAIN Load(more) PROVE Load(more)[k] = With(old, e.key, e.supported)[k]
  <2>1. PICK m \in 1..n + 1 : IsLast(more, n + 1, m, k) /\ Load(more)[k] = more[m].supported
    BY <1>2 DEF Keeps
  <2>2. CASE k = e.key
    <3>1. m = n + 1
      <4>1. m # n + 1 => n + 1 \in m + 1..n + 1
        BY <1>1
      <4> QED
        BY <1>1, <2>1, <2>2, <4>1 DEF IsLast
    <3> QED
      BY <1>1, <2>1, <2>2, <3>1, WithNew
  <2>3. CASE k # e.key
    <3>1. k \in DOMAIN old /\ m \in 1..n
      BY <1>1, <1>3, <2>1, <2>3 DEF IsLast
    <3>2. PICK j \in 1..n : IsLast(lines, n, j, k) /\ old[k] = lines[j].supported
      BY <1>2, <3>1 DEF Keeps
    <3>3. ~(m < j) /\ ~(j < m)
      <4>1. m < j => j \in m + 1..n + 1
        BY <1>1, <3>1, <3>2
      <4>2. j < m => m \in j + 1..n
        BY <1>1, <3>1, <3>2
      <4>3. more[j].key = k /\ lines[m].key = k
        BY <1>1, <2>1, <3>1, <3>2 DEF IsLast
      <4> QED
        BY <2>1, <3>2, <4>1, <4>2, <4>3 DEF IsLast
    <3>4. m = j
      BY <1>1, <3>1, <3>2, <3>3
    <3> QED
      <4>1. With(old, e.key, e.supported)[k] = old[k]
        BY <2>3, <3>1, WithOld
      <4> QED
        BY <1>1, <2>1, <3>1, <3>2, <3>4, <4>1
  <2> QED
    BY <2>2, <2>3
<1>5. Fcn(Load(more)) /\ Fcn(With(old, e.key, e.supported))
      /\ DOMAIN With(old, e.key, e.supported) = DOMAIN old \cup {e.key}
  BY <1>2, WithFcn, WithDomain DEF Keeps
<1>6. Load(more) = With(old, e.key, e.supported)
  BY <1>3, <1>4, <1>5, FcnEqual
<1> QED
  BY <1>6 DEF more, old

\* The dictionary says of a key what the lines say of it last.
LEMMA LoadLatest ==
  ASSUME NEW lines \in Seq(Entry), NEW k \in DOMAIN Load(lines)
  PROVE  /\ Load(lines)[k] \in BOOLEAN /\ k \in Keys
         /\ Load(lines)[k] = Latest(lines, k)
         /\ [key |-> k, supported |-> Load(lines)[k]] \in ToSet(lines)
<1>1. PICK m \in 1..Len(lines) :
        IsLast(lines, Len(lines), m, k) /\ Load(lines)[k] = lines[m].supported
  BY LoadKeeps DEF Keeps
<1>2. /\ m \in DOMAIN lines /\ lines[m] \in Entry /\ DOMAIN lines = 1..Len(lines)
      /\ Len(lines) \in Nat
  OBVIOUS
<1>3. /\ lines[m].supported \in BOOLEAN /\ lines[m].key \in Keys
      /\ lines[m] = [key |-> lines[m].key, supported |-> lines[m].supported]
  BY <1>2 DEF Entry
<1>4. k = lines[m].key /\ \A j \in m + 1..Len(lines) : lines[j].key # k
  BY <1>1 DEF IsLast
<1>5. lines[m] = [key |-> k, supported |-> Load(lines)[k]]
  BY <1>1, <1>3, <1>4
<1>6. lines[m] \in ToSet(lines)
  BY <1>2 DEF ToSet
<1>7. ASSUME Load(lines)[k] = TRUE PROVE Latest(lines, k)
  BY <1>2, <1>4, <1>5, <1>7 DEF Latest
<1>8. ASSUME NEW j \in DOMAIN lines, lines[j] = [key |-> k, supported |-> TRUE],
             \A x \in j + 1..Len(lines) : lines[x].key # k
      PROVE  Load(lines)[k] = TRUE
  <2>1. j \in 1..Len(lines) /\ lines[j].key = k /\ lines[j].supported = TRUE
    BY <1>2, <1>8
  <2>2. ~(j < m) /\ ~(m < j)
    <3>1. j < m => m \in j + 1..Len(lines)
      BY <1>2, <2>1
    <3>2. m < j => j \in m + 1..Len(lines)
      BY <1>2, <2>1
    <3> QED
      BY <1>4, <1>8, <2>1, <3>1, <3>2
  <2>3. j = m
    BY <1>2, <2>1, <2>2
  <2> QED
    BY <1>1, <2>1, <2>3
<1>9. Latest(lines, k) => Load(lines)[k] = TRUE
  BY <1>8 DEF Latest
<1>10. Load(lines)[k] \in BOOLEAN /\ Latest(lines, k) \in BOOLEAN
  BY <1>1, <1>3 DEF Latest
<1> QED
  BY <1>3, <1>4, <1>5, <1>6, <1>7, <1>9, <1>10

-----------------------------------------------------------------------------
(* One item: what is asked about it, and what a verdict makes of it.  The  *)
(* operators of the model, with the item's record as the parameter.        *)

ItemType ==
  [at : {"next", "asking", "record", "error"}, claims : Seq(Verdict),
   cited : Seq(BOOLEAN), tried : 0..PerCitation]

Complete(it, i) ==
  /\ Len(it.claims) = Len(Claims[i])
  /\ Len(it.cited) = Len(Citations[i]) \/ Tries(i) = 0

Asks(it, i) ==
  IF Len(it.claims) = Len(Claims[i])
  THEN <<Claims[i][it.tried + 1], Citations[i][Len(it.cited) + 1]>>
  ELSE <<Claims[i][Len(it.claims) + 1], Context>>

Takes(it, i, v) ==
  IF Len(it.claims) # Len(Claims[i])
  THEN [it EXCEPT !.at = "next", !.claims = Append(@, v)]
  ELSE IF v.supported \/ it.tried + 1 = Tries(i)
       THEN [it EXCEPT !.at = "next", !.cited = Append(@, v.supported), !.tried = 0]
       ELSE [it EXCEPT !.at = "next", !.tried = @ + 1]

\* No more is judged than there is, and what is asked is still open.
InBounds(it, i) ==
  /\ it \in ItemType
  /\ Len(it.claims) <= Len(Claims[i])
  /\ Len(it.cited) <= Len(Citations[i])
  /\ it.tried # 0 => it.tried < Tries(i)
  /\ it.at = "asking" => ~Complete(it, i)

LEMMA TriesIs ==
  ASSUME NEW i \in Items
  PROVE  /\ Tries(i) \in Nat /\ Tries(i) <= PerCitation /\ Tries(i) <= Len(Claims[i])
         /\ Claims[i] \in Seq(ClaimSet) /\ Citations[i] \in Seq(ChunkSet)
         /\ Len(Claims[i]) \in Nat /\ Len(Citations[i]) \in Nat
<1>1. Claims[i] \in Seq(ClaimSet) /\ Citations[i] \in Seq(ChunkSet)
  BY ConstantsAssumption
<1>2. Len(Claims[i]) \in Nat /\ Len(Citations[i]) \in Nat
  BY <1>1
<1> QED
  BY <1>1, <1>2, ConstantsAssumption DEF Tries

\* The record of an item before and after a step.
LEMMA ItemOperators ==
  ASSUME NEW r \in Runs, NEW i \in Items
  PROVE  /\ Finished(r, i) <=> Complete(item[r][i], i)
         /\ Question(r, i) = Asks(item[r][i], i)
         /\ \A v : Taken(r, i, v) = Takes(item[r][i], i, v)
<1>1. Finished(r, i) <=> Complete(item[r][i], i)
  BY DEF Finished, Complete, Judged, Cited, Judging
<1>2. Question(r, i) = Asks(item[r][i], i)
  BY DEF Question, Asks, Judged, Cited, Judging
<1>3. ASSUME NEW v PROVE Taken(r, i, v) = Takes(item[r][i], i, v)
  BY DEF Taken, Takes, Judged, Judging
<1> QED
  BY <1>1, <1>2, <1>3

\* An item that is not complete asks about a claim and a text there are.
LEMMA AsksKey ==
  ASSUME NEW i \in Items, NEW it, InBounds(it, i), ~Complete(it, i)
  PROVE  Asks(it, i) \in Keys
<1>1. /\ it.claims \in Seq(Verdict) /\ it.cited \in Seq(BOOLEAN) /\ it.tried \in Nat
      /\ Len(it.claims) \in Nat /\ Len(it.cited) \in Nat
  BY ConstantsAssumption DEF InBounds, ItemType
<1>2. CASE Len(it.claims) = Len(Claims[i])
  <2>1. it.tried + 1 \in 1..Len(Claims[i]) /\ Len(it.cited) + 1 \in 1..Len(Citations[i])
    BY <1>1, <1>2, TriesIs DEF InBounds, Complete
  <2>2. Claims[i][it.tried + 1] \in ClaimSet /\ Citations[i][Len(it.cited) + 1] \in ChunkSet
    BY <2>1, TriesIs
  <2> QED
    BY <1>2, <2>2 DEF Asks, Keys
<1>3. CASE Len(it.claims) # Len(Claims[i])
  <2>1. Len(it.claims) + 1 \in 1..Len(Claims[i])
    BY <1>1, <1>3, TriesIs DEF InBounds
  <2>2. Claims[i][Len(it.claims) + 1] \in ClaimSet
    BY <2>1, TriesIs
  <2> QED
    BY <1>3, <2>2 DEF Asks, Keys
<1> QED
  BY <1>2, <1>3

LEMMA TakesInBounds ==
  ASSUME NEW i \in Items, NEW it, InBounds(it, i), ~Complete(it, i), NEW v \in Verdict
  PROVE  InBounds(Takes(it, i, v), i)
<1>1. /\ it.claims \in Seq(Verdict) /\ it.cited \in Seq(BOOLEAN) /\ it.tried \in 0..PerCitation
      /\ Len(it.claims) \in Nat /\ Len(it.cited) \in Nat /\ v.supported \in BOOLEAN
      /\ it = [at |-> it.at, claims |-> it.claims, cited |-> it.cited, tried |-> it.tried]
  BY DEF InBounds, ItemType, Verdict
<1> DEFINE new == Takes(it, i, v)
<1>2. CASE Len(it.claims) # Len(Claims[i])
  <2>1. new = [at |-> "next", claims |-> Append(it.claims, v), cited |-> it.cited,
               tried |-> it.tried]
    BY <1>1, <1>2 DEF Takes
  <2>2. Append(it.claims, v) \in Seq(Verdict) /\ Len(Append(it.claims, v)) <= Len(Claims[i])
    BY <1>1, <1>2, TriesIs DEF InBounds
  <2> HIDE DEF new
  <2>3. /\ new.at = "next" /\ new.claims = Append(it.claims, v) /\ new.cited = it.cited
        /\ new.tried = it.tried
    BY <2>1
  <2>4. new \in ItemType
    BY <1>1, <2>1, <2>2 DEF ItemType
  <2>5. InBounds(new, i)
    BY <2>2, <2>3, <2>4 DEF InBounds
  <2> QED
    BY <2>5 DEF new
<1>3. CASE Len(it.claims) = Len(Claims[i]) /\ (v.supported \/ it.tried + 1 = Tries(i))
  <2>1. new = [at |-> "next", claims |-> it.claims, cited |-> Append(it.cited, v.supported),
               tried |-> 0]
    BY <1>1, <1>3 DEF Takes
  <2>2. /\ Append(it.cited, v.supported) \in Seq(BOOLEAN)
        /\ Len(Append(it.cited, v.supported)) <= Len(Citations[i])
    BY <1>1, <1>3, TriesIs DEF InBounds, Complete
  <2> HIDE DEF new
  <2>3. /\ new.at = "next" /\ new.claims = it.claims /\ new.cited = Append(it.cited, v.supported)
        /\ new.tried = 0
    BY <2>1
  <2>4. new \in ItemType
    BY <1>1, <2>1, <2>2, ConstantsAssumption DEF ItemType
  <2>5. InBounds(new, i)
    BY <2>2, <2>3, <2>4 DEF InBounds
  <2> QED
    BY <2>5 DEF new
<1>4. CASE Len(it.claims) = Len(Claims[i]) /\ ~(v.supported \/ it.tried + 1 = Tries(i))
  <2>1. new = [at |-> "next", claims |-> it.claims, cited |-> it.cited,
               tried |-> it.tried + 1]
    BY <1>1, <1>4 DEF Takes
  <2>2. it.tried + 1 \in 0..PerCitation /\ it.tried + 1 < Tries(i)
    BY <1>1, <1>4, TriesIs, ConstantsAssumption DEF InBounds, Complete
  <2> HIDE DEF new
  <2>3. /\ new.at = "next" /\ new.claims = it.claims /\ new.cited = it.cited
        /\ new.tried = it.tried + 1
    BY <2>1
  <2>4. new \in ItemType
    BY <1>1, <2>1, <2>2 DEF ItemType
  <2>5. InBounds(new, i)
    BY <2>2, <2>3, <2>4 DEF InBounds
  <2> QED
    BY <2>5 DEF new
<1> QED
  BY <1>2, <1>3, <1>4

-----------------------------------------------------------------------------
(* The steps.  Moves says that one item becomes new and no other changes.  *)

Moves(r, i, new) == item' = [item EXCEPT ![r] = [item[r] EXCEPT ![i] = new]]

\* A verdict read in the cache, and one the model has just given.
Read(r, i) ==
  [supported |-> entries[r][Asks(item[r][i], i)], parse_ok |-> TRUE, cached |-> TRUE]
Given(r, i, reply) ==
  [supported |-> Opinion(reply, Asks(item[r][i], i)), parse_ok |-> reply # "other",
   cached |-> FALSE]

\* The record that is complete: without claims, no citation is supported.
AllCited(it, i) ==
  IF Tries(i) = 0 THEN [c \in 1..Len(Citations[i]) |-> FALSE] ELSE it.cited
Filled(it, i) == [it EXCEPT !.at = "record", !.cited = AllCited(it, i)]

\* Judging goes no further than there are claims and citations, and only a
\* run that is judging has begun.
Begun == \A r \in Runs, i \in Items :
           InBounds(item[r][i], i) /\ (at[r] # "judging" => item[r][i] = NewItem)

LEMMA MovesIs ==
  ASSUME TypeOK, NEW r \in Runs, NEW i \in Items, NEW new, Moves(r, i, new)
  PROVE  /\ item'[r][i] = new
         /\ \A q \in Runs, j \in Items : q # r \/ j # i => item'[q][j] = item[q][j]
         /\ new \in ItemType => item' \in [Runs -> [Items -> ItemType]]
<1>1. item \in [Runs -> [Items -> ItemType]]
  BY DEF TypeOK, ItemType
<1>2. item' = [item EXCEPT ![r] = [item[r] EXCEPT ![i] = new]]
  BY DEF Moves
<1> QED
  BY <1>1, <1>2

LEMMA LookupMoves ==
  ASSUME TypeOK, NEW r \in Runs, NEW i \in Items, Lookup(r, i)
  PROVE  /\ Moves(r, i, Takes(item[r][i], i, Read(r, i)))
         /\ ~Complete(item[r][i], i) /\ item[r][i].at = "next" /\ at[r] = "judging"
         /\ mode[r] # "live" /\ Asks(item[r][i], i) \in DOMAIN entries[r]
         /\ UNCHANGED <<cache, mode, at, entries, said, last, loaded, faults>>
<1>1. item' = [item EXCEPT ![r][i] = Taken(r, i, [supported |-> entries[r][Question(r, i)],
                                                 parse_ok |-> TRUE, cached |-> TRUE])]
  BY DEF Lookup
<1>2. Taken(r, i, [supported |-> entries[r][Question(r, i)],
                   parse_ok |-> TRUE, cached |-> TRUE]) = Takes(item[r][i], i, Read(r, i))
  BY ItemOperators DEF Read
<1>3. Moves(r, i, Takes(item[r][i], i, Read(r, i)))
  BY <1>1, <1>2 DEF Moves
<1>4. /\ ~Complete(item[r][i], i) /\ item[r][i].at = "next" /\ at[r] = "judging"
      /\ mode[r] # "live" /\ Asks(item[r][i], i) \in DOMAIN entries[r]
  BY ItemOperators DEF Lookup, Turn, Hit, Judging
<1> QED
  BY <1>3, <1>4 DEF Lookup

\* A verdict read in the cache has the type of one.
LEMMA ReadVerdict ==
  ASSUME TypeOK, NEW r \in Runs, NEW i \in Items, Asks(item[r][i], i) \in DOMAIN entries[r]
  PROVE  Read(r, i) \in Verdict
<1>1. entries[r] \in Dict
  BY DEF TypeOK
<1>2. PICK S \in SUBSET Keys : entries[r] \in [S -> BOOLEAN]
  BY <1>1 DEF Dict
<1>3. entries[r][Asks(item[r][i], i)] \in BOOLEAN
  BY <1>2
<1> QED
  BY <1>3 DEF Read, Verdict

LEMMA MissMoves ==
  ASSUME TypeOK, NEW r \in Runs, NEW i \in Items, Miss(r, i)
  PROVE  /\ Moves(r, i, [item[r][i] EXCEPT !.at = "error"])
         /\ at[r] = "judging"
         /\ UNCHANGED <<cache, mode, at, entries, said, last, loaded, faults>>
BY DEF Miss, Turn, Moves, Judging

LEMMA AskMoves ==
  ASSUME TypeOK, NEW r \in Runs, NEW i \in Items, Ask(r, i)
  PROVE  /\ Moves(r, i, [item[r][i] EXCEPT !.at = "asking"])
         /\ at[r] = "judging" /\ mode[r] # "cached" /\ ~Complete(item[r][i], i)
         /\ UNCHANGED <<cache, mode, at, entries, said, last, loaded, faults>>
BY ItemOperators DEF Ask, Turn, Moves, Judging

LEMMA RecordMoves ==
  ASSUME TypeOK, NEW r \in Runs, NEW i \in Items, Record(r, i)
  PROVE  /\ Moves(r, i, Filled(item[r][i], i))
         /\ at[r] = "judging" /\ Complete(item[r][i], i)
         /\ UNCHANGED <<cache, mode, at, entries, said, last, loaded, faults>>
<1>1. item' = [item EXCEPT ![r][i].at = "record",
                           ![r][i].cited = IF Tries(i) = 0
                                           THEN [c \in 1..Len(Citations[i]) |-> FALSE] ELSE @]
  BY DEF Record
<1>2. item \in [Runs -> [Items -> ItemType]]
  BY DEF TypeOK, ItemType
<1>3. item' = [item EXCEPT ![r] = [item[r] EXCEPT ![i] = Filled(item[r][i], i)]]
  BY <1>1, <1>2 DEF Filled, AllCited, ItemType
<1>4. at[r] = "judging" /\ Complete(item[r][i], i)
  BY ItemOperators DEF Record
<1> QED
  BY <1>3, <1>4 DEF Record, Moves

\* A reply is put and taken, or lost with the append.
LEMMA ReplyMoves ==
  ASSUME TypeOK, Begun, NEW r \in Runs, NEW i \in Items,
         NEW reply \in Replies[Question(r, i)], Reply(r, i, reply)
  PROVE  LET k == Asks(item[r][i], i)
             v == Opinion(reply, k)
         IN  /\ item[r][i].at = "asking" /\ at[r] = "judging" /\ ~Complete(item[r][i], i)
             /\ k \in Keys /\ v \in BOOLEAN /\ reply \in {"yes", "no", "other"}
             /\ said' = said \cup {<<k, reply>>}
             /\ \/ Put(r, k, v) /\ Moves(r, i, Takes(item[r][i], i, Given(r, i, reply)))
                \/ PutFails(r, k, v) /\ Moves(r, i, [item[r][i] EXCEPT !.at = "error"])
             /\ UNCHANGED <<mode, at, loaded>>
<1> DEFINE k == Asks(item[r][i], i)
           v == Opinion(reply, k)
<1>1. k = Question(r, i) /\ item[r][i].at = "asking"
  BY ItemOperators DEF Reply, Judging
<1>2. ~Complete(item[r][i], i) /\ InBounds(item[r][i], i) /\ at[r] = "judging"
  BY <1>1 DEF Begun, InBounds, NewItem
<1>3. k \in Keys
  BY <1>2, AsksKey
<1>4. reply \in {"yes", "no", "other"} /\ Heuristic[k] \in BOOLEAN
  BY <1>1, <1>3, ConstantsAssumption
<1>5. v \in BOOLEAN
  BY <1>4 DEF Opinion
<1>6. Taken(r, i, [supported |-> v, parse_ok |-> reply # "other", cached |-> FALSE])
        = Takes(item[r][i], i, Given(r, i, reply))
  BY ItemOperators DEF Given
<1> HIDE DEF k
<1>7. /\ said' = said \cup {<<k, reply>>}
      /\ \/ /\ Put(r, k, v)
            /\ item' = [item EXCEPT ![r][i] =
                 Taken(r, i, [supported |-> v, parse_ok |-> reply # "other", cached |-> FALSE])]
         \/ /\ PutFails(r, k, v)
            /\ item' = [item EXCEPT ![r][i].at = "error"]
      /\ UNCHANGED <<mode, at, loaded>>
  BY <1>1 DEF Reply
<1> HIDE DEF v
<1>8. \/ Put(r, k, v) /\ Moves(r, i, Takes(item[r][i], i, Given(r, i, reply)))
      \/ PutFails(r, k, v) /\ Moves(r, i, [item[r][i] EXCEPT !.at = "error"])
  BY <1>6, <1>7 DEF Moves
<1> QED
  BY <1>1, <1>2, <1>3, <1>4, <1>5, <1>7, <1>8 DEF k, v

-----------------------------------------------------------------------------
(* Types and bounds.                                                       *)

LEMMA WithDict ==
  ASSUME NEW d \in Dict, NEW k \in Keys, NEW v \in BOOLEAN
  PROVE  With(d, k, v) \in Dict
<1>1. PICK S \in SUBSET Keys : d \in [S -> BOOLEAN]
  BY DEF Dict
<1>2. S \cup {k} \in SUBSET Keys /\ With(d, k, v) \in [S \cup {k} -> BOOLEAN]
  BY <1>1 DEF With
<1> QED
  BY <1>2 DEF Dict

LEMMA LoadDict ==
  ASSUME NEW lines \in Seq(Entry)
  PROVE  Load(lines) \in Dict
<1> DEFINE d == Load(lines)
<1>1. Fcn(d)
  BY LoadKeeps DEF Keeps
<1>2. \A k \in DOMAIN d : k \in Keys /\ d[k] \in BOOLEAN
  BY LoadLatest
<1> HIDE DEF d
<1>3. DOMAIN d \in SUBSET Keys /\ d \in [DOMAIN d -> BOOLEAN]
  BY <1>1, <1>2 DEF Fcn
<1>4. d \in Dict
  BY <1>3 DEF Dict
<1> QED
  BY <1>4 DEF d

\* Without a bad line the file is made of entries.
LEMMA AllEntries ==
  ASSUME NEW lines \in Seq(Entry \cup {Bad}), Bad \notin ToSet(lines)
  PROVE  lines \in Seq(Entry)
<1>1. lines \in [1..Len(lines) -> Entry \cup {Bad}] /\ DOMAIN lines = 1..Len(lines)
      /\ Len(lines) \in Nat
  OBVIOUS
<1>2. ASSUME NEW n \in 1..Len(lines) PROVE lines[n] \in Entry
  <2>1. lines[n] \in ToSet(lines)
    BY <1>1 DEF ToSet
  <2> QED
    BY <1>1, <2>1
<1>3. lines \in [1..Len(lines) -> Entry]
  BY <1>1, <1>2
<1> QED
  BY <1>1, <1>3

\* A sequence whose last element is replaced, or that has one more.
LEMMA LastReplaced ==
  ASSUME NEW S, NEW s \in Seq(S), NEW b \in S
  PROVE  /\ [s EXCEPT ![Len(s)] = b] \in Seq(S)
         /\ ToSet([s EXCEPT ![Len(s)] = b]) \subseteq ToSet(s) \cup {b}
<1> DEFINE n == Len(s)
           new == [s EXCEPT ![n] = b]
<1>1. n \in Nat /\ s \in [1..n -> S] /\ DOMAIN s = 1..n
  OBVIOUS
<1> HIDE DEF n
<1>2. new \in [1..n -> S] /\ \A m \in 1..n : new[m] = s[m] \/ new[m] = b
  BY <1>1
<1> HIDE DEF new
<1>3. new \in Seq(S)
  BY <1>1, <1>2
<1>4. ToSet(new) \subseteq ToSet(s) \cup {b}
  BY <1>1, <1>2 DEF ToSet
<1> QED
  BY <1>3, <1>4 DEF new, n

LEMMA OneAppended ==
  ASSUME NEW S, NEW s \in Seq(S), NEW b \in S
  PROVE  /\ Append(s, b) \in Seq(S)
         /\ ToSet(Append(s, b)) \subseteq ToSet(s) \cup {b}
<1> DEFINE n == Len(s)
           new == Append(s, b)
<1>1. /\ n \in Nat /\ DOMAIN s = 1..n /\ new \in Seq(S) /\ DOMAIN new = 1..n + 1
      /\ \A m \in 1..n : new[m] = s[m]
      /\ new[n + 1] = b
  OBVIOUS
<1> HIDE DEF n, new
<1>2. \A m \in DOMAIN new : m \in 1..n \/ m = n + 1
  BY <1>1
<1>3. ToSet(new) \subseteq ToSet(s) \cup {b}
  BY <1>1, <1>2 DEF ToSet
<1> QED
  BY <1>1, <1>3 DEF new

\* The lines after an append, whole or cut short.
LEMMA AppendedIs ==
  ASSUME TypeOK, NEW r, NEW e \in Entry
  PROVE  /\ Appended(r, e) \in Seq(Entry \cup {Bad})
         /\ ToSet(Appended(r, e)) \subseteq ToSet(file) \cup {e, Bad}
<1>1. file \in Seq(Entry \cup {Bad}) /\ e \in Entry \cup {Bad} /\ Bad \in Entry \cup {Bad}
  BY DEF TypeOK
<1>2. /\ [file EXCEPT ![Len(file)] = Bad] \in Seq(Entry \cup {Bad})
      /\ ToSet([file EXCEPT ![Len(file)] = Bad]) \subseteq ToSet(file) \cup {Bad}
  BY <1>1, LastReplaced
<1>3. /\ Append(file, e) \in Seq(Entry \cup {Bad})
      /\ ToSet(Append(file, e)) \subseteq ToSet(file) \cup {e}
  BY <1>1, OneAppended
<1> DEFINE x == [file EXCEPT ![Len(file)] = Bad]
           y == Append(file, e)
<1>4. Appended(r, e) = x \/ Appended(r, e) = y
  BY DEF Appended
<1> HIDE DEF x, y
<1>5. /\ x \in Seq(Entry \cup {Bad}) /\ ToSet(x) \subseteq ToSet(file) \cup {Bad}
      /\ y \in Seq(Entry \cup {Bad}) /\ ToSet(y) \subseteq ToSet(file) \cup {e}
  BY <1>2, <1>3 DEF x, y
<1> QED
  BY <1>4, <1>5

\* What PutFails may leave of the file.
LEMMA CutShort ==
  ASSUME TypeOK, NEW r, NEW k \in Keys, NEW v \in BOOLEAN, PutFails(r, k, v)
  PROVE  /\ file' \in Seq(Entry \cup {Bad}) /\ open' \in BOOLEAN
         /\ ToSet(file') \subseteq ToSet(file) \cup {[key |-> k, supported |-> v], Bad}
<1>1. file \in Seq(Entry \cup {Bad}) /\ open \in BOOLEAN /\ Bad \in Entry \cup {Bad}
  BY DEF TypeOK
<1>2. [key |-> k, supported |-> v] \in Entry
  BY DEF Entry
<1>3. /\ [file EXCEPT ![Len(file)] = Bad] \in Seq(Entry \cup {Bad})
      /\ ToSet([file EXCEPT ![Len(file)] = Bad]) \subseteq ToSet(file) \cup {Bad}
  BY <1>1, LastReplaced
<1>4. /\ Append(file, Bad) \in Seq(Entry \cup {Bad})
      /\ ToSet(Append(file, Bad)) \subseteq ToSet(file) \cup {Bad}
  BY <1>1, OneAppended
<1> DEFINE x == [file EXCEPT ![Len(file)] = Bad]
           y == Append(file, Bad)
           z == Appended(r, [key |-> k, supported |-> v])
<1>5. /\ file' = file \/ file' = x \/ file' = y \/ file' = z
      /\ open' = open \/ open' = TRUE
  BY DEF PutFails, cache
<1> HIDE DEF x, y, z
<1>6. /\ x \in Seq(Entry \cup {Bad}) /\ ToSet(x) \subseteq ToSet(file) \cup {Bad}
      /\ y \in Seq(Entry \cup {Bad}) /\ ToSet(y) \subseteq ToSet(file) \cup {Bad}
  BY <1>3, <1>4 DEF x, y
<1>7. /\ z \in Seq(Entry \cup {Bad})
      /\ ToSet(z) \subseteq ToSet(file) \cup {[key |-> k, supported |-> v], Bad}
  BY <1>2, AppendedIs DEF z
<1> QED
  BY <1>1, <1>5, <1>6, <1>7

LEMMA FilledInBounds ==
  ASSUME NEW i \in Items, NEW it, InBounds(it, i), Complete(it, i)
  PROVE  InBounds(Filled(it, i), i)
<1> DEFINE all == [c \in 1..Len(Citations[i]) |-> FALSE]
           cited == AllCited(it, i)
           new == [it EXCEPT !.at = "record", !.cited = cited]
<1>1. all \in Seq(BOOLEAN) /\ Len(all) = Len(Citations[i])
  BY TriesIs
<1> HIDE DEF all
<1>2. cited = all \/ cited = it.cited
  BY DEF AllCited, all
<1> HIDE DEF cited
<1>3. cited \in Seq(BOOLEAN) /\ Len(cited) <= Len(Citations[i])
  BY <1>1, <1>2, TriesIs DEF InBounds, ItemType
<1>4. it \in ItemType
  BY DEF InBounds
<1>5. /\ new.at = "record" /\ new.claims = it.claims /\ new.cited = cited
      /\ new.tried = it.tried /\ new \in ItemType
  BY <1>3, <1>4 DEF ItemType
<1> HIDE DEF new
<1>6. InBounds(new, i)
  BY <1>3, <1>5 DEF InBounds
<1> QED
  BY <1>6 DEF new, cited, Filled

\* An item that fails, or that waits for a reply to a question that is open.
LEMMA PhaseInBounds ==
  ASSUME NEW i \in Items, NEW it, InBounds(it, i), NEW p \in {"asking", "error"},
         p = "asking" => ~Complete(it, i)
  PROVE  InBounds([it EXCEPT !.at = p], i)
<1> DEFINE new == [it EXCEPT !.at = p]
<1>1. /\ new.at = p /\ new.claims = it.claims /\ new.cited = it.cited
      /\ new.tried = it.tried /\ new \in ItemType
  BY DEF InBounds, ItemType
<1> HIDE DEF new
<1>2. InBounds(new, i)
  BY <1>1 DEF InBounds, Complete
<1> QED
  BY <1>2 DEF new

LEMMA BegunFirst ==
  ASSUME Init
  PROVE  TypeOK /\ Begun
<1>1. NewItem \in ItemType
  BY ConstantsAssumption DEF NewItem, ItemType
<1>2. ASSUME NEW i \in Items PROVE InBounds(NewItem, i)
  BY <1>1, TriesIs DEF InBounds, NewItem
<1>3. item \in [Runs -> [Items -> ItemType]]
  BY <1>1 DEF Init
<1>4. Nothing \in Dict
  <2>1. {} \in SUBSET Keys /\ Nothing \in [{} -> BOOLEAN]
    BY DEF Nothing
  <2> QED
    BY <2>1 DEF Dict
<1>5. TypeOK
  <2>1. <<>> \in Seq(Entry \cup {Bad})
    OBVIOUS
  <2>2. file \in Seq(Entry \cup {Bad}) /\ loaded \in [Runs -> Seq(Entry \cup {Bad})]
    BY <2>1 DEF Init
  <2>3. entries \in [Runs -> Dict] /\ last \in Dict
    BY <1>4 DEF Init
  <2>4. mode \in [Runs -> Modes \cup {"none"}] /\ at \in [Runs -> {"new", "judging", "raised"}]
    BY DEF Init
  <2>5. open \in BOOLEAN /\ said \subseteq Keys \X {"yes", "no", "other"}
    BY DEF Init
  <2>6. faults \in 0..MaxFaults
    BY ConstantsAssumption DEF Init
  <2> QED
    BY <1>3, <2>2, <2>3, <2>4, <2>5, <2>6 DEF TypeOK, ItemType
<1>6. Begun
  BY <1>2 DEF Begun, Init
<1> QED
  BY <1>5, <1>6

\* A move within the bounds, of an item of a run that is judging.
LEMMA MoveKeepsBegun ==
  ASSUME TypeOK, Begun, NEW r \in Runs, NEW i \in Items, NEW new, Moves(r, i, new),
         InBounds(new, i), at[r] = "judging", at' = at
  PROVE  item' \in [Runs -> [Items -> ItemType]] /\ Begun'
<1>1. new \in ItemType
  BY DEF InBounds
<1>2. /\ item'[r][i] = new /\ item' \in [Runs -> [Items -> ItemType]]
      /\ \A q \in Runs, j \in Items : q # r \/ j # i => item'[q][j] = item[q][j]
  BY <1>1, MovesIs
<1>3. ASSUME NEW q \in Runs, NEW j \in Items
      PROVE  InBounds(item'[q][j], j) /\ (at'[q] # "judging" => item'[q][j] = NewItem)
  <2>1. CASE q = r /\ j = i
    BY <1>2, <2>1
  <2>2. CASE q # r \/ j # i
    BY <1>2, <2>2 DEF Begun
  <2> QED
    BY <2>1, <2>2
<1> QED
  BY <1>2, <1>3 DEF Begun

LEMMA BegunStep ==
  ASSUME TypeOK, Begun, [Next]_vars
  PROVE  TypeOK' /\ Begun'
<1>1. ASSUME NEW r \in Runs, NEW m \in Modes, Start(r, m) PROVE TypeOK' /\ Begun'
  <2>1. /\ mode' \in [Runs -> Modes \cup {"none"}]
        /\ loaded' \in [Runs -> Seq(Entry \cup {Bad})]
        /\ at' \in [Runs -> {"new", "judging", "raised"}]
    BY <1>1 DEF TypeOK, Start
  <2>2. entries' \in [Runs -> Dict]
    <3>1. CASE Bad \in ToSet(file)
      BY <1>1, <3>1 DEF TypeOK, Start
    <3>2. CASE Bad \notin ToSet(file)
      <4>1. Load(file) \in Dict
        BY <3>2, AllEntries, LoadDict DEF TypeOK
      <4> QED
        BY <1>1, <3>2, <4>1 DEF TypeOK, Start
    <3> QED
      BY <3>1, <3>2
  <2>3. TypeOK'
    BY <1>1, <2>1, <2>2 DEF TypeOK, Start, cache
  <2>4. Begun'
    <3>1. item' = item /\ \A q \in Runs : at'[q] # "judging" => at[q] # "judging"
      BY <1>1 DEF TypeOK, Start
    <3> QED
      BY <3>1 DEF Begun
  <2> QED
    BY <2>3, <2>4
<1>2. ASSUME NEW r \in Runs, NEW i \in Items, NEW new, Moves(r, i, new), InBounds(new, i),
             at[r] = "judging",
             UNCHANGED <<cache, mode, at, entries, said, last, loaded, faults>>
      PROVE  TypeOK' /\ Begun'
  <2>1. item' \in [Runs -> [Items -> ItemType]] /\ Begun'
    BY <1>2, MoveKeepsBegun
  <2>2. TypeOK'
    BY <1>2, <2>1 DEF TypeOK, ItemType, cache
  <2> QED
    BY <2>1, <2>2
<1>3. ASSUME NEW r \in Runs, NEW i \in Items, Lookup(r, i) PROVE TypeOK' /\ Begun'
  <2>1. Read(r, i) \in Verdict
    BY <1>3, LookupMoves, ReadVerdict
  <2>2. InBounds(Takes(item[r][i], i, Read(r, i)), i)
    BY <1>3, <2>1, LookupMoves, TakesInBounds DEF Begun
  <2> QED
    BY <1>2, <1>3, <2>2, LookupMoves
<1>4. ASSUME NEW r \in Runs, NEW i \in Items, Miss(r, i) PROVE TypeOK' /\ Begun'
  <2>1. InBounds([item[r][i] EXCEPT !.at = "error"], i)
    BY PhaseInBounds DEF Begun
  <2> QED
    BY <1>2, <1>4, <2>1, MissMoves
<1>5. ASSUME NEW r \in Runs, NEW i \in Items, Ask(r, i) PROVE TypeOK' /\ Begun'
  <2>1. InBounds([item[r][i] EXCEPT !.at = "asking"], i)
    BY <1>5, AskMoves, PhaseInBounds DEF Begun
  <2> QED
    BY <1>2, <1>5, <2>1, AskMoves
<1>6. ASSUME NEW r \in Runs, NEW i \in Items, Record(r, i) PROVE TypeOK' /\ Begun'
  <2>1. InBounds(Filled(item[r][i], i), i)
    BY <1>6, RecordMoves, FilledInBounds DEF Begun
  <2> QED
    BY <1>2, <1>6, <2>1, RecordMoves
<1>7. ASSUME NEW r \in Runs, NEW i \in Items, NEW reply \in Replies[Question(r, i)],
             Reply(r, i, reply)
      PROVE  TypeOK' /\ Begun'
  <2> DEFINE k == Asks(item[r][i], i)
             v == Opinion(reply, k)
  <2>1. /\ at[r] = "judging" /\ ~Complete(item[r][i], i) /\ k \in Keys /\ v \in BOOLEAN
        /\ reply \in {"yes", "no", "other"}
        /\ said' = said \cup {<<k, reply>>}
        /\ \/ Put(r, k, v) /\ Moves(r, i, Takes(item[r][i], i, Given(r, i, reply)))
           \/ PutFails(r, k, v) /\ Moves(r, i, [item[r][i] EXCEPT !.at = "error"])
        /\ mode' = mode /\ at' = at /\ loaded' = loaded
    BY <1>7, ReplyMoves
  <2>2. Given(r, i, reply) \in Verdict
    BY <2>1 DEF Given, Verdict
  <2>3. InBounds(item[r][i], i)
    BY DEF Begun
  <2> HIDE DEF k, v
  <2>4. item' \in [Runs -> [Items -> ItemType]] /\ Begun'
    <3>1. InBounds(Takes(item[r][i], i, Given(r, i, reply)), i)
      BY <2>1, <2>2, <2>3, TakesInBounds
    <3>2. InBounds([item[r][i] EXCEPT !.at = "error"], i)
      BY <2>3, PhaseInBounds
    <3> QED
      BY <2>1, <3>1, <3>2, MoveKeepsBegun
  <2>5. entries' \in [Runs -> Dict] /\ last' \in Dict
    <3>1. entries[r] \in Dict /\ last \in Dict /\ entries \in [Runs -> Dict]
      BY DEF TypeOK
    <3>2. With(entries[r], k, v) \in Dict /\ With(last, k, v) \in Dict
      BY <2>1, <3>1, WithDict
    <3>3. entries' = [entries EXCEPT ![r] = With(entries[r], k, v)]
          /\ (last' = With(last, k, v) \/ last' = last)
      BY <2>1 DEF Put, PutFails
    <3> QED
      BY <3>1, <3>2, <3>3
  <2>6. file' \in Seq(Entry \cup {Bad}) /\ open' \in BOOLEAN
    <3>1. CASE Put(r, k, v)
      <4>1. [key |-> k, supported |-> v] \in Entry
        BY <2>1 DEF Entry
      <4> QED
        BY <3>1, <4>1, AppendedIs DEF Put
    <3>2. CASE PutFails(r, k, v)
      BY <2>1, <3>2, CutShort
    <3> QED
      BY <2>1, <3>1, <3>2
  <2>7. faults' \in 0..MaxFaults
    BY <2>1, ConstantsAssumption DEF Put, PutFails, TypeOK
  <2>8. said' \subseteq Keys \X {"yes", "no", "other"}
    BY <2>1 DEF TypeOK
  <2>9. TypeOK'
    BY <2>1, <2>4, <2>5, <2>6, <2>7, <2>8 DEF TypeOK, ItemType
  <2> QED
    BY <2>4, <2>9
<1>8. CASE UNCHANGED vars
  <2>1. TypeOK' /\ Begun'
    BY <1>8 DEF TypeOK, Begun, vars, cache
  <2> QED
    BY <2>1
<1>9. ASSUME NEW r \in Runs, NEW i \in Sample[r], Judge(r, i) PROVE TypeOK' /\ Begun'
  <2>1. i \in Items
    BY ConstantsAssumption
  <2> QED
    BY <1>3, <1>4, <1>5, <1>6, <1>7, <1>9, <2>1 DEF Judge
<1> QED
  BY <1>1, <1>8, <1>9 DEF Next

LEMMA RunsBegun == Spec => [](TypeOK /\ Begun)
<1>1. Init => TypeOK /\ Begun
  BY BegunFirst
<1>2. TypeOK /\ Begun /\ [Next]_vars => (TypeOK /\ Begun)'
  BY BegunStep
<1> QED
  BY <1>1, <1>2, PTL DEF Spec

\* The state of the cache and of every run keeps its type, and no item is
\* judged further than it has claims and citations, whatever replies, failed
\* appends and broken files the runs meet.
THEOREM TypeCorrect == Spec => []TypeOK
BY RunsBegun, PTL

-----------------------------------------------------------------------------
(* Verdicts and what the model has said.                                   *)

\* Some reply in S is a ground for v about k.
Rests(S, k, v) ==
  \E p \in S : /\ p[1] = k
               /\ p[2] = "other" => Heuristic[k] = v
               /\ p[2] # "other" => (p[2] = "yes") = v

\* What VerdictsWereSaid says of one verdict v about k.
Held(S, k, v) ==
  /\ Rests(S, k, v.supported)
  /\ ~v.cached /\ v.parse_ok => <<k, IF v.supported THEN "yes" ELSE "no">> \in S
  /\ ~v.parse_ok => ~v.cached /\ <<k, "other">> \in S /\ v.supported = Heuristic[k]

\* The lines, the dictionaries and the judgments all rest on replies.
FileRests == \A e \in ToSet(file) \cap Entry : Rests(said, e.key, e.supported)
EntriesRest == \A r \in Runs : \A k \in DOMAIN entries[r] : Rests(said, k, entries[r][k])
ClaimsHeld ==
  \A r \in Runs, i \in Items : \A c \in DOMAIN item[r][i].claims :
    Held(said, <<Claims[i][c], Context>>, item[r][i].claims[c])

LEMMA ClaimsHeldSaid ==
  ASSUME ClaimsHeld
  PROVE  VerdictsWereSaid
<1>1. \A k, v : Rests(said, k, v) => Grounds(k, v) # {}
  BY DEF Rests, Grounds
<1>2. ASSUME NEW r \in Runs, NEW i \in Items, NEW c \in DOMAIN item[r][i].claims
      PROVE  LET v == item[r][i].claims[c]
                 k == <<Claims[i][c], Context>>
             IN  /\ Grounds(k, v.supported) # {}
                 /\ ~v.cached /\ v.parse_ok => <<k, IF v.supported THEN "yes" ELSE "no">> \in said
                 /\ ~v.parse_ok => ~v.cached /\ <<k, "other">> \in said /\ v.supported = Heuristic[k]
  <2> DEFINE v == item[r][i].claims[c]
             k == <<Claims[i][c], Context>>
  <2>1. Held(said, k, v)
    BY DEF ClaimsHeld
  <2> HIDE DEF v, k
  <2>2. /\ Grounds(k, v.supported) # {}
        /\ ~v.cached /\ v.parse_ok => <<k, IF v.supported THEN "yes" ELSE "no">> \in said
        /\ ~v.parse_ok => ~v.cached /\ <<k, "other">> \in said /\ v.supported = Heuristic[k]
    BY <1>1, <2>1 DEF Held
  <2> QED
    BY <2>2 DEF v, k
<1> QED
  BY <1>2 DEF VerdictsWereSaid

\* What has been said stays said.
LEMMA RestsStill ==
  ASSUME NEW S, NEW T, S \subseteq T, NEW k, NEW v, Rests(S, k, v)
  PROVE  Rests(T, k, v)
BY DEF Rests

LEMMA HeldStill ==
  ASSUME NEW S, NEW T, S \subseteq T, NEW k, NEW v, Held(S, k, v)
  PROVE  Held(T, k, v)
BY RestsStill DEF Held

\* The opinion formed of a reply rests on it.
LEMMA OpinionRests ==
  ASSUME NEW S, NEW k \in Keys, NEW reply \in {"yes", "no", "other"}, <<k, reply>> \in S
  PROVE  Rests(S, k, Opinion(reply, k))
<1>1. Heuristic[k] \in BOOLEAN
  BY ConstantsAssumption
<1> DEFINE p == <<k, reply>>
<1>2. p \in S /\ p[1] = k /\ p[2] = reply
  OBVIOUS
<1> HIDE DEF p
<1> QED
  BY <1>1, <1>2 DEF Rests, Opinion

LEMMA OpinionHeld ==
  ASSUME NEW S, NEW k \in Keys, NEW reply \in {"yes", "no", "other"}, <<k, reply>> \in S
  PROVE  Held(S, k, [supported |-> Opinion(reply, k), parse_ok |-> reply # "other",
                     cached |-> FALSE])
<1>1. Heuristic[k] \in BOOLEAN
  BY ConstantsAssumption
<1>2. Rests(S, k, Opinion(reply, k))
  BY OpinionRests
<1>3. reply # "other" => reply = IF Opinion(reply, k) THEN "yes" ELSE "no"
  BY DEF Opinion
<1>4. reply = "other" => Opinion(reply, k) = Heuristic[k]
  BY <1>1 DEF Opinion
<1> DEFINE v == [supported |-> Opinion(reply, k), parse_ok |-> reply # "other",
                 cached |-> FALSE]
<1>5. /\ v.supported = Opinion(reply, k) /\ ~v.cached
      /\ v.parse_ok = (reply # "other")
  OBVIOUS
<1> HIDE DEF v
<1>6. Held(S, k, v)
  BY <1>2, <1>3, <1>4, <1>5 DEF Held
<1> QED
  BY <1>6 DEF v

\* A verdict that is taken is the judgment of the claim that was asked about,
\* or is about a citation.
LEMMA TakesClaims ==
  ASSUME NEW i \in Items, NEW it \in ItemType, NEW v,
         NEW c \in DOMAIN Takes(it, i, v).claims
  PROVE  \/ c \in DOMAIN it.claims /\ Takes(it, i, v).claims[c] = it.claims[c]
         \/ Takes(it, i, v).claims[c] = v /\ Asks(it, i) = <<Claims[i][c], Context>>
<1>1. it.claims \in Seq(Verdict) /\ Len(it.claims) \in Nat
  BY DEF ItemType
<1>2. CASE Len(it.claims) = Len(Claims[i])
  <2>1. Takes(it, i, v).claims = it.claims
    BY <1>2 DEF Takes, ItemType
  <2> QED
    BY <2>1
<1>3. CASE Len(it.claims) # Len(Claims[i])
  <2>1. Takes(it, i, v).claims = Append(it.claims, v)
    BY <1>3 DEF Takes, ItemType
  <2>2. c \in 1..Len(it.claims) \/ c = Len(it.claims) + 1
    BY <1>1, <2>1
  <2>3. CASE c \in 1..Len(it.claims)
    BY <1>1, <2>1, <2>3
  <2>4. CASE c = Len(it.claims) + 1
    <3>1. Takes(it, i, v).claims[c] = v
      BY <1>1, <2>1, <2>4
    <3>2. Asks(it, i) = <<Claims[i][c], Context>>
      BY <1>3, <2>4 DEF Asks
    <3> QED
      BY <3>1, <3>2
  <2> QED
    BY <2>2, <2>3, <2>4
<1> QED
  BY <1>2, <1>3

\* The other moves judge no claim.
LEMMA ClaimsStay ==
  ASSUME NEW it \in ItemType, NEW i, NEW p
  PROVE  [it EXCEPT !.at = p].claims = it.claims /\ Filled(it, i).claims = it.claims
BY DEF ItemType, Filled

\* A move that judges no claim, or one claim by a verdict that holds.
LEMMA MoveHeld ==
  ASSUME TypeOK, ClaimsHeld, said \subseteq said', NEW r \in Runs, NEW i \in Items, NEW new,
         Moves(r, i, new),
         \A c \in DOMAIN new.claims :
           \/ c \in DOMAIN item[r][i].claims /\ new.claims[c] = item[r][i].claims[c]
           \/ Held(said', <<Claims[i][c], Context>>, new.claims[c])
  PROVE  ClaimsHeld'
<1> DEFINE S == said'
           jtem == item'
<1> HIDE DEF S
<1>1. /\ item'[r][i] = new
      /\ \A q \in Runs, j \in Items : q # r \/ j # i => item'[q][j] = item[q][j]
  BY MovesIs
<1>2. \A q \in Runs, j \in Items : \A c \in DOMAIN item[q][j].claims :
        Held(S, <<Claims[j][c], Context>>, item[q][j].claims[c])
  BY HeldStill DEF ClaimsHeld, S
<1> HIDE DEF jtem
<1>3. ASSUME NEW q \in Runs, NEW j \in Items, NEW c \in DOMAIN jtem[q][j].claims
      PROVE  Held(S, <<Claims[j][c], Context>>, jtem[q][j].claims[c])
  <2>1. CASE q = r /\ j = i
    <3>1. jtem[q][j] = new
      BY <1>1, <2>1 DEF jtem
    <3>2. \/ c \in DOMAIN item[r][i].claims /\ new.claims[c] = item[r][i].claims[c]
          \/ Held(S, <<Claims[i][c], Context>>, new.claims[c])
      BY <3>1 DEF S
    <3> QED
      BY <1>2, <2>1, <3>1, <3>2
  <2>2. CASE q # r \/ j # i
    <3>1. jtem[q][j] = item[q][j]
      BY <1>1, <2>2 DEF jtem
    <3> QED
      BY <1>2, <3>1
  <2> QED
    BY <2>1, <2>2
<1> QED
  BY <1>3 DEF ClaimsHeld, S, jtem

\* What is put rests on the reply.
LEMMA WithRests ==
  ASSUME NEW d, NEW k, NEW v, NEW S, Rests(S, k, v),
         \A x \in DOMAIN d : Rests(S, x, d[x]),
         NEW x \in DOMAIN With(d, k, v)
  PROVE  Rests(S, x, With(d, k, v)[x])
<1>1. CASE x = k
  BY <1>1, WithNew
<1>2. CASE x # k
  <2>1. x \in DOMAIN d
    <3>1. DOMAIN With(d, k, v) = DOMAIN d \cup {k}
      BY WithDomain
    <3> QED
      BY <1>2, <3>1
  <2>2. With(d, k, v)[x] = d[x]
    BY <1>2, <2>1, WithOld
  <2> QED
    BY <2>1, <2>2
<1> QED
  BY <1>1, <1>2

LEMMA RestFirst ==
  ASSUME Init
  PROVE  FileRests /\ EntriesRest /\ ClaimsHeld
<1>1. FileRests
  <2>1. ToSet(file) = {}
    BY DEF Init, ToSet
  <2> QED
    BY <2>1 DEF FileRests
<1>2. EntriesRest
  <2>1. \A r \in Runs : DOMAIN entries[r] = {}
    BY DEF Init, Nothing
  <2> QED
    BY <2>1 DEF EntriesRest
<1>3. ClaimsHeld
  <2>1. \A r \in Runs, i \in Items : DOMAIN item[r][i].claims = {}
    BY DEF Init, NewItem
  <2> QED
    BY <2>1 DEF ClaimsHeld
<1> QED
  BY <1>1, <1>2, <1>3

LEMMA RestStep ==
  ASSUME TypeOK, Begun, FileRests, EntriesRest, ClaimsHeld, [Next]_vars
  PROVE  FileRests' /\ EntriesRest' /\ ClaimsHeld'
<1>1. ASSUME NEW r \in Runs, NEW m \in Modes, Start(r, m)
      PROVE  FileRests' /\ EntriesRest' /\ ClaimsHeld'
  <2>1. file' = file /\ said' = said /\ item' = item
    BY <1>1 DEF Start, cache
  <2>2. FileRests' /\ ClaimsHeld'
    BY <2>1 DEF FileRests, ClaimsHeld
  <2>3. CASE Bad \in ToSet(file)
    <3>1. entries' = entries
      BY <1>1, <2>3 DEF Start
    <3> QED
      BY <2>1, <2>2, <3>1 DEF EntriesRest
  <2>4. CASE Bad \notin ToSet(file)
    <3>1. file \in Seq(Entry)
      BY <2>4, AllEntries DEF TypeOK
    <3>2. ASSUME NEW k \in DOMAIN Load(file) PROVE Rests(said, k, Load(file)[k])
      <4> DEFINE e == [key |-> k, supported |-> Load(file)[k]]
      <4>1. e \in ToSet(file) /\ e \in Entry
        BY <3>1, LoadLatest DEF Entry
      <4>2. e.key = k /\ e.supported = Load(file)[k]
        OBVIOUS
      <4> HIDE DEF e
      <4> QED
        BY <4>1, <4>2 DEF FileRests
    <3>3. entries' = [entries EXCEPT ![r] = Load(file)] /\ entries \in [Runs -> Dict]
      BY <1>1, <2>4 DEF Start, TypeOK
    <3>4. \A q \in Runs : entries'[q] = Load(file) \/ entries'[q] = entries[q]
      BY <3>3
    <3>5. ASSUME NEW q \in Runs, NEW k \in DOMAIN entries'[q] PROVE Rests(said, k, entries'[q][k])
      BY <3>2, <3>4 DEF EntriesRest
    <3>6. EntriesRest'
      BY <2>1, <3>5 DEF EntriesRest
    <3> QED
      BY <2>2, <3>6
  <2> QED
    BY <2>3, <2>4
<1>2. ASSUME NEW r \in Runs, NEW i \in Items, NEW new, Moves(r, i, new),
             \A c \in DOMAIN new.claims :
               \/ c \in DOMAIN item[r][i].claims /\ new.claims[c] = item[r][i].claims[c]
               \/ Held(said, <<Claims[i][c], Context>>, new.claims[c]),
             UNCHANGED <<cache, mode, at, entries, said, last, loaded, faults>>
      PROVE  FileRests' /\ EntriesRest' /\ ClaimsHeld'
  <2>1. file' = file /\ said' = said /\ entries' = entries
    BY <1>2 DEF cache
  <2>2. said \subseteq said'
    BY <2>1
  <2>3. \A c \in DOMAIN new.claims :
           \/ c \in DOMAIN item[r][i].claims /\ new.claims[c] = item[r][i].claims[c]
           \/ Held(said', <<Claims[i][c], Context>>, new.claims[c])
    BY <1>2, <2>1
  <2>4. ClaimsHeld'
    BY <1>2, <2>2, <2>3, MoveHeld
  <2>5. FileRests' /\ EntriesRest'
    BY <2>1 DEF FileRests, EntriesRest
  <2> QED
    BY <2>4, <2>5
<1>3. ASSUME NEW r \in Runs, NEW i \in Items, Lookup(r, i)
      PROVE  FileRests' /\ EntriesRest' /\ ClaimsHeld'
  <2> DEFINE it == item[r][i]
             v == Read(r, i)
             k == Asks(it, i)
  <2>1. Held(said, k, v)
    <3>1. k \in DOMAIN entries[r]
      BY <1>3, LookupMoves
    <3>2. Rests(said, k, entries[r][k])
      BY <3>1 DEF EntriesRest
    <3>3. v.supported = entries[r][k] /\ v.cached /\ v.parse_ok
      BY DEF Read
    <3> HIDE DEF v, k
    <3> QED
      BY <3>2, <3>3 DEF Held
  <2>2. it \in ItemType
    BY DEF Begun, InBounds
  <2> HIDE DEF it, v, k
  <2>3. ASSUME NEW c \in DOMAIN Takes(it, i, v).claims
        PROVE  \/ c \in DOMAIN it.claims /\ Takes(it, i, v).claims[c] = it.claims[c]
               \/ Held(said, <<Claims[i][c], Context>>, Takes(it, i, v).claims[c])
    BY <2>1, <2>2, TakesClaims DEF k
  <2>4. /\ Moves(r, i, Takes(it, i, v))
        /\ UNCHANGED <<cache, mode, at, entries, said, last, loaded, faults>>
    BY <1>3, LookupMoves DEF it, v
  <2> QED
    BY <1>2, <2>3, <2>4 DEF it
<1>4. ASSUME NEW r \in Runs, NEW i \in Items, Miss(r, i)
      PROVE  FileRests' /\ EntriesRest' /\ ClaimsHeld'
  <2>1. [item[r][i] EXCEPT !.at = "error"].claims = item[r][i].claims
    BY ClaimsStay DEF Begun, InBounds
  <2> QED
    BY <1>2, <1>4, <2>1, MissMoves
<1>5. ASSUME NEW r \in Runs, NEW i \in Items, Ask(r, i)
      PROVE  FileRests' /\ EntriesRest' /\ ClaimsHeld'
  <2>1. [item[r][i] EXCEPT !.at = "asking"].claims = item[r][i].claims
    BY ClaimsStay DEF Begun, InBounds
  <2> QED
    BY <1>2, <1>5, <2>1, AskMoves
<1>6. ASSUME NEW r \in Runs, NEW i \in Items, Record(r, i)
      PROVE  FileRests' /\ EntriesRest' /\ ClaimsHeld'
  <2>1. Filled(item[r][i], i).claims = item[r][i].claims
    BY ClaimsStay DEF Begun, InBounds
  <2> QED
    BY <1>2, <1>6, <2>1, RecordMoves
<1>7. ASSUME NEW r \in Runs, NEW i \in Items, NEW reply \in Replies[Question(r, i)],
             Reply(r, i, reply)
      PROVE  FileRests' /\ EntriesRest' /\ ClaimsHeld'
  <2> DEFINE it == item[r][i]
             k == Asks(it, i)
             v == Opinion(reply, k)
             S == said'
  <2>1. /\ k \in Keys /\ v \in BOOLEAN /\ reply \in {"yes", "no", "other"}
        /\ S = said \cup {<<k, reply>>}
        /\ \/ Put(r, k, v) /\ Moves(r, i, Takes(it, i, Given(r, i, reply)))
           \/ PutFails(r, k, v) /\ Moves(r, i, [it EXCEPT !.at = "error"])
    BY <1>7, ReplyMoves
  <2>2. it \in ItemType
    BY DEF Begun, InBounds
  <2>3. Rests(S, k, v) /\ Held(S, k, Given(r, i, reply))
    BY <2>1, OpinionRests, OpinionHeld DEF Given
  <2>4. said \subseteq S
    BY <2>1
  <2> HIDE DEF k, v, S
  <2>5. ASSUME NEW e \in ToSet(file') \cap Entry PROVE Rests(S, e.key, e.supported)
    <3>1. [key |-> k, supported |-> v] \in Entry
      BY <2>1 DEF Entry
    <3>2. ToSet(file') \subseteq ToSet(file) \cup {[key |-> k, supported |-> v], Bad}
      <4>1. CASE Put(r, k, v)
        BY <3>1, <4>1, AppendedIs DEF Put
      <4>2. CASE PutFails(r, k, v)
        BY <2>1, <4>2, CutShort
      <4> QED
        BY <2>1, <4>1, <4>2
    <3>3. e # Bad
      BY ConstantsAssumption
    <3>4. CASE e \in ToSet(file)
      <4>1. Rests(said, e.key, e.supported)
        BY <3>4 DEF FileRests
      <4> QED
        BY <2>4, <4>1, RestsStill
    <3>5. CASE e = [key |-> k, supported |-> v]
      <4>1. e.key = k /\ e.supported = v
        BY <3>5
      <4> QED
        BY <2>3, <4>1
    <3> QED
      BY <3>2, <3>3, <3>4, <3>5
  <2>6. FileRests'
    BY <2>5 DEF FileRests, S
  <2>7. ASSUME NEW q \in Runs, NEW x \in DOMAIN entries'[q] PROVE Rests(S, x, entries'[q][x])
    <3>1. \A y \in DOMAIN entries[q] : Rests(S, y, entries[q][y])
      BY <2>4, RestsStill DEF EntriesRest
    <3>2. entries' = [entries EXCEPT ![r] = With(entries[r], k, v)]
          /\ entries \in [Runs -> Dict]
      BY <2>1 DEF Put, PutFails, TypeOK
    <3>3. CASE q = r
      <4>1. entries'[q] = With(entries[q], k, v)
        BY <3>2, <3>3
      <4> QED
        BY <2>3, <3>1, <4>1, WithRests
    <3>4. CASE q # r
      BY <3>1, <3>2, <3>4
    <3> QED
      BY <3>3, <3>4
  <2>8. EntriesRest'
    BY <2>7 DEF EntriesRest, S
  <2>9. ClaimsHeld'
    <3>1. CASE Moves(r, i, Takes(it, i, Given(r, i, reply)))
      <4> DEFINE g == Given(r, i, reply)
      <4> HIDE DEF it, g
      <4>1. ASSUME NEW c \in DOMAIN Takes(it, i, g).claims
            PROVE  \/ c \in DOMAIN it.claims /\ Takes(it, i, g).claims[c] = it.claims[c]
                   \/ Held(S, <<Claims[i][c], Context>>, Takes(it, i, g).claims[c])
        BY <2>2, <2>3, TakesClaims DEF k, g
      <4> QED
        BY <2>4, <3>1, <4>1, MoveHeld DEF it, g, S
    <3>2. CASE Moves(r, i, [it EXCEPT !.at = "error"])
      <4>1. [it EXCEPT !.at = "error"].claims = it.claims
        BY <2>2, ClaimsStay
      <4> QED
        BY <2>4, <3>2, <4>1, MoveHeld DEF S
    <3> QED
      BY <2>1, <3>1, <3>2
  <2> QED
    BY <2>6, <2>8, <2>9
<1>8. CASE UNCHANGED vars
  BY <1>8 DEF FileRests, EntriesRest, ClaimsHeld, vars, cache
<1>9. ASSUME NEW r \in Runs, NEW i \in Sample[r], Judge(r, i)
      PROVE  FileRests' /\ EntriesRest' /\ ClaimsHeld'
  <2>1. i \in Items
    BY ConstantsAssumption
  <2> QED
    BY <1>3, <1>4, <1>5, <1>6, <1>7, <1>9, <2>1 DEF Judge
<1> QED
  BY <1>1, <1>8, <1>9 DEF Next

\* However runs share the file, and whatever is cut short in it, a claim is
\* judged only by what the model has said about it (LlmJudge.supports).
THEOREM VerdictsRest == Spec => []VerdictsWereSaid
<1> DEFINE Rest == FileRests /\ EntriesRest /\ ClaimsHeld
<1>1. Init => Rest
  BY RestFirst
<1>2. TypeOK /\ Begun /\ Rest /\ [Next]_vars => Rest'
  BY RestStep
<1>3. Rest => VerdictsWereSaid
  BY ClaimsHeldSaid
<1> HIDE DEF Rest
<1> QED
  BY <1>1, <1>2, <1>3, RunsBegun, PTL DEF Spec

-----------------------------------------------------------------------------
(* Runs that only read the cache.                                          *)

\* Whether the lines support the citation n of i, by one of the claims tried.
CitedBy(lines, i, n) ==
  \E c \in 1..Tries(i) : Latest(lines, <<Claims[i][c], Citations[i][n]>>)

\* What an item of a cached run has been judged by so far: all it records is
\* what the lines say last, and so are the tries the current citation failed.
Repeats(it, i, lines) ==
  /\ it.at # "asking"
  /\ \A c \in DOMAIN it.claims :
       it.claims[c].supported = Latest(lines, <<Claims[i][c], Context>>)
  /\ \A n \in DOMAIN it.cited : it.cited[n] = CitedBy(lines, i, n)
  /\ \A c \in 1..it.tried : ~Latest(lines, <<Claims[i][c], Citations[i][Len(it.cited) + 1]>>)

\* Its dictionary stays what it has read.
OwnEntries(r) == at[r] = "judging" => loaded[r] \in Seq(Entry) /\ entries[r] = Load(loaded[r])

CachedRepeats ==
  \A r \in Runs : mode[r] = "cached" =>
    OwnEntries(r) /\ \A i \in Items : Repeats(item[r][i], i, loaded[r])

LEMMA RepeatsReproduces ==
  ASSUME CachedRepeats
  PROVE  CachedReproduces
BY DEF CachedRepeats, CachedReproduces, Repeats, CitedBy

LEMMA RepeatsAtFirst ==
  ASSUME NEW i \in Items, NEW lines
  PROVE  Repeats(NewItem, i, lines)
BY DEF Repeats, NewItem

LEMMA RepeatsTakes ==
  ASSUME NEW i \in Items, NEW it, InBounds(it, i), ~Complete(it, i), NEW lines,
         Repeats(it, i, lines), NEW v \in Verdict, v.supported = Latest(lines, Asks(it, i))
  PROVE  Repeats(Takes(it, i, v), i, lines)
<1> DEFINE new == Takes(it, i, v)
           n == Len(it.cited)
           m == Len(it.claims)
           chunk == Citations[i][n + 1]
           L(k) == Latest(lines, k)
<1>1. /\ it.claims \in Seq(Verdict) /\ it.cited \in Seq(BOOLEAN) /\ it.tried \in 0..PerCitation
      /\ m \in Nat /\ n \in Nat /\ DOMAIN it.claims = 1..m /\ DOMAIN it.cited = 1..n
      /\ it \in ItemType /\ it.tried \in Nat
  BY ConstantsAssumption DEF InBounds, ItemType
<1>2. CASE Len(it.claims) # Len(Claims[i])
  <2>1. /\ new.at = "next" /\ new.claims = Append(it.claims, v) /\ new.cited = it.cited
        /\ new.tried = it.tried
    BY <1>1, <1>2 DEF Takes, ItemType
  <2>2. v.supported = Latest(lines, <<Claims[i][m + 1], Context>>)
    BY <1>2 DEF Asks
  <2> HIDE DEF new
  <2>3. ASSUME NEW c \in DOMAIN new.claims
        PROVE  new.claims[c].supported = Latest(lines, <<Claims[i][c], Context>>)
    <3>1. c \in 1..m \/ c = m + 1
      BY <1>1, <2>1
    <3>2. CASE c \in 1..m
      <4>1. new.claims[c] = it.claims[c]
        BY <1>1, <2>1, <3>2
      <4> QED
        BY <1>1, <3>2, <4>1 DEF Repeats
    <3>3. CASE c = m + 1
      <4>1. new.claims[c] = v
        BY <1>1, <2>1, <3>3
      <4> QED
        BY <2>2, <3>3, <4>1
    <3> QED
      BY <3>1, <3>2, <3>3
  <2>4. Repeats(new, i, lines)
    BY <2>1, <2>3 DEF Repeats
  <2> QED
    BY <2>4 DEF new
<1>3. CASE Len(it.claims) = Len(Claims[i])
  <2>1. v.supported = Latest(lines, <<Claims[i][it.tried + 1], chunk>>) /\ v.supported \in BOOLEAN
    BY <1>3 DEF Asks, Verdict
  <2>2. it.tried + 1 \in 1..Tries(i) /\ Tries(i) \in Nat
    BY <1>1, <1>3, TriesIs DEF InBounds, Complete
  <2>3. \A c \in 1..it.tried : ~Latest(lines, <<Claims[i][c], chunk>>)
    BY DEF Repeats
  <2>4. CASE v.supported \/ it.tried + 1 = Tries(i)
    <3>1. /\ new.at = "next" /\ new.claims = it.claims /\ new.tried = 0
          /\ new.cited = Append(it.cited, v.supported)
      BY <1>1, <1>3, <2>4 DEF Takes, ItemType
    <3>2. v.supported = CitedBy(lines, i, n + 1)
      <4>1. CASE v.supported
        BY <2>1, <2>2, <4>1 DEF CitedBy
      <4>2. CASE ~v.supported
        <5>1. \A c \in 1..Tries(i) : c \in 1..it.tried \/ c = it.tried + 1
          BY <1>1, <2>4, <4>2
        <5>2. \A c \in 1..Tries(i) : ~Latest(lines, <<Claims[i][c], chunk>>)
          BY <2>1, <2>3, <4>2, <5>1
        <5> QED
          BY <2>1, <4>2, <5>2 DEF CitedBy
      <4> QED
        BY <4>1, <4>2
    <3> HIDE DEF new
    <3>3. ASSUME NEW c \in DOMAIN new.cited
          PROVE  new.cited[c] = CitedBy(lines, i, c)
      <4>1. c \in 1..n \/ c = n + 1
        BY <1>1, <3>1
      <4>2. CASE c \in 1..n
        <5>1. new.cited[c] = it.cited[c]
          BY <1>1, <3>1, <4>2
        <5> QED
          BY <1>1, <4>2, <5>1 DEF Repeats
      <4>3. CASE c = n + 1
        <5>1. new.cited[c] = v.supported
          BY <1>1, <3>1, <4>3
        <5> QED
          BY <3>2, <4>3, <5>1
      <4> QED
        BY <4>1, <4>2, <4>3
    <3>4. Repeats(new, i, lines)
      BY <3>1, <3>3 DEF Repeats
    <3> QED
      BY <3>4 DEF new
  <2>5. CASE ~(v.supported \/ it.tried + 1 = Tries(i))
    <3>1. /\ new.at = "next" /\ new.claims = it.claims /\ new.tried = it.tried + 1
          /\ new.cited = it.cited
      BY <1>1, <1>3, <2>5 DEF Takes, ItemType
    <3>2. ASSUME NEW c \in 1..it.tried + 1 PROVE ~Latest(lines, <<Claims[i][c], chunk>>)
      <4>1. c \in 1..it.tried \/ c = it.tried + 1
        BY <1>1
      <4> QED
        BY <2>1, <2>3, <2>5, <4>1
    <3> HIDE DEF new
    <3>3. Repeats(new, i, lines)
      BY <3>1, <3>2 DEF Repeats
    <3> QED
      BY <3>3 DEF new
  <2> QED
    BY <2>4, <2>5
<1> QED
  BY <1>2, <1>3

\* The record without claims, and an item that failed.
LEMMA RepeatsFilled ==
  ASSUME NEW i \in Items, NEW it, InBounds(it, i), NEW lines, Repeats(it, i, lines),
         Complete(it, i)
  PROVE  Repeats(Filled(it, i), i, lines)
<1> DEFINE new == Filled(it, i)
<1>1. it \in ItemType /\ it.tried \in 0..PerCitation
  BY DEF InBounds, ItemType
<1>2. /\ new.at = "record" /\ new.claims = it.claims /\ new.cited = AllCited(it, i)
      /\ new.tried = it.tried
  BY <1>1 DEF Filled, ItemType
<1> HIDE DEF new
<1>3. CASE Tries(i) = 0
  <2> DEFINE all == [c \in 1..Len(Citations[i]) |-> FALSE]
  <2>1. new.cited = all
    BY <1>2, <1>3 DEF AllCited
  <2>2. it.tried = 0
    BY <1>1, <1>3, ConstantsAssumption DEF InBounds
  <2>3. DOMAIN all = 1..Len(Citations[i]) /\ \A n \in DOMAIN all : all[n] = FALSE
    OBVIOUS
  <2> HIDE DEF all
  <2>4. ASSUME NEW n \in DOMAIN new.cited
        PROVE  new.cited[n] = CitedBy(lines, i, n)
    <3>1. 1..Tries(i) = {}
      BY <1>3
    <3>2. CitedBy(lines, i, n) = FALSE
      BY <3>1 DEF CitedBy
    <3> QED
      BY <2>1, <2>3, <3>2
  <2>5. Repeats(new, i, lines)
    BY <1>2, <2>2, <2>4 DEF Repeats
  <2> QED
    BY <2>5 DEF new
<1>4. CASE Tries(i) # 0
  <2>1. new.cited = it.cited
    BY <1>2, <1>4 DEF AllCited
  <2>2. Repeats(new, i, lines)
    BY <1>2, <2>1 DEF Repeats
  <2> QED
    BY <2>2 DEF new
<1> QED
  BY <1>3, <1>4

LEMMA RepeatsError ==
  ASSUME NEW i \in Items, NEW it \in ItemType, NEW lines, Repeats(it, i, lines)
  PROVE  Repeats([it EXCEPT !.at = "error"], i, lines)
<1> DEFINE new == [it EXCEPT !.at = "error"]
<1>1. /\ new.at = "error" /\ new.claims = it.claims /\ new.cited = it.cited
      /\ new.tried = it.tried
  BY DEF ItemType
<1> HIDE DEF new
<1>2. Repeats(new, i, lines)
  BY <1>1 DEF Repeats
<1> QED
  BY <1>2 DEF new

LEMMA CachedStep ==
  ASSUME TypeOK, Begun, CachedRepeats, [Next]_vars
  PROVE  CachedRepeats'
<1>1. ASSUME NEW r \in Runs, NEW m \in Modes, Start(r, m) PROVE CachedRepeats'
  <2>1. item' = item /\ loaded' = [loaded EXCEPT ![r] = file]
        /\ loaded \in [Runs -> Seq(Entry \cup {Bad})]
    BY <1>1 DEF Start, TypeOK
  <2>2. ASSUME NEW q \in Runs, q # r
        PROVE  mode'[q] = mode[q] /\ at'[q] = at[q] /\ entries'[q] = entries[q]
               /\ loaded'[q] = loaded[q]
    BY <1>1, <2>2 DEF Start, TypeOK
  <2>3. OwnEntries(r)'
    <3>1. CASE Bad \in ToSet(file)
      <4>1. at'[r] = "raised"
        BY <1>1, <3>1 DEF Start, TypeOK
      <4> QED
        BY <4>1 DEF OwnEntries
    <3>2. CASE Bad \notin ToSet(file)
      <4>1. file \in Seq(Entry)
        BY <3>2, AllEntries DEF TypeOK
      <4>2. entries'[r] = Load(file) /\ loaded'[r] = file
        BY <1>1, <3>2 DEF Start, TypeOK
      <4> QED
        BY <4>1, <4>2 DEF OwnEntries
    <3> QED
      BY <3>1, <3>2
  <2>4. ASSUME NEW i \in Items PROVE Repeats(item'[r][i], i, loaded'[r])
    <3>1. at[r] = "new"
      BY <1>1 DEF Start
    <3>2. item'[r][i] = NewItem
      BY <2>1, <3>1 DEF Begun
    <3> QED
      BY <3>2, RepeatsAtFirst
  <2>5. ASSUME NEW q \in Runs, mode'[q] = "cached"
        PROVE  OwnEntries(q)' /\ \A i \in Items : Repeats(item'[q][i], i, loaded'[q])
    <3>1. CASE q = r
      BY <2>3, <2>4, <3>1
    <3>2. CASE q # r
      <4>1. OwnEntries(q) /\ \A i \in Items : Repeats(item[q][i], i, loaded[q])
        BY <2>2, <2>5, <3>2 DEF CachedRepeats
      <4> QED
        BY <2>1, <2>2, <3>2, <4>1 DEF OwnEntries
    <3> QED
      BY <3>1, <3>2
  <2> QED
    BY <2>5 DEF CachedRepeats
<1>2. ASSUME NEW r \in Runs, NEW i \in Items, NEW new, Moves(r, i, new),
             mode[r] = "cached" => entries' = entries /\ Repeats(new, i, loaded[r]),
             \A q \in Runs : q # r => entries'[q] = entries[q],
             UNCHANGED <<mode, at, loaded>>
      PROVE  CachedRepeats'
  <2>1. /\ item'[r][i] = new
        /\ \A q \in Runs, j \in Items : q # r \/ j # i => item'[q][j] = item[q][j]
    BY <1>2, MovesIs
  <2>2. ASSUME NEW q \in Runs, mode'[q] = "cached"
        PROVE  OwnEntries(q)' /\ \A j \in Items : Repeats(item'[q][j], j, loaded'[q])
    <3>1. OwnEntries(q) /\ \A j \in Items : Repeats(item[q][j], j, loaded[q])
      BY <1>2, <2>2 DEF CachedRepeats
    <3>2. entries'[q] = entries[q]
      BY <1>2, <2>2
    <3>3. OwnEntries(q)'
      BY <1>2, <3>1, <3>2 DEF OwnEntries
    <3>4. ASSUME NEW j \in Items PROVE Repeats(item'[q][j], j, loaded[q])
      <4>1. CASE q = r /\ j = i
        BY <1>2, <2>1, <2>2, <4>1
      <4>2. CASE q # r \/ j # i
        BY <2>1, <3>1, <4>2
      <4> QED
        BY <4>1, <4>2
    <3> QED
      BY <1>2, <3>3, <3>4
  <2> QED
    BY <2>2 DEF CachedRepeats
<1>3. ASSUME NEW r \in Runs, NEW i \in Items, Lookup(r, i) PROVE CachedRepeats'
  <2> DEFINE it == item[r][i]
             v == Read(r, i)
             k == Asks(it, i)
  <2>1. ~Complete(it, i) /\ k \in DOMAIN entries[r] /\ at[r] = "judging" /\ InBounds(it, i)
    BY <1>3, LookupMoves DEF Begun
  <2>2. v \in Verdict /\ v.supported = entries[r][k]
    BY <2>1, ReadVerdict DEF Read
  <2>3. ASSUME mode[r] = "cached" PROVE Repeats(Takes(it, i, v), i, loaded[r])
    <3>1. Repeats(it, i, loaded[r]) /\ loaded[r] \in Seq(Entry) /\ entries[r] = Load(loaded[r])
      BY <2>1, <2>3 DEF CachedRepeats, OwnEntries
    <3> HIDE DEF it, v, k
    <3>2. v.supported = Latest(loaded[r], k)
      BY <2>1, <2>2, <3>1, LoadLatest
    <3> QED
      BY <2>1, <2>2, <3>1, <3>2, RepeatsTakes DEF k
  <2>4. Moves(r, i, Takes(it, i, v)) /\ UNCHANGED <<mode, at, entries, loaded>>
    BY <1>3, LookupMoves
  <2> QED
    BY <1>2, <2>3, <2>4
<1>4. ASSUME NEW r \in Runs, NEW i \in Items, Miss(r, i) PROVE CachedRepeats'
  <2>1. mode[r] = "cached" => Repeats([item[r][i] EXCEPT !.at = "error"], i, loaded[r])
    BY RepeatsError DEF CachedRepeats, Begun, InBounds
  <2>2. Moves(r, i, [item[r][i] EXCEPT !.at = "error"]) /\ UNCHANGED <<mode, at, entries, loaded>>
    BY <1>4, MissMoves
  <2> QED
    BY <1>2, <2>1, <2>2
<1>5. ASSUME NEW r \in Runs, NEW i \in Items, Ask(r, i) PROVE CachedRepeats'
  <2>1. /\ Moves(r, i, [item[r][i] EXCEPT !.at = "asking"]) /\ mode[r] # "cached"
        /\ UNCHANGED <<mode, at, entries, loaded>>
    BY <1>5, AskMoves
  <2> QED
    BY <1>2, <2>1
<1>6. ASSUME NEW r \in Runs, NEW i \in Items, Record(r, i) PROVE CachedRepeats'
  <2>1. /\ Moves(r, i, Filled(item[r][i], i)) /\ Complete(item[r][i], i)
        /\ UNCHANGED <<mode, at, entries, loaded>>
    BY <1>6, RecordMoves
  <2>2. mode[r] = "cached" => Repeats(Filled(item[r][i], i), i, loaded[r])
    BY <2>1, RepeatsFilled DEF CachedRepeats, Begun
  <2> QED
    BY <1>2, <2>1, <2>2
<1>7. ASSUME NEW r \in Runs, NEW i \in Items, NEW reply \in Replies[Question(r, i)],
             Reply(r, i, reply)
      PROVE  CachedRepeats'
  <2> DEFINE k == Asks(item[r][i], i)
             v == Opinion(reply, k)
  <2>1. /\ item[r][i].at = "asking" /\ UNCHANGED <<mode, at, loaded>>
        /\ \/ Put(r, k, v) /\ Moves(r, i, Takes(item[r][i], i, Given(r, i, reply)))
           \/ PutFails(r, k, v) /\ Moves(r, i, [item[r][i] EXCEPT !.at = "error"])
    BY <1>7, ReplyMoves
  <2>2. mode[r] # "cached"
    BY <2>1 DEF CachedRepeats, Repeats
  <2> HIDE DEF k, v
  <2>3. \A q \in Runs : q # r => entries'[q] = entries[q]
    BY <2>1 DEF Put, PutFails, TypeOK
  <2> QED
    BY <1>2, <2>1, <2>2, <2>3
<1>8. CASE UNCHANGED vars
  BY <1>8 DEF CachedRepeats, OwnEntries, vars
<1>9. ASSUME NEW r \in Runs, NEW i \in Sample[r], Judge(r, i) PROVE CachedRepeats'
  <2>1. i \in Items
    BY ConstantsAssumption
  <2> QED
    BY <1>3, <1>4, <1>5, <1>6, <1>7, <1>9, <2>1 DEF Judge
<1> QED
  BY <1>1, <1>8, <1>9 DEF Next

\* A cached run judges as the lines it has read judge, all of them and only
\* they, however many other runs append to the file meanwhile and whatever is
\* lost of it: it is reproducible (faithfulness.py, JudgeCacheMissError).
THEOREM CachedRunsReproduce == Spec => []CachedReproduces
<1>1. Init => CachedRepeats
  BY DEF Init, CachedRepeats
<1>2. TypeOK /\ Begun /\ CachedRepeats /\ [Next]_vars => CachedRepeats'
  BY CachedStep
<1>3. CachedRepeats => CachedReproduces
  BY RepeatsReproduces
<1> QED
  BY <1>1, <1>2, <1>3, RunsBegun, PTL DEF Spec

-----------------------------------------------------------------------------
(* The file while no append fails.                                         *)

FileKeeps == faults = 0 => open = FALSE /\ Bad \notin ToSet(file) /\ Load(file) = last

LEMMA KeepsFirst ==
  ASSUME Init
  PROVE  FileKeeps
<1>1. file = <<>> /\ <<>> \in Seq(Entry) /\ Len(<<>>) = 0 /\ last = Nothing
  BY DEF Init
<1>2. PICK d : Reads(d, <<>>) /\ Load(<<>>) = d[0]
  BY <1>1, LoadReads
<1>3. d[0] = Nothing
  BY <1>1, <1>2 DEF Reads
<1>4. Bad \notin ToSet(file)
  BY <1>1 DEF ToSet
<1> QED
  BY <1>1, <1>2, <1>3, <1>4 DEF FileKeeps, Init

\* The line that is appended is the verdict that is put.
LEMMA PutKeeps ==
  ASSUME TypeOK, FileKeeps, NEW r, NEW k \in Keys, NEW v \in BOOLEAN, Put(r, k, v)
  PROVE  FileKeeps'
<1> SUFFICES ASSUME faults = 0
             PROVE  open' = FALSE /\ Bad \notin ToSet(file') /\ Load(file') = last'
  BY DEF FileKeeps, Put
<1> DEFINE e == [key |-> k, supported |-> v]
<1>1. open = FALSE /\ Bad \notin ToSet(file) /\ Load(file) = last
  BY DEF FileKeeps
<1>2. file \in Seq(Entry)
  BY <1>1, AllEntries DEF TypeOK
<1>3. e \in Entry /\ e.key = k /\ e.supported = v
  BY DEF Entry
<1>4. file' = Append(file, e) /\ last' = With(last, k, v) /\ open' = FALSE
  BY <1>1 DEF Put, Appended
<1> HIDE DEF e
<1>5. Load(file') = last'
  BY <1>1, <1>2, <1>3, <1>4, LoadAppend
<1>6. ToSet(file') \subseteq ToSet(file) \cup {e}
  BY <1>2, <1>3, <1>4, OneAppended
<1>7. Bad \notin ToSet(file')
  BY <1>1, <1>3, <1>6, ConstantsAssumption
<1> QED
  BY <1>4, <1>5, <1>7

LEMMA KeepsStep ==
  ASSUME TypeOK, Begun, FileKeeps, [Next]_vars
  PROVE  FileKeeps'
<1>1. ASSUME UNCHANGED <<cache, last, faults>> PROVE FileKeeps'
  BY <1>1 DEF FileKeeps, cache
<1>2. ASSUME NEW r \in Runs, NEW i \in Items, NEW reply \in Replies[Question(r, i)],
             Reply(r, i, reply)
      PROVE  FileKeeps'
  <2> DEFINE k == Asks(item[r][i], i)
             v == Opinion(reply, k)
  <2>1. k \in Keys /\ v \in BOOLEAN /\ (Put(r, k, v) \/ PutFails(r, k, v))
    BY <1>2, ReplyMoves
  <2> HIDE DEF k, v
  <2>2. CASE PutFails(r, k, v)
    BY <2>2 DEF PutFails, FileKeeps, TypeOK
  <2> QED
    BY <2>1, <2>2, PutKeeps
<1>3. ASSUME NEW r \in Runs, NEW i \in Sample[r], Judge(r, i) PROVE FileKeeps'
  <2>1. i \in Items
    BY ConstantsAssumption
  <2> QED
    BY <1>1, <1>2, <1>3, <2>1, LookupMoves, MissMoves, AskMoves, RecordMoves DEF Judge
<1>4. ASSUME NEW r \in Runs, NEW m \in Modes, Start(r, m) PROVE FileKeeps'
  BY <1>1, <1>4 DEF Start
<1>5. CASE UNCHANGED vars
  BY <1>1, <1>5 DEF vars
<1> QED
  BY <1>3, <1>4, <1>5 DEF Next

\* While no append fails, every run that starts reads what was put last about
\* every key, by whichever run and in whatever order the puts interleaved
\* (JudgeCache.put).
THEOREM FileKeepsPuts == Spec => []FileHoldsLastPut
<1>1. Init => FileKeeps
  BY KeepsFirst
<1>2. TypeOK /\ Begun /\ FileKeeps /\ [Next]_vars => FileKeeps'
  BY KeepsStep
<1>3. FileKeeps => FileHoldsLastPut
  BY DEF FileKeeps, FileHoldsLastPut
<1> QED
  BY <1>1, <1>2, <1>3, RunsBegun, PTL DEF Spec
=============================================================================
