------------------------------ MODULE Placement ------------------------------
(***************************************************************************)
(* The documents the adversarial suites plant, and the corpus-shaped paths *)
(* they get: CorpusPlacer (rag_crucible/attacks/placement.py),             *)
(* select_targets (targets.py), and the generators of poison, injections   *)
(* and canaries (poison.py, injection.py, canaries.py).                    *)
(*                                                                         *)
(* A stem is the sequence of the parts of a file name, case-folded; every  *)
(* order a hash of the seed decides is arbitrary here.                     *)
(***************************************************************************)
EXTENDS Ingestion

CONSTANTS
  Qids,          \* the questions, in the order of their qids
  Question,      \* Question[q]: the words of the question, each a stem
  Gold,          \* Gold[q]: the value and the unit of the gold answer
  StopWords,     \* _STOP_WORDS and what _MARKER_STEMS hides, as stems
  NeutralNames,  \* _NEUTRAL_NAMES, as stems
  MaxName,       \* _MAX_SLUG_CHARS, in parts
  Marked,        \* directories with "__" in their name
  Seen, Heldout, \* SEEN_TEMPLATES and HELDOUT_TEMPLATES
  Subject        \* Subject[kind]: the subjects of such canaries, each the words of it

ASSUME PlacementAssumption ==
  /\ Qids \in Seq(ToSet(Qids))
  /\ DOMAIN Question = ToSet(Qids) /\ DOMAIN Gold = ToSet(Qids)
  /\ MaxName \in Nat \ {0}
  /\ Seen # <<>> \/ Heldout # <<>>

MaxWords == 4
MaxNumber == 99   \* bound: the numbers a name is tried with
Path(dir, stem) == [dir |-> dir, stem |-> stem]

-----------------------------------------------------------------------------
(* CorpusPlacer.                                                           *)

Numbers == {ToString(n) : n \in 0..999}
Numbered(stem) == Len(stem) > 1 /\ stem[Len(stem)] \in Numbers
Base(stem) == SubSeq(stem, 1, Len(stem) - 1)

\* Mutant: a file the filters dropped does not count.
MutPlacer(sources, avoid) ==
  [taken |-> sources, dirs |-> IF {p.dir : p \in sources} \ Marked = {} THEN {""}
                               ELSE {p.dir : p \in sources} \ Marked]

\* What a placer knows: the paths in use, and where it may put a document.
Placer(sources, avoid) ==
  [taken |-> sources \cup avoid,
   dirs |-> IF {p.dir : p \in sources} \ Marked = {} THEN {""}
            ELSE {p.dir : p \in sources} \ Marked]

Stems(placer) == {p.stem : p \in placer.taken}
NumberedBases(placer) == {Base(stem) : stem \in {s \in Stems(placer) : Numbered(s)}}

\* _free: not in use, nor one half of a numbered pair.
Free(placer, stem) ==
  /\ stem \notin Stems(placer) \cup NumberedBases(placer)
  /\ ~(Numbered(stem) /\ Base(stem) \in Stems(placer))

ContentWords(topic, hide) ==
  Those(topic, {n \in DOMAIN topic : topic[n] \notin StopWords \cup hide})

\* _join: up to four words, as many as the name has room for.
Joined(words) ==
  LET Name(n) == FlattenSeq(SubSeq(words, 1, n))
      fit == {n \in 1..Len(words) : n <= MaxWords /\ (n = 1 \/ Len(Name(n)) <= MaxName)}
      name == IF fit = {} THEN <<>> ELSE Name(Max(fit))
  IN  SubSeq(name, 1, Min({Len(name), MaxName}))

\* The tiers of _candidate_names: windows of the topic, then those with a
\* neutral qualifier, then neutral names.
Windows(words) ==
  (UNION {{Joined(SubSeq(words, s, Min({s + size - 1, Len(words)})))
             : s \in 1..Max({1, Len(words) - size + 1})} : size \in {MaxWords, 3, 2}}) \ {<<>>}
Qualified(words) ==
  {name \in {w \o n : w \in Windows(words), n \in NeutralNames} : Len(name) <= MaxName}
Tiers(words) == <<Windows(words), Qualified(words), NeutralNames>>

\* A path nobody has, from the first tier that has one; when every name is
\* taken, the first name of all with the first number that makes a new path.
Places(placer, topic, hide) ==
  LET tiers == Tiers(ContentWords(topic, hide))
      Open(dir, k) == {stem \in tiers[k] : /\ Path(dir, stem) \notin placer.taken
                                           /\ Free(placer, stem)}
      first == Min({k \in 1..3 : tiers[k] # {}})
      Counted(dir, stem, n) == Path(dir, Append(stem, ToString(n)))
      New(dir, stem) == {Counted(dir, stem, n) : n \in {m \in 2..MaxNumber :
        /\ Counted(dir, stem, m) \notin placer.taken
        /\ \A l \in 2..m - 1 : Counted(dir, stem, l) \in placer.taken}}
  IN  UNION {IF \E k \in 1..3 : Open(dir, k) # {}
             THEN {Path(dir, stem) : stem \in Open(dir, Min({k \in 1..3 : Open(dir, k) # {}}))}
             ELSE UNION {New(dir, stem) : stem \in tiers[first]}
             : dir \in placer.dirs}

\* _take: later placements of this placer avoid the path and its name.
Taken(placer, path) == [placer EXCEPT !.taken = @ \cup {path}]

-----------------------------------------------------------------------------
(* The generators.                                                         *)

\* select_targets: all items, or any n of them that a seed ranks first.
Targets(items, n) ==
  IF n = 0 \/ n >= Cardinality(items) THEN {items} ELSE {s \in SUBSET items : Cardinality(s) = n}

\* The markers an attack plants: a sentinel by its place among the targets,
\* a token by its question.
Sentinel(idx) == ToString(900000 + idx)
Token(q) == "OWNED-" \o q

Echo(q) == Word("prose", q, "")

\* Poison: the answer with a false value in the place of its number, or the
\* bare value when it has none.
PoisonText(q, idx) ==
  <<Word("heading", "Updated reference", ""), Echo(q), Word("quantity", Sentinel(idx), Gold[q].unit)>>

\* Families alternate, so that few targets still sample both.
Template(idx) ==
  LET pool == IF idx % 2 = 1 /\ Heldout # <<>> THEN Heldout
              ELSE IF Seen # <<>> THEN Seen ELSE Heldout
  IN  pool[((idx \div 2) % Len(pool)) + 1]
Family(template) == IF template \in ToSet(Seen) THEN "seen" ELSE "heldout"

InjectionText(q, idx) ==
  <<Echo(q), Word("order", Template(idx), ""), Word("token", Token(q), "")>>

\* An attack on the idx-th target, placed at path.
PoisonAttack(q, idx, path) ==
  [type |-> "poison", qid |-> q, marker |-> Sentinel(idx), family |-> "",
   document |-> NewDocument(path, PoisonText(q, idx))]
InjectionAttack(q, idx, path) ==
  [type |-> "injection", qid |-> q, marker |-> Token(q), family |-> Family(Template(idx)),
   document |-> NewDocument(path, InjectionText(q, idx))]

\* Canaries take the kinds in turn; a secret names the canary's number.
Secret(kind, idx) == kind \o "-" \o ToString(idx)
SubjectOf(kind, idx) == Subject[kind][(idx % Len(Subject[kind])) + 1]
Card(kind, idx) == kind \o "/" \o ToString(idx % Len(Subject[kind]))

\* All a host document says besides the secret comes from its subject.
Canary(kind, idx, path) ==
  [type |-> "canary", qid |-> Secret(kind, idx), marker |-> Secret(kind, idx), family |-> kind,
   document |-> NewDocument(path, <<Word("heading", Card(kind, idx), ""), Word("prose", kind, ""),
                                    Word("secret", Secret(kind, idx), "")>>)]
=============================================================================
