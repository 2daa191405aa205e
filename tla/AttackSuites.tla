---------------------------- MODULE AttackSuites ----------------------------
(***************************************************************************)
(* The security suite (rag_crucible/eval/security.py) and the privacy      *)
(* suite (rag_crucible/eval/privacy.py) of a run: the corpus is loaded and *)
(* filtered, documents are planted among its paths, an index of both is    *)
(* built, every trial is answered through the pipeline, and the records    *)
(* become rates.  The trials share nothing and gather returns them in      *)
(* their order (EvalRun), so they are taken one after the other here.      *)
(***************************************************************************)
EXTENDS Answering, ResultFile

CONSTANT Configs  \* the corpora and suite configurations

Questions == ToSet(Qids)

ASSUME ConfigsAssumption ==
  \A c \in Configs :
    /\ c.defenses \in Seq(ToSet(c.defenses)) /\ c.probes \in Nat
    /\ c.filters \in Seq({"dedup", "language", "boilerplate", "pii"})
    /\ c.files \in Seq(ToSet(c.files))
    /\ \A f \in ToSet(c.files) : f.text \in Seq({w \in ToSet(f.text) : w.is \in DOMAIN Width})
    /\ \A m, n \in DOMAIN c.files : c.files[m].source = c.files[n].source => m = n
    /\ c.suite # "security" =>
         c.canaries \in Nat /\ c.kinds \in Seq(ToSet(c.kinds)) /\ c.kinds # <<>>

\* What the documents a suite may plant are known by.
Markers(c) ==
  IF c.suite = "security"
  THEN {Sentinel(n) : n \in 0..Cardinality(Questions) - 1} \cup {Token(q) : q \in Questions}
  ELSE {Secret(k, n) : k \in ToSet(c.kinds), n \in 0..c.canaries - 1}

\* No two of these are the same, no secret is a part of another (all of a kind
\* have the same form and width), and the corpus says none of them.  A token may
\* well be a part of another, as one qid may be of another.
ASSUME MarkersAssumption ==
  /\ \A m, n \in 0..Cardinality(Questions) - 1 : Sentinel(m) = Sentinel(n) => m = n
  /\ \A p, q \in Questions : Token(p) = Token(q) => p = q
  /\ \A n \in 0..Cardinality(Questions) - 1, q \in Questions : Sentinel(n) # Token(q)
  /\ \A c \in Configs : c.suite # "security" =>
       \A j, k \in ToSet(c.kinds), m, n \in 0..c.canaries - 1 :
         Secret(j, m) = Secret(k, n) \/ Embeds(Secret(j, m), Secret(k, n)) => m = n
  /\ \A c \in Configs : \A f \in ToSet(c.files) : \A w \in ToSet(f.text) :
       w.is \in {"quantity", "token", "secret"} => \A m \in Markers(c) : ~Embeds(w.what, m)

VARIABLES
  config,
  phase,
  kept,      \* the corpus behind the filter chain
  dropped,   \* per filter: the documents it dropped, planted ones last
  placer,
  todo,      \* the targets or canary kinds still to be planted for
  planted,   \* the attacks or canaries, in the order they were generated
  live,      \* those whose documents are indexed, as they are indexed
  index,     \* the chunks the trials search
  flight,    \* the trial under way, or none
  records,   \* of the trials, in order
  controls,  \* records of the clean questions
  screens,   \* records of the clean chunks a defense would delete or keep
  metrics,
  file       \* what is read of the result some version has written, or none

plan == <<kept, dropped, placer, todo, planted, live>>
results == <<screens, metrics, file>>
vars == <<config, phase, plan, index, flight, records, controls, results>>

None == [is |-> "none"]
Security == config.suite = "security"
Corpus == LoadCorpus(config.files).docs
Sources(docs) == {docs[n].source : n \in DOMAIN docs}
Documents(attacks) == [n \in DOMAIN attacks |-> attacks[n].document]
Done == {"done", "failed", "read"}

TypeOK ==
  /\ config \in Configs
  /\ phase \in {"load", "poison", "injection", "canary", "embed", "trial", "control"} \cup Done
  /\ \A n \in DOMAIN planted : planted[n].type \in {"poison", "injection", "canary"}
  /\ Len(dropped) \in {0, Len(config.filters)}
  /\ Ids(Documents(live)) \subseteq Ids(Documents(planted))
  /\ flight = None \/ (flight.is = "trial" /\ phase \in {"trial", "control"})
  /\ \A r \in ToSet(records) : r.retrieved \in BOOLEAN /\ r.succeeded \in BOOLEAN
  /\ \A m \in metrics : m.hits \in 0..m.of
  /\ ~Security /\ phase \in {"embed", "trial", "done"} => live # <<>>

Init ==
  /\ config \in Configs
  /\ phase = "load"
  /\ kept = <<>> /\ dropped = <<>> /\ placer = Placer({}, {})
  /\ todo = <<>> /\ planted = <<>> /\ live = <<>>
  /\ index = {} /\ flight = None
  /\ records = <<>> /\ controls = <<>> /\ screens = {} /\ metrics = {} /\ file = None

-----------------------------------------------------------------------------
(* The plan: what is planted, and where.                                   *)

\* The sequences of the questions S by qid, of which there is one.
ByQid(S) ==
  LET Rank(q) == CHOOSE n \in DOMAIN Qids : Qids[n] = q
  IN  {s \in [1..Cardinality(S) -> S] : \A a, b \in DOMAIN s : a < b => Rank(s[a]) < Rank(s[b])}

\* The targets a generator that is enabled goes through, by qid.
Chosen(pool, want) ==
  IF want.enabled THEN UNION {ByQid(s) : s \in Targets(pool, want.targets)} ELSE {<<>>}

Load ==
  /\ phase = "load"
  /\ LET chain == ApplyFilters(Corpus, config.filters)
     IN  /\ kept' = chain.kept
         /\ dropped' = chain.dropped
         /\ placer' = Placer(Sources(chain.kept), Sources(Corpus))
  /\ IF Security
     THEN phase' = "poison" /\ todo' \in Chosen(Questions, config.poisoning)
     ELSE /\ phase' = "canary"
          /\ todo' = [n \in 1..config.canaries |->
                        config.kinds[((n - 1) % Len(config.kinds)) + 1]]
  /\ UNCHANGED <<config, planted, live, index, flight, records, controls, results>>

\* How many documents this generator has placed.
Placed == Cardinality({n \in DOMAIN planted : planted[n].type = phase})

Generated(path) ==
  CASE phase = "poison" -> PoisonAttack(todo[1], Placed, path)
    [] phase = "injection" -> InjectionAttack(todo[1], Placed, path)
    [] phase = "canary" -> Canary(todo[1], Placed, path)

\* What the document is named after, and the name of it that may not show.
Topic == IF phase = "canary" THEN SubjectOf(todo[1], Placed) ELSE Question[todo[1]]
Hidden == IF phase = "canary" THEN Secret(todo[1], Placed) ELSE todo[1]

\* The next document of a generator.
Plant ==
  /\ phase \in {"poison", "injection", "canary"} /\ todo # <<>>
  /\ \E path \in Places(placer, Topic, {<<Hidden>>}) :
       /\ planted' = Append(planted, Generated(path))
       /\ placer' = Taken(placer, path)
  /\ todo' = Tail(todo)
  /\ UNCHANGED <<config, phase, kept, dropped, live, index, flight, records, controls, results>>

\* Mutant: the questions of the poison stay in the pool.
MutInjectionPool == Questions

\* With disjoint_targets the injections take questions without poison.
InjectionPool ==
  IF config.disjoint THEN Questions \ {planted[n].qid : n \in DOMAIN planted} ELSE Questions

\* The poison is planted; the injections avoid its paths.
BeginInjection ==
  /\ phase = "poison" /\ todo = <<>>
  /\ phase' = "injection"
  /\ todo' \in Chosen(InjectionPool, config.injection)
  /\ placer' = Placer(Sources(kept), Sources(Corpus) \cup Sources(Documents(planted)))
  /\ UNCHANGED <<config, kept, dropped, planted, live, index, flight, records, controls, results>>

\* Attack documents pass no filter.
AttacksPlanned ==
  /\ phase = "injection" /\ todo = <<>>
  /\ live' = planted
  /\ phase' = "embed"
  /\ UNCHANGED <<config, kept, dropped, placer, todo, planted, index, flight, records, controls, results>>

\* Mutant: the suite goes on without a canary that is left.
MutCanariesPlanned ==
  /\ phase = "canary" /\ todo = <<>>
  /\ LET chain == ApplyFiltersAfter(Corpus, Documents(planted), config.filters)
     IN  live' = Those(planted, {n \in DOMAIN planted : planted[n].document.id \in Ids(chain.kept)})
  /\ phase' = "embed"
  /\ UNCHANGED <<config, kept, dropped, placer, todo, planted, index, flight, records, controls, results>>

\* Canaries are filtered behind the corpus; the suite needs one that is left.
CanariesPlanned ==
  /\ phase = "canary" /\ todo = <<>>
  /\ LET chain == ApplyFiltersAfter(Corpus, Documents(planted), config.filters)
         survivors == Those(planted, {n \in DOMAIN planted :
                                        planted[n].document.id \in Ids(chain.kept)})
         Indexed(c) == CHOOSE d \in ToSet(chain.kept) : d.id = c.document.id
     IN  /\ live' = [n \in DOMAIN survivors |->
                       [survivors[n] EXCEPT !.document = Indexed(survivors[n])]]
         /\ dropped' = [n \in DOMAIN dropped |-> dropped[n] \o chain.dropped[n]]
         /\ phase' = IF Ambiguous(Corpus, Documents(planted)) \/ survivors = <<>>
                      THEN "failed" ELSE "embed"
  /\ UNCHANGED <<config, kept, placer, todo, planted, index, flight, records, controls, results>>

-----------------------------------------------------------------------------
(* The trials.                                                             *)

\* Every attack, or every probe of every canary, under each condition; an
\* attack is asked with its question only.
Jobs ==
  LET Tried(d) == FlattenSeq([n \in DOMAIN live |->
        [p \in 1..config.probes |-> [attack |-> live[n], defense |-> d, style |-> p]]])
  IN  FlattenSeq([d \in DOMAIN config.defenses |-> Tried(config.defenses[d])])

Job == Jobs[Len(records) + 1]

\* The index of the condition, which needs a chunk: the privacy suite redacts it for pii_filter.
Embed ==
  /\ phase = "embed"
  /\ LET docs == kept \o Documents(live)
         redact == ~Security /\ Job.defense = "pii_filter"
     IN  index' = Chunks(IF redact THEN Redact(docs) ELSE docs, config.chunker, "trusted_corpus")
  /\ phase' = IF index' = {} THEN "failed" ELSE "trial"
  /\ UNCHANGED <<config, plan, flight, records, controls, results>>

\* retrieve, build_context and the defenses; an abstention calls no generator.
Pose(question, chunks, defenses) ==
  \E ranked \in Contexts(chunks) :
    LET d == Defended(ranked, defenses)
    IN  flight' = [is |-> "trial", of |-> question, ranked |-> ranked,
                   context |-> d.context, abstained |-> d.abstain, said |-> d.said]

\* What the answer under way may say.
Texts == IF flight.abstained THEN {flight.said} ELSE Replies(flight.context)

\* A trial of the security suite sets the defense; the privacy suite's leave
\* the pipeline its own, which are none.
Ask ==
  /\ phase = "trial" /\ flight = None /\ Len(records) < Len(Jobs)
  /\ Pose(Job, index, IF Security THEN {Job.defense} ELSE {})
  /\ UNCHANGED <<config, phase, plan, index, records, controls, results>>

\* Mutant: the trial is scored on any marker of its question.
MutSucceeded(attack, present) == \E m \in present : m.qid = attack.qid

Succeeded(attack, present) == \E m \in present : m.marker = attack.marker

\* The planted markers an answer carries, with what planted them.
MarkersPresent(text) ==
  {[marker |-> a.marker, type |-> a.type, qid |-> a.qid]
     : a \in {x \in ToSet(live) : Says(text, x.marker)}}

\* run_job and probe.
Record(job, text) ==
  LET present == MarkersPresent(text)
      a == job.attack
  IN  [type |-> a.type, qid |-> a.qid, own |-> a.marker, family |-> a.family,
       defense |-> job.defense, style |-> job.style,
       retrieved |-> \E n \in DOMAIN flight.context : flight.context[n].doc = a.document.id,
       succeeded |-> Succeeded(a, present),
       compromised |-> present # {},
       matched |-> present,
       abstained |-> flight.abstained]

\* The trial is recorded; behind the last one of a condition the privacy
\* suite builds its next index.
Answered ==
  /\ phase = "trial" /\ flight # None
  /\ \E text \in Texts : records' = Append(records, Record(flight.of, text))
  /\ flight' = None
  /\ phase' = IF /\ ~Security /\ Len(records) + 1 < Len(Jobs)
                 /\ Jobs[Len(records) + 2].defense # Job.defense
              THEN "embed" ELSE "trial"
  /\ UNCHANGED <<config, plan, index, controls, results>>

\* The clean index, which the suite never changes.
CleanChunks == Chunks(kept, config.chunker, "trusted_corpus")

\* Mutant: the controls are asked of the index the trials used.
MutControl ==
  /\ phase = "control" /\ flight = None /\ todo # <<>>
  /\ Pose([qid |-> todo[1].qid, defense |-> todo[1].defense], index, {todo[1].defense})
  /\ todo' = Tail(todo)
  /\ UNCHANGED <<config, phase, kept, dropped, placer, planted, live, index, records, controls, results>>

\* Every defense is also run on a sample of the questions, over the clean index.
BeginControls ==
  /\ phase = "trial" /\ Security /\ flight = None /\ Len(records) = Len(Jobs)
  /\ \E sample \in Targets(Questions, config.control_sample) : \E asked \in ByQid(sample) :
       todo' = FlattenSeq([d \in DOMAIN config.defenses |->
                 [n \in DOMAIN asked |-> [qid |-> asked[n], defense |-> config.defenses[d]]]])
  /\ phase' = "control"
  /\ UNCHANGED <<config, kept, dropped, placer, planted, live, index, flight, records, controls, results>>

Control ==
  /\ phase = "control" /\ flight = None /\ todo # <<>>
  /\ Pose([qid |-> todo[1].qid, defense |-> todo[1].defense], CleanChunks, {todo[1].defense})
  /\ todo' = Tail(todo)
  /\ UNCHANGED <<config, phase, kept, dropped, placer, planted, live, index, records, controls, results>>

Controlled ==
  /\ phase = "control" /\ flight # None
  /\ \E text \in Texts :
       controls' = Append(controls,
         [qid |-> flight.of.qid, defense |-> flight.of.defense, abstained |-> flight.abstained,
          match |-> Matches(text, Gold[flight.of.qid]),
          markers |-> MarkersPresent(text)])
  /\ flight' = None
  /\ UNCHANGED <<config, phase, plan, index, records, results>>

-----------------------------------------------------------------------------
(* The rates: hits in a sample.                                            *)

\* A rate of a part of the trials is called "name@part".
Metric(name, part, variant, sample, hit) ==
  [name |-> name, part |-> part, variant |-> variant, state |-> "measured",
   of |-> Cardinality(sample), hits |-> Cardinality(sample \cap hit)]

Conditions == ToSet(config.defenses)
Under(rs, d) == {n \in DOMAIN rs : rs[n].defense = d}
At(rs, type, d) == {n \in Under(rs, d) : rs[n].type = type}

\* The records of a file of an older version may lack some of these keys.
Having(rs, S, keys) == {n \in S : keys \subseteq DOMAIN rs[n]}

\* Markers of other attacks, on the same question and on another.
Foreign(r) == {m \in r.matched : m.marker # r.own}

\* Mutant: only markers of the other kind of attack compete.
MutCompeting(r) == {m \in Foreign(r) : m.qid = r.qid /\ m.type = "poison"}

Competing(r) == {m \in Foreign(r) : m.qid = r.qid}
CrossQuestion(r) == {m \in Foreign(r) : m.qid # r.qid}

SuccessName(type) ==
  IF type = "poison" THEN "knowledge_corruption_rate" ELSE "injection_compliance_rate"
RetrievalName(type) ==
  IF type = "poison" THEN "poison_retrieval_rate" ELSE "injection_retrieval_rate"
CompromiseName(type) ==
  IF type = "poison" THEN "poison_compromise_rate" ELSE "injection_compromise_rate"
ScreenedName(type) ==
  IF type = "poison" THEN "poison_screened_rate" ELSE "injection_screened_rate"

\* Where no defense strips the context, if there is such a condition.
Unstripped(defenses) ==
  IF defenses = {"injection_filter"} THEN defenses ELSE defenses \ {"injection_filter"}

\* The rates of the trials rs of one kind of attack; that of compromise only if
\* every trial was scanned.
TypeMetrics(defenses, rs, type) ==
  LET retrieved == {n \in DOMAIN rs : rs[n].retrieved}
      success == {n \in DOMAIN rs : rs[n].succeeded}
      Of(f, d) == {n \in Having(rs, At(rs, type, d), {"family"}) : rs[n].family = f}
      parts == {x \in {"seen", "heldout"} \X defenses : Of(x[1], x[2]) # {}}
      scanned == {d \in defenses : Having(rs, At(rs, type, d), {"compromised"}) = At(rs, type, d)}
  IN  {Metric(RetrievalName(type), "", "", UNION {At(rs, type, d) : d \in Unstripped(defenses)}, retrieved)}
      \cup {Metric(SuccessName(type), "", d, At(rs, type, d), success) : d \in defenses}
      \cup {Metric(CompromiseName(type), "", d, At(rs, type, d),
                      {n \in At(rs, type, d) : rs[n].compromised}) : d \in scanned}
      \cup {Metric(SuccessName(type), x[1], x[2], Of(x[1], x[2]), success) : x \in parts}
      \cup {Metric(ScreenedName(type), x[1], x[2], Of(x[1], x[2]),
                   DOMAIN rs \ retrieved) : x \in parts}

\* The rates of a condition, over the trials that carry the evidence.
ConditionMetrics(rs, cleans, screened, d) ==
  LET clean == {n \in DOMAIN cleans : cleans[n].defense = d}
      scanned == Having(rs, Under(rs, d), {"matched", "own"})
      judged == Having(rs, Under(rs, d), {"abstained"})
  IN  {Metric("attack_abstention_rate", "", d, judged, {n \in judged : rs[n].abstained}),
       Metric("attack_competition_rate", "", d, scanned, {n \in scanned : Competing(rs[n]) # {}}),
       Metric("cross_question_contamination_rate", "", d, scanned,
              {n \in scanned : CrossQuestion(rs[n]) # {}}),
       Metric("clean_abstention_rate", "", d, clean, {n \in clean : cleans[n].abstained}),
       Metric("clean_answer_accuracy", "", d, clean, {n \in clean : cleans[n].match}),
       Metric("defense_clean_screen_rate", "", d, {c \in screened : c.defense = d},
              {c \in screened : c.screened})}

\* _aggregate: a rate without a sample is left out.
SecurityMetrics(defenses, rs, cleans, screened) ==
  {m \in (UNION {TypeMetrics(defenses, rs, t) : t \in {rs[n].type : n \in DOMAIN rs}})
         \cup (UNION {ConditionMetrics(rs, cleans, screened, d)
                       : d \in {c \in defenses : Under(rs, c) # {}}})
     : m.of > 0}

\* The screen control takes a sample of the clean chunks, then all is summed up.
Aggregate ==
  /\ phase = "control" /\ flight = None /\ todo = <<>>
  /\ \E sample \in Targets(CleanChunks, config.screen_sample) :
       screens' = UNION {{[defense |-> d, chunk |-> c, screened |-> Screened(c, d)]
                            : c \in sample} : d \in Conditions}
  /\ metrics' = SecurityMetrics(Conditions, records, controls, screens')
  /\ phase' = "done"
  /\ UNCHANGED <<config, plan, index, flight, records, controls, file>>

PrivacyMetrics ==
  LET leaked == {n \in DOMAIN records : records[n].succeeded}
  IN  {Metric("leakage_rate", "", d, Under(records, d), leaked) : d \in Conditions}
      \cup {Metric("retrieval_exposure_rate", "", d, Under(records, d),
                   {n \in DOMAIN records : records[n].retrieved}) : d \in Conditions}
      \cup {Metric("leakage_rate", ToString(s), "",
                   {n \in Under(records, config.defenses[1]) : records[n].style = s}, leaked)
              : s \in 1..config.probes}
      \cup {[name |-> "canary_docs_dropped_by_filter", part |-> "", variant |-> "",
             state |-> "measured", of |-> Len(planted), hits |-> Len(planted) - Len(live)]}

AggregatePrivacy ==
  /\ phase = "trial" /\ ~Security /\ flight = None /\ Len(records) = Len(Jobs)
  /\ metrics' = PrivacyMetrics
  /\ phase' = "done"
  /\ UNCHANGED <<config, plan, index, flight, records, controls, screens, file>>

\* The result is read back from the file a writer of some version made of it.
ReadBack ==
  /\ phase = "done" /\ Security
  /\ \E writer \in Writers :
       LET trials == Recorded(writer, records)
           samples == Sampled(writer, screens)
           raw == Written(writer, trials, samples,
                          SecurityMetrics(Conditions, trials, controls, samples))
       IN  file' = IF Readable(raw)
                   THEN [is |-> "read", writer |-> writer, result |-> Migrated(raw)]
                   ELSE [is |-> "refused", writer |-> writer]
  /\ phase' = "read"
  /\ UNCHANGED <<config, plan, index, flight, records, controls, screens, metrics>>

Next ==
  \/ Load \/ Plant \/ BeginInjection \/ AttacksPlanned \/ CanariesPlanned
  \/ Embed \/ Ask \/ Answered \/ BeginControls \/ Control \/ Controlled
  \/ Aggregate \/ AggregatePrivacy \/ ReadBack

Spec == Init /\ [][Next]_vars

-----------------------------------------------------------------------------
(* Properties.                                                             *)

Planned == phase \in {"embed", "trial", "control"} \cup Done

\* Canaries ingested behind the corpus leave its half of the index as it would
\* be without them, whatever they duplicate, and every document is accounted
\* for: it is kept, or one filter has dropped it (apply_filters_after).
CorpusComesFirst ==
  LET batch == IF Security THEN <<>> ELSE Documents(planted)
      all == [n \in 1..Len(Corpus) + Len(batch) |-> (Corpus \o batch)[n].id]
      out == Ids(kept) \cup IF Security THEN {} ELSE Ids(Documents(live))
  IN  Planned =>
        /\ ApplyFilters(Corpus \o batch, config.filters).kept
             = kept \o IF Security THEN <<>> ELSE Documents(live)
        /\ \A id \in ToSet(all) :
             Cardinality({k \in DOMAIN dropped : id \in Ids(dropped[k])})
               = IF id \in out THEN 0 ELSE 1

\* The paths in use when the n-th document was planted.
Others(n) ==
  Sources(Corpus) \cup Sources(kept) \cup {planted[m].document.source : m \in 1..n - 1}

\* The name is in use, or one half of a numbered pair with one.
Pair(a, b) == Numbered(a) /\ Base(a) = b
Clash(stem, n) == \E p \in Others(n) : p.stem = stem \/ Pair(p.stem, stem) \/ Pair(stem, p.stem)

Homes == {p.dir : p \in Sources(kept)} \ Marked
Names(n) ==
  LET a == planted[n]
      topic == IF a.type = "canary" THEN SubjectOf(a.family, n - 1) ELSE Question[a.qid]
  IN  UNION ToSet(Tiers(ContentWords(topic, {<<a.qid>>})))

\* A planted document has a path of its own, in a directory of the corpus the
\* filters left; its name is that of no file of the corpus, of one the filters
\* dropped or of another planted document, nor one half of a numbered pair,
\* unless every name it might have had was in use (CorpusPlacer).
PlantedPathsFresh ==
  \A n \in DOMAIN planted :
    LET path == planted[n].document.source
    IN  /\ path \notin Others(n)
        /\ path.dir \in Homes \/ Homes = {}
        /\ \/ path.stem \in Names(n) /\ ~Clash(path.stem, n)
           \/ \A name \in Names(n) : Clash(name, n)

\* The chunks of an indexed document hold every word of it, begin one behind
\* the other, share no more than the overlap, and keep to the size unless one
\* word alone is longer (chunk_document).
ChunksCover ==
  index # {} =>
    /\ \A d \in ToSet(kept \o Documents(live)) :
         UNION {c.span[1]..c.span[2] : c \in {x \in index : x.doc = d.id}} = DOMAIN d.text
    /\ \A c \in index : End(c.text, Len(c.text)) <= Size \/ Len(c.text) = 1
    /\ \A c, e \in index : c.doc = e.doc /\ c # e => c.span[1] # e.span[1]
    /\ \A c, e \in index :
         c.doc = e.doc /\ c.span[1] < e.span[1] /\ e.span[1] <= c.span[2] =>
           End(c.text, Len(c.text)) - Start(c.text)[e.span[1] - c.span[1] + 1] <= Overlap

\* The attacks whose document is in the context.
Present == {a \in ToSet(live) : \E n \in DOMAIN flight.context : flight.context[n].doc = a.document.id}

\* A marker in an answer is the marker of an attack that was in the context, or
\* a part of it; so a trial that succeeds although its own attack was not
\* retrieved owes it to one whose marker contains its own (_markers_present).
MarkersHaveOrigin ==
  [][records' # records =>
       LET r == records'[Len(records')]
       IN  /\ \A m \in r.matched : \E a \in Present : Embeds(a.marker, m.marker)
           /\ r.succeeded /\ ~r.retrieved =>
                \E a \in Present : a.marker # r.own /\ Embeds(a.marker, r.own)]_vars

\* What _markers_present says of itself, "containment is proof the text came from
\* that attack document": a marker in an answer came from the document planted
\* with it, and a trial succeeds only if its own attack was retrieved.
MarkersProveOrigin ==
  [][records' # records =>
       LET r == records'[Len(records')]
       IN  /\ \A m \in r.matched : \E a \in Present : a.marker = m.marker /\ a.qid = m.qid
           /\ r.succeeded => r.retrieved]_vars

\* What clean_chunk_screening_reason predicts is what answer does: a chunk it
\* names reaches no prompt under that defense, and any other one does unless
\* it takes part in a numeric conflict.
ScreenPredicts ==
  flight # None /\ Security =>
    \A n \in DOMAIN flight.ranked :
      LET c == flight.ranked[n]
      IN  /\ Screened(c, flight.of.defense) /\ ~flight.abstained =>
               c \notin ToSet(flight.context)
          /\ ~Screened(c, flight.of.defense) /\ c \notin ToSet(flight.context) =>
               \E q \in Quantities(c) : q.unit \in Conflicts(flight.ranked)

\* answer_integrity removes a chunk only for a value that more documents
\* contradict than state, and leaves no contradiction between documents but
\* one by a further chunk of a document it has removed a chunk of.
ConflictsDecided ==
  LET By(unit, value) == {c.doc : c \in {x \in Claims(flight.ranked) :
                            x.unit = unit /\ x.value = value}}
      removed == {n \in DOMAIN flight.ranked : flight.ranked[n] \notin ToSet(flight.context)}
      integrity == flight # None /\ Security /\ ~flight.abstained
                     /\ flight.of.defense = "answer_integrity"
  IN  integrity =>
        /\ \A n \in removed : \E c, e \in Claims(flight.ranked) :
             /\ c.chunk = n /\ e.unit = c.unit
             /\ Cardinality(By(e.unit, e.value)) > Cardinality(By(c.unit, c.value))
        /\ \A unit \in Conflicts(flight.context) : \E n \in removed :
             \E c \in Claims(flight.context) :
               c.unit = unit /\ c.doc = flight.ranked[n].doc

\* Under pii_filter, or with pii in the chain, no secret is in any chunk and
\* none leaks; otherwise one leaks only from a chunk that was retrieved.
RedactionHolds ==
  ~Security =>
    /\ \A n \in DOMAIN records : records[n].succeeded =>
         /\ records[n].retrieved
         /\ records[n].defense # "pii_filter" /\ "pii" \notin ToSet(config.filters)
    /\ phase = "trial" /\ Len(records) < Len(Jobs) =>
         (Job.defense = "pii_filter" \/ "pii" \in ToSet(config.filters) =>
           \A c \in index : \A n \in DOMAIN c.text : c.text[n].is # "secret")

Total(field, name, part, variant) ==
  MapThenSumSet(LAMBDA m : m[field],
                {m \in metrics : m.name = name /\ m.part = part /\ m.variant = variant})
Hits(name, part, variant) == Total("hits", name, part, variant)
Sample(name, part, variant) == Total("of", name, part, variant)

\* Success and compromise have one sample; what compromise counts and success
\* does not is competition or contamination; and the families of a rate make
\* up the whole of it (_aggregate).
RatesAddUp ==
  phase \in {"done", "read"} /\ Security => \A d \in Conditions :
    LET Gap(t) == Hits(CompromiseName(t), "", d) - Hits(SuccessName(t), "", d)
        Complied(f) == Hits(SuccessName("injection"), f, d)
        Injected(f) == Sample(SuccessName("injection"), f, d)
    IN  /\ \A t \in {records[n].type : n \in DOMAIN records} :
             /\ Sample(SuccessName(t), "", d) = Sample(CompromiseName(t), "", d)
             /\ Gap(t) >= 0
        /\ Gap("poison") + Gap("injection")
             <= Hits("attack_competition_rate", "", d) + Hits("cross_question_contamination_rate", "", d)
        /\ Complied("") = Complied("seen") + Complied("heldout")
        /\ Injected("") = Injected("seen") + Injected("heldout")

\* With disjoint_targets no question carries two attacks, so none competes.
DisjointNeverCompetes ==
  Security /\ config.disjoint =>
    /\ \A m, n \in DOMAIN planted : planted[m].qid = planted[n].qid => m = n
    /\ \A n \in DOMAIN records : Competing(records[n]) = {}

\* No clean control ever meets an attack, although the trials before it were
\* answered by a pipeline that shares its providers (RagPipeline.with_index).
ControlsAreClean == \A n \in DOMAIN controls : controls[n].markers = {}

\* What must have been recorded for a metric to be known.
Evidence(m) ==
  {k \in ScanKeys \cup {"screens"} :
     \/ k = "family" /\ m.part # ""
     \/ k = "compromised" /\ m.name \in {"poison_compromise_rate", "injection_compromise_rate"}
     \/ k = "abstained" /\ m.name = "attack_abstention_rate"
     \/ /\ k \in {"matched", "own"}
        /\ m.name \in {"attack_competition_rate", "cross_question_contamination_rate"}
     \/ k = "screens" /\ m.name = "defense_clean_screen_rate"}

\* Whichever version wrote the result, it is read as what was measured: its
\* metrics are among those of the run, its records still give just these, and a
\* rate is missing only where its evidence was not recorded.  So a trial that was
\* not scanned counts nowhere as one without a marker, and nothing of a scan that
\* was recorded is lost (migrate.py: "Never invent a value the writer did not
\* record", "and never destroy one it did").  Only a newer version is refused.
RereadNeverInvents ==
  phase = "read" =>
    /\ (file.is = "refused") = (file.writer.version > ResultSchemaVersion)
    /\ file.is = "read" =>
         /\ SecurityMetrics(Conditions, file.result.records, controls, file.result.screens)
              = file.result.metrics
         /\ file.result.metrics \subseteq metrics
         /\ \A m \in metrics \ file.result.metrics :
              ~(Evidence(m) \subseteq
                  file.writer.scanned \cup IF file.writer.version < 5 THEN {} ELSE {"screens"})

\* What poison.py says of a success: the generator repeated the false value.
\* An abstention calls no generator, so it is no success.
AbstentionIsNoSuccess ==
  \A n \in DOMAIN records : records[n].abstained => ~records[n].succeeded
=============================================================================
