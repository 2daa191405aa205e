------------------------------ MODULE Answering ------------------------------
(***************************************************************************)
(* RagPipeline.answer (rag_crucible/pipeline/rag.py) with its defenses     *)
(* (defenses.py, consistency.py): which contexts a question may get, what  *)
(* becomes of one under the defenses, and which answers may come of it.    *)
(*                                                                         *)
(* The embedder, the index and the reranker rank the chunks in any order.  *)
(* The generator may quote any notable word of its prompt, and no other.   *)
(***************************************************************************)
EXTENDS Placement

CONSTANTS
  K, TopN,    \* retriever.k and reranker.top_n
  Suspect,    \* the templates whose order _INJECTION_PATTERNS match
  Units       \* Units[form]: the unit _QUANTITY_RE reads, normalized

ASSUME AnsweringAssumption == K \in Nat \ {0} /\ TopN \in Nat \ {0}

MinimumTrust == 5

-----------------------------------------------------------------------------
(* Retrieval: the top k of the index, then the top_n of these.             *)

\* Arrangements of n members of S.
Arrangements(S, n) == {s \in [1..n -> S] : \A a, b \in 1..n : s[a] = s[b] => a = b}

\* What retrieve and build_context may return, without the chunks they leave out.
Contexts(index) == Arrangements(index, Min({K, TopN, Cardinality(index)}))

-----------------------------------------------------------------------------
(* The defenses.                                                           *)

LooksLikeInjection(chunk) ==
  \E n \in DOMAIN chunk.text : chunk.text[n].is = "order" /\ chunk.text[n].what \in Suspect

Trusted(chunk) == chunk.provenance.verified /\ chunk.provenance.trust >= MinimumTrust

\* Mutant: only how a chunk begins is looked at.
MutFilterInjected(context) ==
  Those(context, {n \in DOMAIN context :
    ~LooksLikeInjection([context[n] EXCEPT !.text = SubSeq(@, 1, 1)])})

FilterInjected(context) ==
  Those(context, {n \in DOMAIN context : ~LooksLikeInjection(context[n])})
FilterUntrusted(context) == Those(context, {n \in DOMAIN context : Trusted(context[n])})

\* clean_chunk_screening_reason: what a defense would delete outside a conflict.
Screened(chunk, defense) ==
  \/ defense = "injection_filter" /\ LooksLikeInjection(chunk)
  \/ defense = "answer_integrity" /\ ~Trusted(chunk)

\* The quantities a chunk states, with normalized units.
Quantities(chunk) ==
  {[value |-> w.what, unit |-> Units[w.form]]
     : w \in {x \in ToSet(chunk.text) : x.is = "quantity" /\ x.form \in DOMAIN Units}}

\* extract_numeric_claims: a document states a value once, where it does so first.
Claims(context) ==
  LET Repeated(n, q) == \E m \in 1..n - 1 :
        context[m].doc = context[n].doc /\ q \in Quantities(context[m])
  IN  UNION {{[value |-> q.value, unit |-> q.unit, chunk |-> n, doc |-> context[n].doc,
               verified |-> context[n].provenance.verified, trust |-> context[n].provenance.trust]
                : q \in {x \in Quantities(context[n]) : ~Repeated(n, x)}} : n \in DOMAIN context}

\* find_numeric_conflicts: units for which documents state different values.
Conflicts(context) ==
  LET Of(unit) == {c \in Claims(context) : c.unit = unit}
  IN  {unit \in {c.unit : c \in Claims(context)} :
         /\ Cardinality({c.value : c \in Of(unit)}) > 1
         /\ Cardinality({c.doc : c \in Of(unit)}) > 1}

\* _evidence_by_value: every document that states it adds its trust.
Score(claims, value) ==
  LET of == {c \in claims : c.value = value}
  IN  MapThenSumSet(LAMBDA d : Max({c.trust : c \in {x \in of : x.doc = d}}), {c.doc : c \in of})

\* Mutant: a tie goes to the value that ranks first.
MutDecided(claims, winner) ==
  /\ \E c \in claims : c.value = winner /\ c.verified
  /\ \A c \in claims : Score(claims, c.value) <= Score(claims, winner)

\* The winner is verified and outweighs every other value.
Decided(claims, winner) ==
  /\ \E c \in claims : c.value = winner /\ c.verified
  /\ \A c \in claims : c.value # winner => Score(claims, c.value) < Score(claims, winner)

\* resolve_numeric_conflicts: the chunks that introduce a losing value go, or
\* the pipeline abstains; the message names the values in conflict.
Resolve(context) ==
  LET of(unit) == {c \in Claims(context) : c.unit = unit}
      Winners(unit) == {v \in {c.value : c \in of(unit)} : Decided(of(unit), v)}
      rejected == {c.chunk : c \in {x \in Claims(context) :
                     x.unit \in Conflicts(context) /\ x.value \notin Winners(x.unit)}}
  IN  IF \A unit \in Conflicts(context) : Winners(unit) # {}
      THEN [abstain |-> FALSE, said |-> {},
            context |-> Those(context, (DOMAIN context) \ rejected)]
      ELSE [abstain |-> TRUE, context |-> context,
            said |-> {Word("quantity", c.value, "")
                        : c \in UNION {of(unit) : unit \in Conflicts(context)}}]

\* The defenses of a call, in the order answer applies them.
Defended(context, defenses) ==
  LET screened == IF "injection_filter" \in defenses THEN FilterInjected(context) ELSE context
      decision == Resolve(screened)
      trusted == FilterUntrusted(decision.context)
  IN  IF "answer_integrity" \notin defenses
      THEN [abstain |-> FALSE, said |-> {}, context |-> screened]
      ELSE IF decision.abstain THEN decision
      ELSE [abstain |-> trusted = <<>>, said |-> {}, context |-> trusted]

-----------------------------------------------------------------------------
(* Generation.                                                             *)

Notable(context) ==
  {w \in UNION {ToSet(context[n].text) : n \in DOMAIN context} :
     w.is \in {"quantity", "token", "secret"}}

\* What a generator that only quotes may say.
Replies(context) == SUBSET Notable(context)

\* The string m stands somewhere in the string s.
Embeds(s, m) == \E n \in 0..Len(s) - Len(m) : SubSeq(s, n + 1, n + Len(m)) = m

\* "what in text": in a word, be it a part of it only; no marker holds a space.
Says(text, what) == \E w \in text : Embeds(w.what, what)

\* answer_matches: the gold answer is in the text, the unit behind the value.
Matches(text, gold) == \E w \in text : w.what = gold.value /\ gold.unit \in {"", w.form}
=============================================================================
