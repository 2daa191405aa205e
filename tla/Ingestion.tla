------------------------------ MODULE Ingestion ------------------------------
(***************************************************************************)
(* What ingestion does to a corpus: the filter chain                       *)
(* (rag_crucible/ingest/filters.py, pii.py), the chunkers (chunkers.py)    *)
(* and the provenance of a chunk (provenance.py, build.py).                *)
(*                                                                         *)
(* A text is a sequence of words; a word is a record of what it is, what   *)
(* it says and how it is written.  A quantity, a secret and a marker are   *)
(* single words, as they are for the patterns that look for them.          *)
(***************************************************************************)
EXTENDS Integers, Sequences, FiniteSets, SequencesExt

CONSTANTS
  Width,         \* Width[is]: the characters of such a word
  MinTokens,     \* _MIN_TOKENS_FOR_LANGUAGE
  Ratio,         \* 1 / _EN_RATIO_THRESHOLD
  MinDoc,        \* _MIN_DOC_CHARS, in words
  Size, Overlap  \* size_tokens and overlap_tokens of the chunker, in characters

ASSUME IngestionAssumption ==
  /\ \A is \in DOMAIN Width : Width[is] \in Nat \ {0}
  /\ {"prose", "heading", "quantity", "secret", "redacted", "order", "token"} \subseteq DOMAIN Width
  /\ {MinTokens, Ratio, MinDoc, Size, Overlap} \subseteq Nat
  /\ Overlap < Size

\* What a sequence has at these positions.
Those(seq, positions) ==
  LET those[n \in 0..Len(seq)] ==
        IF n = 0 THEN <<>>
        ELSE IF n \in positions THEN Append(those[n - 1], seq[n]) ELSE those[n - 1]
  IN  those[Len(seq)]

\* Kinds: "prose" is English, "foreign" is not; "boiler" is a line of
\* boilerplate, "heading" starts a section; form is the unit of a quantity
\* and the letter case of prose.
Word(is, what, form) == [is |-> is, what |-> what, form |-> form]
Redaction == Word("redacted", "[REDACTED]", "")

\* doc_id is a digest of where the text was found and what it was.
NewDocument(source, text) ==
  [id |-> <<source, text>>, source |-> source, text |-> text]
Ids(docs) == {docs[n].id : n \in DOMAIN docs}

\* load_corpus: a file no loader is registered for, or whose loader raises,
\* becomes a record of why it was skipped.
LoadCorpus(files) ==
  LET loaded == Those(files, {n \in DOMAIN files : files[n].loader = "ok"})
      refused == Those(files, {n \in DOMAIN files : files[n].loader # "ok"})
  IN  [docs |-> [n \in DOMAIN loaded |-> NewDocument(loaded[n].source, loaded[n].text)],
       skipped |-> [n \in DOMAIN refused |->
         [source |-> refused[n].source,
          reason |-> IF refused[n].loader = "none" THEN "unsupported_suffix" ELSE "loader_error"]]]

-----------------------------------------------------------------------------
(* The filters.                                                            *)

\* _normalized: case and spacing do not tell texts apart.
Normalized(text) ==
  [n \in DOMAIN text |-> IF text[n].is = "prose" THEN [text[n] EXCEPT !.form = ""] ELSE text[n]]

\* Mutant: the last of two equal documents is the one that is kept.
MutDedup(docs) ==
  Those(docs, {n \in DOMAIN docs :
    \A m \in n + 1..Len(docs) : Normalized(docs[m].text) # Normalized(docs[n].text)})

\* The first of equal documents is kept.
Dedup(docs) ==
  Those(docs, {n \in DOMAIN docs :
    \A m \in 1..n - 1 : Normalized(docs[m].text) # Normalized(docs[n].text)})

\* Short texts pass, long ones need a share of English.
Language(docs) ==
  LET English(text) == {w \in DOMAIN text : text[w].is = "prose"}
  IN  Those(docs, {n \in DOMAIN docs :
        \/ Len(docs[n].text) < MinTokens
        \/ Cardinality(English(docs[n].text)) * Ratio >= Len(docs[n].text)})

\* Boilerplate goes; what is left of a document may be too little.
Boilerplate(docs) ==
  LET Cleaned(text) == Those(text, {w \in DOMAIN text : text[w].is # "boiler"})
      cleaned == [n \in DOMAIN docs |-> [docs[n] EXCEPT !.text = Cleaned(docs[n].text)]]
  IN  Those(cleaned, {n \in DOMAIN docs : Len(cleaned[n].text) >= MinDoc})

\* Mutant: only the first secret of a text is redacted.
MutRedacted(text) ==
  [n \in DOMAIN text |->
     IF text[n].is = "secret" /\ \A m \in 1..n - 1 : text[m].is # "secret"
     THEN Redaction ELSE text[n]]

\* redact_pii: every secret-shaped word is replaced.
Redacted(text) == [n \in DOMAIN text |-> IF text[n].is = "secret" THEN Redaction ELSE text[n]]
Redact(docs) == [n \in DOMAIN docs |-> [docs[n] EXCEPT !.text = Redacted(@)]]

Filter(name, docs) ==
  CASE name = "dedup" -> Dedup(docs)
    [] name = "language" -> Language(docs)
    [] name = "boilerplate" -> Boilerplate(docs)
    [] name = "pii" -> Redact(docs)

\* What each of the filters leaves, and at first all there is.
Filtered(docs, names) ==
  LET left[k \in 0..Len(names)] == IF k = 0 THEN docs ELSE Filter(names[k], left[k - 1])
  IN  left

\* The chain, with the documents each filter has dropped.
ApplyFilters(docs, names) ==
  LET left == Filtered(docs, names)
  IN  [kept |-> left[Len(names)],
       dropped |-> [k \in 1..Len(names) |->
         Those(left[k - 1], {n \in DOMAIN left[k - 1] : left[k - 1][n].id \notin Ids(left[k])})]]

\* The batch is filtered behind the corpus; only its half comes back.
ApplyFiltersAfter(corpus, batch, names) ==
  LET all == ApplyFilters(corpus \o batch, names)
      Own(docs) == Those(docs, {n \in DOMAIN docs : docs[n].id \in Ids(batch)})
  IN  [kept |-> Own(all.kept), dropped |-> [n \in DOMAIN all.dropped |-> Own(all.dropped[n])]]

\* What ApplyFiltersAfter refuses: a doc_id the two share, or one twice in the batch.
Ambiguous(corpus, batch) ==
  Ids(corpus) \cap Ids(batch) # {} \/ Cardinality(Ids(batch)) # Len(batch)

-----------------------------------------------------------------------------
(* The chunkers.                                                           *)

\* Where the words of a text begin and end; one character is between two.
Start(text) ==
  LET start[n \in 1..Len(text) + 1] ==
        IF n = 1 THEN 0 ELSE start[n - 1] + Width[text[n - 1].is] + 1
  IN  start
End(text, n) == Start(text)[n] + Width[text[n].is]

\* Mutant: the window steps back as far as the overlap reaches, also behind
\* the word it has started with.
MutNextWindow(text, i, j) ==
  LET start == Start(text)
  IN  Min({n \in i + 1..j + 2 : n = j + 2 \/ (n <= j /\ start[n] >= End(text, j) - Overlap)})

\* The next window begins with the earliest word of this one that is inside
\* the overlap, but behind the word this one begins with.
NextWindow(text, i, j) ==
  LET start == Start(text)
  IN  Min({n \in i + 1..j + 1 : n = j + 1 \/ start[n] >= End(text, j) - Overlap})

\* _fixed_spans: windows of whole words, as pairs of the first and the last.
FixedSpans(text) ==
  LET Fit(i) == Max({i} \cup {j \in i..Len(text) : End(text, j) - Start(text)[i] <= Size})
      from[i \in 1..Len(text) + 1] ==
        IF i > Len(text) THEN <<>>
        ELSE <<<<i, Fit(i)>>>> \o
             (IF Fit(i) = Len(text) THEN <<>> ELSE from[NextWindow(text, i, Fit(i))])
  IN  from[1]

\* _split_sections: a preamble, then from each heading to the next.
Sections(text) ==
  LET heads == Those([n \in DOMAIN text |-> n], {n \in DOMAIN text : text[n].is = "heading"})
      ends == [k \in DOMAIN heads |-> IF k = Len(heads) THEN Len(text) ELSE heads[k + 1] - 1]
      preamble == IF heads # <<>> /\ heads[1] > 1 THEN <<<<1, heads[1] - 1>>>> ELSE <<>>
  IN  preamble \o [k \in DOMAIN heads |-> <<heads[k], ends[k]>>]

\* A section reaches to the next heading; one that is too long is cut like a
\* text of its own.
StructureSpans(text) ==
  LET Length(s) ==
        IF s[2] = Len(text) THEN End(text, s[2]) - Start(text)[s[1]]
        ELSE Start(text)[s[2] + 1] - Start(text)[s[1]]
      Cut(s) ==
        IF Length(s) <= Size THEN <<s>>
        ELSE [k \in DOMAIN FixedSpans(SubSeq(text, s[1], s[2])) |->
                LET part == FixedSpans(SubSeq(text, s[1], s[2]))[k]
                IN  <<s[1] + part[1] - 1, s[1] + part[2] - 1>>]
  IN  IF Sections(text) = <<>> THEN FixedSpans(text)
      ELSE FlattenSeq([k \in DOMAIN Sections(text) |-> Cut(Sections(text)[k])])

Spans(text, chunker) == IF chunker = "fixed" THEN FixedSpans(text) ELSE StructureSpans(text)

\* provenance_for_channel; trust in tenths.
Provenance(channel) ==
  CASE channel = "trusted_corpus" -> [verified |-> TRUE, trust |-> 10]
    [] channel = "user_upload" -> [verified |-> FALSE, trust |-> 2]
    [] OTHER -> [verified |-> FALSE, trust |-> 0]

\* chunk_documents: a chunk is named by its document and its place in it.
Chunks(docs, chunker, channel) ==
  UNION {{[doc |-> docs[n].id, source |-> docs[n].source, span |-> s,
           text |-> SubSeq(docs[n].text, s[1], s[2]), provenance |-> Provenance(channel)]
            : s \in ToSet(Spans(docs[n].text, chunker))} : n \in DOMAIN docs}
=============================================================================
