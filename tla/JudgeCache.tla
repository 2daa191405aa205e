------------------------------ MODULE JudgeCache ------------------------------
(***************************************************************************)
(* The faithfulness suite (rag_crucible/eval/faithfulness.py), its judge   *)
(* and the file the judge caches its verdicts in                           *)
(* (rag_crucible/eval/judge.py).  Runs open the file whole and append to   *)
(* it; several of them, in one process or in many, may have it open.       *)
(* Within a run the items are judged concurrently and each of them one     *)
(* claim at a time; between the look into the cache and the answer of the  *)
(* model everything else may happen.                                       *)
(***************************************************************************)
EXTENDS Integers, Sequences, FiniteSets, SequencesExt

CONSTANTS
  Runs,         \* the runs whose judge uses the file
  Items,        \* the answers that are judged
  Sample,       \* Sample[r]: those run r judges
  Claims,       \* Claims[i]: the claims extracted from the answer
  Citations,    \* Citations[i]: the chunks it cites, from parsed citations
  Replies,      \* Replies[k]: what the model may say about the key
  Heuristic,    \* Heuristic[k]: _heuristic_supported for the key
  PerCitation,  \* _MAX_CLAIMS_PER_CITATION
  Context,      \* the whole context, as the text claims are judged against
  Bad,          \* a line json.loads refuses
  MaxFaults     \* bound: appends that fail or are cut short

ClaimSet == UNION {ToSet(Claims[i]) : i \in Items}
ChunkSet == UNION {ToSet(Citations[i]) : i \in Items}
\* LlmJudge._key: a digest of the claim and the text, taken to be injective.
Keys == ClaimSet \X (ChunkSet \cup {Context})
Modes == {"auto", "cached", "live"}
Entry == [key : Keys, supported : BOOLEAN]

ASSUME ConstantsAssumption ==
  /\ Sample \in [Runs -> SUBSET Items]
  /\ Claims \in [Items -> Seq(ClaimSet)] /\ Citations \in [Items -> Seq(ChunkSet)]
  /\ Replies \in [Keys -> SUBSET {"yes", "no", "other"}]
  /\ Heuristic \in [Keys -> BOOLEAN]
  /\ PerCitation \in Nat \ {0}
  /\ Context \notin ChunkSet /\ Bad \notin Entry
  /\ MaxFaults \in Nat

Verdict == [supported : BOOLEAN, parse_ok : BOOLEAN, cached : BOOLEAN]
Dict == UNION {[S -> BOOLEAN] : S \in SUBSET Keys}
Nothing == [k \in {} |-> TRUE]

VARIABLES
  file,     \* the lines of the cache
  open,     \* whether its last line lacks the newline
  mode,     \* of each run, "none" before it has started
  at,       \* of each run: "new", "judging" or "raised"
  entries,  \* JudgeCache._entries of each run
  item,     \* per run and item: how far _judge_answer is
  said,     \* history: what the model has said, and about what
  last,     \* history: the latest verdict that was put, by key
  loaded,   \* history: the lines each run has read
  faults

cache == <<file, open>>
vars == <<cache, mode, at, entries, item, said, last, loaded, faults>>

\* The phases of _judge_answer: the next thing to do, or waiting for the model.
NewItem == [at |-> "next", claims |-> <<>>, cited |-> <<>>, tried |-> 0]

TypeOK ==
  /\ file \in Seq(Entry \cup {Bad})
  /\ open \in BOOLEAN
  /\ mode \in [Runs -> Modes \cup {"none"}]
  /\ at \in [Runs -> {"new", "judging", "raised"}]
  /\ entries \in [Runs -> Dict]
  /\ item \in [Runs -> [Items ->
       [at : {"next", "asking", "record", "error"}, claims : Seq(Verdict),
        cited : Seq(BOOLEAN), tried : 0..PerCitation]]]
  /\ said \subseteq Keys \X {"yes", "no", "other"}
  /\ last \in Dict
  /\ loaded \in [Runs -> Seq(Entry \cup {Bad})]
  /\ faults \in 0..MaxFaults

Init ==
  /\ file = <<>> /\ open = FALSE
  /\ mode = [r \in Runs |-> "none"]
  /\ at = [r \in Runs |-> "new"]
  /\ entries = [r \in Runs |-> Nothing]
  /\ item = [r \in Runs |-> [i \in Items |-> NewItem]]
  /\ said = {}
  /\ last = Nothing
  /\ loaded = [r \in Runs |-> <<>>]
  /\ faults = 0

-----------------------------------------------------------------------------
(* The cache.                                                              *)

With(dict, k, v) == [x \in DOMAIN dict \cup {k} |-> IF x = k THEN v ELSE dict[x]]

\* Mutant: the first entry of a key wins.
MutLoad(lines) ==
  LET read[n \in 0..Len(lines)] ==
        IF n = 0 THEN Nothing
        ELSE IF lines[n].key \in DOMAIN read[n - 1] THEN read[n - 1]
        ELSE With(read[n - 1], lines[n].key, lines[n].supported)
  IN  read[Len(lines)]

\* The dictionary the lines make, later entries over earlier ones.
Load(lines) ==
  LET read[n \in 0..Len(lines)] ==
        IF n = 0 THEN Nothing ELSE With(read[n - 1], lines[n].key, lines[n].supported)
  IN  read[Len(lines)]

\* Mutant: an entry already known is not written again.
MutAppended(r, e) ==
  IF e.key \in DOMAIN entries[r] THEN file ELSE Append(file, e)

\* One line more; it continues the last one when that has no newline.
Appended(r, e) ==
  IF open THEN [file EXCEPT ![Len(file)] = Bad] ELSE Append(file, e)

\* put: the dictionary first, then the line.
Put(r, k, v) ==
  /\ entries' = [entries EXCEPT ![r] = With(@, k, v)]
  /\ file' = Appended(r, [key |-> k, supported |-> v])
  /\ open' = FALSE
  /\ last' = With(last, k, v)
  /\ UNCHANGED faults

\* The append is cut short, by a full disk or a kill: nothing, a piece of the
\* line, or all of it but the newline is in the file.
PutFails(r, k, v) ==
  /\ faults < MaxFaults /\ faults' = faults + 1
  /\ entries' = [entries EXCEPT ![r] = With(@, k, v)]
  /\ \/ UNCHANGED cache
     \/ /\ file' = IF open THEN [file EXCEPT ![Len(file)] = Bad] ELSE Append(file, Bad)
        /\ open' = TRUE
     \/ /\ file' = Appended(r, [key |-> k, supported |-> v])
        /\ open' = TRUE
  /\ UNCHANGED last

\* Mutant: a file that cannot be read fails the answers, not the run.
MutStart(r, m) ==
  /\ at[r] = "new"
  /\ mode' = [mode EXCEPT ![r] = m]
  /\ loaded' = [loaded EXCEPT ![r] = file]
  /\ at' = [at EXCEPT ![r] = IF Bad \in ToSet(file) THEN "error" ELSE "judging"]
  /\ entries' = [entries EXCEPT ![r] = IF Bad \in ToSet(file) THEN @ ELSE Load(file)]
  /\ UNCHANGED <<cache, item, said, last, faults>>

\* build_judge: the file is read whole; a line that is no JSON raises.
Start(r, m) ==
  /\ at[r] = "new"
  /\ mode' = [mode EXCEPT ![r] = m]
  /\ loaded' = [loaded EXCEPT ![r] = file]
  /\ IF Bad \in ToSet(file)
     THEN at' = [at EXCEPT ![r] = "raised"] /\ UNCHANGED entries
     ELSE /\ at' = [at EXCEPT ![r] = "judging"]
          /\ entries' = [entries EXCEPT ![r] = Load(file)]
  /\ UNCHANGED <<cache, item, said, last, faults>>

-----------------------------------------------------------------------------
(* _judge_answer: every claim against the context, then for each citation  *)
(* its first claims against the cited chunk until one is supported.        *)

Judging(r, i) == item[r][i]
Judged(r, i) == Len(Judging(r, i).claims) = Len(Claims[i])
Cited(r, i) == Len(Judging(r, i).cited)

\* How many claims a citation of i may be tried with.
Tries(i) == IF Len(Claims[i]) < PerCitation THEN Len(Claims[i]) ELSE PerCitation

\* Nothing is left to ask about i.
Finished(r, i) == Judged(r, i) /\ (Cited(r, i) = Len(Citations[i]) \/ Tries(i) = 0)

\* What is asked next: a claim and the text it is judged against.
Question(r, i) ==
  IF Judged(r, i)
  THEN <<Claims[i][Judging(r, i).tried + 1], Citations[i][Cited(r, i) + 1]>>
  ELSE <<Claims[i][Len(Judging(r, i).claims) + 1], Context>>

\* The verdict becomes a claim's judgment, or one more try for a citation.
Taken(r, i, v) ==
  IF ~Judged(r, i) THEN [Judging(r, i) EXCEPT !.at = "next", !.claims = Append(@, v)]
  ELSE IF v.supported \/ Judging(r, i).tried + 1 = Tries(i)
       THEN [Judging(r, i) EXCEPT !.at = "next", !.cited = Append(@, v.supported), !.tried = 0]
       ELSE [Judging(r, i) EXCEPT !.at = "next", !.tried = @ + 1]

Turn(r, i) == at[r] = "judging" /\ Judging(r, i).at = "next" /\ ~Finished(r, i)

Hit(r, i) == mode[r] # "live" /\ Question(r, i) \in DOMAIN entries[r]

\* A cached verdict comes back as one that was parsed.
Lookup(r, i) ==
  /\ Turn(r, i) /\ Hit(r, i)
  /\ item' = [item EXCEPT ![r][i] =
       Taken(r, i, [supported |-> entries[r][Question(r, i)],
                    parse_ok |-> TRUE, cached |-> TRUE])]
  /\ UNCHANGED <<cache, mode, at, entries, said, last, loaded, faults>>

\* JudgeCacheMissError fails the item.
Miss(r, i) ==
  /\ Turn(r, i) /\ ~Hit(r, i) /\ mode[r] = "cached"
  /\ item' = [item EXCEPT ![r][i].at = "error"]
  /\ UNCHANGED <<cache, mode, at, entries, said, last, loaded, faults>>

\* The model is asked, and the item waits.
Ask(r, i) ==
  /\ Turn(r, i) /\ ~Hit(r, i) /\ mode[r] # "cached"
  /\ item' = [item EXCEPT ![r][i].at = "asking"]
  /\ UNCHANGED <<cache, mode, at, entries, said, last, loaded, faults>>

\* Mutant: what cannot be parsed counts as not supported.
MutOpinion(reply, k) == reply = "yes"

\* Whether a reply supports the claim: the heuristic decides what it does not say.
Opinion(reply, k) == reply = "yes" \/ (reply = "other" /\ Heuristic[k])

\* The model replies, and the verdict is put and returned; it is lost with an
\* exception when the file cannot be written.
Reply(r, i, reply) ==
  LET k == Question(r, i)
      v == Opinion(reply, k)
  IN  /\ Judging(r, i).at = "asking"
      /\ said' = said \cup {<<k, reply>>}
      /\ \/ /\ Put(r, k, v)
            /\ item' = [item EXCEPT ![r][i] =
                 Taken(r, i, [supported |-> v, parse_ok |-> reply # "other", cached |-> FALSE])]
         \/ /\ PutFails(r, k, v)
            /\ item' = [item EXCEPT ![r][i].at = "error"]
      /\ UNCHANGED <<mode, at, loaded>>

\* The record is complete.
Record(r, i) ==
  /\ at[r] = "judging" /\ Judging(r, i).at = "next" /\ Finished(r, i)
  /\ item' = [item EXCEPT ![r][i].at = "record",
                          ![r][i].cited = IF Tries(i) = 0
                                          THEN [c \in 1..Len(Citations[i]) |-> FALSE] ELSE @]
  /\ UNCHANGED <<cache, mode, at, entries, said, last, loaded, faults>>

Judge(r, i) ==
  \/ Lookup(r, i) \/ Miss(r, i) \/ Ask(r, i) \/ Record(r, i)
  \/ Judging(r, i).at = "asking" /\ \E reply \in Replies[Question(r, i)] : Reply(r, i, reply)

Next == \/ \E r \in Runs, m \in Modes : Start(r, m)
        \/ \E r \in Runs : \E i \in Sample[r] : Judge(r, i)

Spec == Init /\ [][Next]_vars

-----------------------------------------------------------------------------
(* Properties.                                                             *)

\* The replies a verdict may rest on.
Grounds(k, v) ==
  {p \in said : p[1] = k /\ (p[2] = "other" => Heuristic[k] = v)
                         /\ (p[2] # "other" => (p[2] = "yes") = v)}

\* Every judgment of a claim rests on something the model said about that
\* claim in that context, in this run or in one that shared the file.  A
\* parsed one that was not cached was said in so many words, one flagged
\* parse_ok=False is the heuristic's; only a cached verdict may be the
\* heuristic's and not say so (LlmJudge.supports).
VerdictsWereSaid ==
  \A r \in Runs, i \in Items : \A c \in DOMAIN item[r][i].claims :
    LET v == item[r][i].claims[c]
        k == <<Claims[i][c], Context>>
    IN  /\ Grounds(k, v.supported) # {}
        /\ ~v.cached /\ v.parse_ok => <<k, IF v.supported THEN "yes" ELSE "no">> \in said
        /\ ~v.parse_ok => ~v.cached /\ <<k, "other">> \in said /\ v.supported = Heuristic[k]

\* Whether the last line about k supports it.
Latest(lines, k) ==
  \E n \in DOMAIN lines :
    /\ lines[n] = [key |-> k, supported |-> TRUE]
    /\ \A m \in n + 1..Len(lines) : lines[m].key # k

\* A run in mode cached repeats, for every claim and citation, what the lines
\* it has read say last: it asks nobody and adds nothing of its own, whatever
\* other runs append meanwhile ("full reproducibility for graders").
CachedReproduces ==
  \A r \in Runs, i \in Items : mode[r] = "cached" =>
    /\ item[r][i].at # "asking"
    /\ \A c \in DOMAIN item[r][i].claims :
         item[r][i].claims[c].supported = Latest(loaded[r], <<Claims[i][c], Context>>)
    /\ \A n \in DOMAIN item[r][i].cited :
         item[r][i].cited[n] = \E c \in 1..Tries(i) :
           Latest(loaded[r], <<Claims[i][c], Citations[i][n]>>)

\* While no append fails, the file can be opened and says about every key what
\* was put last, by whichever run: concurrent misses and refreshes by several
\* runs lose nothing to each other (JudgeCache.put).
FileHoldsLastPut == faults = 0 => Bad \notin ToSet(file) /\ Load(file) = last
=============================================================================
