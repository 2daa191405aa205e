----------------------------- MODULE MCJudgeCache -----------------------------
(* A small instance of JudgeCache for TLC: an answer of two claims that cites
   a chunk, and another answer with the first of the claims. *)
EXTENDS JudgeCache, TLC

CONSTANTS r1, r2, i1, i2, i3, c1, c2, d1

SampleDef == r1 :> {i1} @@ r2 :> {i2, i3}
ClaimsDef == i1 :> <<c1, c2>> @@ i2 :> <<c1>> @@ i3 :> <<c1>>
CitationsDef == i1 :> <<d1>> @@ i2 :> <<d1>> @@ i3 :> <<>>
\* Of the first claim in its context the model says something, or not.
RepliesDef == [k \in Keys |-> IF k = <<c1, Context>> THEN {"yes", "other"}
                              ELSE IF k = <<c2, Context>> THEN {"other"}
                              ELSE {"yes", "no"}]
\* The heuristic finds the second claim everywhere, the first nowhere.
HeuristicDef == [k \in Keys |-> k[1] = c2]
=============================================================================
