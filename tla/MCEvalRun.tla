------------------------------ MODULE MCEvalRun ------------------------------
(* A small instance of EvalRun for TLC: a suite of one round, one whose items
   also call a judge, and one that embeds an index before its two rounds. *)
EXTENDS EvalRun

SuitesDef == {"retrieval", "faithfulness", "security"}
Round(p, n) == [prepare |-> p, items |-> n]
RoundsDef == [retrieval |-> <<Round(FALSE, 1)>>,
              faithfulness |-> <<Round(FALSE, 1)>>,
              security |-> <<Round(TRUE, 2), Round(FALSE, 1)>>]
TimedDef == [s \in SuitesDef |-> 1]
CallsDef == [s \in SuitesDef |-> IF s = "faithfulness" THEN 2 ELSE 1]
=============================================================================
