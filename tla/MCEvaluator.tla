----------------------------- MODULE MCEvaluator -----------------------------
(* Small programs for the evaluator: each run allows a few constructs.      *)
EXTENDS Evaluator
=============================================================================
