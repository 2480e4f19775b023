------------------------- MODULE PipelineRefinement -------------------------
(***************************************************************************)
(* Pipeline as an implementation of Search.                                *)
(***************************************************************************)
EXTENDS Pipeline

Status == IF pc = "done" THEN "reported"
          ELSE IF pc = "crashed" THEN "crashed" ELSE "searching"

Reported == {results[i] : i \in kept}

Promise == INSTANCE Search WITH status <- Status, report <- Reported

\* The pipeline reports exactly what was promised, or panics exactly when the
\* regex engine fails on a file that is searched.
RefinesSearch == Promise!Spec
=============================================================================
