---------------------------- MODULE MCAnalysisQueue ---------------------------
(* AnalysisQueue with two jobs and two processes, started with worker_ids  *)
(* of their own or both with the default one.                              *)
EXTENDS AnalysisQueue

CONSTANTS w1, w2, j1, j2, default, other

OwnOrDefault ==
  {[w \in Workers |-> default],
   [w \in Workers |-> IF w = w1 THEN default ELSE other]}
==============================================================================
