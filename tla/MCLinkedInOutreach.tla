-------------------------- MODULE MCLinkedInOutreach --------------------------
(* LinkedInOutreach on a small instance: one target, a step the provider   *)
(* can execute and one that is left to the operator.  Executors and        *)
(* observers share no variable either writes, so they need not run in the  *)
(* same behaviour.                                                         *)
EXTENDS LinkedInOutreach

CONSTANTS t1, x1, x2, o1

Exposures ==
  {{"execute"}, {"execute", "overlap"},
   {"execute", "overlap", "built", "crash"},
   {"observe"}, {"observe", "race", "mixed"}}
==============================================================================
