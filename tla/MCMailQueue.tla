----------------------------- MODULE MCMailQueue -----------------------------
(* MailQueue on small instances: two sends, one or two workers and people. *)
EXTENDS MailQueue, TLC

CONSTANTS w1, w2, s1, s2, alice

(* RetryPolicy.next_attempt_at: the delay doubles from one tick up to      *)
(* MaxDelay.                                                               *)
DoublingBackoff ==
  [n \in 1 .. MaxAttempts |-> IF 2 ^ (n - 1) < MaxDelay THEN 2 ^ (n - 1) ELSE MaxDelay]

OneRecipient == [s \in Sends |-> alice]

ControlRow(env, state, maintenance) ==
  [environment |-> env, outbound_state |-> state, maintenance_mode |-> maintenance]

EnabledRow == {ControlRow("production", "ENABLED", FALSE)}
ProductionRows ==
  EnabledRow \cup {ControlRow("production", "SAFE_STOP", FALSE),
                   ControlRow("production", "ENABLED", TRUE),
                   ControlRow("development", "ENABLED", FALSE)}

StopRows == EnabledRow \cup {ControlRow("production", "SAFE_STOP", FALSE)}

NoFaults == {{}}
AllFaults == {{"slow", "crash"}}
WithAndWithoutFaults == NoFaults \cup AllFaults

(* Workers are interchangeable, and so are sends to the same recipient.    *)
Symmetry == Permutations(Workers) \cup Permutations(Sends)
==============================================================================
