----------------------------- MODULE LeaseLedger -----------------------------
(***************************************************************************)
(* What the durable queues promise about every item of leased work (a send *)
(* of the mail queue, a job of the analysis queue), whatever workers,      *)
(* providers and operators do:                                             *)
(*                                                                         *)
(*   - an item is opened once, tried, and closed or cancelled once;        *)
(*   - each try gets at most one verdict, and only the newest try can be   *)
(*     given one (a verdict about an older try is refused);                *)
(*   - a verdict that is unknown puts the item in quarantine: it is not    *)
(*     tried again, and only reconciliation closes it.                     *)
(*                                                                         *)
(* MailQueue and AnalysisQueue implement this specification.               *)
(***************************************************************************)
EXTENDS Naturals

CONSTANT Items

VARIABLES
  phase,     \* "none", "open", "quarantined", "closed" or "cancelled"
  tries,     \* how often the item was handed to a worker
  answered   \* the tries whose verdict has been recorded

ledger == <<phase, tries, answered>>

Init ==
  /\ phase = [s \in Items |-> "none"]
  /\ tries = [s \in Items |-> 0]
  /\ answered = [s \in Items |-> {}]

Open(s) ==
  /\ phase[s] = "none"
  /\ phase' = [phase EXCEPT ![s] = "open"]
  /\ UNCHANGED <<tries, answered>>

(* A batch of open items is handed out: one new try for each of them.      *)
HandOut(B) ==
  /\ \A s \in B : phase[s] = "open"
  /\ tries' = [s \in Items |-> IF s \in B THEN tries[s] + 1 ELSE tries[s]]
  /\ UNCHANGED <<phase, answered>>

(* The verdict on the newest try: send again later, quarantine, or close.  *)
Answer(s, next) ==
  /\ phase[s] = "open"
  /\ tries[s] > 0
  /\ tries[s] \notin answered[s]
  /\ answered' = [answered EXCEPT ![s] = @ \cup {tries[s]}]
  /\ phase' = [phase EXCEPT ![s] = next]
  /\ UNCHANGED tries

(* Open items that must not be worked on any more are withdrawn together.  *)
Cancel(B) ==
  /\ \A s \in B : phase[s] = "open"
  /\ phase' = [s \in Items |-> IF s \in B THEN "cancelled" ELSE phase[s]]
  /\ UNCHANGED <<tries, answered>>

Resolve(s) ==
  /\ phase[s] = "quarantined"
  /\ phase' = [phase EXCEPT ![s] = "closed"]
  /\ UNCHANGED <<tries, answered>>

Next ==
  \/ \E s \in Items :
       \/ Open(s)
       \/ Resolve(s)
       \/ \E next \in {"open", "quarantined", "closed"} : Answer(s, next)
  \/ \E B \in SUBSET Items : HandOut(B) \/ Cancel(B)

Spec == Init /\ [][Next]_ledger
==============================================================================
