---------------------------- MODULE HandoffTable ----------------------------
(***************************************************************************)
(* growth.lead_phase1_handoffs, the table between the two phases: Phase 1  *)
(* inserts one row per lead and canonical content                          *)
(* (phase1/repository.py, _insert_handoff), Phase 2 reads the eligible     *)
(* rows in the order of their completion (list_handoffs).  The table is    *)
(* the sequence of its rows [lead, at] in the order of handoff_id; lead    *)
(* holds the lead id and the canonical values, which stand for their       *)
(* fingerprint, and every row is eligible.                                 *)
(***************************************************************************)
EXTENDS Integers, Sequences, SequencesExt

CONSTANT Missing    \* a canonical value the source did not give

VARIABLE handoffs

HandoffInit == handoffs = <<>>

HandedOff(lead) == \E i \in DOMAIN handoffs : handoffs[i].lead = lead

(* INSERT ... ON CONFLICT (lead_id, canonical_fingerprint) DO NOTHING      *)
InsertHandoff(lead, at) ==
    handoffs' = IF HandedOff(lead) THEN handoffs
                ELSE Append(handoffs, [lead |-> lead, at |-> at])

(* ORDER BY completed_at, handoff_id                                       *)
Earlier(i, j) == \/ handoffs[i].at < handoffs[j].at
                 \/ handoffs[i].at = handoffs[j].at /\ i < j

(* ... LIMIT limit: the rows that are listed, in order.                    *)
Listings(limit) ==
    LET n == IF Len(handoffs) < limit THEN Len(handoffs) ELSE limit
    IN  {order \in [1..n -> DOMAIN handoffs] :
            /\ \A j \in 1..n : \A i \in 1..(j - 1) : Earlier(order[i], order[j])
            /\ \A i \in DOMAIN handoffs \ Range(order) :
                    \A j \in 1..n : Earlier(order[j], i)}

ListedLeads(order) == [k \in DOMAIN order |-> handoffs[order[k]].lead]
=============================================================================
