------------------------------ MODULE StepLadder ------------------------------
(***************************************************************************)
(* What the campaign path promises about an enrollment, whatever workers   *)
(* and databases do: its steps are taken one by one; the send of a step is *)
(* persisted once, with one content that stays; and no step is passed      *)
(* before its send is persisted.                                           *)
(*                                                                         *)
(* CampaignSteps implements this specification.                            *)
(***************************************************************************)
EXTENDS Naturals

CONSTANTS Enrollments, MaxSteps, Contents, NoContent

VARIABLES
  step,   \* the number of the last step an enrollment has passed
  sent    \* the content persisted for each of its steps

ladder == <<step, sent>>

Init ==
  /\ step = [e \in Enrollments |-> 0]
  /\ sent = [e \in Enrollments |-> [n \in 1 .. MaxSteps |-> NoContent]]

Persist(e, content) ==
  /\ step[e] < MaxSteps
  /\ sent[e][step[e] + 1] = NoContent
  /\ sent' = [sent EXCEPT ![e][step[e] + 1] = content]
  /\ UNCHANGED step

Advance(e) ==
  /\ step[e] < MaxSteps
  /\ sent[e][step[e] + 1] # NoContent
  /\ step' = [step EXCEPT ![e] = step[e] + 1]
  /\ UNCHANGED sent

Next ==
  \E e \in Enrollments :
    Advance(e) \/ \E content \in Contents : Persist(e, content)

Spec == Init /\ [][Next]_ladder
==============================================================================
