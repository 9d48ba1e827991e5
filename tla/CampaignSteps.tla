---------------------------- MODULE CampaignSteps ----------------------------
(***************************************************************************)
(* The campaign path: an enrollment climbs the steps of its sequence.      *)
(* CampaignExecutionOrchestrator claims the next step under a lease,       *)
(* renders it, persists the send in the mail queue and completes the step, *)
(* each with a transaction of its own; the SQL functions of the step claim *)
(* protocol and mail.enqueue_campaign_send decide what each changes.       *)
(*                                                                         *)
(* Three statements on this path raise in the repository's code (Defects). *)
(* A behaviour fixes which of them have been repaired, so the code as it   *)
(* stands is the case repaired = {}.                                       *)
(*                                                                         *)
(* Time counts down as in MailQueue.  Bounds: MaxFailures exceptions and   *)
(* deaths, MaxClaims claims of an enrollment, MaxWait ticks ahead.         *)
(***************************************************************************)
EXTENDS Naturals

CONSTANTS
  Enrollments, Workers,
  Plans,        \* what a caller hands in: mailbox, schedule, rendered text
  NoPlan,       \* no send with this idempotency key
  NoJob,        \* the worker is in no call
  MaxSteps,     \* sequence_versions.max_steps
  LeaseTicks, MaxWait, MaxClaims, MaxFailures,
  RepairSets,   \* the sets of defects a behaviour may start without
  MoveSets      \* the sets of moves a behaviour may be exposed to

ASSUME PlanAssumption == NoPlan \notin Plans
ASSUME BoundAssumption ==
  /\ MaxSteps \in Nat \ {0}
  /\ LeaseTicks \in Nat \ {0}
  /\ MaxWait \in Nat /\ MaxClaims \in Nat /\ MaxFailures \in Nat

VARIABLES
  status,     \* campaign_enrollments.status
  step,       \* current_step_no
  due,        \* next_action_at, in ticks from now
  token,      \* step_claim_token, by its number; 0 is null
  lease,      \* step_claim_lease_until, in ticks from now
  issued,     \* the tokens generated for the enrollment so far
  sends,      \* the content of public.sends, by enrollment and step
  sequenceOn, \* the sequence version is reviewed, testing or active
  ready,      \* steps with an active row, a message, a CTA and a recipient
  accepting,  \* enrollments whose sends the mail queue accepts: mailbox
              \* active, recipient neither suppressed nor replied
  pc,         \* where a worker's call of execute stands
  job,        \* the claim it works on
  failures,   \* exceptions and deaths so far
  repaired,   \* the defects that do not raise in this behaviour
  moves       \* what may happen in it: "slow", a call may outlive its lease;
              \* "replan", a retry may bring another plan; "build", callers
              \* of build_send_request; "end", enrollments and recipients
              \* change; "switch", sequences and their steps do

enrollmentVars == <<status, step, due, token, lease, issued>>
outsideVars == <<sequenceOn, ready, accepting>>
workerVars == <<pc, job>>
fixedVars == <<repaired, moves>>
vars == <<enrollmentVars, sends, outsideVars, workerVars, failures, fixedVars>>

Steps == 1 .. MaxSteps
Live == {"pending", "active"}
Ends == {"replied", "suppressed", "bounced", "cancelled"}
Status == Live \cup Ends \cup {"paused", "completed"}

(* What raises on the path as it stands.                                   *)
Defects == {
  "columns",   \* claim_campaign_step: step_no is a column and an output
  "adapt",     \* enqueue_send_request: dicts are passed as jsonb parameters
  "rows"}      \* release_step, complete_step: row[0] of a dict_row

ASSUME RepairAssumption == RepairSets \subseteq SUBSET Defects

Jobs == [enrollment : Enrollments, token : 1 .. MaxClaims, step : Steps,
         plan : Plans, mode : {"execute", "build"}]
ASSUME JobAssumption == NoJob \notin Jobs

Init ==
  /\ status \in [Enrollments -> Live]
  /\ step = [e \in Enrollments |-> 0]
  /\ due = [e \in Enrollments |-> 0]
  /\ token = [e \in Enrollments |-> 0]
  /\ lease = [e \in Enrollments |-> 0]
  /\ issued = [e \in Enrollments |-> 0]
  /\ sends = [e \in Enrollments |-> [n \in Steps |-> NoPlan]]
  /\ sequenceOn = TRUE
  /\ ready = Steps
  /\ accepting = Enrollments
  /\ pc = [w \in Workers |-> "idle"]
  /\ job = [w \in Workers |-> NoJob]
  /\ failures = 0
  /\ repaired \in RepairSets
  /\ moves \in MoveSets

------------------------------------------------------------------------------
(* Faulty variant: a leased enrollment is claimed again.                   *)
BugLeaseIgnored(e) == status[e] \in Live /\ due[e] = 0 /\ sequenceOn

(* The early returns of claim_campaign_step up to the sequence version.    *)
Available(e) ==
  /\ status[e] \in Live
  /\ due[e] = 0
  /\ lease[e] = 0
  /\ sequenceOn

NextStep(e) == step[e] + 1

(* Without the move "replan", a caller repeats the plan of an earlier try. *)
MayBring(e, plan) ==
  "replan" \in moves \/ sends[e][NextStep(e)] \in {NoPlan, plan}

(* claim_campaign_step gives out the next step.  A call that returns no    *)
(* row, or raises at the ambiguous columns, changes nothing.               *)
Claim(w, e, plan, mode) ==
  /\ pc[w] = "idle"
  /\ Available(e)
  /\ step[e] < MaxSteps
  /\ "columns" \in repaired
  /\ NextStep(e) \in ready
  /\ issued[e] < MaxClaims
  /\ MayBring(e, plan)
  /\ mode = "build" => "build" \in moves
  /\ issued' = [issued EXCEPT ![e] = issued[e] + 1]
  /\ token' = [token EXCEPT ![e] = issued[e] + 1]
  /\ lease' = [lease EXCEPT ![e] = LeaseTicks]
  /\ job' = [job EXCEPT ![w] =
       [enrollment |-> e, token |-> issued[e] + 1, step |-> NextStep(e),
        plan |-> plan, mode |-> mode]]
  /\ pc' = [pc EXCEPT ![w] = "rendering"]
  /\ UNCHANGED <<status, step, due, sends, outsideVars, failures, fixedVars>>

(* Faulty variant: a status the table's check constraint does not know.    *)
BugFinished == "finished"

FinalStatus == "completed"

(* claim_campaign_step completes an enrollment that has passed all steps.  *)
FinishEnrollment(e) ==
  /\ Available(e)
  /\ step[e] >= MaxSteps
  /\ status' = [status EXCEPT ![e] = FinalStatus]
  /\ token' = [token EXCEPT ![e] = 0]
  /\ lease' = [lease EXCEPT ![e] = 0]
  /\ UNCHANGED <<step, due, issued, sends, outsideVars, workerVars, failures,
                 fixedVars>>

Return(w) ==
  /\ pc' = [pc EXCEPT ![w] = "idle"]
  /\ job' = [job EXCEPT ![w] = NoJob]
GoTo(w, stage) == pc' = [pc EXCEPT ![w] = stage] /\ UNCHANGED job

MayFail == failures < MaxFailures
CountFailure == failures' = failures + 1

(* Faulty variant: the step is completed before its send is persisted.     *)
BugCompleteFirst == "completing"

AfterRender == "handing"

(* The treatment is rendered and the request built; build_send_request     *)
(* returns it and leaves the lease to its end.                             *)
Render(w) ==
  /\ pc[w] = "rendering"
  /\ IF job[w].mode = "build" THEN Return(w) ELSE GoTo(w, AfterRender)
  /\ UNCHANGED <<enrollmentVars, sends, outsideVars, failures, fixedVars>>

(* The renderer or the handoff raises: a version that is not approved,     *)
(* missing evidence, an unknown variable, a bad address.                   *)
RenderFails(w) ==
  /\ pc[w] = "rendering"
  /\ MayFail /\ CountFailure
  /\ GoTo(w, "releasing")
  /\ UNCHANGED <<enrollmentVars, sends, outsideVars, fixedVars>>

(* Faulty variants: the row found by its key is not compared, or is an     *)
(* error whatever its content.                                             *)
BugNotCompared(e, n, plan) == "adapt" \in repaired /\ e \in accepting
BugInsertOnly(e, n, plan) ==
  "adapt" \in repaired /\ e \in accepting /\ sends[e][n] = NoPlan

(* mail.enqueue_campaign_send lets the request through: its guards come    *)
(* before the look at the key, and a row found must have the same content. *)
Accepts(e, n, plan) ==
  /\ "adapt" \in repaired
  /\ e \in accepting
  /\ sends[e][n] \in {NoPlan, plan}

Persist(e, n, plan) == sends' = [sends EXCEPT ![e][n] = plan]

HandOver(w) ==
  /\ pc[w] = "handing"
  /\ Accepts(job[w].enrollment, job[w].step, job[w].plan)
  /\ Persist(job[w].enrollment, job[w].step, job[w].plan)
  /\ GoTo(w, "completing")
  /\ UNCHANGED <<enrollmentVars, outsideVars, failures, fixedVars>>

HandOverRefused(w) ==
  /\ pc[w] = "handing"
  /\ ~Accepts(job[w].enrollment, job[w].step, job[w].plan)
  /\ GoTo(w, "releasing")
  /\ UNCHANGED <<enrollmentVars, sends, outsideVars, failures, fixedVars>>

(* The call raises for another reason, a lost connection or a concurrent   *)
(* insert of the same key; it may have been committed.                     *)
HandOverFails(w) ==
  /\ pc[w] = "handing"
  /\ MayFail /\ CountFailure
  /\ \/ UNCHANGED sends
     \/ /\ Accepts(job[w].enrollment, job[w].step, job[w].plan)
        /\ Persist(job[w].enrollment, job[w].step, job[w].plan)
  /\ GoTo(w, "releasing")
  /\ UNCHANGED <<enrollmentVars, outsideVars, fixedVars>>

(* Faulty variants: any live enrollment, or any holder of the token.       *)
BugAnyToken(w) == status[job[w].enrollment] \in Live
BugAnyStatus(w) == token[job[w].enrollment] = job[w].token

(* The rows complete and release update.                                   *)
Owns(w) ==
  /\ token[job[w].enrollment] = job[w].token
  /\ status[job[w].enrollment] \in Live

Completable(w) ==
  Owns(w) /\ job[w].step = step[job[w].enrollment] + 1

FreeLease(e) ==
  /\ token' = [token EXCEPT ![e] = 0]
  /\ lease' = [lease EXCEPT ![e] = 0]

(* complete_campaign_step_claim.  The next action is due delay_days after  *)
(* the schedule the caller asked for, which may be in the past by now.     *)
Advance(w) ==
  LET e == job[w].enrollment IN
    /\ step' = [step EXCEPT ![e] = job[w].step]
    /\ \E d \in 0 .. MaxWait : due' = [due EXCEPT ![e] = d]
    /\ FreeLease(e)
    /\ UNCHANGED <<status, issued>>

(* complete_step.  With the defect "rows" it raises inside the connection  *)
(* block, which takes the update back.                                     *)
CompleteStep(w) ==
  /\ pc[w] = "completing"
  /\ IF "rows" \in repaired /\ Completable(w)
     THEN Advance(w) /\ Return(w)
     ELSE UNCHANGED enrollmentVars /\ GoTo(w, "releasing")
  /\ UNCHANGED <<sends, outsideVars, failures, fixedVars>>

(* The connection is lost, before or after the commit.                     *)
CompleteFails(w) ==
  /\ pc[w] = "completing"
  /\ MayFail /\ CountFailure
  /\ \/ UNCHANGED enrollmentVars
     \/ "rows" \in repaired /\ Completable(w) /\ Advance(w)
  /\ GoTo(w, "releasing")
  /\ UNCHANGED <<sends, outsideVars, fixedVars>>

(* release_step, and the exception goes on to the caller.                  *)
Release(w) ==
  /\ pc[w] = "releasing"
  /\ IF "rows" \in repaired /\ Owns(w)
     THEN FreeLease(job[w].enrollment) ELSE UNCHANGED <<token, lease>>
  /\ Return(w)
  /\ UNCHANGED <<status, step, due, issued, sends, outsideVars, failures,
                 fixedVars>>

(* The process dies, or release_step itself fails.                         *)
Die(w) ==
  /\ pc[w] # "idle"
  /\ MayFail /\ CountFailure
  /\ Return(w)
  /\ UNCHANGED <<enrollmentVars, sends, outsideVars, fixedVars>>

------------------------------------------------------------------------------
(* Replies, operators and other services end, pause or resume enrollments. *)
SetStatus(e, s) ==
  /\ "end" \in moves
  /\ status[e] \in Live \cup {"paused"}
  /\ status' = [status EXCEPT ![e] = s]
  /\ UNCHANGED <<step, due, token, lease, issued, sends, outsideVars,
                 workerVars, failures, fixedVars>>

(* A sequence version is retired or taken back, a step row switched.       *)
SwitchSequence ==
  /\ "switch" \in moves
  /\ sequenceOn' = ~sequenceOn
  /\ UNCHANGED <<enrollmentVars, sends, ready, accepting, workerVars,
                 failures, fixedVars>>
SwitchStep(n) ==
  /\ "switch" \in moves
  /\ ready' = IF n \in ready THEN ready \ {n} ELSE ready \cup {n}
  /\ UNCHANGED <<enrollmentVars, sends, sequenceOn, accepting, workerVars,
                 failures, fixedVars>>

(* The recipient replies or is suppressed, the mailbox is switched.        *)
SwitchAccepting(e) ==
  /\ "end" \in moves
  /\ accepting' = IF e \in accepting THEN accepting \ {e} ELSE accepting \cup {e}
  /\ UNCHANGED <<enrollmentVars, sends, sequenceOn, ready, workerVars,
                 failures, fixedVars>>

Working(w, e) ==
  pc[w] \in {"rendering", "handing", "completing"} /\ job[w].enrollment = e

(* One tick of time.  Without the move "slow", no lease runs out on a      *)
(* worker that is still at its step.                                       *)
Tick ==
  /\ \E e \in Enrollments : lease[e] > 0 \/ due[e] > 0
  /\ "slow" \in moves \/
       \A w \in Workers, e \in Enrollments : Working(w, e) => lease[e] # 1
  /\ lease' = [e \in Enrollments |-> IF lease[e] > 0 THEN lease[e] - 1 ELSE 0]
  /\ due' = [e \in Enrollments |-> IF due[e] > 0 THEN due[e] - 1 ELSE 0]
  /\ UNCHANGED <<status, step, token, issued, sends, outsideVars, workerVars,
                 failures, fixedVars>>

ClaimSome(w, e) ==
  \E plan \in Plans, mode \in {"execute", "build"} : Claim(w, e, plan, mode)

CallStep(w) ==
  \/ Render(w) \/ HandOver(w) \/ HandOverRefused(w) \/ CompleteStep(w)
  \/ Release(w)

WorkerStep(w) ==
  \/ \E e \in Enrollments : ClaimSome(w, e)
  \/ CallStep(w)
  \/ RenderFails(w) \/ HandOverFails(w) \/ CompleteFails(w) \/ Die(w)

EnrollmentStep(e) ==
  \/ FinishEnrollment(e) \/ SwitchAccepting(e)
  \/ \E s \in {"active", "paused", "replied"} : SetStatus(e, s)

Next ==
  \/ \E w \in Workers : WorkerStep(w)
  \/ \E e \in Enrollments : EnrollmentStep(e)
  \/ \E n \in Steps : SwitchStep(n)
  \/ SwitchSequence
  \/ Tick

Spec == Init /\ [][Next]_vars

(* Callers come back for an enrollment that is due, their calls return and *)
(* time passes.                                                            *)
Fairness ==
  /\ WF_vars(Tick)
  /\ \A e \in Enrollments :
       /\ WF_vars(\E w \in Workers : ClaimSome(w, e))
       /\ WF_vars(FinishEnrollment(e))
  /\ \A w \in Workers : WF_vars(CallStep(w))

FairSpec == Spec /\ Fairness

------------------------------------------------------------------------------
(* The values every variable ranges over.                                  *)
TypeOK ==
  /\ status \in [Enrollments -> Status]
  /\ step \in [Enrollments -> 0 .. MaxSteps]
  /\ due \in [Enrollments -> 0 .. MaxWait]
  /\ token \in [Enrollments -> 0 .. MaxClaims]
  /\ lease \in [Enrollments -> 0 .. LeaseTicks]
  /\ issued \in [Enrollments -> 0 .. MaxClaims]
  /\ sends \in [Enrollments -> [Steps -> Plans \cup {NoPlan}]]
  /\ sequenceOn \in BOOLEAN
  /\ ready \in SUBSET Steps
  /\ accepting \in SUBSET Enrollments
  /\ pc \in [Workers -> {"idle", "rendering", "handing", "completing",
                         "releasing"}]
  /\ job \in [Workers -> Jobs \cup {NoJob}]
  /\ failures \in 0 .. MaxFailures
  /\ repaired \in RepairSets
  /\ moves \in MoveSets

(* The campaign and the mail queue agree, although they are written in two *)
(* transactions by workers that die, retry and overtake each other: every  *)
(* step an enrollment has passed has its send, and no send exists beyond   *)
(* the step it is at.                                                      *)
SendsMatchSteps ==
  \A e \in Enrollments, n \in Steps :
    /\ n <= step[e] => sends[e][n] # NoPlan
    /\ sends[e][n] # NoPlan => n <= step[e] + 1

(* EXECUTION_ORCHESTRATOR.md: two workers do not render the same sequence  *)
(* step simultaneously.  True as long as no call outlives its lease.       *)
OneRenderer ==
  "slow" \notin moves =>
    \A e \in Enrollments, v, w \in Workers :
      Working(v, e) /\ Working(w, e) => v = w

(* A lease that is running is given up only by the worker it was granted   *)
(* to: one that was overtaken takes nothing away from its successor, and   *)
(* neither completes nor releases its step.                                *)
Holds(w, e) ==
  pc[w] # "idle" /\ job[w].enrollment = e /\ job[w].token = token[e]
LeaseIsRespected ==
  [][\A e \in Enrollments :
       lease[e] > 0 /\ token'[e] # token[e] =>
         \E w \in Workers : Holds(w, e) /\ pc'[w] # pc[w]]_vars

(* An enrollment that was paused or has ended while a worker was at its    *)
(* step does not advance under that worker.                                *)
EndedStands ==
  [][\A e \in Enrollments :
       status[e] \notin Live => step'[e] = step[e]]_vars

(* The campaign path implements the ladder of steps.                       *)
Ladder == INSTANCE StepLadder WITH
            Contents <- Plans, NoContent <- NoPlan, sent <- sends
LadderSpec == Ladder!Spec

(* The docstring of execute: a step whose completion failed is recovered   *)
(* by a retry.  With the defects repaired and a world that keeps still, an *)
(* enrollment gets through all its steps, whatever calls fail or die.      *)
Progress ==
  \A e \in Enrollments :
    moves = {} /\ repaired = Defects ~> status[e] = "completed"

------------------------------------------------------------------------------
(* EXECUTION_ORCHESTRATOR.md: "Claim one due enrollment step with a short  *)
(* database lease."  A step that stays claimable is claimed.               *)
DueStepsAreClaimed ==
  \A e \in Enrollments :
    Available(e) /\ step[e] < MaxSteps /\ NextStep(e) \in ready ~>
      lease[e] > 0 \/ ~Available(e) \/ NextStep(e) \notin ready
==============================================================================
