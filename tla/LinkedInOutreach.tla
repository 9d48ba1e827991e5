--------------------------- MODULE LinkedInOutreach ---------------------------
(***************************************************************************)
(* LinkedIn outreach: a target is a sequence for one contact, its          *)
(* touchpoints are the rows of the sequence's steps.                       *)
(*                                                                         *)
(* Executors run execute_and_persist_touchpoint: the provider is called    *)
(* outside the database, then the attempt is recorded under the            *)
(* touchpoint's row lock, then the touchpoint itself is written.           *)
(* Observers run apply_observation: the contact's state is read without a  *)
(* lock, projected and written back.                                       *)
(*                                                                         *)
(* A behaviour is exposed to a fixed set of moves.  Bounds: MaxCalls calls *)
(* of the executors, MaxWait ticks ahead.                                  *)
(***************************************************************************)
EXTENDS Naturals, FiniteSets

CONSTANTS
  Targets,      \* sequences, each for its contact
  Steps,        \* the steps of a sequence
  Automated,    \* those the provider has the capability for
  Executors, Observers,
  NoJob, NoView, NoOne,
  MaxCalls, MaxWait,
  MoveSets      \* the sets of moves a behaviour may be exposed to

ASSUME LinkedInAssumption ==
  /\ Automated \subseteq Steps
  /\ MaxCalls \in Nat /\ MaxWait \in Nat
  /\ IsFiniteSet(Executors) /\ NoOne \notin Executors

VARIABLES
  sequence,     \* outreach.sequences.status
  approvals,    \* the sequences with a row in outreach.sequence_approvals
  planning,     \* create_touchpoints has found the sequence approved
  point,        \* outreach.touchpoints.status
  attempts,     \* outreach.execution_attempts: the result under each number
  locked,       \* the executor that holds the touchpoint's row lock
  stage,        \* where an executor's call stands
  job,          \* the touchpoint object it was called with, and its result
  number,       \* the attempt number it read
  calls,        \* calls of the executors so far
  contact,      \* growth.contact_campaign_states.state
  next,         \* next_action_at in ticks from now; NoTime is null
  view,         \* what an observer has read and is about to project
  delivered,    \* what LinkedIn has delivered for a touchpoint
  over,         \* targets with an observation that ends the outreach, and no
                \* decision of an operator since
  moves         \* what may happen: "execute", executors run; "overlap", also
                \* two on one touchpoint; "built", on objects that were not
                \* read from the table; "crash", a call dies or its answer is
                \* lost; "observe", observers run; "race", also two on one
                \* contact; "mixed", records carry more than one observation

planVars == <<sequence, approvals, planning>>
execVars == <<attempts, locked, stage, job, number, calls, delivered>>
contactVars == <<contact, next, view, over>>
vars == <<planVars, point, execVars, contactVars, moves>>

PointStatus == {"planned", "approved", "queued", "sent", "delivered", "failed",
                "cancelled", "completed"}
Executable == {"planned", "approved", "queued"}
Deliveries == {"sent", "delivered"}
Results == Deliveries \cup {"operator_required", "failed"}
ContactStates == {"not_contacted", "active", "awaiting_reply", "replied",
                  "follow_up_due", "meeting", "closed", "suppressed"}
NoTime == MaxWait + 1
Times == 0 .. MaxWait
Numbers == 1 .. MaxCalls

Jobs == [target : Targets, step : Steps, status : PointStatus,
         source : {"loaded", "built"}, result : Results \cup {"none"}]

(* An observation record.  connected stands for the flag and for the event *)
(* connection_accepted; message_sent and connection_request_sent have the  *)
(* same effect, and so have opt_out and suppressed.                        *)
Events == {"none", "message_sent", "opt_out", "meeting_booked", "closed"}
Observations == [inbound : BOOLEAN, connected : BOOLEAN, event : Events]
Plain(obs) ==
  /\ obs.inbound => ~obs.connected
  /\ obs.inbound \/ obs.connected => obs.event = "none"
EndsOutreach(obs) ==
  obs.inbound \/ obs.event \in {"opt_out", "meeting_booked", "closed"}

Init ==
  /\ sequence = [t \in Targets |-> "draft"]
  /\ approvals = {}
  /\ planning = {}
  /\ point = [t \in Targets |-> [n \in Steps |-> "absent"]]
  /\ attempts = [t \in Targets |-> [n \in Steps |-> [k \in Numbers |-> "none"]]]
  /\ locked = [t \in Targets |-> [n \in Steps |-> NoOne]]
  /\ stage = [x \in Executors |-> "idle"]
  /\ job = [x \in Executors |-> NoJob]
  /\ number = [x \in Executors |-> 0]
  /\ calls = 0
  /\ contact = [t \in Targets |-> "not_contacted"]
  /\ next = [t \in Targets |-> NoTime]
  /\ view = [o \in Observers |-> NoView]
  /\ delivered = [t \in Targets |-> [n \in Steps |-> 0]]
  /\ over = {}
  /\ moves \in MoveSets

------------------------------------------------------------------------------
(* approve_sequence, one transaction with its row in sequence_approvals.   *)
ApproveSequence(t) ==
  /\ sequence[t] = "draft"
  /\ sequence' = [sequence EXCEPT ![t] = "approved"]
  /\ approvals' = approvals \cup {t}
  /\ UNCHANGED <<planning, point, execVars, contactVars, moves>>

(* Operators reject a draft, activate or cancel what was approved.         *)
SetSequence(t, s) ==
  /\ \/ sequence[t] = "draft" /\ s = "rejected"
     \/ sequence[t] = "approved" /\ s \in {"active", "cancelled"}
  /\ sequence' = [sequence EXCEPT ![t] = s]
  /\ UNCHANGED <<approvals, planning, point, execVars, contactVars, moves>>

Approved(t) == sequence[t] = "approved"

(* create_touchpoints reads the sequence, then inserts; nothing keeps the  *)
(* sequence as it is in between.                                           *)
FindApproved(t) ==
  /\ t \notin planning
  /\ Approved(t)
  /\ planning' = planning \cup {t}
  /\ UNCHANGED <<sequence, approvals, point, execVars, contactVars, moves>>

(* Faulty variant: a conflict updates the row.                             *)
BugUpsert(status) == "planned"

(* "on conflict (idempotency_key) do nothing".                             *)
AfterInsert(status) == IF status = "absent" THEN "planned" ELSE status

CreateTouchpoints(t) ==
  /\ t \in planning
  /\ planning' = planning \ {t}
  /\ point' = [point EXCEPT ![t] = [n \in Steps |-> AfterInsert(@[n])]]
  /\ UNCHANGED <<sequence, approvals, execVars, contactVars, moves>>

------------------------------------------------------------------------------
Serving(x, t, n) == stage[x] # "idle" /\ job[x].target = t /\ job[x].step = n

(* execute_and_persist_touchpoint is called with a touchpoint the caller   *)
(* has read from the table, or with one build_touchpoints has made: that   *)
(* one is planned, and its touchpoint_id is no row's.                      *)
Call(x, t, n, source) ==
  /\ "execute" \in moves
  /\ stage[x] = "idle"
  /\ calls < MaxCalls
  /\ point[t][n] # "absent"
  /\ source = "built" => "built" \in moves
  /\ "overlap" \in moves \/ \A y \in Executors : ~Serving(y, t, n)
  /\ calls' = calls + 1
  /\ job' = [job EXCEPT ![x] =
       [target |-> t, step |-> n, source |-> source, result |-> "none",
        status |-> IF source = "built" THEN "planned" ELSE point[t][n]]]
  /\ stage' = [stage EXCEPT ![x] = "calling"]
  /\ UNCHANGED <<planVars, point, attempts, locked, number, delivered,
                 contactVars, moves>>

GoTo(x, s) == stage' = [stage EXCEPT ![x] = s]
Return(x) ==
  /\ stage' = [stage EXCEPT ![x] = "idle"]
  /\ job' = [job EXCEPT ![x] = NoJob]
  /\ number' = [number EXCEPT ![x] = 0]

(* Faulty variant: the touchpoint is written before the attempt.           *)
BugPointFirst(result) ==
  IF result \in Deliveries THEN "observing" ELSE "numbering"

AfterCall(result) == "numbering"

WithResult(x, r) ==
  /\ job' = [job EXCEPT ![x].result = r]
  /\ GoTo(x, AfterCall(r))

Deliver(x) ==
  delivered' = [delivered EXCEPT ![job[x].target][job[x].step] = @ + 1]

(* Faulty variant: only the ends of a touchpoint stop an execution.         *)
BugNotEnded(x) == job[x].status \notin {"failed", "cancelled", "completed"}

MayExecute(x) == job[x].status \in Executable

(* execute_touchpoint.  A touchpoint that is not executable or names       *)
(* another profile, and a provider that answers with a status that is no   *)
(* delivery, raise LinkedInExecutionError, which is recorded as failed.    *)
ExecuteTouchpoint(x) ==
  /\ stage[x] = "calling"
  /\ \/ WithResult(x, "failed") /\ UNCHANGED delivered
     \/ /\ MayExecute(x) /\ job[x].step \notin Automated
        /\ WithResult(x, "operator_required") /\ UNCHANGED delivered
     \/ /\ MayExecute(x) /\ job[x].step \in Automated
        /\ \E r \in Deliveries : WithResult(x, r) /\ Deliver(x)
  /\ UNCHANGED <<planVars, point, attempts, locked, number, calls, contactVars,
                 moves>>

(* Faulty variant: the row is read without "for update".                   *)
BugUnlocked(x, owner) == TRUE

Free(x, owner) == owner \in {NoOne, x}

(* record_execution_attempt locks the touchpoint and reads the highest     *)
(* number under the lock; it raises if the touchpoint is no row.           *)
ReadNumber(x) ==
  LET t == job[x].target
      n == job[x].step
      used == {k \in Numbers : attempts[t][n][k] # "none"}
  IN
    /\ stage[x] = "numbering" /\ job[x].source = "loaded"
    /\ Free(x, locked[t][n])
    /\ locked' = [locked EXCEPT ![t][n] = x]
    /\ number' = [number EXCEPT ![x] =
         CHOOSE k \in 1 .. MaxCalls + 1 :
           /\ \A j \in used : j < k
           /\ k = 1 \/ k - 1 \in used]
    /\ GoTo(x, "recording")
    /\ UNCHANGED <<planVars, point, attempts, job, calls, delivered,
                   contactVars, moves>>

TouchpointNotFound(x) ==
  /\ stage[x] = "numbering" /\ job[x].source = "built"
  /\ Return(x)
  /\ UNCHANGED <<planVars, point, attempts, locked, calls, delivered,
                 contactVars, moves>>

Unlock(x) ==
  locked' = [t \in Targets |-> [n \in Steps |->
               IF locked[t][n] = x THEN NoOne ELSE locked[t][n]]]

(* The insert and the commit; a number that is taken is a unique violation *)
(* and raises.                                                             *)
RecordAttempt(x) ==
  LET t == job[x].target
      n == job[x].step
  IN
    /\ stage[x] = "recording"
    /\ Unlock(x)
    /\ IF attempts[t][n][number[x]] = "none"
       THEN /\ attempts' = [attempts EXCEPT ![t][n][number[x]] = job[x].result]
            /\ IF job[x].result \in Deliveries
               THEN GoTo(x, "observing") /\ UNCHANGED <<job, number>>
               ELSE Return(x)
       ELSE UNCHANGED attempts /\ Return(x)
    /\ UNCHANGED <<planVars, point, calls, delivered, contactVars, moves>>

(* record_touchpoint_observation, in a transaction of its own, whatever    *)
(* the row's status is by now.                                             *)
RecordObservation(x) ==
  LET t == job[x].target
      n == job[x].step
  IN
    /\ stage[x] = "observing"
    /\ Free(x, locked[t][n])
    /\ point' = [point EXCEPT ![t][n] = job[x].result]
    /\ Return(x)
    /\ UNCHANGED <<planVars, attempts, locked, calls, delivered, contactVars,
                   moves>>

(* The provider raises: its answer is lost, the message may be delivered.  *)
LoseAnswer(x) ==
  /\ "crash" \in moves
  /\ stage[x] = "calling"
  /\ MayExecute(x) /\ job[x].step \in Automated
  /\ Deliver(x) \/ UNCHANGED delivered
  /\ Return(x)
  /\ UNCHANGED <<planVars, point, attempts, locked, calls, contactVars, moves>>

(* The process dies, or a statement raises: what is not committed is gone. *)
Die(x) ==
  /\ "crash" \in moves
  /\ stage[x] # "idle"
  /\ Unlock(x)
  /\ Return(x)
  /\ UNCHANGED <<planVars, point, attempts, calls, delivered, contactVars,
                 moves>>

------------------------------------------------------------------------------
Becomes(state, time) == [state |-> state, next |-> time]

(* Faulty variant: an answer leaves the next action where it was.          *)
BugKeepsAction(state, time, obs) ==
  IF obs.inbound THEN Becomes("replied", time)
  ELSE IF obs.connected THEN Becomes("active", time)
  ELSE IF obs.event = "message_sent" THEN Becomes("awaiting_reply", time)
  ELSE IF state = "awaiting_reply" /\ time = 0 THEN Becomes("follow_up_due", time)
  ELSE Becomes(state, time)

Outcome(event) ==
  CASE event = "opt_out" -> "suppressed"
    [] event = "meeting_booked" -> "meeting"
    [] event = "closed" -> "closed"

(* next_state_after_observation: the first observation in this order wins. *)
NextState(state, time, obs) ==
  CASE obs.inbound -> Becomes("replied", NoTime)
    [] ~obs.inbound /\ obs.connected -> Becomes("active", time)
    [] ~obs.inbound /\ ~obs.connected ->
         CASE obs.event = "message_sent" -> Becomes("awaiting_reply", time)
           [] obs.event \in {"opt_out", "meeting_booked", "closed"} ->
                Becomes(Outcome(obs.event), NoTime)
           [] obs.event = "none" ->
                IF state = "awaiting_reply" /\ time = 0
                THEN Becomes("follow_up_due", time)
                ELSE Becomes(state, time)

Viewing(t) == \E o \in Observers : view[o] # NoView /\ view[o].target = t

(* apply_observation reads the contact's state; there must be a touchpoint *)
(* to observe.                                                             *)
ReadState(o, t, obs) ==
  /\ "observe" \in moves
  /\ view[o] = NoView
  /\ \E n \in Steps : point[t][n] # "absent"
  /\ "mixed" \in moves \/ Plain(obs)
  /\ "race" \in moves \/ ~Viewing(t)
  /\ view' = [view EXCEPT ![o] =
       [target |-> t, state |-> contact[t], next |-> next[t], obs |-> obs]]
  /\ UNCHANGED <<planVars, point, execVars, contact, next, over, moves>>

(* The projected state is written back and the transaction commits.        *)
WriteState(o) ==
  LET t == view[o].target
      update == NextState(view[o].state, view[o].next, view[o].obs)
  IN
    /\ view[o] # NoView
    /\ contact' = [contact EXCEPT ![t] = update.state]
    /\ next' = [next EXCEPT ![t] = update.next]
    /\ over' = IF EndsOutreach(view[o].obs) THEN over \cup {t} ELSE over
    /\ view' = [view EXCEPT ![o] = NoView]
    /\ UNCHANGED <<planVars, point, execVars, moves>>

DropObservation(o) ==
  /\ view[o] # NoView
  /\ view' = [view EXCEPT ![o] = NoView]
  /\ UNCHANGED <<planVars, point, execVars, contact, next, over, moves>>

(* update_contact_state: an operator decides.                              *)
UpdateContact(t, state, time) ==
  /\ "observe" \in moves
  /\ "race" \in moves \/ ~Viewing(t)
  /\ contact' = [contact EXCEPT ![t] = state]
  /\ next' = [next EXCEPT ![t] = time]
  /\ over' = over \ {t}
  /\ UNCHANGED <<planVars, point, execVars, view, moves>>

Tick ==
  /\ \E t \in Targets : next[t] \in 1 .. MaxWait
  /\ next' = [t \in Targets |->
                IF next[t] \in 1 .. MaxWait THEN next[t] - 1 ELSE next[t]]
  /\ UNCHANGED <<planVars, point, execVars, contact, view, over, moves>>

PlanStep(t) ==
  \/ ApproveSequence(t) \/ FindApproved(t) \/ CreateTouchpoints(t)
  \/ \E s \in {"rejected", "active", "cancelled"} : SetSequence(t, s)

ExecutorStep(x) ==
  \/ \E t \in Targets, n \in Steps, source \in {"loaded", "built"} :
       Call(x, t, n, source)
  \/ ExecuteTouchpoint(x) \/ LoseAnswer(x)
  \/ ReadNumber(x) \/ TouchpointNotFound(x) \/ RecordAttempt(x)
  \/ RecordObservation(x) \/ Die(x)

ContactStep(t) ==
  \/ \E o \in Observers, obs \in Observations : ReadState(o, t, obs)
  \/ \E state \in ContactStates, time \in Times \cup {NoTime} :
       UpdateContact(t, state, time)

Next ==
  \/ \E t \in Targets : PlanStep(t) \/ ContactStep(t)
  \/ \E x \in Executors : ExecutorStep(x)
  \/ \E o \in Observers : WriteState(o) \/ DropObservation(o)
  \/ Tick

Spec == Init /\ [][Next]_vars

------------------------------------------------------------------------------
Views == [target : Targets, state : ContactStates, next : Times \cup {NoTime},
          obs : Observations]

(* The values every variable ranges over.                                  *)
TypeOK ==
  /\ sequence \in [Targets -> {"draft", "approved", "active", "rejected",
                               "cancelled"}]
  /\ approvals \in SUBSET Targets /\ planning \in SUBSET Targets
  /\ point \in [Targets -> [Steps -> PointStatus \cup {"absent"}]]
  /\ attempts \in [Targets -> [Steps -> [Numbers -> Results \cup {"none"}]]]
  /\ locked \in [Targets -> [Steps -> Executors \cup {NoOne}]]
  /\ stage \in [Executors -> {"idle", "calling", "numbering", "recording",
                              "observing"}]
  /\ job \in [Executors -> Jobs \cup {NoJob}]
  /\ number \in [Executors -> 0 .. MaxCalls]
  /\ calls \in 0 .. MaxCalls
  /\ contact \in [Targets -> ContactStates]
  /\ next \in [Targets -> Times \cup {NoTime}]
  /\ view \in [Observers -> Views \cup {NoView}]
  /\ delivered \in [Targets -> [Steps -> 0 .. MaxCalls]]
  /\ over \in SUBSET Targets
  /\ moves \in MoveSets

(* Nothing is planned without an approval on record: a sequence is read    *)
(* before its touchpoints are inserted, and may have changed since.        *)
OnlyApproved ==
  \A t \in Targets :
    t \in planning \/ (\E n \in Steps : point[t][n] # "absent") =>
      t \in approvals

(* Two executors on one touchpoint never use the same attempt number, and  *)
(* leave no gap: the number read under the lock is still the next one when *)
(* the attempt is inserted.                                                *)
AttemptsInOrder ==
  \A x \in Executors : stage[x] = "recording" =>
    \A k \in Numbers :
      attempts[job[x].target][job[x].step][k] # "none" <=> k < number[x]

(* execute_and_persist_touchpoint: "persist only provider-observed         *)
(* execution facts".  A touchpoint that is sent or delivered was delivered *)
(* by LinkedIn, and an attempt says so.                                    *)
SentIsFact ==
  \A t \in Targets, n \in Steps : point[t][n] \in Deliveries =>
    /\ delivered[t][n] > 0
    /\ \E k \in Numbers : attempts[t][n][k] = point[t][n]

(* Without crashes, and with touchpoints read from the table, every        *)
(* delivery is on record or in the hands of an executor about to record    *)
(* it, one attempt each, however many executors work on a touchpoint.      *)
DeliveriesOnRecord ==
  moves \cap {"crash", "built"} = {} =>
    \A t \in Targets, n \in Steps :
      delivered[t][n] =
        Cardinality({k \in Numbers : attempts[t][n][k] \in Deliveries})
        + Cardinality({x \in Executors :
            /\ Serving(x, t, n)
            /\ stage[x] \in {"numbering", "recording"}
            /\ job[x].result \in Deliveries})

(* And with one executor at a time, a touchpoint is delivered once.        *)
OneDelivery ==
  moves \cap {"crash", "built", "overlap"} = {} =>
    \A t \in Targets, n \in Steps : delivered[t][n] <= 1

(* A touchpoint that was sent is not planned again, by whatever is created *)
(* or executed afterwards, and its attempts stay on record.                *)
SentStays ==
  [][\A t \in Targets, n \in Steps :
       /\ point[t][n] \in Deliveries => point'[t][n] \in Deliveries
       /\ \A k \in Numbers : attempts[t][n][k] # "none" =>
            attempts'[t][n][k] = attempts[t][n][k]]_vars

(* After an answer, an opt-out, a meeting or a close nobody is followed up *)
(* until an operator decides so, whatever is observed later.  True when    *)
(* observations of a contact do not overlap and are reported one by one.   *)
OverStaysQuiet ==
  moves \cap {"race", "mixed"} = {} =>
    \A t \in over : contact[t] # "follow_up_due" /\ next[t] = NoTime
==============================================================================
