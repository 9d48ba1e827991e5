------------------------ MODULE LinkedInOutreachProofs ------------------------
(***************************************************************************)
(* What LinkedIn outreach guarantees for every number of targets, steps,   *)
(* executors, observers and calls.                                         *)
(*                                                                         *)
(* The invariants about plans and contacts stand alone.  Those about       *)
(* executions rest on counting: an executor that has an attempt to record  *)
(* was called for it, so that the next number is within the calls made.    *)
(***************************************************************************)
EXTENDS LinkedInOutreach, FiniteSetTheorems, TLAPS

(* A sequence past its draft was approved or rejected.                     *)
PlanInv ==
  \A t \in Targets :
    sequence[t] \in {"approved", "active", "cancelled"} => t \in approvals

(* Executors are called for touchpoints that exist.                        *)
ServedInv ==
  \A x \in Executors : stage[x] # "idle" =>
    job[x] \in Jobs /\ point[job[x].target][job[x].step] # "absent"

Used(t, n) == {k \in Numbers : attempts[t][n][k] # "none"}
Owing == {x \in Executors : stage[x] \in {"calling", "numbering", "recording"}}
Calling == {x \in Executors : stage[x] = "calling"}

(* Attempts are numbered from 1 without a gap.                             *)
SegmentInv ==
  \A t \in Targets, n \in Steps : \E m \in 0 .. MaxCalls : Used(t, n) = 1 .. m

(* No touchpoint has more attempts or deliveries than calls were made.     *)
CountInv ==
  \A t \in Targets, n \in Steps :
    /\ Cardinality(Used(t, n)) + Cardinality(Owing) <= calls
    /\ delivered[t][n] + Cardinality(Calling) <= calls

(* What an executor holds is true of the touchpoint it serves.             *)
Held(x) ==
  LET t == job[x].target
      n == job[x].step
      r == job[x].result
  IN
    /\ stage[x] \in {"numbering", "recording", "observing"} =>
         r \in Results /\ (r \in Deliveries => delivered[t][n] > 0)
    /\ stage[x] = "recording" =>
         /\ locked[t][n] = x /\ number[x] \in Numbers
         /\ Used(t, n) = 1 .. number[x] - 1
    /\ stage[x] = "observing" =>
         r \in Deliveries /\ \E k \in Numbers : attempts[t][n][k] = r

HeldInv == \A x \in Executors : Held(x)

ExecInv == SegmentInv /\ CountInv /\ HeldInv /\ SentIsFact

Inv == TypeOK /\ PlanInv /\ OnlyApproved /\ ServedInv /\ ExecInv

LEMMA InitInv == Init => Inv
<1> SUFFICES ASSUME Init PROVE Inv
  OBVIOUS
<1> USE LinkedInAssumption
<1>1. TypeOK
  BY DEF Init, TypeOK, ContactStates, NoTime, Times, Numbers
<1>2. PlanInv /\ OnlyApproved /\ ServedInv
  BY DEF Init, PlanInv, OnlyApproved, ServedInv
<1>3. SegmentInv /\ CountInv
  <2>1. /\ \A t \in Targets, n \in Steps : Used(t, n) = {} /\ delivered[t][n] = 0
        /\ Owing = {} /\ Calling = {} /\ calls = 0
    BY DEF Init, Used, Owing, Calling
  <2>2. 1 .. 0 = {} /\ 0 \in 0 .. MaxCalls
    OBVIOUS
  <2>3. SegmentInv
    BY <2>1, <2>2 DEF SegmentInv
  <2>4. Cardinality({}) = 0
    BY FS_EmptySet
  <2>5. CountInv
    <3>1. ASSUME NEW t \in Targets, NEW n \in Steps
          PROVE  /\ Cardinality(Used(t, n)) = 0 /\ Cardinality(Owing) = 0
                 /\ Cardinality(Calling) = 0 /\ delivered[t][n] = 0
      BY <2>1, <2>4
    <3> QED
      BY <2>1, <3>1 DEF CountInv
  <2> QED
    BY <2>3, <2>5
<1>4. HeldInv /\ SentIsFact
  BY DEF Init, HeldInv, Held, SentIsFact, Deliveries
<1> QED
  BY <1>1, <1>2, <1>3, <1>4 DEF Inv, ExecInv

------------------------------------------------------------------------------
(* What the steps of an executor do.  A call opens a job; an answer gives  *)
(* it a result; the other steps pass it on or drop it.                     *)
LEMMA Executing ==
  ASSUME TypeOK, NEW x \in Executors, ExecutorStep(x)
  PROVE  /\ UNCHANGED <<planVars, contactVars, moves>>
         /\ \A y \in Executors \ {x} :
              stage'[y] = stage[y] /\ job'[y] = job[y] /\ number'[y] = number[y]
<1> USE DEF TypeOK, GoTo, Return, WithResult, AfterCall
<1>1. CASE \E t \in Targets, n \in Steps, source \in {"loaded", "built"} :
             Call(x, t, n, source)
  BY <1>1 DEF Call
<1>2. CASE ExecuteTouchpoint(x)
  BY <1>2 DEF ExecuteTouchpoint
<1>3. CASE LoseAnswer(x)
  BY <1>3 DEF LoseAnswer
<1>4. CASE ReadNumber(x)
  BY <1>4 DEF ReadNumber
<1>5. CASE TouchpointNotFound(x)
  BY <1>5 DEF TouchpointNotFound
<1>6. CASE RecordAttempt(x)
  BY <1>6 DEF RecordAttempt
<1>7. CASE RecordObservation(x)
  BY <1>7 DEF RecordObservation
<1>8. CASE Die(x)
  BY <1>8 DEF Die
<1> QED
  BY <1>1, <1>2, <1>3, <1>4, <1>5, <1>6, <1>7, <1>8 DEF ExecutorStep

(* What a job names exists, and stays.                                     *)
LEMMA ServedStep == TypeOK /\ ServedInv /\ [Next]_vars => ServedInv'
<1> SUFFICES ASSUME TypeOK, ServedInv, [Next]_vars PROVE ServedInv'
  OBVIOUS
<1> USE DEF TypeOK
<1>1. ASSUME NEW t \in Targets, CreateTouchpoints(t) PROVE ServedInv'
  <2>1. /\ UNCHANGED <<stage, job>>
        /\ \A u \in Targets, n \in Steps : point[u][n] # "absent" => point'[u][n] # "absent"
    BY <1>1 DEF CreateTouchpoints, AfterInsert, execVars
  <2> QED
    BY <2>1 DEF ServedInv, Jobs
<1>2. ASSUME NEW x \in Executors, ExecutorStep(x) PROVE ServedInv'
  <2>1. ASSUME NEW t \in Targets, NEW n \in Steps, NEW source \in {"loaded", "built"},
               Call(x, t, n, source)
        PROVE  job'[x] \in Jobs /\ point'[job'[x].target][job'[x].step] # "absent"
    <3> DEFINE j == [target |-> t, step |-> n, source |-> source, result |-> "none",
                     status |-> IF source = "built" THEN "planned" ELSE point[t][n]]
    <3>1. job'[x] = j /\ point' = point /\ point[t][n] # "absent"
      BY <2>1 DEF Call
    <3>2. j \in Jobs
      BY <3>1 DEF Jobs, PointStatus
    <3> QED
      BY <3>1, <3>2
  <2>2. CASE ExecuteTouchpoint(x)
    <3>1. /\ stage[x] # "idle" /\ point' = point
          /\ \E r \in Results : job' = [job EXCEPT ![x].result = r]
      BY <2>2 DEF ExecuteTouchpoint, WithResult, Results
    <3>2. job'[x] \in Jobs /\ job'[x].target = job[x].target /\ job'[x].step = job[x].step
      <4>1. PICK r \in Results : job' = [job EXCEPT ![x].result = r]
        BY <3>1
      <4>2. job[x] \in Jobs /\ job'[x] = [job[x] EXCEPT !.result = r]
        BY <3>1, <4>1 DEF ServedInv
      <4> QED
        BY <4>2 DEF Jobs
    <3> QED
      BY <1>2, <3>1, <3>2, Executing DEF ServedInv
  <2>3. CASE RecordObservation(x)
    <3>1. /\ point' = [point EXCEPT ![job[x].target][job[x].step] = job[x].result]
          /\ stage[x] = "observing" /\ stage'[x] = "idle"
      BY <2>3 DEF RecordObservation, Return
    <3>2. job[x].result # "absent"
      BY <3>1 DEF ServedInv, Jobs, Results, Deliveries
    <3>3. \A u \in Targets, n \in Steps : point[u][n] # "absent" => point'[u][n] # "absent"
      BY <3>1, <3>2
    <3> QED
      BY <1>2, <3>1, <3>3, Executing DEF ServedInv, Jobs
  <2>4. CASE LoseAnswer(x) \/ TouchpointNotFound(x) \/ Die(x)
    <3>1. point' = point /\ stage'[x] = "idle"
      BY <2>4 DEF LoseAnswer, TouchpointNotFound, Die, Return
    <3> QED
      BY <1>2, <3>1, Executing DEF ServedInv
  <2>5. CASE ReadNumber(x) \/ RecordAttempt(x)
    <3>1. /\ point' = point /\ stage[x] # "idle"
          /\ stage'[x] = "idle" \/ job'[x] = job[x]
      BY <2>5 DEF ReadNumber, RecordAttempt, Return, GoTo
    <3> QED
      BY <1>2, <3>1, Executing DEF ServedInv
  <2>6. CASE \E t \in Targets, n \in Steps, source \in {"loaded", "built"} :
               Call(x, t, n, source)
    <3>1. point' = point
      BY <2>6 DEF Call
    <3>2. job'[x] \in Jobs /\ point'[job'[x].target][job'[x].step] # "absent"
      BY <2>1, <2>6
    <3>3. ASSUME NEW y \in Executors \ {x}, stage'[y] # "idle"
          PROVE  job'[y] \in Jobs /\ point'[job'[y].target][job'[y].step] # "absent"
      BY <1>2, <3>1, <3>3, Executing DEF ServedInv
    <3> QED
      BY <3>2, <3>3 DEF ServedInv
  <2> QED
    BY <1>2, <2>2, <2>3, <2>4, <2>5, <2>6 DEF ExecutorStep
<1>3. CASE UNCHANGED <<point, stage, job>>
  BY <1>3 DEF ServedInv
<1> QED
  BY <1>1, <1>2, <1>3
     DEF Next, PlanStep, ApproveSequence, SetSequence, FindApproved, ContactStep,
         ReadState, UpdateContact, WriteState, DropObservation, Tick, vars, execVars

(* Plans: an approval stays on record, and only what was found approved is *)
(* planned.                                                                *)
LEMMA PlanStepKept ==
  ASSUME TypeOK, ServedInv, PlanInv, OnlyApproved, [Next]_vars
  PROVE  (PlanInv /\ OnlyApproved)'
<1> USE DEF TypeOK
<1>1. ASSUME NEW t \in Targets, PlanStep(t) PROVE (PlanInv /\ OnlyApproved)'
  <2>1. CASE ApproveSequence(t)
    BY <2>1 DEF ApproveSequence, PlanInv, OnlyApproved
  <2>2. ASSUME NEW s \in {"rejected", "active", "cancelled"}, SetSequence(t, s)
        PROVE  (PlanInv /\ OnlyApproved)'
    BY <2>2 DEF SetSequence, PlanInv, OnlyApproved
  <2>3. CASE FindApproved(t)
    BY <2>3 DEF FindApproved, Approved, PlanInv, OnlyApproved
  <2>4. CASE CreateTouchpoints(t)
    BY <2>4 DEF CreateTouchpoints, PlanInv, OnlyApproved
  <2> QED
    BY <1>1, <2>1, <2>2, <2>3, <2>4 DEF PlanStep
<1>2. ASSUME NEW x \in Executors, RecordObservation(x) PROVE (PlanInv /\ OnlyApproved)'
  <2>1. \A u \in Targets, n \in Steps : point'[u][n] # "absent" => point[u][n] # "absent"
    BY <1>2 DEF RecordObservation, ServedInv
  <2> QED
    BY <1>2, <2>1 DEF RecordObservation, PlanInv, OnlyApproved, planVars
<1>3. CASE UNCHANGED <<planVars, point>>
  BY <1>3 DEF PlanInv, OnlyApproved, planVars
<1>4. ASSUME NEW x \in Executors, ExecutorStep(x)
      PROVE  RecordObservation(x) \/ UNCHANGED <<planVars, point>>
  BY <1>4 DEF ExecutorStep, Call, ExecuteTouchpoint, LoseAnswer, ReadNumber,
              TouchpointNotFound, RecordAttempt, Die
<1> QED
  BY <1>1, <1>2, <1>3, <1>4
     DEF Next, ContactStep, ReadState, UpdateContact, WriteState, DropObservation,
         Tick, vars

------------------------------------------------------------------------------
(* Counting.                                                               *)
LEMMA Smaller ==
  ASSUME NEW S, IsFiniteSet(S), NEW T \in SUBSET S, NEW x \in S, x \notin T
  PROVE  Cardinality(T) + 1 <= Cardinality(S)
<1>1. /\ IsFiniteSet(S \ {x})
      /\ Cardinality(S \ {x}) = Cardinality(S) - 1
  BY FS_RemoveElement
<1>2. T \in SUBSET (S \ {x})
  OBVIOUS
<1>3. Cardinality(T) <= Cardinality(S \ {x}) /\ IsFiniteSet(T)
  BY <1>1, <1>2, FS_Subset
<1>4. Cardinality(T) \in Nat /\ Cardinality(S) \in Nat
  BY <1>3, FS_CardinalityType
<1> QED
  BY <1>1, <1>3, <1>4

LEMMA Finite ==
  /\ IsFiniteSet(Owing) /\ Cardinality(Owing) \in Nat
  /\ IsFiniteSet(Calling) /\ Cardinality(Calling) \in Nat
  /\ \A t \in Targets, n \in Steps :
       IsFiniteSet(Used(t, n)) /\ Cardinality(Used(t, n)) \in Nat
<1> USE LinkedInAssumption
<1>1. Owing \in SUBSET Executors /\ Calling \in SUBSET Executors
  BY DEF Owing, Calling
<1>2. IsFiniteSet(Owing) /\ IsFiniteSet(Calling)
  BY <1>1, FS_Subset
<1>3. ASSUME NEW t \in Targets, NEW n \in Steps PROVE IsFiniteSet(Used(t, n))
  <2>1. IsFiniteSet(Numbers)
    BY FS_Interval DEF Numbers
  <2>2. Used(t, n) \in SUBSET Numbers
    BY DEF Used
  <2> QED
    BY <2>1, <2>2, FS_Subset
<1> QED
  BY <1>2, <1>3, FS_CardinalityType

(* There is room for one more delivery, and for one more attempt.          *)
LEMMA Room ==
  ASSUME TypeOK, CountInv, SegmentInv, NEW t \in Targets, NEW n \in Steps,
         NEW x \in Executors
  PROVE  /\ stage[x] = "calling" => delivered[t][n] + 1 <= calls
         /\ x \in Owing => \E m \in 0 .. MaxCalls :
              Used(t, n) = 1 .. m /\ m + 1 <= calls
<1>1. ASSUME stage[x] = "calling" PROVE delivered[t][n] + 1 <= calls
  <2>1. Cardinality(Calling) >= 1
    <3>1. x \in Calling
      BY <1>1 DEF Calling
    <3>2. Cardinality({}) + 1 <= Cardinality(Calling)
      BY <3>1, Finite, Smaller
    <3> QED
      BY <3>2, FS_EmptySet
  <2>2. delivered[t][n] \in Nat /\ calls \in Nat /\ Cardinality(Calling) \in Nat
    BY Finite, LinkedInAssumption DEF TypeOK
  <2>3. delivered[t][n] + Cardinality(Calling) <= calls
    BY DEF CountInv
  <2> QED
    BY <2>1, <2>2, <2>3
<1>2. ASSUME x \in Owing
      PROVE  \E m \in 0 .. MaxCalls : Used(t, n) = 1 .. m /\ m + 1 <= calls
  <2>1. Cardinality(Owing) >= 1
    <3>1. Cardinality({}) + 1 <= Cardinality(Owing)
      BY <1>2, Finite, Smaller
    <3> QED
      BY <3>1, FS_EmptySet
  <2>2. PICK m \in 0 .. MaxCalls : Used(t, n) = 1 .. m
    BY DEF SegmentInv
  <2>3. Cardinality(1 .. m) = m
    BY FS_Interval, LinkedInAssumption
  <2>4. Cardinality(Used(t, n)) + Cardinality(Owing) <= calls
    BY DEF CountInv
  <2>5. Cardinality(Owing) \in Nat /\ calls \in Nat /\ m \in Nat
    BY Finite, LinkedInAssumption DEF TypeOK
  <2> QED
    BY <2>1, <2>2, <2>3, <2>4, <2>5
<1> QED
  BY <1>1, <1>2

(* The number read under the lock is the next one, and within the calls.   *)
LEMMA NextNumber ==
  ASSUME TypeOK, ServedInv, CountInv, SegmentInv, NEW x \in Executors, ReadNumber(x)
  PROVE  /\ number'[x] \in 1 .. MaxCalls
         /\ Used(job[x].target, job[x].step) = 1 .. number'[x] - 1
<1> DEFINE t == job[x].target
           n == job[x].step
<1>1. /\ stage[x] = "numbering" /\ t \in Targets /\ n \in Steps
  BY DEF ReadNumber, ServedInv, Jobs
<1>2. PICK m \in 0 .. MaxCalls : Used(t, n) = 1 .. m /\ m + 1 <= calls
  BY <1>1, Room DEF Owing
<1>3. number'[x] = CHOOSE k \in 1 .. MaxCalls + 1 :
                     /\ \A j \in Used(t, n) : j < k
                     /\ k = 1 \/ k - 1 \in Used(t, n)
  BY DEF ReadNumber, TypeOK, Used
<1>4. m + 1 \in 1 .. MaxCalls
  BY <1>2, LinkedInAssumption DEF TypeOK
<1>5. \A k \in 1 .. MaxCalls + 1 :
        (\A j \in 1 .. m : j < k) /\ (k = 1 \/ k - 1 \in 1 .. m) <=> k = m + 1
  BY <1>2, LinkedInAssumption
<1>6. number'[x] = m + 1
  BY <1>2, <1>3, <1>4, <1>5
<1> QED
  BY <1>2, <1>4, <1>6

------------------------------------------------------------------------------
(* Types.                                                                  *)
LEMMA PlanTypes ==
  ASSUME TypeOK, NEW t \in Targets, PlanStep(t)
  PROVE  TypeOK'
<1> USE DEF TypeOK
<1>1. CASE ApproveSequence(t)
  BY <1>1 DEF ApproveSequence, execVars, contactVars
<1>2. ASSUME NEW s \in {"rejected", "active", "cancelled"}, SetSequence(t, s)
      PROVE  TypeOK'
  BY <1>2 DEF SetSequence, execVars, contactVars
<1>3. CASE FindApproved(t)
  BY <1>3 DEF FindApproved, execVars, contactVars
<1>4. CASE CreateTouchpoints(t)
  BY <1>4 DEF CreateTouchpoints, AfterInsert, PointStatus, execVars, contactVars
<1> QED
  BY <1>1, <1>2, <1>3, <1>4 DEF PlanStep

LEMMA ContactTypes ==
  ASSUME TypeOK,
         \/ \E t \in Targets : ContactStep(t)
         \/ \E o \in Observers : WriteState(o) \/ DropObservation(o)
         \/ Tick
  PROVE  TypeOK'
<1> USE LinkedInAssumption DEF TypeOK
<1>1. ASSUME NEW o \in Observers, NEW t \in Targets, NEW obs \in Observations,
             ReadState(o, t, obs)
      PROVE  TypeOK'
  <2>1. [target |-> t, state |-> contact[t], next |-> next[t], obs |-> obs] \in Views
    BY DEF Views
  <2> QED
    BY <1>1, <2>1 DEF ReadState, planVars, execVars
<1>2. ASSUME NEW t \in Targets, NEW state \in ContactStates, NEW time \in Times \cup {NoTime},
             UpdateContact(t, state, time)
      PROVE  TypeOK'
  BY <1>2 DEF UpdateContact, planVars, execVars
<1>3. ASSUME NEW o \in Observers, WriteState(o) PROVE TypeOK'
  <2> DEFINE update == NextState(view[o].state, view[o].next, view[o].obs)
  <2>1. view[o] \in Views
    BY <1>3 DEF WriteState
  <2>2. update.state \in ContactStates /\ update.next \in Times \cup {NoTime}
    BY <2>1 DEF NextState, Becomes, Outcome, Views, Observations, Events, ContactStates
  <2> HIDE DEF update
  <2>3. /\ contact' = [contact EXCEPT ![view[o].target] = update.state]
        /\ next' = [next EXCEPT ![view[o].target] = update.next]
        /\ over' \in {over, over \cup {view[o].target}}
        /\ view' = [view EXCEPT ![o] = NoView]
        /\ UNCHANGED <<planVars, point, execVars, moves>>
    BY <1>3 DEF WriteState, update
  <2> QED
    BY <2>1, <2>2, <2>3 DEF Views, planVars, execVars
<1>4. ASSUME NEW o \in Observers, DropObservation(o) PROVE TypeOK'
  BY <1>4 DEF DropObservation, planVars, execVars
<1>5. CASE Tick
  BY <1>5 DEF Tick, Times, NoTime, planVars, execVars
<1> QED
  BY <1>1, <1>2, <1>3, <1>4, <1>5 DEF ContactStep

(* A call that is answered delivers the touchpoint once, or does not.      *)
LEMMA Delivering ==
  ASSUME TypeOK, ServedInv, ExecInv, NEW x \in Executors, stage[x] = "calling",
         delivered' = delivered \/ Deliver(x)
  PROVE  /\ delivered' \in [Targets -> [Steps -> 0 .. MaxCalls]]
         /\ \A t \in Targets, n \in Steps :
              delivered'[t][n] \in {delivered[t][n], delivered[t][n] + 1}
<1> USE LinkedInAssumption
<1>1. job[x] \in Jobs
  BY DEF ServedInv
<1>2. PICK t \in Targets, n \in Steps : job[x].target = t /\ job[x].step = n
  BY <1>1 DEF Jobs
<1>3. delivered[t][n] + 1 <= calls
  BY <1>2, Room DEF ExecInv
<1>4. delivered \in [Targets -> [Steps -> 0 .. MaxCalls]] /\ calls \in 0 .. MaxCalls
  BY DEF TypeOK
<1>5. CASE Deliver(x)
  <2>1. delivered' = [delivered EXCEPT ![t] = [delivered[t] EXCEPT ![n] = delivered[t][n] + 1]]
    BY <1>2, <1>4, <1>5 DEF Deliver
  <2>2. delivered[t][n] + 1 \in 0 .. MaxCalls
    BY <1>3, <1>4
  <2> QED
    BY <1>4, <2>1, <2>2
<1> QED
  BY <1>4, <1>5

LEMMA ExecutorTypes ==
  ASSUME TypeOK, ServedInv, ExecInv, NEW x \in Executors, ExecutorStep(x)
  PROVE  TypeOK'
<1> USE LinkedInAssumption DEF TypeOK
<1>a. UNCHANGED <<planVars, contactVars, moves>>
  BY Executing
<1>1. ASSUME NEW t \in Targets, NEW n \in Steps, NEW source \in {"loaded", "built"},
             Call(x, t, n, source)
      PROVE  TypeOK'
  <2>1. [target |-> t, step |-> n, source |-> source, result |-> "none",
         status |-> IF source = "built" THEN "planned" ELSE point[t][n]] \in Jobs
    BY <1>1 DEF Call, Jobs, PointStatus
  <2> QED
    BY <1>1, <2>1 DEF Call, planVars, contactVars
<1>2. ASSUME stage[x] = "calling", NEW r \in Results, WithResult(x, r),
             UNCHANGED <<point, attempts, locked, number, calls>>,
             delivered' = delivered \/ Deliver(x)
      PROVE  TypeOK'
  <2>1. job[x] \in Jobs
    BY <1>2 DEF ServedInv
  <2>2. job' \in [Executors -> Jobs \cup {NoJob}]
    <3>1. job' = [job EXCEPT ![x].result = r] /\ [job[x] EXCEPT !.result = r] \in Jobs
      BY <1>2, <2>1 DEF WithResult, Jobs
    <3> QED
      BY <3>1
  <2>3. delivered' \in [Targets -> [Steps -> 0 .. MaxCalls]]
    BY <1>2, Delivering
  <2> QED
    BY <1>a, <1>2, <2>2, <2>3 DEF WithResult, GoTo, AfterCall, planVars, contactVars
<1>3. CASE LoseAnswer(x)
  <2>1. delivered' \in [Targets -> [Steps -> 0 .. MaxCalls]]
    BY <1>3, Delivering DEF LoseAnswer
  <2> QED
    BY <1>3, <2>1 DEF LoseAnswer, Return, planVars, contactVars
<1>4. CASE ReadNumber(x)
  <2>1. number'[x] \in 1 .. MaxCalls
    BY <1>4, NextNumber DEF ExecInv
  <2>2. number' \in [Executors -> 0 .. MaxCalls]
    <3>1. \A y \in Executors \ {x} : number'[y] = number[y]
      BY Executing
    <3>2. \E k : number' = [number EXCEPT ![x] = k]
      BY <1>4 DEF ReadNumber
    <3> QED
      BY <2>1, <3>1, <3>2
  <2>3. job[x] \in Jobs
    BY <1>4 DEF ReadNumber, ServedInv
  <2>4. locked' \in [Targets -> [Steps -> Executors \cup {NoOne}]]
    BY <1>4, <2>3 DEF ReadNumber, Jobs
  <2> QED
    BY <1>4, <2>2, <2>4 DEF ReadNumber, GoTo, planVars, contactVars
<1>5. CASE TouchpointNotFound(x)
  BY <1>5 DEF TouchpointNotFound, Return, planVars, contactVars
<1>6. CASE RecordAttempt(x)
  <2>1. /\ job[x] \in Jobs /\ job[x].result \in Results
    BY <1>6 DEF RecordAttempt, ServedInv, ExecInv, HeldInv, Held
  <2>2. locked' \in [Targets -> [Steps -> Executors \cup {NoOne}]]
    BY <1>6 DEF RecordAttempt, Unlock
  <2>3. attempts' \in [Targets -> [Steps -> [Numbers -> Results \cup {"none"}]]]
    <3>1. PICK t \in Targets, n \in Steps : job[x].target = t /\ job[x].step = n
      BY <2>1 DEF Jobs
    <3>2. \/ attempts' = attempts
          \/ attempts' = [attempts EXCEPT ![t] = [attempts[t] EXCEPT ![n] =
                            [attempts[t][n] EXCEPT ![number[x]] = job[x].result]]]
      BY <1>6, <3>1 DEF RecordAttempt
    <3> DEFINE Entries == [Numbers -> Results \cup {"none"}]
               new == [attempts[t][n] EXCEPT ![number[x]] = job[x].result]
    <3>3. new \in Entries
      <4>1. attempts[t][n] \in Entries
        OBVIOUS
      <4> QED
        BY <2>1, <4>1
    <3>4. attempts \in [Targets -> [Steps -> Entries]]
      OBVIOUS
    <3> HIDE DEF Entries, new
    <3>5. \/ attempts' = attempts
          \/ attempts' = [attempts EXCEPT ![t] = [attempts[t] EXCEPT ![n] = new]]
      BY <3>2 DEF new
    <3>6. attempts' \in [Targets -> [Steps -> Entries]]
      <4>1. attempts[t] \in [Steps -> Entries]
        BY <3>4
      <4>2. [attempts[t] EXCEPT ![n] = new] \in [Steps -> Entries]
        BY <3>3, <4>1
      <4> QED
        BY <3>4, <3>5, <4>2
    <3> QED
      BY <3>6 DEF Entries
  <2>4. /\ stage' \in [Executors -> {"idle", "calling", "numbering", "recording",
                                     "observing"}]
        /\ job' \in [Executors -> Jobs \cup {NoJob}]
        /\ number' \in [Executors -> 0 .. MaxCalls]
    <3>1. CASE Return(x)
      BY <3>1 DEF Return
    <3>2. CASE GoTo(x, "observing") /\ UNCHANGED <<job, number>>
      BY <3>2 DEF GoTo
    <3> QED
      BY <1>6, <3>1, <3>2 DEF RecordAttempt
  <2> QED
    BY <1>6, <2>2, <2>3, <2>4 DEF RecordAttempt, planVars, contactVars
<1>7. CASE RecordObservation(x)
  <2>1. job[x] \in Jobs /\ job[x].result \in PointStatus
    BY <1>7 DEF RecordObservation, ServedInv, ExecInv, HeldInv, Held, Deliveries, PointStatus
  <2>2. point' \in [Targets -> [Steps -> PointStatus \cup {"absent"}]]
    BY <1>7, <2>1 DEF RecordObservation, Jobs
  <2> QED
    BY <1>7, <2>2 DEF RecordObservation, Return, planVars, contactVars
<1>8. CASE Die(x)
  <2>1. locked' \in [Targets -> [Steps -> Executors \cup {NoOne}]]
    BY <1>8 DEF Die, Unlock
  <2> QED
    BY <1>8, <2>1 DEF Die, Return, planVars, contactVars
<1>9. CASE ExecuteTouchpoint(x)
  <2>1. /\ stage[x] = "calling"
        /\ \E r \in Results : WithResult(x, r)
        /\ UNCHANGED <<point, attempts, locked, number, calls>>
        /\ delivered' = delivered \/ Deliver(x)
    BY <1>9 DEF ExecuteTouchpoint, Results
  <2> QED
    BY <1>2, <2>1
<1> QED
  BY <1>1, <1>3, <1>4, <1>5, <1>6, <1>7, <1>8, <1>9 DEF ExecutorStep

LEMMA TypeStep == TypeOK /\ ServedInv /\ ExecInv /\ [Next]_vars => TypeOK'
<1>1. TypeOK /\ UNCHANGED vars => TypeOK'
  BY DEF TypeOK, vars, planVars, execVars, contactVars
<1> QED
  BY <1>1, PlanTypes, ContactTypes, ExecutorTypes DEF Next

------------------------------------------------------------------------------
(* Executions.  An attempt that is recorded gets the next number, which    *)
(* nobody has taken.                                                       *)
LEMMA Recording ==
  ASSUME TypeOK, ServedInv, ExecInv, NEW x \in Executors, RecordAttempt(x),
         NEW t \in Targets, NEW n \in Steps, job[x].target = t, job[x].step = n
  PROVE  /\ number[x] \in Numbers
         /\ \A u \in Targets, m \in Steps, k \in Numbers : attempts'[u][m][k] =
              IF u = t /\ m = n /\ k = number[x] THEN job[x].result
              ELSE attempts[u][m][k]
         /\ attempts[t][n][number[x]] = "none"
         /\ job[x].result \in Results
         /\ IF job[x].result \in Deliveries
            THEN stage'[x] = "observing" /\ job'[x] = job[x]
            ELSE stage'[x] = "idle"
<1>1. stage[x] = "recording"
  BY DEF RecordAttempt
<1>2. number[x] \in Numbers /\ Used(t, n) = 1 .. number[x] - 1 /\ job[x].result \in Results
  BY <1>1 DEF ExecInv, HeldInv, Held
<1>3. attempts[t][n][number[x]] = "none"
  BY <1>2, LinkedInAssumption DEF Used, Numbers
<1>4. attempts' = [attempts EXCEPT ![t] = [attempts[t] EXCEPT ![n] =
                     [attempts[t][n] EXCEPT ![number[x]] = job[x].result]]]
  BY <1>3 DEF RecordAttempt, TypeOK
<1>5. \A u \in Targets, m \in Steps, k \in Numbers : attempts'[u][m][k] =
        IF u = t /\ m = n /\ k = number[x] THEN job[x].result ELSE attempts[u][m][k]
  <2>1. attempts \in [Targets -> [Steps -> [Numbers -> Results \cup {"none"}]]]
    BY DEF TypeOK
  <2> QED
    BY <1>2, <1>4, <2>1
<1>6. IF job[x].result \in Deliveries
      THEN stage'[x] = "observing" /\ job'[x] = job[x] ELSE stage'[x] = "idle"
  BY <1>3 DEF RecordAttempt, GoTo, Return, TypeOK
<1> QED
  BY <1>2, <1>3, <1>5, <1>6

LEMMA RecordingUsed ==
  ASSUME TypeOK, ServedInv, ExecInv, NEW x \in Executors, RecordAttempt(x),
         NEW t \in Targets, NEW n \in Steps, job[x].target = t, job[x].step = n
  PROVE  /\ Used(t, n)' = 1 .. number[x]
         /\ Used(t, n)' = Used(t, n) \cup {number[x]}
         /\ \A u \in Targets, m \in Steps :
              u # t \/ m # n => Used(u, m)' = Used(u, m)
<1>1. number[x] \in Numbers /\ Used(t, n) = 1 .. number[x] - 1
  BY DEF RecordAttempt, ExecInv, HeldInv, Held
<1>2. job[x].result # "none"
  BY Recording DEF Results, Deliveries
<1>3. Used(t, n)' = Used(t, n) \cup {number[x]}
  BY <1>1, <1>2, Recording DEF Used
<1>4. \A u \in Targets, m \in Steps : u # t \/ m # n => Used(u, m)' = Used(u, m)
  BY Recording DEF Used
<1>5. Used(t, n)' = 1 .. number[x]
  BY <1>1, <1>3, LinkedInAssumption DEF Numbers
<1> QED
  BY <1>3, <1>4, <1>5

(* The other steps leave the attempts alone.                               *)
LEMMA OtherUsed ==
  ASSUME attempts' = attempts
  PROVE  \A t, n : Used(t, n)' = Used(t, n)
BY DEF Used

LEMMA ExecutorFrame ==
  ASSUME NEW x \in Executors, ExecutorStep(x)
  PROVE  RecordAttempt(x) \/ attempts' = attempts
BY DEF ExecutorStep, Call, ExecuteTouchpoint, LoseAnswer, ReadNumber,
       TouchpointNotFound, RecordObservation, Die

LEMMA SegmentStep ==
  ASSUME TypeOK, ServedInv, ExecInv, NEW x \in Executors, ExecutorStep(x)
  PROVE  SegmentInv'
<1>1. CASE RecordAttempt(x)
  <2>1. PICK t \in Targets, n \in Steps : job[x].target = t /\ job[x].step = n
    BY <1>1 DEF RecordAttempt, ServedInv, Jobs
  <2>2. number[x] \in Numbers /\ Used(t, n)' = 1 .. number[x]
    BY <1>1, <2>1, Recording, RecordingUsed
  <2>3. \A u \in Targets, m \in Steps : u # t \/ m # n => Used(u, m)' = Used(u, m)
    BY <1>1, <2>1, RecordingUsed
  <2>4. number[x] \in 0 .. MaxCalls
    BY <2>2, LinkedInAssumption DEF Numbers
  <2> QED
    BY <2>2, <2>3, <2>4 DEF SegmentInv, ExecInv
<1>2. CASE attempts' = attempts
  BY <1>2, OtherUsed DEF SegmentInv, ExecInv
<1> QED
  BY <1>1, <1>2, ExecutorFrame

(* A call is counted when it begins; what it delivers and what it records  *)
(* comes after.                                                            *)
LEMMA CountStep ==
  ASSUME TypeOK, ServedInv, ExecInv, NEW x \in Executors, ExecutorStep(x)
  PROVE  CountInv'
<1>a. /\ Cardinality(Owing) \in Nat /\ Cardinality(Calling) \in Nat
      /\ IsFiniteSet(Owing) /\ IsFiniteSet(Calling)
      /\ calls \in Nat
      /\ \A t \in Targets, n \in Steps :
           /\ Cardinality(Used(t, n)) \in Nat /\ delivered[t][n] \in Nat
           /\ IsFiniteSet(Used(t, n))
           /\ Cardinality(Used(t, n)) + Cardinality(Owing) <= calls
           /\ delivered[t][n] + Cardinality(Calling) <= calls
  BY Finite, LinkedInAssumption DEF ExecInv, CountInv, TypeOK
<1>b. TypeOK' /\ IsFiniteSet(Owing') /\ IsFiniteSet(Calling')
  <2>1. TypeOK'
    BY ExecutorTypes
  <2>2. Owing' \in SUBSET Executors /\ Calling' \in SUBSET Executors
    BY DEF Owing, Calling
  <2> QED
    BY <2>1, <2>2, FS_Subset, LinkedInAssumption
<1>c. Cardinality(Owing') \in Nat /\ Cardinality(Calling') \in Nat
  BY <1>b, FS_CardinalityType
<1>d. \A y \in Executors \ {x} : stage'[y] = stage[y]
  BY Executing
<1>1. CASE \E t \in Targets, n \in Steps, source \in {"loaded", "built"} :
             Call(x, t, n, source)
  <2>1. /\ stage'[x] = "calling" /\ stage[x] = "idle" /\ calls' = calls + 1
        /\ UNCHANGED <<attempts, delivered>>
    BY <1>1 DEF Call, TypeOK
  <2>2. Owing' = Owing \cup {x} /\ Calling' = Calling \cup {x}
    BY <1>d, <2>1 DEF Owing, Calling
  <2>3. Cardinality(Owing') <= Cardinality(Owing) + 1
        /\ Cardinality(Calling') <= Cardinality(Calling) + 1
    <3>1. Cardinality(Owing \cup {x}) \in {Cardinality(Owing), Cardinality(Owing) + 1}
      BY <1>a, FS_AddElement
    <3>2. Cardinality(Calling \cup {x}) \in {Cardinality(Calling), Cardinality(Calling) + 1}
      BY <1>a, FS_AddElement
    <3> QED
      BY <1>a, <2>2, <3>1, <3>2
  <2>4. \A t, n : Used(t, n)' = Used(t, n)
    BY <2>1, OtherUsed
  <2> QED
    BY <1>a, <1>c, <2>1, <2>3, <2>4 DEF CountInv
<1>2. ASSUME stage[x] # "idle", stage'[x] # "calling", stage[x] = "observing" => stage'[x] = "idle"
      PROVE  /\ Owing' \in SUBSET Owing /\ Calling' \in SUBSET Calling
             /\ Cardinality(Owing') <= Cardinality(Owing)
             /\ Cardinality(Calling') <= Cardinality(Calling)
             /\ stage[x] = "calling" => Cardinality(Calling') + 1 <= Cardinality(Calling)
             /\ stage[x] = "recording" /\ stage'[x] # "recording" /\ stage'[x] # "numbering" =>
                  Cardinality(Owing') + 1 <= Cardinality(Owing)
  <2>1. Owing' \in SUBSET Owing /\ Calling' \in SUBSET Calling
    BY <1>2, <1>d DEF Owing, Calling, TypeOK
  <2>2. /\ Cardinality(Owing') <= Cardinality(Owing)
        /\ Cardinality(Calling') <= Cardinality(Calling)
    BY <1>a, <2>1, FS_Subset
  <2>3. ASSUME stage[x] = "calling" PROVE Cardinality(Calling') + 1 <= Cardinality(Calling)
    <3>1. x \in Calling /\ x \notin Calling'
      BY <1>2, <2>3 DEF Calling
    <3> QED
      BY <1>a, <2>1, <3>1, Smaller
  <2>4. ASSUME stage[x] = "recording", stage'[x] # "recording", stage'[x] # "numbering"
        PROVE  Cardinality(Owing') + 1 <= Cardinality(Owing)
    <3>1. x \in Owing /\ x \notin Owing'
      BY <1>2, <2>4 DEF Owing
    <3> QED
      BY <1>a, <2>1, <3>1, Smaller
  <2> QED
    BY <2>1, <2>2, <2>3, <2>4
<1>3. CASE ExecuteTouchpoint(x) \/ LoseAnswer(x)
  <2>1. /\ stage[x] = "calling" /\ stage'[x] \in {"numbering", "idle"}
        /\ UNCHANGED <<attempts, calls>>
        /\ delivered' = delivered \/ Deliver(x)
    BY <1>3 DEF ExecuteTouchpoint, LoseAnswer, WithResult, GoTo, Return, AfterCall, TypeOK
  <2>2. \A t \in Targets, n \in Steps :
          delivered'[t][n] \in {delivered[t][n], delivered[t][n] + 1}
    BY <2>1, Delivering
  <2>3. \A t, n : Used(t, n)' = Used(t, n)
    BY <2>1, OtherUsed
  <2>4. /\ Cardinality(Owing') <= Cardinality(Owing)
        /\ Cardinality(Calling') + 1 <= Cardinality(Calling)
    BY <1>2, <2>1
  <2>5. ASSUME NEW t \in Targets, NEW n \in Steps
        PROVE  /\ Cardinality(Used(t, n)') + Cardinality(Owing') <= calls'
               /\ delivered'[t][n] + Cardinality(Calling') <= calls'
    <3>1. Used(t, n)' = Used(t, n) /\ calls' = calls
      BY <2>1, <2>3
    <3> QED
      BY <1>a, <1>c, <2>2, <2>4, <3>1
  <2> QED
    BY <2>5 DEF CountInv
<1>4. CASE RecordAttempt(x)
  <2>1. PICK t \in Targets, n \in Steps : job[x].target = t /\ job[x].step = n
    BY <1>4 DEF RecordAttempt, ServedInv, Jobs
  <2>2. ASSUME NEW u \in Targets, NEW m \in Steps
        PROVE  Used(u, m)' \in {Used(u, m), Used(u, m) \cup {number[x]}}
    BY <1>4, <2>1, RecordingUsed DEF Used
  <2>3. stage[x] = "recording" /\ stage'[x] \in {"observing", "idle"}
        /\ UNCHANGED <<calls, delivered>>
    BY <1>4, <2>1, Recording DEF RecordAttempt
  <2>4. ASSUME NEW u \in Targets, NEW m \in Steps
        PROVE  /\ Cardinality(Used(u, m)') \in Nat
               /\ Cardinality(Used(u, m)') <= Cardinality(Used(u, m)) + 1
    <3>1. IsFiniteSet(Used(u, m)) /\ Cardinality(Used(u, m)) \in Nat
      BY <1>a
    <3>2. Cardinality(Used(u, m) \cup {number[x]}) \in
            {Cardinality(Used(u, m)), Cardinality(Used(u, m)) + 1}
      BY <3>1, FS_AddElement
    <3>3. CASE Used(u, m)' = Used(u, m)
      BY <3>1, <3>3
    <3>4. CASE Used(u, m)' = Used(u, m) \cup {number[x]}
      BY <3>1, <3>2, <3>4
    <3> QED
      BY <2>2, <3>3, <3>4
  <2> QED
    BY <1>a, <1>c, <1>2, <2>3, <2>4 DEF CountInv
<1>5. CASE ReadNumber(x) \/ TouchpointNotFound(x) \/ RecordObservation(x) \/ Die(x)
  <2>1. /\ stage[x] # "idle" /\ stage'[x] \in {"recording", "idle"}
        /\ stage[x] = "observing" => stage'[x] = "idle"
        /\ UNCHANGED <<attempts, calls, delivered>>
    BY <1>5 DEF ReadNumber, TouchpointNotFound, RecordObservation, Die, GoTo, Return, TypeOK
  <2>2. \A t, n : Used(t, n)' = Used(t, n)
    BY <2>1, OtherUsed
  <2> QED
    BY <1>a, <1>c, <1>2, <2>1, <2>2 DEF CountInv
<1> QED
  BY <1>1, <1>3, <1>4, <1>5 DEF ExecutorStep

(* An executor's step takes nothing from the record, and no lock of        *)
(* another's.                                                              *)
LEMMA Keeps ==
  ASSUME TypeOK, ServedInv, ExecInv, NEW x \in Executors, ExecutorStep(x)
  PROVE  /\ \A t \in Targets, n \in Steps :
              delivered[t][n] > 0 => delivered'[t][n] > 0
         /\ \A t \in Targets, n \in Steps, y \in Executors \ {x} :
              locked[t][n] = y => locked'[t][n] = y
         /\ \A t \in Targets, n \in Steps, k \in Numbers :
              attempts[t][n][k] # "none" => attempts'[t][n][k] = attempts[t][n][k]
<1>1. \A t \in Targets, n \in Steps : delivered[t][n] > 0 => delivered'[t][n] > 0
  <2>1. CASE stage[x] = "calling" /\ (delivered' = delivered \/ Deliver(x))
    <3>1. \A t \in Targets, n \in Steps :
            delivered'[t][n] \in {delivered[t][n], delivered[t][n] + 1}
      BY <2>1, Delivering
    <3>2. \A t \in Targets, n \in Steps : delivered[t][n] \in Nat
      BY LinkedInAssumption DEF TypeOK
    <3> QED
      BY <3>1, <3>2
  <2>2. CASE delivered' = delivered
    BY <2>2
  <2> QED
    BY <2>1, <2>2 DEF ExecutorStep, Call, ExecuteTouchpoint, LoseAnswer, ReadNumber,
       TouchpointNotFound, RecordAttempt, RecordObservation, Die
<1>2. ASSUME NEW t \in Targets, NEW n \in Steps, NEW y \in Executors \ {x}, locked[t][n] = y
      PROVE  locked'[t][n] = y
  <2>1. CASE Unlock(x)
    BY <1>2, <2>1 DEF Unlock
  <2>2. CASE ReadNumber(x)
    <3>1. PICK a, b : a = job[x].target /\ b = job[x].step
      OBVIOUS
    <3>2. locked' = [locked EXCEPT ![a][b] = x] /\ locked[a][b] \in {NoOne, x}
      BY <2>2, <3>1 DEF ReadNumber, Free
    <3>3. y # x /\ y # NoOne
      BY LinkedInAssumption
    <3>4. ~(a = t /\ b = n)
      BY <1>2, <3>2, <3>3
    <3> QED
      BY <1>2, <3>2, <3>4 DEF TypeOK
  <2>3. CASE locked' = locked
    BY <1>2, <2>3
  <2> QED
    BY <2>1, <2>2, <2>3 DEF ExecutorStep, Call, ExecuteTouchpoint, LoseAnswer,
       TouchpointNotFound, RecordAttempt, RecordObservation, Die
<1>3. \A t \in Targets, n \in Steps, k \in Numbers :
        attempts[t][n][k] # "none" => attempts'[t][n][k] = attempts[t][n][k]
  <2>1. CASE RecordAttempt(x)
    <3>1. PICK t \in Targets, n \in Steps : job[x].target = t /\ job[x].step = n
      BY <2>1 DEF RecordAttempt, ServedInv, Jobs
    <3> QED
      BY <2>1, <3>1, Recording
  <2>2. CASE attempts' = attempts
    BY <2>2
  <2> QED
    BY <2>1, <2>2, ExecutorFrame
<1> QED
  BY <1>1, <1>2, <1>3

LEMMA HeldStep ==
  ASSUME TypeOK, ServedInv, ExecInv, NEW x \in Executors, ExecutorStep(x)
  PROVE  HeldInv'
<1>1. ASSUME NEW y \in Executors \ {x} PROVE Held(y)'
  <2>1. stage'[y] = stage[y] /\ job'[y] = job[y] /\ number'[y] = number[y]
    BY Executing
  <2>2. CASE stage[y] \in {"idle", "calling"}
    BY <2>1, <2>2 DEF Held
  <2>3. CASE stage[y] \notin {"idle", "calling"}
    <3>1. PICK t \in Targets, n \in Steps : job[y].target = t /\ job[y].step = n
      BY <2>3 DEF ServedInv, Jobs
    <3>2. job[y].result \in Deliveries /\ delivered[t][n] > 0 => delivered'[t][n] > 0
      BY Keeps
    <3>3. ASSUME stage[y] = "recording"
          PROVE  locked'[t][n] = y /\ Used(t, n)' = 1 .. number[y] - 1
      <4>1. locked[t][n] = y /\ Used(t, n) = 1 .. number[y] - 1
        BY <3>1, <3>3 DEF ExecInv, HeldInv, Held
      <4>2. locked'[t][n] = y
        BY <4>1, Keeps
      <4>3. CASE RecordAttempt(x)
        <5>1. PICK u \in Targets, m \in Steps : job[x].target = u /\ job[x].step = m
          BY <4>3 DEF RecordAttempt, ServedInv, Jobs
        <5>2. locked[u][m] = x
          BY <4>3, <5>1 DEF RecordAttempt, ExecInv, HeldInv, Held
        <5>3. u # t \/ m # n
          BY <4>1, <5>2
        <5>4. Used(t, n)' = Used(t, n)
          BY <4>3, <5>1, <5>3, RecordingUsed
        <5> QED
          BY <4>1, <4>2, <5>4
      <4>4. CASE attempts' = attempts
        BY <4>1, <4>2, <4>4, OtherUsed
      <4> QED
        BY <4>3, <4>4, ExecutorFrame
    <3>4. ASSUME stage[y] = "observing"
          PROVE  \E k \in Numbers : attempts'[t][n][k] = job[y].result
      <4>1. PICK k \in Numbers : attempts[t][n][k] = job[y].result
        BY <3>1, <3>4 DEF ExecInv, HeldInv, Held
      <4>2. job[y].result # "none"
        BY <3>4 DEF ExecInv, HeldInv, Held, Deliveries
      <4> QED
        BY <4>1, <4>2, Keeps
    <3> QED
      BY <2>1, <3>1, <3>2, <3>3, <3>4 DEF ExecInv, HeldInv, Held
  <2> QED
    BY <2>2, <2>3
<1>2. Held(x)'
  <2>1. CASE stage'[x] \in {"idle", "calling"}
    BY <2>1 DEF Held
  <2>2. CASE ExecuteTouchpoint(x)
    <3>1. PICK t \in Targets, n \in Steps : job[x].target = t /\ job[x].step = n
      BY <2>2 DEF ExecuteTouchpoint, ServedInv, Jobs
    <3>2. PICK r \in Results : /\ job' = [job EXCEPT ![x].result = r]
                               /\ stage' = [stage EXCEPT ![x] = "numbering"]
                               /\ r \in Deliveries => Deliver(x)
      BY <2>2 DEF ExecuteTouchpoint, WithResult, GoTo, AfterCall, Results, Deliveries
    <3>3. /\ job'[x] = [job[x] EXCEPT !.result = r] /\ stage'[x] = "numbering"
          /\ job[x] \in Jobs
      BY <2>2, <3>2 DEF TypeOK, ExecuteTouchpoint, ServedInv
    <3>4. job'[x].result = r /\ job'[x].target = t /\ job'[x].step = n
      BY <3>1, <3>3 DEF Jobs
    <3>5. r \in Deliveries => delivered'[t][n] > 0
      <4>1. ASSUME r \in Deliveries PROVE delivered'[t][n] > 0
        <5>1. delivered' = [delivered EXCEPT ![t][n] = @ + 1]
          BY <3>1, <3>2, <4>1 DEF Deliver
        <5>2. delivered'[t][n] = delivered[t][n] + 1 /\ delivered[t][n] \in Nat
          BY <5>1, LinkedInAssumption DEF TypeOK
        <5> QED
          BY <5>2
      <4> QED
        BY <4>1
    <3> QED
      BY <3>3, <3>4, <3>5 DEF Held
  <2>3. CASE ReadNumber(x)
    <3>1. PICK t \in Targets, n \in Steps : job[x].target = t /\ job[x].step = n
      BY <2>3 DEF ReadNumber, ServedInv, Jobs
    <3>2. /\ stage'[x] = "recording" /\ stage[x] = "numbering" /\ job' = job
          /\ UNCHANGED <<attempts, delivered>>
          /\ locked'[t][n] = x
      BY <2>3, <3>1 DEF ReadNumber, GoTo, TypeOK
    <3>3. /\ number'[x] \in Numbers
          /\ Used(t, n)' = 1 .. number'[x] - 1
      BY <2>3, <3>1, <3>2, NextNumber, OtherUsed DEF ExecInv, Numbers
    <3> QED
      BY <3>1, <3>2, <3>3 DEF ExecInv, HeldInv, Held
  <2>4. CASE RecordAttempt(x) /\ stage'[x] # "idle"
    <3>1. PICK t \in Targets, n \in Steps : job[x].target = t /\ job[x].step = n
      BY <2>4 DEF RecordAttempt, ServedInv, Jobs
    <3>2. /\ number[x] \in Numbers /\ job[x].result \in Deliveries
          /\ attempts'[t][n][number[x]] = job[x].result
          /\ stage'[x] = "observing" /\ job'[x] = job[x]
      BY <2>4, <3>1, Recording
    <3>3. job[x].result \in Results /\ delivered[t][n] > 0 /\ delivered' = delivered
      BY <2>4, <3>1, <3>2 DEF RecordAttempt, ExecInv, HeldInv, Held
    <3> QED
      BY <3>1, <3>2, <3>3 DEF Held
  <2> QED
    BY <2>1, <2>2, <2>3, <2>4
       DEF ExecutorStep, Call, LoseAnswer, TouchpointNotFound, RecordObservation, Die,
           Return, TypeOK
<1> QED
  BY <1>1, <1>2 DEF HeldInv

(* A touchpoint is marked by the executor whose attempt is on record.      *)
LEMMA SentStep ==
  ASSUME TypeOK, ServedInv, ExecInv, NEW x \in Executors, ExecutorStep(x)
  PROVE  SentIsFact'
<1>1. ASSUME NEW t \in Targets, NEW n \in Steps, point'[t][n] \in Deliveries
      PROVE  /\ delivered[t][n] > 0
             /\ \E k \in Numbers : attempts[t][n][k] = point'[t][n]
  <2>1. CASE point' = point
    BY <1>1, <2>1 DEF ExecInv, SentIsFact
  <2>2. CASE RecordObservation(x)
    <3>1. PICK u \in Targets, m \in Steps : job[x].target = u /\ job[x].step = m
      BY <2>2 DEF RecordObservation, ServedInv, Jobs
    <3>2. /\ delivered[u][m] > 0
          /\ \E k \in Numbers : attempts[u][m][k] = job[x].result
      BY <2>2, <3>1 DEF RecordObservation, ExecInv, HeldInv, Held
    <3>3. point'[t][n] = IF t = u /\ n = m THEN job[x].result ELSE point[t][n]
      BY <2>2, <3>1 DEF RecordObservation, TypeOK
    <3> QED
      BY <1>1, <3>2, <3>3 DEF ExecInv, SentIsFact
  <2> QED
    BY <2>1, <2>2 DEF ExecutorStep, Call, ExecuteTouchpoint, LoseAnswer, ReadNumber,
       TouchpointNotFound, RecordAttempt, Die
<1>2. ASSUME NEW t \in Targets, NEW n \in Steps, point'[t][n] \in Deliveries
      PROVE  /\ delivered'[t][n] > 0
             /\ \E k \in Numbers : attempts'[t][n][k] = point'[t][n]
  <2>1. PICK k \in Numbers : attempts[t][n][k] = point'[t][n]
    BY <1>1, <1>2
  <2>2. attempts'[t][n][k] = point'[t][n]
    BY <1>2, <2>1, Keeps DEF Deliveries
  <2> QED
    BY <1>1, <1>2, <2>2, Keeps
<1> QED
  BY <1>2 DEF SentIsFact

LEMMA ExecStepKept ==
  ASSUME TypeOK, ServedInv, ExecInv, [Next]_vars
  PROVE  ExecInv'
<1>1. ASSUME NEW x \in Executors, ExecutorStep(x) PROVE ExecInv'
  BY <1>1, SegmentStep, CountStep, HeldStep, SentStep DEF ExecInv
<1>2. ASSUME UNCHANGED execVars,
             \A t \in Targets, n \in Steps :
               point'[t][n] \in Deliveries => point'[t][n] = point[t][n]
      PROVE  ExecInv'
  <2>1. UNCHANGED <<attempts, locked, stage, job, number, calls, delivered>>
    BY <1>2 DEF execVars
  <2>2. \A t, n : Used(t, n)' = Used(t, n)
    BY <2>1, OtherUsed
  <2>3. Owing' = Owing /\ Calling' = Calling
    BY <2>1 DEF Owing, Calling
  <2>4. SegmentInv'
    BY <2>2 DEF SegmentInv, ExecInv
  <2>5. CountInv'
    BY <2>1, <2>2, <2>3 DEF CountInv, ExecInv
  <2>6. HeldInv'
    BY <2>1, <2>2 DEF HeldInv, Held, ExecInv
  <2>7. SentIsFact'
    BY <1>2, <2>1 DEF SentIsFact, ExecInv
  <2> QED
    BY <2>4, <2>5, <2>6, <2>7 DEF ExecInv
<1>3. ASSUME NEW t \in Targets, CreateTouchpoints(t) PROVE ExecInv'
  <2>1. \A u \in Targets, n \in Steps :
          point'[u][n] \in Deliveries => point'[u][n] = point[u][n]
    BY <1>3 DEF CreateTouchpoints, AfterInsert, Deliveries, TypeOK
  <2> QED
    BY <1>2, <1>3, <2>1 DEF CreateTouchpoints
<1>4. CASE UNCHANGED <<point, execVars>>
  BY <1>2, <1>4
<1> QED
  BY <1>1, <1>3, <1>4
     DEF Next, PlanStep, ApproveSequence, SetSequence, FindApproved, ContactStep,
         ReadState, UpdateContact, WriteState, DropObservation, Tick, vars

LEMMA InvStep == Inv /\ [Next]_vars => Inv'
BY TypeStep, ServedStep, PlanStepKept, ExecStepKept DEF Inv

THEOREM Invariance == Spec => []Inv
BY InitInv, InvStep, PTL DEF Spec

(* TypeOK: every variable keeps its type; no attempt and no delivery is    *)
(* beyond the calls that were made.                                        *)
THEOREM OutreachTypes == Spec => []TypeOK
BY Invariance, PTL DEF Inv

(* OnlyApproved: nothing is planned without an approval on record.         *)
THEOREM ApprovalCorrect == Spec => []OnlyApproved
BY Invariance, PTL DEF Inv

(* AttemptsInOrder: the number read under the row lock is still the next   *)
(* one when the attempt is inserted, whoever else works on the touchpoint. *)
THEOREM OrderCorrect == Spec => []AttemptsInOrder
<1>1. Inv => AttemptsInOrder
  <2> SUFFICES ASSUME Inv, NEW x \in Executors, stage[x] = "recording", NEW k \in Numbers
               PROVE  attempts[job[x].target][job[x].step][k] # "none" <=> k < number[x]
    BY DEF AttemptsInOrder
  <2>1. Used(job[x].target, job[x].step) = 1 .. number[x] - 1 /\ number[x] \in Numbers
    BY DEF Inv, ExecInv, HeldInv, Held
  <2> QED
    BY <2>1, LinkedInAssumption DEF Used, Numbers
<1> QED
  BY <1>1, Invariance, PTL

(* SentIsFact: "persist only provider-observed execution facts".           *)
THEOREM FactsCorrect == Spec => []SentIsFact
BY Invariance, PTL DEF Inv, ExecInv

(* SentStays: what was sent is not planned again, and an attempt that is   *)
(* on record is not overwritten.                                           *)
THEOREM SentStaysCorrect == Spec => SentStays
<1> DEFINE Stays ==
      \A t \in Targets, n \in Steps :
        /\ point[t][n] \in Deliveries => point'[t][n] \in Deliveries
        /\ \A k \in Numbers : attempts[t][n][k] # "none" =>
             attempts'[t][n][k] = attempts[t][n][k]
<1>1. Inv /\ [Next]_vars => [Stays]_vars
  <2> SUFFICES ASSUME Inv, [Next]_vars PROVE Stays
    OBVIOUS
  <2>1. ASSUME NEW x \in Executors, ExecutorStep(x) PROVE Stays
    <3>1. \A t \in Targets, n \in Steps, k \in Numbers :
            attempts[t][n][k] # "none" => attempts'[t][n][k] = attempts[t][n][k]
      BY <2>1, Keeps DEF Inv
    <3>2. CASE point' = point
      BY <3>1, <3>2
    <3>3. CASE RecordObservation(x)
      <4>1. job[x].result \in Deliveries
        BY <3>3 DEF RecordObservation, Inv, ExecInv, HeldInv, Held
      <4>2. \A t \in Targets, n \in Steps :
              point[t][n] \in Deliveries => point'[t][n] \in Deliveries
        BY <3>3, <4>1 DEF RecordObservation, Inv, TypeOK
      <4> QED
        BY <3>1, <4>2
    <3> QED
      BY <2>1, <3>2, <3>3
         DEF ExecutorStep, Call, ExecuteTouchpoint, LoseAnswer, ReadNumber,
             TouchpointNotFound, RecordAttempt, Die
  <2>2. ASSUME NEW t \in Targets, CreateTouchpoints(t) PROVE Stays
    BY <2>2 DEF CreateTouchpoints, AfterInsert, Deliveries, execVars, Inv, TypeOK
  <2>3. CASE UNCHANGED <<point, attempts>>
    BY <2>3
  <2> QED
    BY <2>1, <2>2, <2>3
       DEF Next, PlanStep, ApproveSequence, SetSequence, FindApproved, ContactStep,
           ReadState, UpdateContact, WriteState, DropObservation, Tick, vars, execVars
<1> QED
  BY <1>1, Invariance, PTL DEF Spec, SentStays

------------------------------------------------------------------------------
(* One executor at a time, touchpoints read from the table, no crash: what *)
(* was delivered is marked, or in the hands of the one executor that will  *)
(* mark it, and nobody else is about to execute it.                        *)
Orderly == moves \cap {"crash", "built", "overlap"} = {}

Marked(t, n) ==
  \/ point[t][n] \in Deliveries
  \/ \E x \in Executors :
       /\ Serving(x, t, n) /\ stage[x] # "calling"
       /\ job[x].result \in Deliveries

OnceInv ==
  Orderly =>
    /\ \A x \in Executors : stage[x] # "idle" => job[x].source = "loaded"
    /\ \A t \in Targets, n \in Steps :
         /\ \A x, y \in Executors : Serving(x, t, n) /\ Serving(y, t, n) => x = y
         /\ \A x \in Executors :
              Serving(x, t, n) /\ stage[x] = "calling" /\ MayExecute(x) =>
                delivered[t][n] = 0
         /\ delivered[t][n] <= 1
         /\ delivered[t][n] > 0 => Marked(t, n)

LEMMA OnceExecutor ==
  ASSUME TypeOK, ServedInv, ExecInv, OnceInv, Orderly, NEW x \in Executors, ExecutorStep(x)
  PROVE  OnceInv'
<1>a. /\ \A y \in Executors \ {x} :
           stage'[y] = stage[y] /\ job'[y] = job[y]
      /\ moves' = moves
  BY Executing
<1>b. \A t \in Targets, n \in Steps, y \in Executors \ {x} :
        /\ Serving(y, t, n)' <=> Serving(y, t, n)
        /\ MayExecute(y)' <=> MayExecute(y)
  BY <1>a DEF Serving, MayExecute
<1>c. \A t \in Targets, n \in Steps : delivered[t][n] \in Nat
  BY LinkedInAssumption DEF TypeOK
<1>1. ASSUME NEW u \in Targets, NEW m \in Steps, NEW source \in {"loaded", "built"},
             Call(x, u, m, source)
      PROVE  OnceInv'
  <2>1. /\ source = "loaded" /\ stage[x] = "idle" /\ stage'[x] = "calling"
        /\ job'[x] = [target |-> u, step |-> m, source |-> source, result |-> "none",
                      status |-> point[u][m]]
        /\ \A y \in Executors : ~Serving(y, u, m)
        /\ UNCHANGED <<point, delivered>>
    BY <1>1 DEF Call, Orderly, TypeOK
  <2>2. \A t \in Targets, n \in Steps : Serving(x, t, n)' <=> t = u /\ n = m
    BY <2>1 DEF Serving
  <2>3. job'[x].source = "loaded"
    BY <2>1
  <2>4. MayExecute(x)' => delivered[u][m] = 0
    <3>1. SUFFICES ASSUME MayExecute(x)', delivered[u][m] > 0 PROVE FALSE
      BY <1>c
    <3>2. Marked(u, m)
      BY <3>1 DEF OnceInv
    <3>3. point[u][m] \in Executable
      BY <2>1, <3>1 DEF MayExecute
    <3> QED
      BY <2>1, <3>2, <3>3 DEF Marked, Executable, Deliveries
  <2>5. ASSUME NEW t \in Targets, NEW n \in Steps, Marked(t, n) PROVE Marked(t, n)'
    BY <1>a, <1>b, <2>1, <2>5 DEF Marked, Serving
  <2>6. \A t \in Targets, n \in Steps, y \in Executors : Serving(y, t, n)' =>
          \/ Serving(y, t, n) /\ y # x
          \/ y = x /\ t = u /\ n = m
    BY <1>b, <2>2
  <2> QED
    BY <1>a, <1>b, <2>1, <2>3, <2>4, <2>5, <2>6 DEF OnceInv
<1>2. CASE ExecuteTouchpoint(x)
  <2>1. PICK u \in Targets, m \in Steps : job[x].target = u /\ job[x].step = m
    BY <1>2 DEF ExecuteTouchpoint, ServedInv, Jobs
  <2>2. PICK r \in Results :
          /\ job' = [job EXCEPT ![x].result = r]
          /\ stage[x] = "calling" /\ stage' = [stage EXCEPT ![x] = "numbering"]
          /\ point' = point
          /\ \/ delivered' = delivered
             \/ MayExecute(x) /\ r \in Deliveries /\ Deliver(x)
    BY <1>2 DEF ExecuteTouchpoint, WithResult, GoTo, AfterCall, Results, Deliveries
  <2>3. /\ job'[x] = [job[x] EXCEPT !.result = r] /\ job[x] \in Jobs
        /\ stage'[x] = "numbering"
    BY <2>2 DEF TypeOK, ServedInv
  <2>4. /\ job'[x].result = r /\ job'[x].source = job[x].source
        /\ job'[x].target = u /\ job'[x].step = m
    BY <2>1, <2>3 DEF Jobs
  <2>5. \A t \in Targets, n \in Steps : Serving(x, t, n)' <=> Serving(x, t, n)
    BY <2>1, <2>2, <2>3, <2>4 DEF Serving
  <2>6. Serving(x, u, m)
    BY <2>1, <2>2 DEF Serving
  <2>7. ASSUME NEW t \in Targets, NEW n \in Steps, Marked(t, n) PROVE Marked(t, n)'
    <3>1. CASE point[t][n] \in Deliveries
      BY <2>2, <3>1 DEF Marked
    <3>2. ASSUME NEW y \in Executors, Serving(y, t, n), stage[y] # "calling",
                 job[y].result \in Deliveries
          PROVE  Marked(t, n)'
      BY <1>a, <1>b, <2>2, <3>2 DEF Marked
    <3> QED
      BY <2>7, <3>1, <3>2 DEF Marked
  <2>8. CASE delivered' = delivered
    BY <1>a, <1>b, <2>2, <2>3, <2>4, <2>5, <2>7, <2>8 DEF OnceInv
  <2>9. CASE MayExecute(x) /\ r \in Deliveries /\ Deliver(x)
    <3>1. delivered[u][m] = 0
      BY <2>2, <2>6, <2>9 DEF OnceInv
    <3>2. \A t \in Targets, n \in Steps : delivered'[t][n] =
            IF t = u /\ n = m THEN 1 ELSE delivered[t][n]
      BY <2>1, <2>9, <3>1 DEF Deliver, TypeOK
    <3>3. Marked(u, m)'
      BY <2>3, <2>4, <2>5, <2>6, <2>9 DEF Marked
    <3>4. \A y \in Executors \ {x} : ~Serving(y, u, m)
      BY <2>6 DEF OnceInv
    <3>5. ASSUME NEW t \in Targets, NEW n \in Steps
          PROVE  /\ delivered'[t][n] <= 1
                 /\ delivered'[t][n] > 0 => Marked(t, n)'
                 /\ \A y \in Executors :
                      Serving(y, t, n)' /\ stage'[y] = "calling" /\ MayExecute(y)' =>
                        delivered'[t][n] = 0
                 /\ \A y, z \in Executors : Serving(y, t, n)' /\ Serving(z, t, n)' => y = z
      <4>1. \A y \in Executors : Serving(y, t, n)' <=> Serving(y, t, n)
        BY <1>b, <2>5
      <4>2. CASE t = u /\ n = m
        BY <1>b, <2>3, <3>2, <3>3, <3>4, <4>1, <4>2
      <4>3. CASE t # u \/ n # m
        BY <1>a, <1>b, <2>3, <2>7, <3>2, <4>1, <4>3 DEF OnceInv
      <4> QED
        BY <4>2, <4>3
    <3>6. \A y \in Executors : stage'[y] # "idle" => job'[y].source = "loaded"
      BY <1>a, <2>2, <2>4 DEF OnceInv
    <3> QED
      BY <3>5, <3>6 DEF OnceInv
  <2> QED
    BY <2>2, <2>8, <2>9
<1>3. CASE LoseAnswer(x) \/ Die(x) \/ TouchpointNotFound(x)
  BY <1>3 DEF LoseAnswer, Die, TouchpointNotFound, Orderly, OnceInv
<1>4. ASSUME stage[x] \notin {"idle", "calling"}, stage'[x] \notin {"idle", "calling"},
             job'[x] = job[x], UNCHANGED <<point, delivered>>
      PROVE  OnceInv'
  <2>1. \A t \in Targets, n \in Steps : Serving(x, t, n)' <=> Serving(x, t, n)
    BY <1>4 DEF Serving
  <2>2. \A t \in Targets, n \in Steps : Marked(t, n) => Marked(t, n)'
    BY <1>a, <1>b, <1>4, <2>1 DEF Marked
  <2> QED
    BY <1>a, <1>b, <1>4, <2>1, <2>2 DEF OnceInv
<1>5. ASSUME NEW u \in Targets, NEW m \in Steps, job[x].target = u, job[x].step = m,
             stage[x] \notin {"idle", "calling"}, stage'[x] = "idle",
             delivered' = delivered,
             \/ point' = point /\ job[x].result \notin Deliveries
             \/ point'[u][m] \in Deliveries,
             \A t \in Targets, n \in Steps :
               t # u \/ n # m => point'[t][n] = point[t][n]
      PROVE  OnceInv'
  <2>1. \A t \in Targets, n \in Steps : ~Serving(x, t, n)'
    BY <1>5 DEF Serving
  <2>2. ASSUME NEW t \in Targets, NEW n \in Steps, Marked(t, n) PROVE Marked(t, n)'
    <3>1. CASE t = u /\ n = m /\ point'[u][m] \in Deliveries
      BY <3>1 DEF Marked
    <3>2. CASE point'[t][n] = point[t][n] /\ ~(Serving(x, t, n) /\ job[x].result \in Deliveries)
      BY <1>a, <1>b, <2>2, <3>2 DEF Marked
    <3> QED
      BY <1>5, <3>1, <3>2 DEF Serving
  <2> QED
    BY <1>a, <1>b, <1>5, <2>1, <2>2 DEF OnceInv
<1>6. CASE ReadNumber(x)
  BY <1>4, <1>6 DEF ReadNumber, GoTo, TypeOK
<1>7. CASE RecordAttempt(x) \/ RecordObservation(x)
  <2>1. stage[x] \in {"recording", "observing"} /\ delivered' = delivered
    BY <1>7 DEF RecordAttempt, RecordObservation
  <2>2. PICK u \in Targets, m \in Steps : job[x].target = u /\ job[x].step = m
    BY <2>1 DEF ServedInv, Jobs
  <2>3. CASE RecordAttempt(x)
    <3>1. point' = point /\ stage[x] = "recording"
      BY <2>3 DEF RecordAttempt
    <3>2. IF job[x].result \in Deliveries
          THEN stage'[x] = "observing" /\ job'[x] = job[x] ELSE stage'[x] = "idle"
      BY <2>2, <2>3, Recording
    <3> QED
      BY <1>4, <1>5, <2>1, <2>2, <3>1, <3>2
  <2>4. CASE RecordObservation(x)
    <3>1. job[x].result \in Deliveries /\ stage'[x] = "idle"
      BY <2>4 DEF RecordObservation, Return, ExecInv, HeldInv, Held, TypeOK
    <3>2. \A t \in Targets, n \in Steps : point'[t][n] =
            IF t = u /\ n = m THEN job[x].result ELSE point[t][n]
      BY <2>2, <2>4 DEF RecordObservation, TypeOK
    <3> QED
      BY <1>5, <2>1, <2>2, <3>1, <3>2
  <2> QED
    BY <1>7, <2>3, <2>4
<1> QED
  BY <1>1, <1>2, <1>3, <1>6, <1>7 DEF ExecutorStep

LEMMA OnceStep == Inv /\ OnceInv /\ [Next]_vars => OnceInv'
<1> SUFFICES ASSUME Inv, OnceInv, [Next]_vars PROVE OnceInv'
  OBVIOUS
<1>1. ASSUME NEW x \in Executors, ExecutorStep(x) PROVE OnceInv'
  <2>1. moves' = moves
    BY <1>1, Executing DEF Inv
  <2>2. CASE Orderly
    BY <1>1, <2>2, OnceExecutor DEF Inv
  <2>3. CASE ~Orderly
    BY <2>1, <2>3 DEF OnceInv, Orderly
  <2> QED
    BY <2>2, <2>3
<1>2. ASSUME UNCHANGED <<stage, job, delivered, moves>>,
             \A t \in Targets, n \in Steps :
               point[t][n] \in Deliveries => point'[t][n] \in Deliveries
      PROVE  OnceInv'
  BY <1>2 DEF OnceInv, Orderly, Marked, Serving, MayExecute
<1>3. ASSUME NEW t \in Targets, CreateTouchpoints(t) PROVE OnceInv'
  <2>1. \A u \in Targets, n \in Steps :
          point[u][n] \in Deliveries => point'[u][n] \in Deliveries
    BY <1>3 DEF CreateTouchpoints, AfterInsert, Deliveries, Inv, TypeOK
  <2> QED
    BY <1>2, <1>3, <2>1 DEF CreateTouchpoints, execVars
<1>4. CASE UNCHANGED <<point, stage, job, delivered, moves>>
  BY <1>2, <1>4
<1> QED
  BY <1>1, <1>3, <1>4
     DEF Next, PlanStep, ApproveSequence, SetSequence, FindApproved, ContactStep,
         ReadState, UpdateContact, WriteState, DropObservation, Tick, vars, execVars

(* OneDelivery: with one executor at a time on a touchpoint that was read  *)
(* from the table, LinkedIn delivers it at most once, unless a call dies.  *)
THEOREM DeliveryCorrect == Spec => []OneDelivery
<1>1. Init => OnceInv
  BY LinkedInAssumption DEF Init, OnceInv, Serving
<1>2. Inv /\ OnceInv => OneDelivery
  BY DEF OnceInv, Orderly, OneDelivery
<1> QED
  BY <1>1, <1>2, OnceStep, Invariance, PTL DEF Spec

------------------------------------------------------------------------------
(* No crash, and touchpoints read from the table, however many executors   *)
(* work on one: every delivery is an attempt on record, or in the hands of *)
(* an executor that is about to record it.                                 *)
Faithful == moves \cap {"crash", "built"} = {}

Recorded(t, n) == {k \in Numbers : attempts[t][n][k] \in Deliveries}

InHand(t, n) ==
  {x \in Executors :
     /\ Serving(x, t, n)
     /\ stage[x] \in {"numbering", "recording"}
     /\ job[x].result \in Deliveries}

Balanced(t, n) ==
  delivered[t][n] = Cardinality(Recorded(t, n)) + Cardinality(InHand(t, n))

RecordInv ==
  Faithful =>
    /\ \A x \in Executors : stage[x] # "idle" => job[x].source = "loaded"
    /\ \A t \in Targets, n \in Steps : Balanced(t, n)

LEMMA FiniteRecords ==
  ASSUME NEW t \in Targets, NEW n \in Steps
  PROVE  /\ IsFiniteSet(Recorded(t, n)) /\ Cardinality(Recorded(t, n)) \in Nat
         /\ IsFiniteSet(InHand(t, n)) /\ Cardinality(InHand(t, n)) \in Nat
<1> USE LinkedInAssumption
<1>1. Recorded(t, n) \in SUBSET Numbers /\ InHand(t, n) \in SUBSET Executors
  BY DEF Recorded, InHand
<1>2. IsFiniteSet(Numbers)
  BY FS_Interval DEF Numbers
<1>3. IsFiniteSet(Recorded(t, n)) /\ IsFiniteSet(InHand(t, n))
  BY <1>1, <1>2, FS_Subset
<1> QED
  BY <1>3, FS_CardinalityType

(* A step that moves no delivery keeps the balance.                        *)
LEMMA BalanceKept ==
  ASSUME NEW t \in Targets, NEW n \in Steps, Balanced(t, n),
         delivered'[t][n] = delivered[t][n],
         Recorded(t, n)' = Recorded(t, n), InHand(t, n)' = InHand(t, n)
  PROVE  Balanced(t, n)'
BY DEF Balanced

(* LinkedIn delivers: the executor holds one delivery more.                *)
LEMMA BalanceDelivered ==
  ASSUME NEW t \in Targets, NEW n \in Steps, NEW x \in Executors, Balanced(t, n),
         x \notin InHand(t, n), delivered'[t][n] = delivered[t][n] + 1,
         Recorded(t, n)' = Recorded(t, n), InHand(t, n)' = InHand(t, n) \cup {x}
  PROVE  Balanced(t, n)'
<1>1. Cardinality(InHand(t, n) \cup {x}) = Cardinality(InHand(t, n)) + 1
  BY FiniteRecords, FS_AddElement
<1> QED
  BY <1>1, FiniteRecords DEF Balanced

(* The attempt is recorded: what the executor held is on record.           *)
LEMMA BalanceRecorded ==
  ASSUME NEW t \in Targets, NEW n \in Steps, NEW x \in Executors, NEW k \in Numbers,
         Balanced(t, n), x \in InHand(t, n), k \notin Recorded(t, n),
         delivered'[t][n] = delivered[t][n],
         Recorded(t, n)' = Recorded(t, n) \cup {k}, InHand(t, n)' = InHand(t, n) \ {x}
  PROVE  Balanced(t, n)'
<1>1. Cardinality(Recorded(t, n) \cup {k}) = Cardinality(Recorded(t, n)) + 1
  BY FiniteRecords, FS_AddElement
<1>2. Cardinality(InHand(t, n) \ {x}) = Cardinality(InHand(t, n)) - 1
  BY FiniteRecords, FS_RemoveElement
<1> QED
  BY <1>1, <1>2, FiniteRecords DEF Balanced

LEMMA RecordExecutor ==
  ASSUME TypeOK, ServedInv, ExecInv, RecordInv, Faithful,
         NEW x \in Executors, ExecutorStep(x)
  PROVE  RecordInv'
<1>a. /\ \A y \in Executors \ {x} : stage'[y] = stage[y] /\ job'[y] = job[y]
      /\ moves' = moves
  BY Executing
<1>b. Faithful' /\ \A y \in Executors : stage[y] # "idle" => job[y].source = "loaded"
  BY <1>a DEF Faithful, RecordInv
<1>c. \A t \in Targets, n \in Steps : Balanced(t, n)
  BY DEF RecordInv
<1>d. \A t \in Targets, n \in Steps, y \in Executors \ {x} :
        y \in InHand(t, n)' <=> y \in InHand(t, n)
  BY <1>a DEF InHand, Serving
<1>e. \A t \in Targets, n \in Steps :
        InHand(t, n) \in SUBSET Executors /\ InHand(t, n)' \in SUBSET Executors
  BY DEF InHand
<1>g. ASSUME NEW t \in Targets, NEW n \in Steps,
             x \in InHand(t, n)' <=> x \in InHand(t, n)
      PROVE  InHand(t, n)' = InHand(t, n)
  <2>1. \A y \in Executors : y \in InHand(t, n)' <=> y \in InHand(t, n)
    BY <1>d, <1>g
  <2> QED
    BY <1>e, <2>1
<1>f. ASSUME attempts' = attempts
      PROVE  \A t \in Targets, n \in Steps : Recorded(t, n)' = Recorded(t, n)
  BY <1>f DEF Recorded
<1>1. ASSUME NEW u \in Targets, NEW m \in Steps, NEW source \in {"loaded", "built"},
             Call(x, u, m, source)
      PROVE  RecordInv'
  <2>1. /\ source = "loaded" /\ stage[x] = "idle" /\ stage'[x] = "calling"
        /\ job'[x] = [target |-> u, step |-> m, source |-> source, result |-> "none",
                      status |-> point[u][m]]
        /\ UNCHANGED <<attempts, delivered>>
    BY <1>1 DEF Call, Faithful, TypeOK
  <2>2. job'[x].source = "loaded"
    BY <2>1
  <2>3. \A t \in Targets, n \in Steps : x \notin InHand(t, n) /\ x \notin InHand(t, n)'
    BY <2>1 DEF InHand
  <2>4. \A t \in Targets, n \in Steps : InHand(t, n)' = InHand(t, n)
    BY <1>g, <2>3
  <2> QED
    BY <1>a, <1>b, <1>c, <1>f, <2>1, <2>2, <2>4, BalanceKept DEF RecordInv
<1>2. CASE ExecuteTouchpoint(x)
  <2>1. PICK u \in Targets, m \in Steps : job[x].target = u /\ job[x].step = m
    BY <1>2 DEF ExecuteTouchpoint, ServedInv, Jobs
  <2>2. PICK r \in Results :
          /\ job' = [job EXCEPT ![x].result = r]
          /\ stage[x] = "calling" /\ stage' = [stage EXCEPT ![x] = "numbering"]
          /\ attempts' = attempts
          /\ \/ delivered' = delivered /\ r \notin Deliveries
             \/ r \in Deliveries /\ Deliver(x)
    BY <1>2 DEF ExecuteTouchpoint, WithResult, GoTo, AfterCall, Results, Deliveries
  <2>3. /\ job'[x] = [job[x] EXCEPT !.result = r] /\ job[x] \in Jobs
        /\ stage'[x] = "numbering"
    BY <2>2 DEF TypeOK, ServedInv
  <2>4. /\ job'[x].result = r /\ job'[x].source = job[x].source
        /\ job'[x].target = u /\ job'[x].step = m
    BY <2>1, <2>3 DEF Jobs
  <2>5. \A y \in Executors : stage'[y] # "idle" => job'[y].source = "loaded"
    BY <1>a, <1>b, <2>2, <2>4
  <2>6. \A t \in Targets, n \in Steps :
          /\ x \notin InHand(t, n)
          /\ x \in InHand(t, n)' <=> t = u /\ n = m /\ r \in Deliveries
    BY <2>2, <2>3, <2>4 DEF InHand, Serving
  <2>7. CASE delivered' = delivered /\ r \notin Deliveries
    <3>1. \A t \in Targets, n \in Steps : InHand(t, n)' = InHand(t, n)
      BY <1>g, <2>6, <2>7
    <3> QED
      BY <1>b, <1>c, <1>f, <2>2, <2>5, <2>7, <3>1, BalanceKept DEF RecordInv
  <2>8. CASE r \in Deliveries /\ Deliver(x)
    <3>1. \A t \in Targets, n \in Steps : delivered'[t][n] =
            IF t = u /\ n = m THEN delivered[t][n] + 1 ELSE delivered[t][n]
      BY <2>1, <2>8 DEF Deliver, TypeOK
    <3>2. ASSUME NEW t \in Targets, NEW n \in Steps PROVE Balanced(t, n)'
      <4>1. CASE t = u /\ n = m
        <5>1. InHand(t, n)' = InHand(t, n) \cup {x}
          BY <1>d, <1>e, <2>6, <2>8, <4>1
        <5> QED
          BY <1>c, <1>f, <2>2, <2>6, <3>1, <4>1, <5>1, BalanceDelivered
      <4>2. CASE t # u \/ n # m
        <5>1. InHand(t, n)' = InHand(t, n)
          BY <1>g, <2>6, <4>2
        <5> QED
          BY <1>c, <1>f, <2>2, <3>1, <4>2, <5>1, BalanceKept
      <4> QED
        BY <4>1, <4>2
    <3> QED
      BY <2>5, <3>2 DEF RecordInv
  <2> QED
    BY <2>2, <2>7, <2>8
<1>3. CASE LoseAnswer(x) \/ Die(x) \/ TouchpointNotFound(x)
  BY <1>3, <1>b DEF LoseAnswer, Die, TouchpointNotFound, Faithful
<1>4. CASE ReadNumber(x)
  <2>1. /\ stage[x] = "numbering" /\ stage'[x] = "recording" /\ job'[x] = job[x]
        /\ UNCHANGED <<attempts, delivered>>
    BY <1>4 DEF ReadNumber, GoTo, TypeOK
  <2>2. \A t \in Targets, n \in Steps : x \in InHand(t, n)' <=> x \in InHand(t, n)
    BY <2>1 DEF InHand, Serving
  <2>3. \A t \in Targets, n \in Steps : InHand(t, n)' = InHand(t, n)
    BY <1>g, <2>2
  <2> QED
    BY <1>a, <1>b, <1>c, <1>f, <2>1, <2>3, BalanceKept DEF RecordInv
<1>5. CASE RecordObservation(x)
  <2>1. /\ stage[x] = "observing" /\ stage'[x] = "idle" /\ UNCHANGED <<attempts, delivered>>
    BY <1>5 DEF RecordObservation, Return, TypeOK
  <2>2. \A t \in Targets, n \in Steps : x \notin InHand(t, n) /\ x \notin InHand(t, n)'
    BY <2>1 DEF InHand
  <2>3. \A t \in Targets, n \in Steps : InHand(t, n)' = InHand(t, n)
    BY <1>g, <2>2
  <2> QED
    BY <1>a, <1>b, <1>c, <1>f, <2>1, <2>3, BalanceKept DEF RecordInv
<1>6. CASE RecordAttempt(x)
  <2>1. stage[x] = "recording" /\ delivered' = delivered
    BY <1>6 DEF RecordAttempt
  <2>2. PICK u \in Targets, m \in Steps : job[x].target = u /\ job[x].step = m
    BY <2>1 DEF ServedInv, Jobs
  <2>3. PICK k \in Numbers : k = number[x]
    BY <1>6, <2>2, Recording
  <2>4. /\ \A t \in Targets, n \in Steps, j \in Numbers : attempts'[t][n][j] =
             IF t = u /\ n = m /\ j = k THEN job[x].result ELSE attempts[t][n][j]
        /\ attempts[u][m][k] = "none"
        /\ IF job[x].result \in Deliveries
           THEN stage'[x] = "observing" /\ job'[x] = job[x] ELSE stage'[x] = "idle"
    BY <1>6, <2>2, <2>3, Recording
  <2>5. \A y \in Executors : stage'[y] # "idle" => job'[y].source = "loaded"
    BY <1>a, <1>b, <2>1, <2>4
  <2>6. \A t \in Targets, n \in Steps :
          /\ x \notin InHand(t, n)'
          /\ x \in InHand(t, n) <=> t = u /\ n = m /\ job[x].result \in Deliveries
    BY <2>1, <2>2, <2>4 DEF InHand, Serving
  <2>7. k \notin Recorded(u, m)
    BY <2>4 DEF Recorded, Deliveries
  <2>8. ASSUME NEW t \in Targets, NEW n \in Steps PROVE Balanced(t, n)'
    <3>1. CASE t = u /\ n = m /\ job[x].result \in Deliveries
      <4>1. Recorded(t, n)' = Recorded(t, n) \cup {k}
        BY <2>4, <3>1 DEF Recorded
      <4>2. InHand(t, n)' = InHand(t, n) \ {x}
        BY <1>d, <1>e, <2>6
      <4> QED
        BY <1>c, <2>1, <2>6, <2>7, <3>1, <4>1, <4>2, BalanceRecorded
    <3>2. CASE ~(t = u /\ n = m /\ job[x].result \in Deliveries)
      <4>1. Recorded(t, n)' = Recorded(t, n)
        BY <2>4, <3>2 DEF Recorded, Deliveries
      <4>2. InHand(t, n)' = InHand(t, n)
        BY <1>g, <2>6, <3>2
      <4> QED
        BY <1>c, <2>1, <4>1, <4>2, BalanceKept
    <3> QED
      BY <3>1, <3>2
  <2> QED
    BY <2>5, <2>8 DEF RecordInv
<1> QED
  BY <1>1, <1>2, <1>3, <1>4, <1>5, <1>6 DEF ExecutorStep

LEMMA RecordStep == Inv /\ RecordInv /\ [Next]_vars => RecordInv'
<1> SUFFICES ASSUME Inv, RecordInv, [Next]_vars PROVE RecordInv'
  OBVIOUS
<1>1. ASSUME NEW x \in Executors, ExecutorStep(x) PROVE RecordInv'
  <2>1. moves' = moves
    BY <1>1, Executing DEF Inv
  <2>2. CASE Faithful
    BY <1>1, <2>2, RecordExecutor DEF Inv
  <2>3. CASE ~Faithful
    BY <2>1, <2>3 DEF RecordInv, Faithful
  <2> QED
    BY <2>2, <2>3
<1>2. CASE UNCHANGED <<attempts, stage, job, delivered, moves>>
  BY <1>2 DEF RecordInv, Faithful, Balanced, Recorded, InHand, Serving
<1> QED
  BY <1>1, <1>2
     DEF Next, PlanStep, ApproveSequence, SetSequence, FindApproved, CreateTouchpoints,
         ContactStep, ReadState, UpdateContact, WriteState, DropObservation, Tick,
         vars, execVars

(* DeliveriesOnRecord: as long as no call dies and touchpoints are read    *)
(* from the table, every delivery is an attempt on record or about to be   *)
(* one, whichever executors overlap on the touchpoint.                     *)
THEOREM RecordCorrect == Spec => []DeliveriesOnRecord
<1>1. Init => RecordInv
  <2>1. SUFFICES ASSUME Init, NEW t \in Targets, NEW n \in Steps PROVE Balanced(t, n)
    BY DEF Init, RecordInv
  <2>2. Recorded(t, n) = {} /\ InHand(t, n) = {} /\ delivered[t][n] = 0
    BY <2>1 DEF Init, Recorded, InHand, Deliveries
  <2>3. Cardinality({}) = 0
    BY FS_EmptySet
  <2> QED
    BY <2>2, <2>3 DEF Balanced
<1>2. RecordInv => DeliveriesOnRecord
  BY DEF RecordInv, Faithful, Balanced, Recorded, InHand, DeliveriesOnRecord
<1> QED
  BY <1>1, <1>2, RecordStep, Invariance, PTL DEF Spec

------------------------------------------------------------------------------
(* Observations that are reported one by one, and one at a time: no record *)
(* in flight has seen a contact before its outreach was over.              *)
InTurn == moves \cap {"race", "mixed"} = {}

QuietInv ==
  InTurn =>
    /\ \A t \in over : contact[t] # "follow_up_due" /\ next[t] = NoTime
    /\ \A o \in Observers : view[o] # NoView =>
         /\ Plain(view[o].obs)
         /\ view[o].target \in over =>
              view[o].state # "follow_up_due" /\ view[o].next = NoTime
    /\ \A o, p \in Observers :
         view[o] # NoView /\ view[p] # NoView /\ view[o].target = view[p].target => o = p

(* What a plain observation makes of a contact.                            *)
LEMMA Projection ==
  ASSUME NEW state \in ContactStates, NEW time \in Times \cup {NoTime},
         NEW obs \in Observations, Plain(obs),
         EndsOutreach(obs) \/ (state # "follow_up_due" /\ time = NoTime)
  PROVE  /\ NextState(state, time, obs).state # "follow_up_due"
         /\ NextState(state, time, obs).next = NoTime
<1>1. NoTime # 0
  BY LinkedInAssumption DEF NoTime
<1>2. CASE obs.inbound
  BY <1>2 DEF NextState, Becomes
<1>3. CASE ~obs.inbound /\ obs.connected
  BY <1>3 DEF NextState, Becomes, Plain, EndsOutreach
<1>4. CASE ~obs.inbound /\ ~obs.connected
  <2>1. CASE obs.event = "message_sent"
    BY <1>4, <2>1 DEF NextState, Becomes, EndsOutreach
  <2>2. CASE obs.event \in {"opt_out", "meeting_booked", "closed"}
    BY <1>4, <2>2 DEF NextState, Becomes, Outcome
  <2>3. CASE obs.event = "none"
    BY <1>1, <1>4, <2>3 DEF NextState, Becomes, EndsOutreach
  <2> QED
    BY <2>1, <2>2, <2>3 DEF Observations, Events
<1> QED
  BY <1>2, <1>3, <1>4 DEF Observations

LEMMA QuietStep == Inv /\ QuietInv /\ [Next]_vars => QuietInv'
<1> SUFFICES ASSUME Inv, QuietInv, [Next]_vars PROVE QuietInv'
  OBVIOUS
<1>t. TypeOK
  BY DEF Inv
<1>1. CASE UNCHANGED <<contactVars, moves>>
  BY <1>1 DEF contactVars, QuietInv, InTurn
<1>2. ASSUME NEW x \in Executors, ExecutorStep(x) PROVE UNCHANGED <<contactVars, moves>>
  BY <1>2, <1>t, Executing
<1>3. ASSUME NEW t \in Targets, PlanStep(t) PROVE UNCHANGED <<contactVars, moves>>
  BY <1>3 DEF PlanStep, ApproveSequence, SetSequence, FindApproved, CreateTouchpoints
<1>4. ASSUME NEW o \in Observers, NEW t \in Targets, NEW obs \in Observations,
             ReadState(o, t, obs)
      PROVE  QuietInv'
  <2> DEFINE seen == [target |-> t, state |-> contact[t], next |-> next[t], obs |-> obs]
  <2>1. /\ "mixed" \in moves \/ Plain(obs)
        /\ "race" \in moves \/ \A p \in Observers : view[p] = NoView \/ view[p].target # t
        /\ view'[o] = seen /\ \A p \in Observers \ {o} : view'[p] = view[p]
        /\ UNCHANGED <<contact, next, over, moves>>
    BY <1>4, <1>t DEF ReadState, Viewing, TypeOK
  <2> QED
    BY <2>1 DEF QuietInv, InTurn
<1>5. ASSUME NEW t \in Targets, NEW state \in ContactStates, NEW time \in Times \cup {NoTime},
             UpdateContact(t, state, time)
      PROVE  QuietInv'
  <2>1. /\ over' = over \ {t} /\ view' = view /\ moves' = moves
        /\ \A u \in Targets \ {t} : contact'[u] = contact[u] /\ next'[u] = next[u]
    BY <1>5, <1>t DEF UpdateContact, TypeOK
  <2>2. over \in SUBSET Targets
    BY <1>t DEF TypeOK
  <2> QED
    BY <2>1, <2>2 DEF QuietInv, InTurn
<1>6. ASSUME NEW o \in Observers, WriteState(o) PROVE QuietInv'
  <2> DEFINE t == view[o].target
             update == NextState(view[o].state, view[o].next, view[o].obs)
  <2>1. view[o] \in Views /\ view[o] # NoView
    BY <1>6, <1>t DEF WriteState, TypeOK
  <2>2. /\ t \in Targets /\ view[o].state \in ContactStates
        /\ view[o].next \in Times \cup {NoTime} /\ view[o].obs \in Observations
    BY <2>1 DEF Views
  <2>3. /\ contact'[t] = update.state /\ next'[t] = update.next
        /\ \A u \in Targets \ {t} : contact'[u] = contact[u] /\ next'[u] = next[u]
        /\ over' = IF EndsOutreach(view[o].obs) THEN over \cup {t} ELSE over
        /\ view'[o] = NoView /\ \A p \in Observers \ {o} : view'[p] = view[p]
        /\ moves' = moves
    BY <1>6, <1>t, <2>2 DEF WriteState, TypeOK
  <2>4. over \in SUBSET Targets
    BY <1>t DEF TypeOK
  <2>5. SUFFICES ASSUME InTurn PROVE QuietInv'
    BY <2>3 DEF QuietInv, InTurn
  <2>6. Plain(view[o].obs)
    BY <2>1, <2>5 DEF QuietInv
  <2>7. t \in over' => update.state # "follow_up_due" /\ update.next = NoTime
    <3>1. SUFFICES ASSUME t \in over'
                   PROVE  update.state # "follow_up_due" /\ update.next = NoTime
      OBVIOUS
    <3>2. EndsOutreach(view[o].obs)
            \/ (view[o].state # "follow_up_due" /\ view[o].next = NoTime)
      BY <2>1, <2>3, <2>5, <3>1 DEF QuietInv
    <3> QED
      BY <2>2, <2>6, <3>2, Projection
  <2>8. \A p \in Observers \ {o} : view[p] # NoView => view[p].target # t
    BY <2>1, <2>5 DEF QuietInv
  <2> HIDE DEF t, update
  <2>9. \A u \in over' : contact'[u] # "follow_up_due" /\ next'[u] = NoTime
    <3>1. ASSUME NEW u \in over' PROVE contact'[u] # "follow_up_due" /\ next'[u] = NoTime
      <4>1. CASE u = t
        BY <2>3, <2>7, <3>1, <4>1
      <4>2. CASE u # t
        BY <2>3, <2>4, <2>5, <3>1, <4>2 DEF QuietInv
      <4> QED
        BY <4>1, <4>2
    <3> QED
      BY <3>1
  <2>10. ASSUME NEW p \in Observers, view'[p] # NoView
         PROVE  /\ Plain(view'[p].obs)
                /\ view'[p].target \in over' =>
                     view'[p].state # "follow_up_due" /\ view'[p].next = NoTime
    <3>1. p # o /\ view'[p] = view[p]
      BY <2>3, <2>10
    <3>2. view[p].target # t
      BY <2>8, <2>10, <3>1
    <3> QED
      BY <2>3, <2>5, <2>10, <3>1, <3>2 DEF QuietInv
  <2>11. \A p, q \in Observers :
           view'[p] # NoView /\ view'[q] # NoView /\ view'[p].target = view'[q].target => p = q
    BY <2>3, <2>5 DEF QuietInv
  <2> QED
    BY <2>3, <2>9, <2>10, <2>11 DEF QuietInv
<1>7. ASSUME NEW o \in Observers, DropObservation(o) PROVE QuietInv'
  <2>1. /\ view'[o] = NoView /\ \A p \in Observers \ {o} : view'[p] = view[p]
        /\ UNCHANGED <<contact, next, over, moves>>
    BY <1>7, <1>t DEF DropObservation, TypeOK
  <2> QED
    BY <2>1 DEF QuietInv, InTurn
<1>8. CASE Tick
  <2>1. /\ UNCHANGED <<contact, view, over, moves>>
        /\ \A t \in Targets : next[t] = NoTime => next'[t] = NoTime
    BY <1>8, LinkedInAssumption DEF Tick, NoTime
  <2>2. over \in SUBSET Targets
    BY <1>t DEF TypeOK
  <2> QED
    BY <2>1, <2>2 DEF QuietInv, InTurn
<1> QED
  BY <1>1, <1>2, <1>3, <1>4, <1>5, <1>6, <1>7, <1>8 DEF Next, ContactStep, vars

(* OverStaysQuiet: after an answer, an opt-out, a meeting or a close no    *)
(* follow-up falls due, as long as observations come one by one.           *)
THEOREM QuietCorrect == Spec => []OverStaysQuiet
<1>1. Init => QuietInv
  BY DEF Init, QuietInv
<1>2. QuietInv => OverStaysQuiet
  BY DEF QuietInv, InTurn, OverStaysQuiet
<1> QED
  BY <1>1, <1>2, QuietStep, Invariance, PTL DEF Spec
==============================================================================
