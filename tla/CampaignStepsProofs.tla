------------------------- MODULE CampaignStepsProofs -------------------------
(***************************************************************************)
(* What the step claim protocol guarantees for every number of             *)
(* enrollments, workers, steps, plans, claims and ticks, whichever of the  *)
(* defects are repaired.  Every step is of one of the kinds defined below, *)
(* and the invariant Inv is kept by each kind.                             *)
(***************************************************************************)
EXTENDS CampaignSteps, TLAPS

Busy(w) == pc[w] # "idle"

(* A worker is in a call exactly while it has a job.  The job was granted  *)
(* for a step the enrollment has not left far behind, and as long as its   *)
(* token stands for the very next one.                                     *)
JobInv ==
  \A w \in Workers :
    /\ job[w] = NoJob <=> ~Busy(w)
    /\ Busy(w) =>
         /\ job[w].token <= issued[job[w].enrollment]
         /\ job[w].step <= step[job[w].enrollment] + 1
         /\ job[w].token = token[job[w].enrollment] =>
              job[w].step = step[job[w].enrollment] + 1

(* No token is in two hands.                                               *)
TokenInv ==
  /\ \A e \in Enrollments : token[e] <= issued[e]
  /\ \A v, w \in Workers :
       Busy(v) /\ Busy(w) /\ job[v].enrollment = job[w].enrollment
         /\ job[v].token = job[w].token => v = w

(* A worker that is about to complete a step has its send persisted.       *)
HandedInv ==
  \A w \in Workers :
    pc[w] = "completing" => sends[job[w].enrollment][job[w].step] # NoPlan

(* As long as no call outlives its lease, a worker at a step holds it.     *)
TimelyInv ==
  "slow" \notin moves =>
    \A w \in Workers, e \in Enrollments :
      Working(w, e) => lease[e] > 0 /\ token[e] = job[w].token

Inv == TypeOK /\ JobInv /\ TokenInv /\ HandedInv /\ SendsMatchSteps /\ TimelyInv

------------------------------------------------------------------------------
(* The kinds of steps, by what they do to enrollments, sends and workers.  *)

(* A worker takes the next step of an enrollment nobody has a lease on.    *)
Claiming(w, e) ==
  /\ ~Busy(w)
  /\ lease[e] = 0 /\ step[e] < MaxSteps /\ issued[e] < MaxClaims
  /\ issued' = [issued EXCEPT ![e] = issued[e] + 1]
  /\ token' = [token EXCEPT ![e] = issued[e] + 1]
  /\ lease' = [lease EXCEPT ![e] = LeaseTicks]
  /\ \E j \in Jobs :
       /\ j.enrollment = e /\ j.token = issued[e] + 1 /\ j.step = step[e] + 1
       /\ job' = [job EXCEPT ![w] = j]
  /\ pc' = [pc EXCEPT ![w] = "rendering"]
  /\ UNCHANGED <<step, sends>>

(* A worker goes on, gives up or dies and writes nothing.                  *)
Passing(w) ==
  /\ Busy(w)
  /\ \/ Return(w)
     \/ GoTo(w, "releasing")
     \/ pc[w] = "rendering" /\ GoTo(w, "handing")
  /\ UNCHANGED <<step, token, lease, issued, sends>>

(* A worker persists the send of its step.                                 *)
Persisting(w) ==
  /\ pc[w] = "handing"
  /\ sends[job[w].enrollment][job[w].step] \in {NoPlan, job[w].plan}
  /\ Persist(job[w].enrollment, job[w].step, job[w].plan)
  /\ GoTo(w, "completing") \/ GoTo(w, "releasing")
  /\ UNCHANGED <<step, token, lease, issued>>

(* A worker completes its step.                                            *)
Advancing(w) ==
  /\ pc[w] = "completing"
  /\ Completable(w)
  /\ step' = [step EXCEPT ![job[w].enrollment] = job[w].step]
  /\ FreeLease(job[w].enrollment)
  /\ Return(w) \/ GoTo(w, "releasing")
  /\ UNCHANGED <<issued, sends>>

(* A worker gives its lease back.                                          *)
Releasing(w) ==
  /\ pc[w] = "releasing"
  /\ token[job[w].enrollment] = job[w].token
  /\ FreeLease(job[w].enrollment)
  /\ Return(w)
  /\ UNCHANGED <<step, issued, sends>>

(* An enrollment nobody has a lease on is completed.                       *)
Finishing(e) ==
  /\ lease[e] = 0
  /\ FreeLease(e)
  /\ UNCHANGED <<step, issued, sends, workerVars>>

(* Leases run down.                                                        *)
Aging ==
  /\ "slow" \in moves \/
       \A w \in Workers, e \in Enrollments : Working(w, e) => lease[e] # 1
  /\ lease' = [e \in Enrollments |-> IF lease[e] > 0 THEN lease[e] - 1 ELSE 0]
  /\ UNCHANGED <<step, token, issued, sends, workerVars>>

(* None of these variables changes.                                        *)
Resting == UNCHANGED <<step, token, lease, issued, sends, workerVars>>

(* Every step is of one of these kinds, and the moves are fixed.           *)
LEMMA Kinds ==
  ASSUME TypeOK, [Next]_vars
  PROVE  /\ \/ \E w \in Workers, e \in Enrollments : Claiming(w, e)
            \/ \E w \in Workers :
                 Passing(w) \/ Persisting(w) \/ Advancing(w) \/ Releasing(w)
            \/ \E e \in Enrollments : Finishing(e)
            \/ Aging
            \/ Resting
         /\ UNCHANGED <<moves, repaired>>
<1> DEFINE Kind ==
      /\ \/ \E w \in Workers, e \in Enrollments : Claiming(w, e)
         \/ \E w \in Workers :
              Passing(w) \/ Persisting(w) \/ Advancing(w) \/ Releasing(w)
         \/ \E e \in Enrollments : Finishing(e)
         \/ Aging
         \/ Resting
      /\ UNCHANGED <<moves, repaired>>
<1> USE DEF Busy, enrollmentVars, outsideVars, workerVars, fixedVars
<1>1. ASSUME NEW w \in Workers, NEW e \in Enrollments, NEW plan \in Plans,
             NEW mode \in {"execute", "build"}, Claim(w, e, plan, mode)
      PROVE  Kind
  <2> DEFINE j == [enrollment |-> e, token |-> issued[e] + 1,
                   step |-> NextStep(e), plan |-> plan, mode |-> mode]
  <2>1. j \in Jobs
    BY <1>1, BoundAssumption DEF Claim, Jobs, NextStep, Steps, TypeOK
  <2>2. j.enrollment = e /\ j.token = issued[e] + 1 /\ j.step = step[e] + 1
    BY DEF NextStep
  <2>3. job' = [job EXCEPT ![w] = j]
    BY <1>1 DEF Claim
  <2> HIDE DEF j
  <2>4. Claiming(w, e)
    BY <1>1, <2>1, <2>2, <2>3 DEF Claim, Claiming, Available
  <2> QED
    BY <1>1, <2>4 DEF Claim
<1>2. ASSUME NEW w \in Workers, Render(w) \/ RenderFails(w) \/ HandOverRefused(w)
                                  \/ Die(w)
      PROVE  Kind
  <2>1. Passing(w)
    BY <1>2 DEF Render, RenderFails, HandOverRefused, Die, Passing, GoTo,
                Return, AfterRender
  <2> QED
    BY <1>2, <2>1 DEF Render, RenderFails, HandOverRefused, Die
<1>3. ASSUME NEW w \in Workers, HandOver(w) \/ HandOverFails(w) PROVE Kind
  <2>1. Passing(w) \/ Persisting(w)
    BY <1>3 DEF HandOver, HandOverFails, Passing, Persisting, Accepts, GoTo
  <2> QED
    BY <1>3, <2>1 DEF HandOver, HandOverFails
<1>4. ASSUME NEW w \in Workers, CompleteStep(w) \/ CompleteFails(w) PROVE Kind
  <2>1. Passing(w) \/ Advancing(w)
    BY <1>4 DEF CompleteStep, CompleteFails, Passing, Advancing, Advance,
                GoTo, Return, FreeLease
  <2> QED
    BY <1>4, <2>1 DEF CompleteStep, CompleteFails
<1>5. ASSUME NEW w \in Workers, Release(w) PROVE Kind
  <2>1. Passing(w) \/ Releasing(w)
    BY <1>5 DEF Release, Passing, Releasing, Owns, Return, FreeLease
  <2> QED
    BY <1>5, <2>1 DEF Release
<1>6. ASSUME NEW e \in Enrollments, FinishEnrollment(e) PROVE Kind
  BY <1>6 DEF FinishEnrollment, Finishing, Available, FreeLease
<1>7. CASE Tick
  BY <1>7 DEF Tick, Aging
<1>8. ASSUME NEW e \in Enrollments,
             SwitchAccepting(e) \/ \E s \in {"active", "paused", "replied"} :
                                     SetStatus(e, s)
      PROVE  Kind
  BY <1>8 DEF SwitchAccepting, SetStatus, Resting
<1>9. CASE SwitchSequence \/ \E n \in Steps : SwitchStep(n)
  BY <1>9 DEF SwitchSequence, SwitchStep, Resting
<1>10. CASE UNCHANGED vars
  BY <1>10 DEF vars, Resting
<1> QED
  BY <1>1, <1>2, <1>3, <1>4, <1>5, <1>6, <1>7, <1>8, <1>9, <1>10
     DEF Next, WorkerStep, ClaimSome, CallStep, EnrollmentStep

------------------------------------------------------------------------------
(* What is known of the job of a worker that is in a call.                 *)
LEMMA JobFacts ==
  ASSUME TypeOK, JobInv, NEW w \in Workers, Busy(w)
  PROVE  /\ job[w] \in Jobs
         /\ job[w].enrollment \in Enrollments
         /\ job[w].token \in 1 .. MaxClaims
         /\ job[w].step \in Steps
         /\ job[w].plan \in Plans
BY DEF TypeOK, JobInv, Jobs

(* The enrollments start within their types.                               *)
LEMMA TypeInit == Init => TypeOK
BY BoundAssumption DEF Init, TypeOK, Status, Live, Steps

(* The lease columns keep their types.                                     *)
LEMMA LeaseTypeStep ==
  ASSUME TypeOK, JobInv, [Next]_vars
  PROVE  /\ step' \in [Enrollments -> 0 .. MaxSteps]
         /\ token' \in [Enrollments -> 0 .. MaxClaims]
         /\ lease' \in [Enrollments -> 0 .. LeaseTicks]
         /\ issued' \in [Enrollments -> 0 .. MaxClaims]
<1> DEFINE Typed ==
      /\ step' \in [Enrollments -> 0 .. MaxSteps]
      /\ token' \in [Enrollments -> 0 .. MaxClaims]
      /\ lease' \in [Enrollments -> 0 .. LeaseTicks]
      /\ issued' \in [Enrollments -> 0 .. MaxClaims]
<1> USE BoundAssumption DEF TypeOK
<1>1. ASSUME NEW w \in Workers, NEW e \in Enrollments, Claiming(w, e) PROVE Typed
  BY <1>1 DEF Claiming
<1>2. ASSUME NEW w \in Workers, Passing(w) \/ Persisting(w) PROVE Typed
  BY <1>2 DEF Passing, Persisting
<1>3. ASSUME NEW w \in Workers, Advancing(w) PROVE Typed
  <2>1. job[w].enrollment \in Enrollments /\ job[w].step \in 1 .. MaxSteps
    BY <1>3, JobFacts DEF Advancing, Busy, Steps
  <2> QED
    BY <1>3, <2>1 DEF Advancing, FreeLease
<1>4. ASSUME NEW w \in Workers, Releasing(w) PROVE Typed
  <2>1. job[w].enrollment \in Enrollments
    BY <1>4, JobFacts DEF Releasing, Busy
  <2> QED
    BY <1>4, <2>1 DEF Releasing, FreeLease
<1>5. ASSUME NEW e \in Enrollments, Finishing(e) PROVE Typed
  BY <1>5 DEF Finishing, FreeLease
<1>6. CASE Aging
  BY <1>6 DEF Aging
<1>7. CASE Resting
  BY <1>7 DEF Resting
<1> QED
  BY <1>1, <1>2, <1>3, <1>4, <1>5, <1>6, <1>7, Kinds

(* So do the sends and the workers.                                        *)
LEMMA WorkTypeStep ==
  ASSUME TypeOK, JobInv, [Next]_vars
  PROVE  /\ sends' \in [Enrollments -> [Steps -> Plans \cup {NoPlan}]]
         /\ pc' \in [Workers -> {"idle", "rendering", "handing", "completing",
                                 "releasing"}]
         /\ job' \in [Workers -> Jobs \cup {NoJob}]
<1> DEFINE Typed ==
      /\ sends' \in [Enrollments -> [Steps -> Plans \cup {NoPlan}]]
      /\ pc' \in [Workers -> {"idle", "rendering", "handing", "completing",
                              "releasing"}]
      /\ job' \in [Workers -> Jobs \cup {NoJob}]
<1> USE DEF TypeOK, Return, GoTo
<1>1. ASSUME NEW w \in Workers, NEW e \in Enrollments, Claiming(w, e) PROVE Typed
  BY <1>1 DEF Claiming
<1>2. ASSUME NEW w \in Workers, Passing(w) \/ Advancing(w) \/ Releasing(w)
      PROVE  Typed
  BY <1>2 DEF Passing, Advancing, Releasing
<1>3. ASSUME NEW w \in Workers, Persisting(w) PROVE Typed
  <2>1. /\ job[w].enrollment \in Enrollments /\ job[w].step \in Steps
        /\ job[w].plan \in Plans
    BY <1>3, JobFacts DEF Persisting, Busy
  <2> QED
    BY <1>3, <2>1 DEF Persisting, Persist
<1>4. CASE Aging \/ Resting \/ \E e \in Enrollments : Finishing(e)
  BY <1>4 DEF Aging, Resting, Finishing, workerVars
<1> QED
  BY <1>1, <1>2, <1>3, <1>4, Kinds

(* And what the other services and the calendar write.                     *)
LEMMA WorldTypeStep ==
  ASSUME TypeOK, [Next]_vars
  PROVE  /\ status' \in [Enrollments -> Status]
         /\ due' \in [Enrollments -> 0 .. MaxWait]
         /\ sequenceOn' \in BOOLEAN
         /\ ready' \in SUBSET Steps
         /\ accepting' \in SUBSET Enrollments
         /\ failures' \in 0 .. MaxFailures
<1> DEFINE Typed ==
      /\ status' \in [Enrollments -> Status]
      /\ due' \in [Enrollments -> 0 .. MaxWait]
      /\ sequenceOn' \in BOOLEAN
      /\ ready' \in SUBSET Steps
      /\ accepting' \in SUBSET Enrollments
      /\ failures' \in 0 .. MaxFailures
<1> USE BoundAssumption DEF TypeOK, enrollmentVars, outsideVars
<1>1. ASSUME NEW w \in Workers, CompleteStep(w) \/ CompleteFails(w) PROVE Typed
  <2>1. UNCHANGED status
    BY <1>1 DEF CompleteStep, CompleteFails, Advance
  <2>2. due' \in [Enrollments -> 0 .. MaxWait]
    BY <1>1 DEF CompleteStep, CompleteFails, Advance
  <2>3. UNCHANGED outsideVars /\ failures' \in 0 .. MaxFailures
    BY <1>1 DEF CompleteStep, CompleteFails, MayFail, CountFailure
  <2> QED
    BY <2>1, <2>2, <2>3
<1>2. ASSUME NEW w \in Workers,
             RenderFails(w) \/ HandOverFails(w) \/ Die(w)
      PROVE  Typed
  BY <1>2 DEF RenderFails, HandOverFails, Die, MayFail, CountFailure
<1>3. ASSUME NEW e \in Enrollments, FinishEnrollment(e) PROVE Typed
  BY <1>3 DEF FinishEnrollment, FinalStatus, Status
<1>4. ASSUME NEW e \in Enrollments, NEW s \in {"active", "paused", "replied"},
             SetStatus(e, s)
      PROVE  Typed
  BY <1>4 DEF SetStatus, Status, Live, Ends
<1>5. ASSUME NEW e \in Enrollments, SwitchAccepting(e) PROVE Typed
  BY <1>5 DEF SwitchAccepting
<1>6. CASE SwitchSequence
  BY <1>6 DEF SwitchSequence
<1>7. ASSUME NEW n \in Steps, SwitchStep(n) PROVE Typed
  BY <1>7 DEF SwitchStep
<1>8. CASE Tick
  BY <1>8 DEF Tick
<1>9. CASE UNCHANGED <<status, due, outsideVars, failures>>
  BY <1>9
<1> QED
  BY <1>1, <1>2, <1>3, <1>4, <1>5, <1>6, <1>7, <1>8, <1>9
     DEF Next, WorkerStep, ClaimSome, CallStep, EnrollmentStep, Claim, Render,
         HandOver, HandOverRefused, Release, vars

(* TypeOK is kept by every step.                                           *)
LEMMA TypeStep ==
  ASSUME TypeOK, JobInv, [Next]_vars
  PROVE  TypeOK'
<1>1. UNCHANGED <<moves, repaired>>
  BY Kinds
<1> QED
  BY <1>1, LeaseTypeStep, WorkTypeStep, WorldTypeStep DEF TypeOK

------------------------------------------------------------------------------
(* A job stays the job of its enrollment's next step as long as its token  *)
(* stands: a claim issues a token nobody has, and the token is cleared     *)
(* when the step moves on.                                                 *)
LEMMA JobInvStep ==
  ASSUME TypeOK, JobInv, TokenInv, [Next]_vars
  PROVE  JobInv'
<1> USE DEF TypeOK, JobInv, Busy
<1>1. ASSUME NEW w \in Workers, NEW e \in Enrollments, Claiming(w, e)
      PROVE  JobInv'
  <2>1. PICK j \in Jobs :
          /\ j.enrollment = e /\ j.token = issued[e] + 1 /\ j.step = step[e] + 1
          /\ job' = [job EXCEPT ![w] = j]
    BY <1>1 DEF Claiming
  <2>2. /\ job'[w] = j /\ job'[w] # NoJob /\ pc'[w] = "rendering"
        /\ issued'[e] = issued[e] + 1 /\ token'[e] = issued[e] + 1
        /\ step' = step
    BY <1>1, <2>1, JobAssumption DEF Claiming
  <2>3. ASSUME NEW v \in Workers \ {w}
        PROVE  /\ job'[v] = job[v] /\ pc'[v] = pc[v]
               /\ Busy(v) =>
                    /\ job[v].token <= issued'[job[v].enrollment]
                    /\ job[v].token = token'[job[v].enrollment] =>
                         job[v].token = token[job[v].enrollment]
    <3>1. job'[v] = job[v] /\ pc'[v] = pc[v]
      BY <1>1, <2>1 DEF Claiming
    <3>2. ASSUME Busy(v)
          PROVE  /\ job[v].token <= issued'[job[v].enrollment]
                 /\ job[v].token = token'[job[v].enrollment] =>
                      job[v].token = token[job[v].enrollment]
      <4>1. /\ job[v].enrollment \in Enrollments
            /\ job[v].token \in 1 .. MaxClaims
            /\ job[v].token <= issued[job[v].enrollment]
        BY <3>2, JobFacts
      <4> QED
        BY <1>1, <4>1, BoundAssumption DEF Claiming
    <3> QED
      BY <3>1, <3>2
  <2> QED
    BY <2>1, <2>2, <2>3
<1>2. ASSUME NEW w \in Workers, Passing(w) \/ Persisting(w) PROVE JobInv'
  BY <1>2, JobAssumption DEF Passing, Persisting, Return, GoTo
<1>3. ASSUME NEW w \in Workers, Advancing(w) PROVE JobInv'
  <2> DEFINE e == job[w].enrollment
  <2>1. /\ e \in Enrollments /\ job[w].step = step[e] + 1
        /\ step[e] \in Nat /\ job[w].step \in Nat
    <3>1. Busy(w)
      BY <1>3 DEF Advancing
    <3>2. e \in Enrollments
      BY <3>1, JobFacts
    <3>3. job[w].step = step[e] + 1
      BY <1>3 DEF Advancing, Completable
    <3> QED
      BY <3>2, <3>3, BoundAssumption
  <2>2. /\ step' = [step EXCEPT ![e] = step[e] + 1]
        /\ token' = [token EXCEPT ![e] = 0]
        /\ UNCHANGED issued
        /\ Return(w) \/ GoTo(w, "releasing")
        /\ Busy(w)
    BY <1>3, <2>1 DEF Advancing, FreeLease
  <2>3. ASSUME NEW v \in Workers, Busy(v)
        PROVE  /\ job[v].step <= step'[job[v].enrollment] + 1
               /\ job[v].token = token'[job[v].enrollment] =>
                    job[v].step = step'[job[v].enrollment] + 1
    <3>1. /\ job[v].enrollment \in Enrollments
          /\ job[v].token \in 1 .. MaxClaims
          /\ job[v].step \in Nat
          /\ step[job[v].enrollment] \in Nat
      BY <2>3, JobFacts, BoundAssumption DEF Steps
    <3> QED
      BY <2>1, <2>2, <2>3, <3>1
  <2>4. \A v \in Workers : pc'[v] # "idle" => pc[v] # "idle" /\ job'[v] = job[v]
    BY <2>2 DEF Return, GoTo
  <2>5. \A v \in Workers : job'[v] = NoJob <=> pc'[v] = "idle"
    BY <2>2 DEF Return, GoTo
  <2> HIDE DEF e
  <2> QED
    BY <2>2, <2>3, <2>4, <2>5
<1>4. ASSUME NEW e \in Enrollments, UNCHANGED <<step, issued>>, FreeLease(e),
             UNCHANGED workerVars \/ \E w \in Workers : Return(w) /\ Busy(w)
      PROVE  JobInv'
  <2>1. \A v \in Workers : pc'[v] # "idle" => pc[v] # "idle" /\ job'[v] = job[v]
    BY <1>4 DEF Return, workerVars
  <2>2. \A v \in Workers : job'[v] = NoJob <=> pc'[v] = "idle"
    BY <1>4 DEF Return, workerVars
  <2>3. \A v \in Workers : Busy(v) =>
          (job[v].token = token'[job[v].enrollment] =>
             job[v].token = token[job[v].enrollment])
    <3>1. TAKE v \in Workers
    <3>2. HAVE Busy(v)
    <3>3. job[v].enrollment \in Enrollments /\ job[v].token \in 1 .. MaxClaims
      BY <3>2, JobFacts
    <3> QED
      BY <1>4, <3>3, BoundAssumption DEF FreeLease
  <2> QED
    BY <1>4, <2>1, <2>2, <2>3
<1>5. ASSUME NEW w \in Workers, Releasing(w) PROVE JobInv'
  <2>1. job[w].enrollment \in Enrollments /\ Busy(w)
    BY <1>5, JobFacts DEF Releasing
  <2> QED
    BY <1>4, <1>5, <2>1 DEF Releasing
<1>6. ASSUME NEW e \in Enrollments, Finishing(e) PROVE JobInv'
  BY <1>4, <1>6 DEF Finishing
<1>7. CASE Aging \/ Resting
  BY <1>7 DEF Aging, Resting, workerVars
<1> QED
  BY <1>1, <1>2, <1>3, <1>5, <1>6, <1>7, Kinds

(* Tokens stay in one hand each.                                           *)
LEMMA TokenInvStep ==
  ASSUME TypeOK, JobInv, TokenInv, [Next]_vars
  PROVE  TokenInv'
<1> USE BoundAssumption DEF TypeOK, TokenInv, Busy
<1>1. ASSUME NEW w \in Workers, NEW e \in Enrollments, Claiming(w, e)
      PROVE  TokenInv'
  <2>1. PICK j \in Jobs :
          /\ j.enrollment = e /\ j.token = issued[e] + 1 /\ j.step = step[e] + 1
          /\ job' = [job EXCEPT ![w] = j]
    BY <1>1 DEF Claiming
  <2>2. \A d \in Enrollments : token'[d] <= issued'[d]
    BY <1>1 DEF Claiming
  <2>3. job'[w].enrollment = e /\ job'[w].token = issued[e] + 1
    BY <2>1
  <2>4. \A v \in Workers \ {w} : job'[v] = job[v] /\ pc'[v] = pc[v]
    BY <1>1, <2>1 DEF Claiming
  <2>5. \A v \in Workers \ {w} :
          Busy(v) /\ job[v].enrollment = e => job[v].token # issued[e] + 1
    BY JobFacts DEF JobInv
  <2> QED
    BY <2>2, <2>3, <2>4, <2>5
<1>2. ASSUME NEW w \in Workers, Busy(w), Return(w) \/ UNCHANGED job,
             \A v \in Workers : pc'[v] # "idle" => Busy(v),
             UNCHANGED issued,
             \A e \in Enrollments : token'[e] = token[e] \/ token'[e] = 0
      PROVE  TokenInv'
  <2>1. \A v \in Workers : pc'[v] # "idle" => job'[v] = job[v]
    BY <1>2 DEF Return
  <2> QED
    BY <1>2, <2>1
<1>3. ASSUME NEW w \in Workers,
             Passing(w) \/ Persisting(w) \/ Advancing(w) \/ Releasing(w)
      PROVE  TokenInv'
  <2>1. /\ Busy(w)
        /\ Return(w) \/ UNCHANGED job
        /\ \A v \in Workers : pc'[v] # "idle" => Busy(v)
        /\ UNCHANGED issued
    BY <1>3 DEF Passing, Persisting, Advancing, Releasing, Return, GoTo
  <2>2. \A e \in Enrollments : token'[e] = token[e] \/ token'[e] = 0
    BY <1>3 DEF Passing, Persisting, Advancing, Releasing, FreeLease
  <2> QED
    BY <1>2, <2>1, <2>2
<1>4. ASSUME NEW e \in Enrollments, Finishing(e) PROVE TokenInv'
  BY <1>4 DEF Finishing, FreeLease, workerVars
<1>5. CASE Aging \/ Resting
  BY <1>5 DEF Aging, Resting, workerVars
<1> QED
  BY <1>1, <1>3, <1>4, <1>5, Kinds

(* Where a worker is after a step tells where it was before.               *)
LEMMA WorkingBefore ==
  ASSUME TypeOK, NEW w \in Workers,
         Passing(w) \/ Persisting(w) \/ Advancing(w) \/ Releasing(w)
  PROVE  \A v \in Workers :
           /\ pc'[v] # "idle" => pc[v] # "idle" /\ job'[v] = job[v]
           /\ \A e \in Enrollments : Working(v, e)' => Working(v, e)
           /\ Advancing(w) \/ Releasing(w) =>
                \A e \in Enrollments : Working(v, e)' => v # w
<1> USE DEF TypeOK
<1>1. ASSUME NEW v \in Workers
      PROVE  /\ pc'[v] # "idle" => pc[v] # "idle" /\ job'[v] = job[v]
             /\ pc'[v] \in {"rendering", "handing", "completing"} =>
                  pc[v] \in {"rendering", "handing", "completing"}
             /\ Advancing(w) \/ Releasing(w) =>
                  pc'[w] \notin {"rendering", "handing", "completing"}
  BY DEF Passing, Persisting, Advancing, Releasing, Return, GoTo, Busy
<1> QED
  BY <1>1 DEF Working

(* A send, once persisted, stays.                                          *)
LEMMA HandedInvStep ==
  ASSUME TypeOK, JobInv, HandedInv, [Next]_vars
  PROVE  HandedInv'
<1> USE DEF TypeOK, HandedInv
<1>1. ASSUME NEW w \in Workers, NEW e \in Enrollments, Claiming(w, e)
      PROVE  HandedInv'
  BY <1>1 DEF Claiming
<1>2. ASSUME NEW w \in Workers, Passing(w) \/ Advancing(w) \/ Releasing(w)
      PROVE  HandedInv'
  BY <1>2 DEF Passing, Advancing, Releasing, Return, GoTo
<1>3. ASSUME NEW w \in Workers, Persisting(w) PROVE HandedInv'
  <2>1. /\ job[w].enrollment \in Enrollments /\ job[w].step \in Steps
        /\ job[w].plan # NoPlan
    BY <1>3, JobFacts, PlanAssumption DEF Persisting, Busy
  <2>2. sends'[job[w].enrollment][job[w].step] # NoPlan
    BY <1>3, <2>1 DEF Persisting, Persist
  <2>3. \A v \in Workers : pc[v] = "completing" =>
          sends'[job[v].enrollment][job[v].step] # NoPlan
    <3>1. TAKE v \in Workers
    <3>2. HAVE pc[v] = "completing"
    <3>3. job[v].enrollment \in Enrollments /\ job[v].step \in Steps
      BY <3>2, JobFacts DEF Busy
    <3> QED
      BY <1>3, <2>1, <3>2, <3>3 DEF Persisting, Persist
  <2> QED
    BY <1>3, <2>2, <2>3 DEF Persisting, GoTo
<1>4. CASE Aging \/ Resting \/ \E e \in Enrollments : Finishing(e)
  BY <1>4 DEF Aging, Resting, Finishing, workerVars
<1> QED
  BY <1>1, <1>2, <1>3, <1>4, Kinds

(* Sends and steps stay together: a send is persisted for the next step at *)
(* the most, and a step is passed with its send behind it.                 *)
LEMMA SendsMatchStepsStep ==
  ASSUME TypeOK, JobInv, HandedInv, SendsMatchSteps, [Next]_vars
  PROVE  SendsMatchSteps'
<1> USE BoundAssumption DEF TypeOK, SendsMatchSteps, Steps
<1>1. ASSUME NEW w \in Workers, Persisting(w) PROVE SendsMatchSteps'
  <2>1. /\ job[w].enrollment \in Enrollments /\ job[w].step \in Steps
        /\ job[w].plan # NoPlan
        /\ job[w].step <= step[job[w].enrollment] + 1
    BY <1>1, JobFacts, PlanAssumption DEF Persisting, Busy, JobInv
  <2> QED
    BY <1>1, <2>1 DEF Persisting, Persist
<1>2. ASSUME NEW w \in Workers, Advancing(w) PROVE SendsMatchSteps'
  <2> DEFINE e == job[w].enrollment
  <2>1. /\ e \in Enrollments /\ job[w].step \in Steps
        /\ job[w].step = step[e] + 1
        /\ sends[e][job[w].step] # NoPlan
    BY <1>2, JobFacts DEF Advancing, Completable, Busy, HandedInv
  <2>2. step' = [step EXCEPT ![e] = step[e] + 1] /\ UNCHANGED sends
    BY <1>2, <2>1 DEF Advancing
  <2> HIDE DEF e
  <2>3. ASSUME NEW f \in Enrollments, NEW n \in Steps
        PROVE  /\ n <= step'[f] => sends'[f][n] # NoPlan
               /\ sends'[f][n] # NoPlan => n <= step'[f] + 1
    <3>1. CASE f # e
      <4>1. step'[f] = step[f] /\ sends'[f] = sends[f]
        BY <2>2, <3>1
      <4> QED
        BY <4>1
    <3>2. CASE f = e
      <4>1. /\ step'[e] = step[e] + 1 /\ sends'[e] = sends[e]
            /\ step[e] \in Nat /\ n \in Nat
        BY <2>1, <2>2
      <4>2. n <= step[e] + 1 => n <= step[e] \/ n = job[w].step
        BY <2>1, <4>1
      <4> QED
        BY <2>1, <3>2, <4>1, <4>2
    <3> QED
      BY <3>1, <3>2
  <2> QED
    BY <2>3
<1>3. CASE UNCHANGED <<step, sends>>
  BY <1>3
<1> QED
  BY <1>1, <1>2, <1>3, Kinds
     DEF Claiming, Passing, Releasing, Finishing, Aging, Resting

(* Without slow calls a claim finds nobody at the enrollment's step, and   *)
(* nobody else's lease is given up or runs out.                            *)
LEMMA TimelyInvStep ==
  ASSUME TypeOK, JobInv, TokenInv, TimelyInv, [Next]_vars
  PROVE  TimelyInv'
<1>0. SUFFICES ASSUME "slow" \notin moves,
                      NEW v \in Workers, NEW d \in Enrollments, Working(v, d)'
               PROVE  lease'[d] > 0 /\ token'[d] = job'[v].token
  BY Kinds DEF TimelyInv
<1> USE BoundAssumption DEF TypeOK
<1>1. Working(v, d) => lease[d] > 0 /\ token[d] = job[v].token
  BY <1>0 DEF TimelyInv
<1>2. ASSUME NEW w \in Workers, NEW e \in Enrollments, Claiming(w, e)
      PROVE  lease'[d] > 0 /\ token'[d] = job'[v].token
  <2>1. PICK j \in Jobs :
          /\ j.enrollment = e /\ j.token = issued[e] + 1 /\ j.step = step[e] + 1
          /\ job' = [job EXCEPT ![w] = j]
    BY <1>2 DEF Claiming
  <2>2. CASE v = w
    <3>1. d = e
      BY <1>0, <2>1, <2>2 DEF Working
    <3> QED
      BY <1>2, <2>1, <2>2, <3>1 DEF Claiming
  <2>3. CASE v # w
    <3>1. job'[v] = job[v] /\ pc'[v] = pc[v]
      BY <1>2, <2>1, <2>3 DEF Claiming
    <3>2. Working(v, d)
      BY <1>0, <3>1 DEF Working
    <3>3. d # e
      BY <1>1, <1>2, <3>2 DEF Claiming
    <3> QED
      BY <1>1, <1>2, <3>1, <3>2, <3>3 DEF Claiming
  <2> QED
    BY <2>2, <2>3
<1>3. ASSUME NEW w \in Workers, Passing(w) \/ Persisting(w)
      PROVE  lease'[d] > 0 /\ token'[d] = job'[v].token
  <2>1. Working(v, d) /\ job'[v] = job[v]
    BY <1>0, <1>3, WorkingBefore DEF Working
  <2>2. UNCHANGED <<token, lease>>
    BY <1>3 DEF Passing, Persisting
  <2> QED
    BY <1>1, <2>1, <2>2
<1>4. ASSUME NEW w \in Workers, Advancing(w) \/ Releasing(w)
      PROVE  lease'[d] > 0 /\ token'[d] = job'[v].token
  <2>1. Working(v, d) /\ job'[v] = job[v] /\ v # w
    BY <1>0, <1>4, WorkingBefore DEF Working
  <2>2. /\ token[job[w].enrollment] = job[w].token
        /\ FreeLease(job[w].enrollment)
        /\ Busy(v) /\ Busy(w) /\ job[v].enrollment = d
    BY <1>4, <2>1 DEF Advancing, Releasing, Completable, Owns, Busy, Working
  <2>3. d # job[w].enrollment
    BY <1>1, <2>1, <2>2 DEF TokenInv
  <2> QED
    BY <1>1, <2>1, <2>2, <2>3 DEF FreeLease
<1>5. ASSUME NEW e \in Enrollments, Finishing(e)
      PROVE  lease'[d] > 0 /\ token'[d] = job'[v].token
  <2>1. Working(v, d) /\ UNCHANGED job
    BY <1>0, <1>5 DEF Finishing, Working, workerVars
  <2>2. d # e
    BY <1>1, <1>5, <2>1 DEF Finishing
  <2> QED
    BY <1>1, <1>5, <2>1, <2>2 DEF Finishing, FreeLease
<1>6. CASE Aging
  <2>1. Working(v, d) /\ UNCHANGED <<job, token>>
    BY <1>0, <1>6 DEF Aging, Working, workerVars
  <2>2. lease[d] # 1 /\ lease[d] > 0
    BY <1>0, <1>1, <1>6, <2>1 DEF Aging
  <2> QED
    BY <1>1, <1>6, <2>1, <2>2 DEF Aging
<1>7. CASE Resting
  BY <1>0, <1>1, <1>7 DEF Resting, Working, workerVars
<1> QED
  BY <1>2, <1>3, <1>4, <1>5, <1>6, <1>7, Kinds

------------------------------------------------------------------------------
(* The invariant holds when nothing has happened yet.                      *)
LEMMA InvInit == Init => Inv
<1> SUFFICES ASSUME Init PROVE Inv
  OBVIOUS
<1>1. TypeOK
  BY TypeInit
<1>2. JobInv /\ TokenInv /\ HandedInv
  BY BoundAssumption DEF Init, JobInv, TokenInv, HandedInv, Busy
<1>3. SendsMatchSteps
  BY BoundAssumption DEF Init, SendsMatchSteps, Steps
<1>4. TimelyInv
  BY DEF Init, TimelyInv, Working
<1> QED
  BY <1>1, <1>2, <1>3, <1>4 DEF Inv

(* And every reachable state satisfies it.                                 *)
LEMMA Invariance == Spec => []Inv
<1>1. Inv /\ [Next]_vars => Inv'
  BY TypeStep, JobInvStep, TokenInvStep, HandedInvStep, SendsMatchStepsStep,
     TimelyInvStep
     DEF Inv
<1> QED
  BY InvInit, <1>1, PTL DEF Spec

(* Every variable keeps its type; in particular an enrollment's status is  *)
(* one its table allows, and its step never exceeds max_steps.             *)
THEOREM CampaignTypes == Spec => []TypeOK
<1>1. Inv => TypeOK
  BY DEF Inv
<1> QED
  BY <1>1, Invariance, PTL

(* The campaign and the mail queue agree on what was handed over.          *)
THEOREM SendsCorrect == Spec => []SendsMatchSteps
<1>1. Inv => SendsMatchSteps
  BY DEF Inv
<1> QED
  BY <1>1, Invariance, PTL

(* While no call outlives its lease, a step is in one worker's hands.      *)
THEOREM RendererCorrect == Spec => []OneRenderer
<1>1. Inv => OneRenderer
  <2>1. SUFFICES ASSUME Inv, "slow" \notin moves, NEW e \in Enrollments,
                        NEW v \in Workers, NEW w \in Workers,
                        Working(v, e), Working(w, e)
                 PROVE  v = w
    BY DEF OneRenderer
  <2>2. token[e] = job[v].token /\ token[e] = job[w].token
    BY <2>1 DEF Inv, TimelyInv
  <2> QED
    BY <2>1, <2>2 DEF Inv, TokenInv, Working, Busy
<1> QED
  BY <1>1, Invariance, PTL

(* A running lease is given up by the worker it was granted to, and by no  *)
(* other: token and lease change in one update that compares the token.    *)
THEOREM LeaseCorrect == Spec => LeaseIsRespected
<1> DEFINE Respected ==
      \A e \in Enrollments :
        lease[e] > 0 /\ token'[e] # token[e] =>
          \E w \in Workers : Holds(w, e) /\ pc'[w] # pc[w]
<1>1. Inv /\ [Next]_vars => [Respected]_vars
  <2> SUFFICES ASSUME Inv, [Next]_vars PROVE Respected
    OBVIOUS
  <2>0. TypeOK /\ JobInv
    BY DEF Inv
  <2> USE DEF TypeOK
  <2>1. ASSUME NEW w \in Workers, NEW e \in Enrollments, Claiming(w, e)
        PROVE  Respected
    BY <2>0, <2>1 DEF Claiming
  <2>2. ASSUME NEW w \in Workers, Advancing(w) \/ Releasing(w) PROVE Respected
    <3>1. /\ Busy(w) /\ pc'[w] # pc[w]
          /\ token[job[w].enrollment] = job[w].token
          /\ FreeLease(job[w].enrollment)
      BY <2>0, <2>2 DEF Advancing, Releasing, Completable, Owns, Return, GoTo,
                        Busy
    <3>2. Holds(w, job[w].enrollment)
      BY <3>1 DEF Holds, Busy
    <3>3. \A e \in Enrollments : token'[e] # token[e] => e = job[w].enrollment
      BY <2>0, <3>1 DEF FreeLease
    <3> QED
      BY <3>1, <3>2, <3>3
  <2>3. ASSUME NEW e \in Enrollments, Finishing(e) PROVE Respected
    BY <2>0, <2>3 DEF Finishing, FreeLease
  <2>4. CASE UNCHANGED token
    BY <2>4
  <2> QED
    BY <2>0, <2>1, <2>2, <2>3, <2>4, Kinds
       DEF Passing, Persisting, Aging, Resting
<1> QED
  BY <1>1, Invariance, PTL DEF Spec, LeaseIsRespected

(* An enrollment that is paused or ended advances under nobody.            *)
THEOREM EndedCorrect == Spec => EndedStands
<1> DEFINE Stands ==
      \A e \in Enrollments : status[e] \notin Live => step'[e] = step[e]
<1>1. Inv /\ [Next]_vars => [Stands]_vars
  <2> SUFFICES ASSUME Inv, [Next]_vars PROVE Stands
    OBVIOUS
  <2>0. TypeOK
    BY DEF Inv
  <2>1. ASSUME NEW w \in Workers, Advancing(w) PROVE Stands
    BY <2>0, <2>1 DEF Advancing, Completable, Owns, TypeOK
  <2>2. CASE UNCHANGED step
    BY <2>2
  <2> QED
    BY <2>0, <2>1, <2>2, Kinds
       DEF Claiming, Passing, Persisting, Releasing, Finishing, Aging, Resting
<1> QED
  BY <1>1, Invariance, PTL DEF Spec, EndedStands

------------------------------------------------------------------------------
(* Enrollments start at the foot of the ladder.                            *)
LEMMA LadderInit == Init => Ladder!Init
BY DEF Init, Ladder!Init, Steps

(* A persisted send is the ladder's Persist, or the same send again; a     *)
(* completed step is its Advance; nothing else moves the ladder.           *)
LEMMA LadderStep ==
  Inv /\ [Next]_vars => [Ladder!Next]_(Ladder!ladder)
<1> SUFFICES ASSUME Inv, [Next]_vars
             PROVE  [Ladder!Next]_(Ladder!ladder)
  OBVIOUS
<1>0. TypeOK /\ JobInv /\ HandedInv /\ SendsMatchSteps
  BY DEF Inv
<1> USE BoundAssumption DEF TypeOK, Ladder!ladder
<1>1. ASSUME NEW w \in Workers, Persisting(w)
      PROVE  [Ladder!Next]_(Ladder!ladder)
  <2> DEFINE e == job[w].enrollment
             n == job[w].step
             plan == job[w].plan
  <2>1. /\ e \in Enrollments /\ n \in Steps /\ plan \in Plans
        /\ n <= step[e] + 1
        /\ step[e] \in 0 .. MaxSteps
    BY <1>0, <1>1, JobFacts DEF Persisting, Busy, JobInv
  <2>2. /\ sends[e][n] \in {NoPlan, plan}
        /\ sends' = [sends EXCEPT ![e][n] = plan]
        /\ UNCHANGED step
    BY <1>1 DEF Persisting, Persist
  <2> HIDE DEF e, n, plan
  <2>3. CASE sends[e][n] = NoPlan
    <3>1. n = step[e] + 1 /\ step[e] < MaxSteps
      BY <1>0, <2>1, <2>3 DEF SendsMatchSteps, Steps
    <3>2. Ladder!Persist(e, plan)
      BY <2>2, <2>3, <3>1 DEF Ladder!Persist
    <3> QED
      BY <2>1, <3>2 DEF Ladder!Next
  <2>4. CASE sends[e][n] = plan
    <3>1. sends' = sends
      BY <1>0, <2>1, <2>2, <2>4
    <3> QED
      BY <2>2, <3>1
  <2> QED
    BY <2>2, <2>3, <2>4
<1>2. ASSUME NEW w \in Workers, Advancing(w)
      PROVE  [Ladder!Next]_(Ladder!ladder)
  <2> DEFINE e == job[w].enrollment
  <2>1. /\ e \in Enrollments /\ job[w].step \in Steps
        /\ job[w].step = step[e] + 1
        /\ sends[e][job[w].step] # NoPlan
    BY <1>0, <1>2, JobFacts DEF Advancing, Completable, Busy, HandedInv
  <2>2. step' = [step EXCEPT ![e] = job[w].step] /\ UNCHANGED sends
    BY <1>2 DEF Advancing
  <2> HIDE DEF e
  <2>3. Ladder!Advance(e)
    BY <1>0, <2>1, <2>2 DEF Ladder!Advance, Steps
  <2> QED
    BY <2>1, <2>3 DEF Ladder!Next
<1>3. CASE UNCHANGED <<step, sends>>
  BY <1>3
<1> QED
  BY <1>0, <1>1, <1>2, <1>3, Kinds
     DEF Claiming, Passing, Releasing, Finishing, Aging, Resting

(* The campaign path implements the ladder.                                *)
THEOREM ClimbsLadder == Spec => LadderSpec
BY LadderInit, LadderStep, Invariance, PTL DEF Spec, LadderSpec, Ladder!Spec
=============================================================================
