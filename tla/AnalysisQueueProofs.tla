------------------------- MODULE AnalysisQueueProofs -------------------------
(***************************************************************************)
(* What the queue of analyses guarantees for every number of jobs,         *)
(* workers and attempts, however worker_ids are shared and however many    *)
(* batches die or outlive their lease.                                     *)
(***************************************************************************)
EXTENDS AnalysisQueue, FiniteSetTheorems, TLAPS

(* A worker is on a job of its batch exactly while it has an answer for it,*)
(* and its batch is of attempts that were made.                            *)
WorkerInv ==
  \A w \in Workers :
    /\ job[w] = NoJob <=> answer[w] = "none"
    /\ job[w] # NoJob => view[w][job[w]] # 0
    /\ \A j \in Jobs : view[w][j] <= attempts[j]

(* A job in process has an attempt without an answer, and no attempt is    *)
(* answered before it is made; a job that is absent was never tried.       *)
RowInv ==
  \A j \in Jobs :
    /\ status[j] = "absent" => attempts[j] = 0
    /\ status[j] = "processing" => attempts[j] > 0 /\ attempts[j] \notin answered[j]
    /\ \A k \in answered[j] : k <= attempts[j]

(* With names of their own, a worker that still owns a row of its batch    *)
(* made the newest claim on it.                                            *)
OwnerInv ==
  Distinct =>
    \A w \in Workers, j \in Jobs :
      view[w][j] # 0 /\ owner[j] = named[w] => view[w][j] = attempts[j]

Inv == TypeOK /\ WorkerInv /\ RowInv /\ AttemptBudget /\ OwnerInv

LEMMA InitInv == Init => Inv
<1> SUFFICES ASSUME Init PROVE Inv
  OBVIOUS
<1> USE NameAssumption, JobAssumption, CountAssumption
<1>1. TypeOK
  BY DEF Init, TypeOK, NothingHeld, Status
<1>2. WorkerInv
  BY DEF Init, WorkerInv, NothingHeld
<1>3. RowInv /\ AttemptBudget /\ OwnerInv
  BY DEF Init, RowInv, AttemptBudget, OwnerInv, NothingHeld
<1> QED
  BY <1>1, <1>2, <1>3 DEF Inv

------------------------------------------------------------------------------
LEMMA TypeStep == TypeOK /\ WorkerInv /\ [Next]_vars => TypeOK'
<1> SUFFICES ASSUME TypeOK, WorkerInv, [Next]_vars PROVE TypeOK'
  OBVIOUS
<1> USE NameAssumption, JobAssumption, CountAssumption
<1>1. ASSUME NEW j \in Jobs, Enqueue(j) PROVE TypeOK'
  BY <1>1 DEF Enqueue, TypeOK, Status, workVars, ghostVars
<1>2. ASSUME NEW w \in Workers, Claim(w) PROVE TypeOK'
  <2>1. PICK B \in SUBSET Jobs :
          /\ status' = [j \in Jobs |-> IF j \in B THEN "processing" ELSE status[j]]
          /\ owner' = [j \in Jobs |-> IF j \in B THEN named[w] ELSE owner[j]]
          /\ lease' = [j \in Jobs |-> IF j \in B THEN LeaseTicks ELSE lease[j]]
          /\ attempts' =
               [j \in Jobs |-> IF j \in B THEN attempts[j] + 1 ELSE attempts[j]]
          /\ view' = [view EXCEPT ![w] =
               [j \in Jobs |-> IF j \in B THEN attempts[j] + 1 ELSE 0]]
          /\ UNCHANGED <<job, answer, ghostVars, aborts, slow>>
    BY <1>2 DEF Claim
  <2>2. status' \in [Jobs -> Status] /\ lease' \in [Jobs -> 0 .. LeaseTicks]
    BY <2>1 DEF TypeOK, Status
  <2>3. owner' \in [Jobs -> Names \cup {NoName}]
    <3>1. named[w] \in Names
      BY DEF TypeOK
    <3>2. QED
      BY <2>1, <3>1 DEF TypeOK
  <2>4. attempts' \in [Jobs -> Nat]
    BY <2>1 DEF TypeOK
  <2>5. view' \in [Workers -> [Jobs -> Nat]]
    BY <2>1 DEF TypeOK
  <2> QED
    BY <2>1, <2>2, <2>3, <2>4, <2>5 DEF TypeOK, ghostVars
<1>3. ASSUME NEW w \in Workers, NEW j \in Jobs, NEW a \in {"analysis", "error"},
             Analyze(w, j, a)
      PROVE  TypeOK'
  BY <1>3 DEF Analyze, TypeOK, rowVars, ghostVars
<1>4. ASSUME NEW w \in Workers, answer[w] # "none", NEW next \in Status, Write(w, next)
      PROVE  TypeOK'
  <2>1. job[w] \in Jobs
    BY <1>4 DEF TypeOK, WorkerInv
  <2> QED
    BY <1>4, <2>1 DEF Write, TypeOK
<1>5. ASSUME NEW w \in Workers, CompleteRaises(w) PROVE TypeOK'
  BY <1>5 DEF CompleteRaises, TypeOK, rowVars, ghostVars
<1>6. ASSUME NEW w \in Workers, FailRaises(w) \/ Abort(w) PROVE TypeOK'
  <2>1. DropBatch(w) /\ UNCHANGED <<rowVars, ghostVars, slow>> /\ aborts' \in 0 .. MaxAborts
    BY <1>6 DEF FailRaises, Abort, TypeOK
  <2> QED
    BY <2>1 DEF DropBatch, NothingHeld, TypeOK, rowVars, ghostVars
<1>7. CASE Tick
  <2>1. Cardinality({j \in Jobs : lease[j] = 1 /\ AtWork(j)}) \in Nat
    BY FS_Subset, FS_CardinalityType
  <2>2. slow' \in 0 .. MaxSlow
    BY <1>7, <2>1 DEF Tick, TypeOK
  <2>3. lease' \in [Jobs -> 0 .. LeaseTicks]
    BY <1>7 DEF Tick, TypeOK
  <2> QED
    BY <1>7, <2>2, <2>3 DEF Tick, TypeOK, workVars, ghostVars
<1>8. CASE UNCHANGED vars
  BY <1>8 DEF TypeOK, vars, rowVars, workVars, ghostVars
<1> QED
  BY <1>1, <1>2, <1>3, <1>4, <1>5, <1>6, <1>7, <1>8
     DEF Next, WorkerStep, Complete, Fail, StatusAfterFailure, Status

------------------------------------------------------------------------------
(* What a claim does to the jobs it takes and to all others.               *)
LEMMA Claiming ==
  ASSUME TypeOK, NEW w \in Workers, Claim(w)
  PROVE  /\ UNCHANGED <<job, answer, named, answered>>
         /\ Batch(w) = {} /\ job[w] = NoJob
         /\ \A v \in Workers \ {w} : view'[v] = view[v]
         /\ \E B \in SUBSET Jobs : \A j \in Jobs :
              IF j \in B
              THEN /\ Claimable(j)
                   /\ status'[j] = "processing" /\ owner'[j] = named[w]
                   /\ attempts'[j] = attempts[j] + 1
                   /\ view'[w][j] = attempts[j] + 1
              ELSE /\ status'[j] = status[j] /\ owner'[j] = owner[j]
                   /\ attempts'[j] = attempts[j]
                   /\ view'[w][j] = 0
<1>1. PICK B \in SUBSET {j \in Jobs : Claimable(j)} :
        /\ status' = [j \in Jobs |-> IF j \in B THEN "processing" ELSE status[j]]
        /\ owner' = [j \in Jobs |-> IF j \in B THEN named[w] ELSE owner[j]]
        /\ attempts' =
             [j \in Jobs |-> IF j \in B THEN attempts[j] + 1 ELSE attempts[j]]
        /\ view' = [view EXCEPT ![w] =
             [j \in Jobs |-> IF j \in B THEN attempts[j] + 1 ELSE 0]]
  BY DEF Claim
<1>2. \A v \in Workers \ {w} : view'[v] = view[v]
  BY <1>1 DEF TypeOK
<1>3. view'[w] = [j \in Jobs |-> IF j \in B THEN attempts[j] + 1 ELSE 0]
  BY <1>1 DEF TypeOK
<1>4. B \in SUBSET Jobs /\ \A j \in B : Claimable(j)
  OBVIOUS
<1>5. \A j \in Jobs :
        IF j \in B
        THEN /\ Claimable(j)
             /\ status'[j] = "processing" /\ owner'[j] = named[w]
             /\ attempts'[j] = attempts[j] + 1
             /\ view'[w][j] = attempts[j] + 1
        ELSE /\ status'[j] = status[j] /\ owner'[j] = owner[j]
             /\ attempts'[j] = attempts[j]
             /\ view'[w][j] = 0
  BY <1>1, <1>3, <1>4
<1> QED
  BY <1>2, <1>4, <1>5 DEF Claim, ghostVars

(* What complete and fail do when the row is still the worker's.           *)
LEMMA Writing ==
  ASSUME TypeOK, WorkerInv, NEW w \in Workers, answer[w] # "none", NEW next, Write(w, next)
  PROVE  /\ job[w] \in Jobs
         /\ status[job[w]] = "processing" /\ owner[job[w]] = named[w]
         /\ status' = [status EXCEPT ![job[w]] = next]
         /\ owner' = [owner EXCEPT ![job[w]] = NoName]
         /\ answered' = [answered EXCEPT ![job[w]] = @ \cup {attempts[job[w]]}]
         /\ view' = [view EXCEPT ![w][job[w]] = 0]
         /\ job' = [job EXCEPT ![w] = NoJob]
         /\ answer' = [answer EXCEPT ![w] = "none"]
         /\ UNCHANGED <<attempts, named>>
BY DEF Write, HoldsLease, WorkerInv, TypeOK

LEMMA WorkerStepKept == TypeOK /\ WorkerInv /\ [Next]_vars => WorkerInv'
<1> SUFFICES ASSUME TypeOK, WorkerInv, [Next]_vars PROVE WorkerInv'
  OBVIOUS
<1> USE JobAssumption DEF TypeOK
<1>1. ASSUME NEW w \in Workers, Claim(w) PROVE WorkerInv'
  <2>1. \A v \in Workers : job[v] # NoJob => v # w
    BY <1>1, Claiming
  <2>2. \A j \in Jobs : view'[w][j] <= attempts'[j] /\ attempts[j] <= attempts'[j]
    BY <1>1, Claiming
  <2>3. ASSUME NEW v \in Workers PROVE \A j \in Jobs : view'[v][j] <= attempts'[j]
    <3>1. CASE v = w
      BY <2>2, <3>1
    <3>2. CASE v # w
      <4>1. view'[v] = view[v]
        BY <1>1, <3>2, Claiming
      <4>2. attempts' \in [Jobs -> Nat]
        BY <1>1, TypeStep DEF Next, WorkerStep
      <4>3. QED
        BY <2>2, <4>1, <4>2 DEF WorkerInv
    <3> QED
      BY <3>1, <3>2
  <2> QED
    BY <1>1, <2>1, <2>3, Claiming DEF WorkerInv
<1>2. ASSUME NEW w \in Workers, NEW j \in Jobs, NEW a \in {"analysis", "error"},
             Analyze(w, j, a)
      PROVE  WorkerInv'
  BY <1>2 DEF Analyze, Batch, WorkerInv, rowVars
<1>3. ASSUME NEW w \in Workers, answer[w] # "none", NEW next, Write(w, next)
      PROVE  WorkerInv'
  <2>1. /\ view' = [view EXCEPT ![w][job[w]] = 0] /\ job[w] \in Jobs
        /\ job' = [job EXCEPT ![w] = NoJob]
        /\ answer' = [answer EXCEPT ![w] = "none"]
        /\ attempts' = attempts
    BY <1>3, Writing
  <2>2. \A v \in Workers \ {w} :
          view'[v] = view[v] /\ job'[v] = job[v] /\ answer'[v] = answer[v]
    BY <2>1
  <2>3. /\ job'[w] = NoJob /\ answer'[w] = "none"
        /\ \A j \in Jobs : view'[w][j] = 0 \/ view'[w][j] = view[w][j]
    BY <2>1
  <2> QED
    BY <2>1, <2>2, <2>3 DEF WorkerInv
<1>4. ASSUME NEW w \in Workers, CompleteRaises(w) PROVE WorkerInv'
  BY <1>4 DEF CompleteRaises, WorkerInv, rowVars
<1>5. ASSUME NEW w \in Workers, FailRaises(w) \/ Abort(w) PROVE WorkerInv'
  BY <1>5 DEF FailRaises, Abort, DropBatch, NothingHeld, WorkerInv, rowVars
<1>6. CASE UNCHANGED <<view, job, answer, attempts>>
  BY <1>6 DEF WorkerInv
<1> QED
  BY <1>1, <1>2, <1>3, <1>4, <1>5, <1>6
     DEF Next, WorkerStep, Complete, Fail, Enqueue, Tick, vars, rowVars, workVars

LEMMA RowStep ==
  TypeOK /\ WorkerInv /\ RowInv /\ AttemptBudget /\ [Next]_vars => (RowInv /\ AttemptBudget)'
<1> SUFFICES ASSUME TypeOK, WorkerInv, RowInv, AttemptBudget, [Next]_vars
             PROVE  (RowInv /\ AttemptBudget)'
  OBVIOUS
<1> USE CountAssumption DEF TypeOK
<1>1. ASSUME NEW j \in Jobs, Enqueue(j) PROVE (RowInv /\ AttemptBudget)'
  <2>1. /\ status[j] = "absent" /\ status' = [status EXCEPT ![j] = "pending"]
        /\ UNCHANGED <<attempts, answered>>
    BY <1>1 DEF Enqueue, ghostVars
  <2> QED
    BY <2>1 DEF RowInv, AttemptBudget
<1>2. ASSUME NEW w \in Workers, Claim(w) PROVE (RowInv /\ AttemptBudget)'
  <2>1. PICK B \in SUBSET Jobs : \A j \in Jobs :
          IF j \in B
          THEN status'[j] = "processing" /\ attempts'[j] = attempts[j] + 1
          ELSE status'[j] = status[j] /\ attempts'[j] = attempts[j]
    <3>1. PICK B \in SUBSET Jobs : \A j \in Jobs :
            IF j \in B
            THEN /\ Claimable(j)
                 /\ status'[j] = "processing" /\ owner'[j] = named[w]
                 /\ attempts'[j] = attempts[j] + 1
                 /\ view'[w][j] = attempts[j] + 1
            ELSE /\ status'[j] = status[j] /\ owner'[j] = owner[j]
                 /\ attempts'[j] = attempts[j]
                 /\ view'[w][j] = 0
      BY <1>2, Claiming
    <3> QED
      BY <3>1
  <2>2. answered' = answered
    BY <1>2, Claiming
  <2>3. ASSUME NEW j \in Jobs
        PROVE  /\ status'[j] = "absent" => attempts'[j] = 0
               /\ status'[j] = "processing" =>
                    attempts'[j] > 0 /\ attempts'[j] \notin answered'[j]
               /\ \A k \in answered'[j] : k <= attempts'[j]
    <3>1. /\ attempts[j] \in Nat /\ answered[j] \in SUBSET Nat
          /\ \A k \in answered[j] : k <= attempts[j]
      BY DEF RowInv
    <3>2. CASE j \in B
      <4>1. status'[j] = "processing" /\ attempts'[j] = attempts[j] + 1
        BY <2>1, <3>2
      <4>2. \A k \in answered[j] : k < attempts[j] + 1
        BY <3>1
      <4> QED
        BY <2>2, <3>1, <4>1, <4>2
    <3>3. CASE j \notin B
      BY <2>1, <2>2, <3>3 DEF RowInv
    <3> QED
      BY <3>2, <3>3
  <2>4. AttemptBudget'
    BY <2>1 DEF AttemptBudget
  <2> QED
    BY <2>3, <2>4 DEF RowInv
<1>3. ASSUME NEW w \in Workers, answer[w] # "none",
             \/ Write(w, "completed")
             \/ Write(w, StatusAfterFailure(job[w]))
      PROVE  (RowInv /\ AttemptBudget)'
  <2>1. PICK next \in {"completed", StatusAfterFailure(job[w])} : Write(w, next)
    BY <1>3
  <2>2. /\ job[w] \in Jobs
        /\ status' = [status EXCEPT ![job[w]] = next]
        /\ answered' = [answered EXCEPT ![job[w]] = @ \cup {attempts[job[w]]}]
        /\ attempts' = attempts
    BY <1>3, <2>1, Writing
  <2>3. /\ next \in Closed \cup {"pending"}
        /\ next = "failed" => attempts[job[w]] >= MaxAttempts
        /\ next = "pending" => attempts[job[w]] < MaxAttempts
    BY <2>2 DEF StatusAfterFailure, Closed
  <2>4. \A j \in Jobs :
          /\ j # job[w] => status'[j] = status[j] /\ answered'[j] = answered[j]
          /\ status'[job[w]] = next
          /\ \A k \in answered'[j] : k \in answered[j] \/ (j = job[w] /\ k = attempts[j])
    BY <2>2
  <2>5. RowInv'
    BY <2>2, <2>3, <2>4 DEF RowInv, Closed
  <2>6. AttemptBudget'
    BY <2>2, <2>3, <2>4 DEF AttemptBudget
  <2> QED
    BY <2>5, <2>6
<1>4. CASE UNCHANGED <<status, attempts, answered>>
  BY <1>4 DEF RowInv, AttemptBudget
<1> QED
  BY <1>1, <1>2, <1>3, <1>4
     DEF Next, WorkerStep, Complete, Fail, CompleteRaises, FailRaises, Abort, Analyze,
         Tick, vars, rowVars, ghostVars

LEMMA OwnerStep == TypeOK /\ WorkerInv /\ OwnerInv /\ [Next]_vars => OwnerInv'
<1> SUFFICES ASSUME TypeOK, WorkerInv, OwnerInv, [Next]_vars PROVE OwnerInv'
  OBVIOUS
<1>a. named' = named
  <2>1. ASSUME NEW w \in Workers, NEW next, Write(w, next) PROVE named' = named
    BY <2>1 DEF Write
  <2>2. ASSUME NEW w \in Workers, WorkerStep(w) PROVE named' = named
    BY <2>1, <2>2 DEF WorkerStep, Claim, Analyze, Complete, CompleteRaises, Fail,
                      FailRaises, ghostVars
  <2> QED
    BY <2>2 DEF Next, Enqueue, Abort, Tick, vars, ghostVars
<1> SUFFICES ASSUME Distinct PROVE OwnerInv'
  BY <1>a DEF OwnerInv, Distinct
<1> USE NameAssumption DEF TypeOK
<1>1. ASSUME NEW w \in Workers, Claim(w) PROVE OwnerInv'
  <2>1. ASSUME NEW v \in Workers, NEW j \in Jobs, view'[v][j] # 0, owner'[j] = named'[v]
        PROVE  view'[v][j] = attempts'[j]
    <3>1. CASE v = w
      BY <1>1, <2>1, <3>1, Claiming
    <3>2. CASE v # w
      BY <1>1, <2>1, <3>2, Claiming DEF OwnerInv, Distinct
    <3> QED
      BY <3>1, <3>2
  <2> QED
    BY <2>1 DEF OwnerInv
<1>2. ASSUME NEW w \in Workers, answer[w] # "none", NEW next, Write(w, next)
      PROVE  OwnerInv'
  BY <1>2, Writing DEF OwnerInv
<1>3. ASSUME NEW w \in Workers, FailRaises(w) \/ Abort(w) PROVE OwnerInv'
  <2>1. /\ view' = [view EXCEPT ![w] = [j \in Jobs |-> 0]]
        /\ UNCHANGED <<owner, attempts, named>>
    BY <1>3 DEF FailRaises, Abort, DropBatch, NothingHeld, rowVars, ghostVars
  <2> QED
    BY <2>1 DEF OwnerInv
<1>4. CASE UNCHANGED <<view, owner, attempts, named>>
  BY <1>4 DEF OwnerInv
<1> QED
  BY <1>1, <1>2, <1>3, <1>4
     DEF Next, WorkerStep, Complete, Fail, CompleteRaises, Analyze, Enqueue, Tick,
         vars, rowVars, workVars, ghostVars

LEMMA InvStep == Inv /\ [Next]_vars => Inv'
BY TypeStep, WorkerStepKept, RowStep, OwnerStep DEF Inv

THEOREM Invariance == Spec => []Inv
BY InitInv, InvStep, PTL DEF Spec

(* TypeOK: every variable of the queue keeps its type.                     *)
THEOREM QueueTypes == Spec => []TypeOK
BY Invariance, PTL DEF Inv

(* AttemptBudget: a job is given up after MaxAttempts attempts at least,   *)
(* and one that waits for another attempt has one left.                    *)
THEOREM BudgetCorrect == Spec => []AttemptBudget
BY Invariance, PTL DEF Inv

(* AnswersAreFresh: the owner check of complete and fail is a fence when   *)
(* worker_ids are not shared.                                              *)
THEOREM AnswersCorrect == Spec => AnswersAreFresh
<1> DEFINE Fresh ==
      \A j \in Jobs :
        Distinct /\ answered'[j] # answered[j] =>
          \E w \in Workers : /\ job[w] = j /\ job'[w] = NoJob
                             /\ view[w][j] = attempts[j]
<1>1. Inv /\ [Next]_vars => [Fresh]_vars
  <2> SUFFICES ASSUME Inv, [Next]_vars PROVE Fresh
    OBVIOUS
  <2> USE DEF Inv, TypeOK
  <2>1. ASSUME NEW w \in Workers, answer[w] # "none", NEW next, Write(w, next)
        PROVE  Fresh
    <3>1. /\ job'[w] = NoJob
          /\ \A j \in Jobs : answered'[j] # answered[j] => j = job[w]
      BY <2>1, Writing
    <3>2. view[w][job[w]] # 0 /\ owner[job[w]] = named[w] /\ job[w] \in Jobs
      BY <2>1, Writing, JobAssumption DEF WorkerInv
    <3>3. Distinct => view[w][job[w]] = attempts[job[w]]
      BY <3>2 DEF OwnerInv
    <3> QED
      BY <3>1, <3>3
  <2>2. CASE UNCHANGED answered
    BY <2>2
  <2> QED
    BY <2>1, <2>2
       DEF Next, WorkerStep, Complete, Fail, CompleteRaises, FailRaises, Abort, Claim,
           Analyze, Enqueue, Tick, vars, ghostVars
<1> QED
  BY <1>1, Invariance, PTL DEF Spec, AnswersAreFresh

------------------------------------------------------------------------------
PhaseMap == [j \in Jobs |-> IF status[j] = "absent" THEN "none"
                            ELSE IF status[j] \in Closed THEN "closed"
                            ELSE "open"]

LEMMA LedgerInit == Init => Ledger!Init
<1> SUFFICES ASSUME Init PROVE Ledger!Init
  OBVIOUS
<1> QED
  BY DEF Init, Ledger!Init

LEMMA LedgerStep == Inv /\ [Next]_vars => [Ledger!Next]_(Ledger!ledger)
<1> SUFFICES ASSUME Inv, [Next]_vars PROVE Ledger!Next \/ UNCHANGED Ledger!ledger
  BY DEF Ledger!ledger
<1> USE DEF Inv, TypeOK
<1>1. ASSUME NEW j \in Jobs, Enqueue(j) PROVE Ledger!Open(j)
  <2>1. PhaseMap[j] = "none" /\ PhaseMap' = [PhaseMap EXCEPT ![j] = "open"]
    BY <1>1 DEF Enqueue, PhaseMap, Closed
  <2> QED
    BY <1>1, <2>1 DEF Enqueue, Ledger!Open, PhaseMap, ghostVars
<1>2. ASSUME NEW w \in Workers, Claim(w)
      PROVE  \E B \in SUBSET Jobs : Ledger!HandOut(B)
  <2>1. PICK B \in SUBSET {j \in Jobs : Claimable(j)} :
          /\ status' = [j \in Jobs |-> IF j \in B THEN "processing" ELSE status[j]]
          /\ attempts' =
               [j \in Jobs |-> IF j \in B THEN attempts[j] + 1 ELSE attempts[j]]
          /\ answered' = answered
    BY <1>2 DEF Claim, ghostVars
  <2>2. \A j \in B : PhaseMap[j] = "open"
    BY DEF PhaseMap, Claimable, Closed
  <2>3. PhaseMap' = PhaseMap
    BY <2>1 DEF PhaseMap, Claimable, Closed
  <2>4. Ledger!HandOut(B)
    BY <2>1, <2>2, <2>3 DEF Ledger!HandOut, PhaseMap
  <2> QED
    BY <2>4
<1>3. ASSUME NEW w \in Workers, answer[w] # "none", NEW next \in Closed \cup {"pending"},
             Write(w, next)
      PROVE  \E s \in Jobs, p \in {"open", "quarantined", "closed"} : Ledger!Answer(s, p)
  <2> DEFINE j == job[w]
             p == IF next = "pending" THEN "open" ELSE "closed"
  <2>1. /\ j \in Jobs /\ status[j] = "processing"
        /\ status' = [status EXCEPT ![j] = next]
        /\ answered' = [answered EXCEPT ![j] = @ \cup {attempts[j]}]
        /\ attempts' = attempts
    BY <1>3, Writing
  <2>2. PhaseMap[j] = "open" /\ PhaseMap' = [PhaseMap EXCEPT ![j] = p]
    BY <2>1 DEF PhaseMap, Closed
  <2>3. attempts[j] > 0 /\ attempts[j] \notin answered[j]
    BY <2>1 DEF RowInv
  <2>4. p \in {"open", "quarantined", "closed"}
    OBVIOUS
  <2> HIDE DEF j, p
  <2>5. Ledger!Answer(j, p)
    BY <2>1, <2>2, <2>3 DEF Ledger!Answer, PhaseMap
  <2> QED
    BY <2>1, <2>4, <2>5
<1>4. CASE UNCHANGED <<status, attempts, answered>>
  BY <1>4 DEF Ledger!ledger
<1> QED
  BY <1>1, <1>2, <1>3, <1>4
     DEF Next, WorkerStep, Complete, Fail, StatusAfterFailure, CompleteRaises, FailRaises,
         Abort, Analyze, Tick, vars, rowVars, ghostVars, Ledger!Next, Closed

(* The queue of analyses implements LeaseLedger, with shared worker_ids    *)
(* too.                                                                    *)
THEOREM QueueImplements == Spec => LedgerSpec
BY LedgerInit, LedgerStep, Invariance, PTL DEF Spec, LedgerSpec, Ledger!Spec
==============================================================================
