---------------------------- MODULE AnalysisQueue -----------------------------
(***************************************************************************)
(* The durable queue of semantic analyses: conversation.analysis_jobs, the *)
(* statements of ConversationAnalysisQueue on it, and the loop of          *)
(* ConversationAnalysisWorker, which claims a batch under a lease, asks    *)
(* the analyzer about one reply after the other and writes each answer in  *)
(* a transaction of its own.                                               *)
(*                                                                         *)
(* A worker writes under its lease_owner name.  Names default to           *)
(* "conversation-analyzer" and may be shared by worker processes.          *)
(*                                                                         *)
(* lease[j] counts the ticks until the lease expires.                      *)
(*                                                                         *)
(* Bounds: MaxAborts batches die, MaxSlow leases run out on a worker that  *)
(* is still at work.                                                       *)
(***************************************************************************)
EXTENDS Naturals, FiniteSets

CONSTANTS
  Jobs,          \* one per stored reply
  Workers,       \* worker processes
  Names,
  Namings,       \* the worker_ids the processes may be started with
  NoName,        \* SQL null in lease_owner
  NoJob,
  BatchSize,
  MaxAttempts,   \* fail gives up from this attempt_count on
  LeaseTicks,
  MaxAborts, MaxSlow

ASSUME NameAssumption ==
  Namings \in SUBSET [Workers -> Names] /\ NoName \notin Names
ASSUME JobAssumption == IsFiniteSet(Jobs) /\ NoJob \notin Jobs
ASSUME CountAssumption ==
  /\ BatchSize \in Nat \ {0} /\ MaxAttempts \in Nat \ {0}
  /\ LeaseTicks \in Nat \ {0} /\ MaxAborts \in Nat /\ MaxSlow \in Nat

VARIABLES
  status,    \* analysis_jobs.status ("absent" before the insert)
  owner,     \* lease_owner
  lease,     \* lease_until
  attempts,  \* attempt_count
  view,      \* the attempt of each job a worker has still to analyse
  job,       \* the job a worker is on
  answer,    \* what it holds: nothing yet, an analysis, an error, or the
             \* RuntimeError of a completion that lost its lease
  named,     \* the worker_id of each process, fixed from the start
  answered,  \* the attempts of a job that were completed or failed
  aborts,    \* batches that died
  slow       \* leases that ran out on a worker at work

rowVars == <<status, owner, lease, attempts>>
workVars == <<view, job, answer>>
ghostVars == <<named, answered>>
vars == <<rowVars, workVars, ghostVars, aborts, slow>>

Status == {"absent", "pending", "processing", "completed", "failed"}
Closed == {"completed", "failed"}

NothingHeld == [j \in Jobs |-> 0]
Batch(w) == {j \in Jobs : view[w][j] # 0}

Init ==
  /\ status = [j \in Jobs |-> "absent"]
  /\ owner = [j \in Jobs |-> NoName]
  /\ lease = [j \in Jobs |-> 0]
  /\ attempts = [j \in Jobs |-> 0]
  /\ view = [w \in Workers |-> NothingHeld]
  /\ job = [w \in Workers |-> NoJob]
  /\ answer = [w \in Workers |-> "none"]
  /\ named \in Namings
  /\ answered = [j \in Jobs |-> {}]
  /\ aborts = 0 /\ slow = 0

------------------------------------------------------------------------------
(* enqueue: the first call for a reply inserts its job.                    *)
Enqueue(j) ==
  /\ status[j] = "absent"
  /\ status' = [status EXCEPT ![j] = "pending"]
  /\ UNCHANGED <<owner, lease, attempts, workVars, ghostVars, aborts, slow>>

(* Faulty variant: jobs under an expired lease are left alone.             *)
BugPendingOnly(j) == status[j] = "pending"

Claimable(j) ==
  \/ status[j] = "pending"
  \/ status[j] = "processing" /\ lease[j] = 0

(* claim: up to BatchSize candidates; rows another claim in flight has     *)
(* locked are skipped, so any non-empty part of them may be what is found. *)
Claim(w) ==
  /\ Batch(w) = {} /\ job[w] = NoJob
  /\ \E B \in SUBSET {j \in Jobs : Claimable(j)} :
       /\ B # {} /\ Cardinality(B) <= BatchSize
       /\ status' = [j \in Jobs |-> IF j \in B THEN "processing" ELSE status[j]]
       /\ owner' = [j \in Jobs |-> IF j \in B THEN named[w] ELSE owner[j]]
       /\ lease' = [j \in Jobs |-> IF j \in B THEN LeaseTicks ELSE lease[j]]
       /\ attempts' =
            [j \in Jobs |-> IF j \in B THEN attempts[j] + 1 ELSE attempts[j]]
       /\ view' = [view EXCEPT ![w] =
            [j \in Jobs |-> IF j \in B THEN attempts[j] + 1 ELSE 0]]
  /\ UNCHANGED <<job, answer, ghostVars, aborts, slow>>

(* ConversationAnalyzer.analyze returns an analysis or raises after its    *)
(* own retries.                                                            *)
Analyze(w, j, a) ==
  /\ job[w] = NoJob
  /\ j \in Batch(w)
  /\ job' = [job EXCEPT ![w] = j]
  /\ answer' = [answer EXCEPT ![w] = a]
  /\ UNCHANGED <<rowVars, view, ghostVars, aborts, slow>>

(* Faulty variants: a row nobody holds is taken for one's own; or the      *)
(* owner is not asked for.                                                 *)
BugFreeRow(j, w) == owner[j] \in {named[w], NoName}
BugNoOwner(j, w) == status[j] = "processing"

(* The where clause of complete and fail.                                  *)
HoldsLease(j, w) == status[j] = "processing" /\ owner[j] = named[w]

(* complete or fail on the worker's job, leaving it at the status next.    *)
Write(w, next) ==
  LET j == job[w] IN
    /\ HoldsLease(j, w)
    /\ status' = [status EXCEPT ![j] = next]
    /\ owner' = [owner EXCEPT ![j] = NoName]
    /\ lease' = [lease EXCEPT ![j] = 0]
    /\ answered' = [answered EXCEPT ![j] = @ \cup {attempts[j]}]
    /\ view' = [view EXCEPT ![w][j] = 0]
    /\ job' = [job EXCEPT ![w] = NoJob]
    /\ answer' = [answer EXCEPT ![w] = "none"]
    /\ UNCHANGED <<attempts, named, aborts, slow>>

Complete(w) ==
  /\ answer[w] = "analysis"
  /\ Write(w, "completed")

(* No row is updated: "analysis completion lost worker lease" is raised,   *)
(* and run_once catches it like an error of the analyzer.                  *)
CompleteRaises(w) ==
  /\ answer[w] = "analysis"
  /\ ~HoldsLease(job[w], w)
  /\ answer' = [answer EXCEPT ![w] = "lost"]
  /\ UNCHANGED <<rowVars, view, job, ghostVars, aborts, slow>>

StatusAfterFailure(j) ==
  IF attempts[j] >= MaxAttempts THEN "failed" ELSE "pending"

Fail(w) ==
  /\ answer[w] \in {"error", "lost"}
  /\ Write(w, StatusAfterFailure(job[w]))

DropBatch(w) ==
  /\ view' = [view EXCEPT ![w] = NothingHeld]
  /\ job' = [job EXCEPT ![w] = NoJob]
  /\ answer' = [answer EXCEPT ![w] = "none"]

(* No row is updated by fail either: its RuntimeError leaves run_once, and *)
(* the rest of the batch stays claimed.                                    *)
FailRaises(w) ==
  /\ answer[w] \in {"error", "lost"}
  /\ ~HoldsLease(job[w], w)
  /\ DropBatch(w)
  /\ UNCHANGED <<rowVars, ghostVars, aborts, slow>>

(* A database error nobody catches, or the end of the process.             *)
Abort(w) ==
  /\ Batch(w) # {}
  /\ aborts < MaxAborts
  /\ aborts' = aborts + 1
  /\ DropBatch(w)
  /\ UNCHANGED <<rowVars, ghostVars, slow>>

(* The newest claim on the job is a worker's that is still at work.        *)
AtWork(j) == \E w \in Workers : owner[j] = named[w] /\ view[w][j] = attempts[j]

(* Time passes; a batch of up to ten analyses, with four requests of       *)
(* twenty seconds each, may outlive its lease of two minutes.              *)
Tick ==
  LET late == {j \in Jobs : lease[j] = 1 /\ AtWork(j)} IN
    /\ \E j \in Jobs : lease[j] > 0
    /\ slow + Cardinality(late) <= MaxSlow
    /\ slow' = slow + Cardinality(late)
    /\ lease' = [j \in Jobs |-> IF lease[j] > 0 THEN lease[j] - 1 ELSE 0]
    /\ UNCHANGED <<status, owner, attempts, workVars, ghostVars, aborts>>

WorkerStep(w) ==
  \/ Claim(w) \/ Complete(w) \/ CompleteRaises(w) \/ Fail(w) \/ FailRaises(w)
  \/ \E j \in Jobs, a \in {"analysis", "error"} : Analyze(w, j, a)

Next ==
  \/ \E j \in Jobs : Enqueue(j)
  \/ \E w \in Workers : WorkerStep(w) \/ Abort(w)
  \/ Tick

Spec == Init /\ [][Next]_vars

(* Workers are run again and again, and leases run out in the end.         *)
FairSpec ==
  Spec /\ WF_vars(Tick) /\ \A w \in Workers : WF_vars(WorkerStep(w))

------------------------------------------------------------------------------
(* The values every variable ranges over.                                  *)
TypeOK ==
  /\ status \in [Jobs -> Status]
  /\ owner \in [Jobs -> Names \cup {NoName}]
  /\ lease \in [Jobs -> 0 .. LeaseTicks]
  /\ attempts \in [Jobs -> Nat]
  /\ view \in [Workers -> [Jobs -> Nat]]
  /\ job \in [Workers -> Jobs \cup {NoJob}]
  /\ answer \in [Workers -> {"none", "analysis", "error", "lost"}]
  /\ named \in Namings
  /\ answered \in [Jobs -> SUBSET Nat]
  /\ aborts \in 0 .. MaxAborts
  /\ slow \in 0 .. MaxSlow

(* A job is given up only after MaxAttempts attempts, and one that waits   *)
(* for a retry has attempts left, although a reclaim counts as one and no  *)
(* claim looks at the count.                                               *)
AttemptBudget ==
  \A j \in Jobs :
    /\ status[j] = "failed" => attempts[j] >= MaxAttempts
    /\ status[j] = "pending" => attempts[j] < MaxAttempts

(* Between processes with names of their own the lease is a fence: only    *)
(* the process with the newest claim on a job can answer it, however late  *)
(* the others come.                                                        *)
Distinct == \A v, w \in Workers : v # w => named[v] # named[w]
AnswersAreFresh ==
  [][\A j \in Jobs :
       Distinct /\ answered'[j] # answered[j] =>
         \E w \in Workers : /\ job[w] = j /\ job'[w] = NoJob
                            /\ view[w][j] = attempts[j]]_vars

(* A job that was enqueued is completed or given up in the end, whatever   *)
(* batches die and whichever worker a lease is lost to.                    *)
Finishes == \A j \in Jobs : status[j] = "pending" ~> status[j] \in Closed

(* The queue implements the ledger of leased work, with shared names too:  *)
(* a late answer of another process counts as the answer to the newest     *)
(* attempt, and the second one is refused.                                 *)
Ledger == INSTANCE LeaseLedger WITH
            Items <- Jobs,
            phase <- [j \in Jobs |-> IF status[j] = "absent" THEN "none"
                                     ELSE IF status[j] \in Closed THEN "closed"
                                     ELSE "open"],
            tries <- attempts
LedgerSpec == Ledger!Spec
==============================================================================
