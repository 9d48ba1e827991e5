--------------------------- MODULE MailQueueProofs ---------------------------
(***************************************************************************)
(* What MailQueue guarantees for every number of sends, workers, attempts  *)
(* and ticks.  The properties of MailQueue are conjuncts or consequences   *)
(* of the inductive invariant Inv below.                                   *)
(***************************************************************************)
EXTENDS MailQueue, ListTheorems

(* A worker outside its batch loop holds nothing; inside, the send it      *)
(* submits is one it holds, and what it saw accepted was accepted.         *)
WorkerInv ==
  \A w \in Workers :
    /\ pc[w] # "working" => view[w] = NothingHeld /\ call[w] = NoCall
    /\ call[w] # NoCall => call[w].send \in Batch(w)
    /\ InDoubt(w) => delivered[call[w].send] > 0

(* Exactly the rows that are claimed or quarantined have an owner, a row   *)
(* nobody claimed yet has no attempt, and the log ends with the newest     *)
(* attempt.                                                                *)
RowInv ==
  \A s \in Sends :
    /\ owner[s] # NoWorker <=> status[s] \in {"claiming", "uncertain"}
    /\ status[s] = "absent" => attempts[s] = 0
    /\ status[s] = "claiming" => attempts[s] > 0
    /\ \A n \in 1 .. AttemptCap : n > attempts[s] => log[s][n] = "none"

(* A lookup in flight is about a quarantined send, and an acceptance it    *)
(* found is real.                                                          *)
ProbeInv ==
  \A s \in Sends :
    /\ probe[s] # "none" => status[s] = "uncertain"
    /\ probe[s] = "ACCEPTED" => delivered[s] > 0

(* Without faults a held send is owned under a running lease, an accepted  *)
(* send is on its way to "sent" or "uncertain" in the hands of the worker  *)
(* that submitted it, and a rejection found by a lookup stays true.        *)
TimelyInv ==
  faults = {} =>
    \A s \in Sends :
      /\ delivered[s] <= 1
      /\ \A w \in Workers : s \in Batch(w) => owner[s] = w /\ lease[s] > 0
      /\ delivered[s] > 0 =>
           \/ status[s] \in {"sent", "uncertain"}
           \/ \E w \in Workers : InDoubt(w) /\ call[w].send = s
      /\ probe[s] = "REJECTED" => delivered[s] = 0

(* With the gate wired, a worker that passed it before Operations closed   *)
(* it has not claimed since.                                               *)
GateInv ==
  /\ PauseTakesEffect
  /\ \A w \in Workers :
       pc[w] = "cleared" /\ ~SendAllowed(control) => late[w] = 0

Inv == /\ TypeOK /\ WorkerInv /\ RowInv /\ FenceHolds /\ RetryBudget
       /\ LogExplainsStatus /\ ProbeInv /\ SentIsReal /\ TimelyInv

------------------------------------------------------------------------------
(* The tables of provider results and outcomes are total.                  *)
LEMMA Tables ==
  /\ \A e \in SmtpEvents : ProviderResult(e) \in Outcomes
  /\ \A e \in SmtpEvents, n \in Nat : Outcome(e, n) \in Outcomes
  /\ \A o \in Outcomes : StatusAfter(o) \in Status
BY DEF SmtpEvents, Outcomes, Status, ProviderResult, ProviderResults, Outcome,
       MayRetry, StatusAfter, StatusByOutcome

(* What is known of a worker that is about to record an answer.            *)
LEMMA Recording ==
  ASSUME TypeOK, WorkerInv, NEW w \in Workers, call[w] # NoCall
  PROVE  /\ call[w] \in [send : Sends, event : SmtpEvents]
         /\ call[w].send \in Sends
         /\ call[w].event \in SmtpEvents
         /\ view[w][call[w].send] \in 1 .. AttemptCap
         /\ Outcome(call[w].event, view[w][call[w].send]) \in Outcomes
<1>1. call[w] \in [send : Sends, event : SmtpEvents]
  BY DEF TypeOK, WorkerTypeOK
<1>2. call[w].send \in Batch(w)
  BY DEF WorkerInv
<1>3. view[w][call[w].send] \in 1 .. AttemptCap
  BY <1>1, <1>2, AttemptAssumption DEF TypeOK, WorkerTypeOK, Batch
<1> QED
  BY <1>1, <1>3, AttemptAssumption, Tables

(* The queue starts empty and the workers idle, within their types.        *)
LEMMA TypeInit == Init => TypeOK
BY AttemptAssumption, LeaseAssumption, LimitAssumption
   DEF Init, TypeOK, RowTypeOK, WorkerTypeOK, WorldTypeOK, Status, Outcomes,
       NothingHeld, Twice

(* The columns of the queue keep their types.                              *)
LEMMA RowTypeStep ==
  ASSUME TypeOK, WorkerInv, FenceHolds, [Next]_vars
  PROVE  RowTypeOK'
<1> USE AttemptAssumption, LeaseAssumption, LimitAssumption DEF TypeOK, RowTypeOK
<1>1. ASSUME NEW s \in Sends, Enqueue(s) PROVE RowTypeOK'
  <2>1. PICK d \in 0 .. MaxDelay : wait' = [wait EXCEPT ![s] = d]
    BY <1>1 DEF Enqueue
  <2> QED
    BY <1>1, <2>1 DEF Enqueue, Status
<1>2. ASSUME NEW w \in Workers, Claim(w) PROVE RowTypeOK'
  <2>1. PICK B \in SUBSET {s \in Sends : Claimable(s)} :
          /\ status' = [s \in Sends |-> IF s \in B THEN "claiming" ELSE status[s]]
          /\ owner' = [s \in Sends |-> IF s \in B THEN NewOwner(s, w) ELSE owner[s]]
          /\ lease' = [s \in Sends |-> IF s \in B THEN LeaseTicks ELSE lease[s]]
          /\ attempts' =
               [s \in Sends |-> IF s \in B THEN attempts[s] + 1 ELSE attempts[s]]
    BY <1>2 DEF Claim, Batches, Skippable
  <2>2. \A s \in B : attempts[s] + 1 \in 0 .. AttemptCap
    BY DEF Claimable
  <2>3. UNCHANGED <<wait, log, sentToday>>
    BY <1>2 DEF Claim
  <2> QED
    BY <2>1, <2>2, <2>3 DEF Status, NewOwner
<1>3. ASSUME NEW w \in Workers, Record(w) PROVE RowTypeOK'
  <2> DEFINE s == call[w].send
             o == Outcome(call[w].event, view[w][s])
  <2>1. /\ s \in Sends
        /\ view[w][s] \in 1 .. AttemptCap
        /\ o \in Outcomes
    BY <1>3, Recording DEF Record
  <2>2. /\ OwnsClaim(s, w)
        /\ RecordSendAttempt(s, o)
        /\ UNCHANGED attempts
        /\ IF o = "temporary_failure"
           THEN \E d \in 0 .. Backoff[view[w][s]] : wait' = [wait EXCEPT ![s] = d]
           ELSE wait' = [wait EXCEPT ![s] = 0]
    BY <1>3 DEF Record
  <2>3. o = "temporary_failure" => view[w][s] \in 1 .. MaxAttempts
    BY <2>1 DEF Outcome, MayRetry
  <2>4. s \in Batch(w) /\ owner[s] = w
    BY <2>1, <2>2 DEF Batch, OwnsClaim
  <2>5. attempts[s] \in 1 .. AttemptCap
    BY <2>1, <2>4 DEF FenceHolds
  <2> HIDE DEF s, o
  <2>6. log' \in [Sends -> [1 .. AttemptCap -> Outcomes \cup {"none"}]]
    BY <2>1, <2>2, <2>5 DEF RecordSendAttempt
  <2>7. status' \in [Sends -> Status]
    BY <2>1, <2>2, Tables DEF RecordSendAttempt
  <2>8. /\ sentToday' \in SUBSET Sends
        /\ owner' \in [Sends -> Workers \cup {NoWorker}]
        /\ lease' \in [Sends -> 0 .. LeaseTicks]
    BY <2>1, <2>2 DEF RecordSendAttempt
  <2>9. wait' \in [Sends -> 0 .. MaxDelay]
    <3>1. CASE o = "temporary_failure"
      <4>1. PICK d \in 0 .. Backoff[view[w][s]] : wait' = [wait EXCEPT ![s] = d]
        BY <2>2, <3>1
      <4>2. Backoff[view[w][s]] \in 0 .. MaxDelay
        BY <2>3, <3>1
      <4>3. d \in 0 .. MaxDelay
        BY <4>2
      <4> QED
        BY <4>1, <4>3
    <3>2. CASE o # "temporary_failure"
      <4>1. wait' = [wait EXCEPT ![s] = 0]
        BY <2>2, <3>2
      <4>2. wait \in [Sends -> 0 .. MaxDelay] /\ 0 \in 0 .. MaxDelay
        OBVIOUS
      <4> QED
        BY <4>1, <4>2
    <3> QED
      BY <3>1, <3>2
  <2> QED
    BY <2>2, <2>6, <2>7, <2>8, <2>9
<1>4. ASSUME NEW s \in Sends, Resolve(s) PROVE RowTypeOK'
  BY <1>4 DEF Resolve, Status
<1>5. ASSUME NEW p \in People, CancelFutureSends(p) PROVE RowTypeOK'
  BY <1>5 DEF CancelFutureSends, Status
<1>6. CASE Tick
  <2>1. /\ lease' = [s \in Sends |-> IF lease[s] > 0 THEN lease[s] - 1 ELSE 0]
        /\ wait' = [s \in Sends |-> IF wait[s] > 0 THEN wait[s] - 1 ELSE 0]
        /\ UNCHANGED <<status, owner, attempts, log, sentToday>>
    BY <1>6 DEF Tick
  <2>2. \A n, k \in Nat : n \in 0 .. k /\ n > 0 => n - 1 \in 0 .. k
    OBVIOUS
  <2>3. LeaseTicks \in Nat /\ MaxDelay \in Nat
    OBVIOUS
  <2>4. lease' \in [Sends -> 0 .. LeaseTicks] /\ wait' \in [Sends -> 0 .. MaxDelay]
    BY <2>1, <2>2, <2>3
  <2> QED
    BY <2>1, <2>4
<1>7. CASE NewDay
  BY <1>7 DEF NewDay
<1>8. CASE UNCHANGED rowVars
  BY <1>8 DEF rowVars
<1> QED
  BY <1>1, <1>2, <1>3, <1>4, <1>5, <1>6, <1>7, <1>8
     DEF Next, WorkerStep, SendStep, PersonStep, Clear, Submit, OwnershipLost,
         Abort, Lookup, AddSuppression, PersistReply, ImportReply, Flip,
         SetControl, vars

(* So do the workers' variables.                                           *)
LEMMA WorkerTypeStep ==
  ASSUME TypeOK, WorkerInv, [Next]_vars
  PROVE  WorkerTypeOK'
<1> USE AttemptAssumption, LimitAssumption DEF TypeOK, WorkerTypeOK, Twice
<1>1. ASSUME NEW w \in Workers, Clear(w) PROVE WorkerTypeOK'
  BY <1>1 DEF Clear
<1>2. ASSUME NEW w \in Workers, Claim(w) PROVE WorkerTypeOK'
  <2>1. PICK B \in SUBSET {s \in Sends : Claimable(s)} :
          /\ view' = [view EXCEPT ![w] =
               [s \in Sends |-> IF s \in B THEN attempts[s] + 1 ELSE 0]]
          /\ pc' = [pc EXCEPT ![w] = IF B = {} THEN "idle" ELSE "working"]
          /\ late' = IF B # {} /\ ~SendAllowed(control)
                     THEN [late EXCEPT ![w] = OneMore(@)] ELSE late
    BY <1>2 DEF Claim, Batches, Skippable
  <2>2. \A s \in B : attempts[s] + 1 \in 0 .. AttemptCap
    BY DEF Claimable, RowTypeOK
  <2>3. [s \in Sends |-> IF s \in B THEN attempts[s] + 1 ELSE 0]
          \in [Sends -> 0 .. AttemptCap]
    BY <2>2
  <2>4. view' \in [Workers -> [Sends -> 0 .. AttemptCap]]
    BY <2>1, <2>3
  <2>5. /\ pc' \in [Workers -> {"idle", "cleared", "working"}]
        /\ late' \in [Workers -> 0 .. Twice]
    BY <2>1 DEF OneMore
  <2>6. UNCHANGED <<call, aborts>>
    BY <1>2 DEF Claim
  <2> QED
    BY <2>4, <2>5, <2>6
<1>3. ASSUME NEW w \in Workers, NEW s \in Sends, NEW e \in SmtpEvents,
             Submit(w, s, e)
      PROVE  WorkerTypeOK'
  BY <1>3 DEF Submit
<1>4. ASSUME NEW w \in Workers, Record(w) PROVE WorkerTypeOK'
  <2>1. call[w].send \in Sends
    BY <1>4, Recording DEF Record
  <2> QED
    BY <1>4, <2>1 DEF Record
<1>5. ASSUME NEW w \in Workers, DropBatch(w), UNCHANGED late,
             aborts' \in 0 .. MaxAborts
      PROVE  WorkerTypeOK'
  BY <1>5 DEF DropBatch, NothingHeld
<1>6. ASSUME NEW w \in Workers, OwnershipLost(w) \/ Abort(w) PROVE WorkerTypeOK'
  BY <1>5, <1>6 DEF OwnershipLost, Abort
<1>7. ASSUME NEW row \in ControlRows \cup {NoRow}, SetControl(row)
      PROVE  WorkerTypeOK'
  BY <1>7 DEF SetControl, workerVars
<1>8. CASE UNCHANGED <<workerVars, late, aborts>>
  BY <1>8 DEF workerVars
<1> QED
  BY <1>1, <1>2, <1>3, <1>4, <1>6, <1>7, <1>8
     DEF Next, WorkerStep, SendStep, PersonStep, Enqueue, Lookup, Resolve,
         CancelFutureSends, AddSuppression, PersistReply, ImportReply, Flip,
         Tick, NewDay, vars

(* And the recipients, the operators and the world outside.                *)
LEMMA WorldTypeStep ==
  ASSUME TypeOK, [Next]_vars
  PROVE  WorldTypeOK'
<1> USE DEF TypeOK, WorldTypeOK, Twice
<1>1. ASSUME NEW w \in Workers, NEW s \in Sends, NEW e \in SmtpEvents,
             Submit(w, s, e)
      PROVE  WorldTypeOK'
  BY <1>1 DEF Submit, OneMore, peopleVars, opsVars
<1>2. ASSUME NEW s \in Sends, Lookup(s) PROVE WorldTypeOK'
  BY <1>2 DEF Lookup, peopleVars, opsVars, ghostVars
<1>3. ASSUME NEW s \in Sends, Resolve(s) PROVE WorldTypeOK'
  BY <1>3 DEF Resolve, peopleVars, opsVars, ghostVars
<1>4. ASSUME NEW p \in People, AddSuppression(p) \/ PersistReply(p) \/ ImportReply(p)
      PROVE  WorldTypeOK'
  BY <1>4 DEF AddSuppression, PersistReply, ImportReply, opsVars, ghostVars
<1>5. ASSUME NEW x \in Switches, Flip(x) PROVE WorldTypeOK'
  BY <1>5 DEF Flip, peopleVars, ghostVars
<1>6. ASSUME NEW row \in ControlRows \cup {NoRow}, SetControl(row)
      PROVE  WorldTypeOK'
  BY <1>6 DEF SetControl, peopleVars, ghostVars
<1>7. CASE UNCHANGED <<probe, peopleVars, opsVars, ghostVars>>
  BY <1>7 DEF peopleVars, opsVars, ghostVars
<1> QED
  BY <1>1, <1>2, <1>3, <1>4, <1>5, <1>6, <1>7
     DEF Next, WorkerStep, SendStep, PersonStep, Enqueue, Clear, Claim, Record,
         OwnershipLost, Abort, CancelFutureSends, Tick, NewDay, vars

------------------------------------------------------------------------------
(* What a claim of the batch B does.                                       *)
ClaimEffect(w, B) ==
  /\ status' = [s \in Sends |-> IF s \in B THEN "claiming" ELSE status[s]]
  /\ owner' = [s \in Sends |-> IF s \in B THEN w ELSE owner[s]]
  /\ lease' = [s \in Sends |-> IF s \in B THEN LeaseTicks ELSE lease[s]]
  /\ attempts' =
       [s \in Sends |-> IF s \in B THEN attempts[s] + 1 ELSE attempts[s]]
  /\ view' = [view EXCEPT ![w] =
       [s \in Sends |-> IF s \in B THEN attempts[s] + 1 ELSE 0]]
  /\ pc' = [pc EXCEPT ![w] = IF B = {} THEN "idle" ELSE "working"]

(* A claim starts from an empty batch and takes candidates only.           *)
LEMMA Claiming ==
  ASSUME TypeOK, WorkerInv, NEW w \in Workers, Claim(w)
  PROVE  /\ view[w] = NothingHeld /\ call[w] = NoCall
         /\ \E B \in SUBSET {s \in Sends : Claimable(s)} : ClaimEffect(w, B)
         /\ UNCHANGED <<wait, log, sentToday, call, probe, delivered, faults>>
<1>1. view[w] = NothingHeld /\ call[w] = NoCall
  BY DEF WorkerInv, Claim
<1>2. UNCHANGED <<wait, log, sentToday, call, probe, delivered, faults>>
  BY DEF Claim, ghostVars
<1> QED
  BY <1>1, <1>2 DEF Claim, ClaimEffect, Batches, Skippable, NewOwner

(* Every step keeps what is known of the workers: the batch a claim fills, *)
(* the call a submission opens, and their end with a record or a dropped   *)
(* batch.                                                                  *)
LEMMA WorkerInvStep ==
  ASSUME TypeOK, WorkerInv, [Next]_vars
  PROVE  WorkerInv'
<1> USE DEF TypeOK, WorkerTypeOK, WorkerInv, Batch, InDoubt, NothingHeld
<1>1. ASSUME NEW w \in Workers, Clear(w) PROVE WorkerInv'
  BY <1>1 DEF Clear, ghostVars
<1>2. ASSUME NEW w \in Workers, Claim(w) PROVE WorkerInv'
  <2>1. PICK B \in SUBSET {s \in Sends : Claimable(s)} : ClaimEffect(w, B)
    BY <1>2, Claiming
  <2>2. call[w] = NoCall /\ UNCHANGED <<call, delivered>>
    BY <1>2, Claiming
  <2> QED
    BY <2>1, <2>2 DEF ClaimEffect
<1>3. ASSUME NEW w \in Workers, NEW s \in Sends, NEW e \in SmtpEvents,
             Submit(w, s, e)
      PROVE  WorkerInv'
  <2>1. /\ pc[w] = "working" /\ s \in Batch(w)
        /\ UNCHANGED <<pc, view>>
        /\ call' = [call EXCEPT ![w] = [send |-> s, event |-> e]]
        /\ delivered' = IF e \in Accepting
                        THEN [delivered EXCEPT ![s] = OneMore(@)] ELSE delivered
    BY <1>3 DEF Submit
  <2>2. /\ \A t \in Sends : delivered[t] > 0 => delivered'[t] > 0
        /\ e \in Accepting => delivered'[s] > 0
    BY <2>1 DEF OneMore, Twice, WorldTypeOK
  <2>3. call'[w] = [send |-> s, event |-> e]
    BY <2>1
  <2>4. \A v \in Workers \ {w} : call'[v] = call[v]
    BY <2>1
  <2>5. \A v \in Workers : call[v] # NoCall => call[v].send \in Sends
    OBVIOUS
  <2> QED
    BY <2>1, <2>2, <2>3, <2>4, <2>5
<1>4. ASSUME NEW w \in Workers, Record(w) PROVE WorkerInv'
  <2> DEFINE s == call[w].send
  <2>1. /\ pc[w] = "working" /\ s \in Sends
        /\ view' = [view EXCEPT ![w][s] = 0]
        /\ pc' = [pc EXCEPT ![w] = IF Batch(w) = {s} THEN "idle" ELSE "working"]
        /\ call' = [call EXCEPT ![w] = NoCall]
        /\ UNCHANGED delivered
    BY <1>4, Recording DEF Record, ghostVars
  <2>2. Batch(w) = {s} => view'[w] = NothingHeld
    BY <2>1
  <2> QED
    BY <2>1, <2>2
<1>5. ASSUME NEW w \in Workers, OwnershipLost(w) \/ Abort(w) PROVE WorkerInv'
  <2>1. DropBatch(w) /\ UNCHANGED delivered
    BY <1>5 DEF OwnershipLost, Abort, ghostVars
  <2> QED
    BY <2>1 DEF DropBatch
<1>6. CASE UNCHANGED <<pc, view, call, delivered>>
  BY <1>6
<1> QED
  BY <1>1, <1>2, <1>3, <1>4, <1>5, <1>6
     DEF Next, WorkerStep, SendStep, PersonStep, Enqueue, Lookup, Resolve,
         CancelFutureSends, AddSuppression, PersistReply, ImportReply, Flip,
         SetControl, Tick, NewDay, vars, workerVars, ghostVars

------------------------------------------------------------------------------
(* What the ownership check lets through: the row is claimed, the answer   *)
(* is about its newest attempt, and that attempt has no outcome yet.       *)
RecordEffect(w, s, o) ==
  /\ call[w] # NoCall /\ s = call[w].send
  /\ o = Outcome(call[w].event, attempts[s])
  /\ call[w].event \in SmtpEvents
  /\ s \in Batch(w) /\ owner[s] = w
  /\ status[s] = "claiming"
  /\ attempts[s] \in 1 .. AttemptCap
  /\ log[s][attempts[s]] = "none"
  /\ o = "temporary_failure" => attempts[s] < MaxAttempts
  /\ RecordSendAttempt(s, o)
  /\ view' = [view EXCEPT ![w][s] = 0]
  /\ call' = [call EXCEPT ![w] = NoCall]
  /\ UNCHANGED <<attempts, probe, delivered, faults>>

(* A record writes the outcome of the newest attempt of a claimed row that *)
(* has none yet: the owner check alone gives that.                         *)
LEMMA Fenced ==
  ASSUME TypeOK, WorkerInv, FenceHolds, NEW w \in Workers, Record(w)
  PROVE  \E s \in Sends, o \in Outcomes : RecordEffect(w, s, o)
<1> DEFINE s == call[w].send
<1>1. /\ s \in Sends /\ view[w][s] \in 1 .. AttemptCap
      /\ call[w].event \in SmtpEvents
  BY Recording DEF Record
<1>2. s \in Batch(w) /\ owner[s] = w
  BY <1>1 DEF Batch, Record, OwnsClaim
<1>3. /\ status[s] = "claiming" /\ view[w][s] = attempts[s]
      /\ log[s][attempts[s]] = "none"
  BY <1>1, <1>2 DEF FenceHolds
<1>4. Outcome(call[w].event, attempts[s]) \in Outcomes
  BY <1>1, <1>3, Tables
<1>5. Outcome(call[w].event, attempts[s]) = "temporary_failure"
        => attempts[s] < MaxAttempts
  BY DEF Outcome, MayRetry
<1>6. /\ call[w] # NoCall
      /\ RecordSendAttempt(s, Outcome(call[w].event, view[w][s]))
      /\ view' = [view EXCEPT ![w][s] = 0]
      /\ call' = [call EXCEPT ![w] = NoCall]
      /\ UNCHANGED <<attempts, probe, delivered, faults>>
  BY DEF Record, ghostVars
<1>7. RecordEffect(w, s, Outcome(call[w].event, attempts[s]))
  BY <1>1, <1>2, <1>3, <1>5, <1>6 DEF RecordEffect
<1> QED
  BY <1>1, <1>4, <1>7

QueueInv == RowInv /\ RetryBudget /\ LogExplainsStatus

(* Owners, attempt counts and logged outcomes keep explaining the status.  *)
LEMMA QueueInvStep ==
  ASSUME TypeOK, WorkerInv, FenceHolds, QueueInv, [Next]_vars
  PROVE  QueueInv'
<1> USE AttemptAssumption, NullAssumption
    DEF TypeOK, RowTypeOK, QueueInv, RowInv, RetryBudget, LogExplainsStatus,
        LastOutcome
<1>1. ASSUME NEW s \in Sends, Enqueue(s) PROVE QueueInv'
  BY <1>1 DEF Enqueue
<1>2. ASSUME NEW w \in Workers, Claim(w) PROVE QueueInv'
  <2>1. PICK B \in SUBSET {s \in Sends : Claimable(s)} : ClaimEffect(w, B)
    BY <1>2, Claiming
  <2>2. UNCHANGED log
    BY <1>2, Claiming
  <2>3. \A s \in B : attempts[s] + 1 \in 1 .. AttemptCap
    BY DEF Claimable
  <2>4. \A s \in B : LastOutcome(s)' = "none"
    BY <2>1, <2>2, <2>3 DEF ClaimEffect
  <2> QED
    BY <2>1, <2>2, <2>3, <2>4 DEF ClaimEffect
<1>3. ASSUME NEW w \in Workers, Record(w) PROVE QueueInv'
  <2>a. PICK s \in Sends, o \in Outcomes : RecordEffect(w, s, o)
    BY <1>3, Fenced
  <2>1. /\ owner[s] = w /\ status[s] = "claiming"
        /\ attempts[s] \in 1 .. AttemptCap
        /\ o = "temporary_failure" => attempts[s] < MaxAttempts
        /\ RecordSendAttempt(s, o)
        /\ view' = [view EXCEPT ![w][s] = 0]
        /\ UNCHANGED attempts
    BY <2>a DEF RecordEffect
  <2>2. /\ log' = [log EXCEPT ![s][attempts[s]] = o]
        /\ status' = [status EXCEPT ![s] = StatusAfter(o)]
        /\ owner' = IF o = "ambiguous" THEN owner ELSE [owner EXCEPT ![s] = NoWorker]
    BY <2>1 DEF RecordSendAttempt
  <2>3. log'[s][attempts[s]] = o
    BY <2>1, <2>2
  <2>4. \A t \in Sends, n \in 1 .. AttemptCap :
          (t # s \/ n # attempts[s]) => log'[t][n] = log[t][n]
    BY <2>1, <2>2
  <2>5. status'[s] = StatusAfter(o) /\ \A t \in Sends \ {s} : status'[t] = status[t]
    BY <2>1, <2>2
  <2>6. /\ o = "accepted" => status'[s] = "sent"
        /\ o = "temporary_failure" => status'[s] = "queued"
        /\ o = "permanent_failure" => status'[s] = "failed"
        /\ o = "ambiguous" => status'[s] = "uncertain"
    BY <2>5 DEF StatusAfter, StatusByOutcome
  <2>7. RowInv'
    BY <2>1, <2>2, <2>4, <2>5, <2>6 DEF Outcomes
  <2>8. RetryBudget'
    BY <2>1, <2>5, <2>6 DEF Outcomes
  <2>9. LogExplainsStatus'
    <3>1. LastOutcome(s)' = o
      BY <2>1, <2>3
    <3>2. \A t \in Sends \ {s} : LastOutcome(t)' = LastOutcome(t)
      BY <2>1, <2>4
    <3> HIDE DEF LastOutcome
    <3>3. ASSUME NEW t \in Sends \ {s}
          PROVE  status'[t] = status[t] /\ attempts'[t] = attempts[t]
                 /\ LastOutcome(t)' = LastOutcome(t)
      BY <2>1, <2>5, <3>2
    <3>4. /\ status'[s] = "queued" => LastOutcome(s)' = "temporary_failure"
          /\ status'[s] # "claiming"
          /\ status'[s] = "uncertain" => LastOutcome(s)' = "ambiguous"
          /\ status'[s] = "sent" => LastOutcome(s)' = "accepted"
          /\ status'[s] = "failed" => LastOutcome(s)' = "permanent_failure"
      BY <2>6, <3>1 DEF Outcomes
    <3> QED
      BY <3>3, <3>4
  <2> QED
    BY <2>7, <2>8, <2>9
<1>4. ASSUME NEW s \in Sends, Resolve(s) PROVE QueueInv'
  BY <1>4 DEF Resolve
<1>5. ASSUME NEW p \in People, CancelFutureSends(p) PROVE QueueInv'
  BY <1>5 DEF CancelFutureSends
<1>6. CASE UNCHANGED <<status, owner, attempts, log>>
  BY <1>6
<1> QED
  BY <1>1, <1>2, <1>3, <1>4, <1>5, <1>6
     DEF Next, WorkerStep, SendStep, PersonStep, Clear, Submit, OwnershipLost,
         Abort, Lookup, AddSuppression, PersistReply, ImportReply, Flip,
         SetControl, Tick, NewDay, vars, rowVars

(* The fence holds: a claim never gives a row to a second worker that      *)
(* shares the first one's view, and a recorded row leaves its batch.       *)
LEMMA FenceStep ==
  ASSUME TypeOK, WorkerInv, FenceHolds, QueueInv, [Next]_vars
  PROVE  FenceHolds'
<1> USE AttemptAssumption, NullAssumption
    DEF TypeOK, RowTypeOK, WorkerTypeOK, FenceHolds, Batch
<1>1. ASSUME NEW s \in Sends, Enqueue(s) PROVE FenceHolds'
  BY <1>1 DEF Enqueue, workerVars
<1>2. ASSUME NEW w \in Workers, Claim(w) PROVE FenceHolds'
  <2>1. PICK B \in SUBSET {s \in Sends : Claimable(s)} : ClaimEffect(w, B)
    BY <1>2, Claiming
  <2>2. UNCHANGED log
    BY <1>2, Claiming
  <2>3. \A s \in B : attempts[s] + 1 \in 1 .. AttemptCap
    BY DEF Claimable
  <2>4. \A s \in B : log[s][attempts[s] + 1] = "none"
    BY <2>3 DEF QueueInv, RowInv
  <2>5. ASSUME NEW v \in Workers, NEW s \in Sends, view'[v][s] # 0
        PROVE  /\ view'[v][s] <= attempts'[s]
               /\ owner'[s] = v => /\ status'[s] = "claiming"
                                   /\ view'[v][s] = attempts'[s]
                                   /\ log'[s][attempts'[s]] = "none"
    <3>1. CASE s \in B
      <4>1. /\ status'[s] = "claiming" /\ owner'[s] = w /\ attempts'[s] = attempts[s] + 1
            /\ view'[w][s] = attempts[s] + 1 /\ log'[s] = log[s]
            /\ v # w => view'[v][s] = view[v][s]
        BY <2>1, <2>2, <3>1 DEF ClaimEffect
      <4>2. v # w => view[v][s] <= attempts[s]
        BY <2>5, <4>1
      <4> QED
        BY <2>4, <3>1, <4>1, <4>2
    <3>2. CASE s \notin B
      <4>1. /\ status'[s] = status[s] /\ owner'[s] = owner[s] /\ attempts'[s] = attempts[s]
            /\ log'[s] = log[s] /\ view'[v][s] = view[v][s]
        BY <2>1, <2>2, <2>5, <3>2 DEF ClaimEffect
      <4> QED
        BY <2>5, <4>1
    <3> QED
      BY <3>1, <3>2
  <2> QED
    BY <2>5
<1>3. ASSUME NEW w \in Workers, Record(w) PROVE FenceHolds'
  <2>a. PICK s \in Sends, o \in Outcomes : RecordEffect(w, s, o)
    BY <1>3, Fenced
  <2>1. /\ owner[s] = w /\ status[s] = "claiming"
        /\ attempts[s] \in 1 .. AttemptCap
        /\ o = "temporary_failure" => attempts[s] < MaxAttempts
        /\ RecordSendAttempt(s, o)
        /\ view' = [view EXCEPT ![w][s] = 0]
        /\ UNCHANGED attempts
    BY <2>a DEF RecordEffect
  <2>2. /\ \A t \in Sends \ {s} : /\ status'[t] = status[t]
                                /\ owner'[t] = owner[t]
                                /\ log'[t] = log[t]
        /\ owner'[s] \in {w, NoWorker}
    BY <2>1 DEF RecordSendAttempt
  <2>3. ASSUME NEW v \in Workers, NEW t \in Sends, view'[v][t] # 0
        PROVE  /\ view'[v][t] <= attempts'[t]
               /\ owner'[t] = v => /\ status'[t] = "claiming"
                                   /\ view'[v][t] = attempts'[t]
                                   /\ log'[t][attempts'[t]] = "none"
    <3>1. view'[v][t] = view[v][t] /\ ~(v = w /\ t = s)
      <4>1. view'[w][s] = 0
        BY <2>1
      <4>2. \A u \in Workers, r \in Sends : ~(u = w /\ r = s) => view'[u][r] = view[u][r]
        BY <2>1
      <4>3. ~(v = w /\ t = s)
        BY <2>3, <4>1
      <4> QED
        BY <4>2, <4>3
    <3>2. view[v][t] <= attempts'[t]
      BY <2>1, <2>3, <3>1
    <3>3. CASE t = s
      <4>1. v # w /\ v # NoWorker
        BY <3>1, <3>3
      <4> QED
        BY <2>2, <3>1, <3>2, <3>3, <4>1
    <3>4. CASE t # s
      <4>1. /\ status'[t] = status[t] /\ owner'[t] = owner[t] /\ log'[t] = log[t]
            /\ attempts'[t] = attempts[t]
        BY <2>1, <2>2, <3>4
      <4> QED
        BY <2>3, <3>1, <4>1
    <3> QED
      BY <3>3, <3>4
  <2> QED
    BY <2>3
<1>4. ASSUME NEW w \in Workers, OwnershipLost(w) \/ Abort(w) PROVE FenceHolds'
  <2>1. view' = [view EXCEPT ![w] = [s \in Sends |-> 0]]
    BY <1>4 DEF OwnershipLost, Abort, DropBatch, NothingHeld
  <2>2. UNCHANGED <<status, owner, attempts, log>>
    BY <1>4 DEF OwnershipLost, Abort, rowVars
  <2> QED
    BY <2>1, <2>2
<1>5. ASSUME NEW s \in Sends, Resolve(s) PROVE FenceHolds'
  BY <1>5 DEF Resolve, workerVars
<1>6. ASSUME NEW p \in People, CancelFutureSends(p) PROVE FenceHolds'
  BY <1>6 DEF CancelFutureSends, workerVars
<1>7. CASE UNCHANGED <<status, owner, attempts, log, view>>
  BY <1>7
<1> QED
  BY <1>1, <1>2, <1>3, <1>4, <1>5, <1>6, <1>7
     DEF Next, WorkerStep, SendStep, PersonStep, Clear, Submit, Lookup,
         AddSuppression, PersistReply, ImportReply, Flip, SetControl, Tick,
         NewDay, vars, rowVars, workerVars

------------------------------------------------------------------------------
(* No acceptance is ever taken back.                                       *)
LEMMA Accepted ==
  ASSUME TypeOK, [Next]_vars
  PROVE  \A s \in Sends : delivered[s] > 0 => delivered'[s] > 0
<1>1. ASSUME NEW w \in Workers, NEW s \in Sends, NEW e \in SmtpEvents,
             Submit(w, s, e)
      PROVE  \A t \in Sends : delivered[t] > 0 => delivered'[t] > 0
  BY <1>1 DEF Submit, OneMore, Twice, TypeOK, WorldTypeOK
<1>2. CASE UNCHANGED delivered
  BY <1>2
<1> QED
  BY <1>1, <1>2
     DEF Next, WorkerStep, SendStep, PersonStep, Enqueue, Clear, Claim, Record,
         OwnershipLost, Abort, Lookup, Resolve, CancelFutureSends,
         AddSuppression, PersistReply, ImportReply, Flip, SetControl, Tick,
         NewDay, vars, ghostVars

(* Only a claim, a record or a reconciliation touches a quarantined send   *)
(* or makes one; acceptances a lookup reported are real.                   *)
LEMMA ProbeInvStep ==
  ASSUME TypeOK, WorkerInv, FenceHolds, ProbeInv, [Next]_vars
  PROVE  ProbeInv'
<1> USE DEF TypeOK, RowTypeOK, WorldTypeOK, ProbeInv
<1>a. \A s \in Sends : delivered[s] > 0 => delivered'[s] > 0
  BY Accepted
<1>1. ASSUME NEW s \in Sends, Lookup(s) PROVE ProbeInv'
  BY <1>1 DEF Lookup, rowVars, ghostVars
<1>2. ASSUME NEW s \in Sends, Resolve(s) PROVE ProbeInv'
  BY <1>2 DEF Resolve, ghostVars
<1>3. ASSUME NEW w \in Workers, Claim(w) PROVE ProbeInv'
  <2>1. PICK B \in SUBSET {s \in Sends : Claimable(s)} : ClaimEffect(w, B)
    BY <1>3, Claiming
  <2>2. UNCHANGED <<probe, delivered>>
    BY <1>3, Claiming
  <2>3. \A s \in B : status[s] # "uncertain"
    BY DEF Claimable, Due, Expired
  <2> QED
    BY <2>1, <2>2, <2>3 DEF ClaimEffect
<1>4. ASSUME NEW w \in Workers, Record(w) PROVE ProbeInv'
  <2>1. PICK s \in Sends, o \in Outcomes : RecordEffect(w, s, o)
    BY <1>4, Fenced
  <2>2. /\ status[s] = "claiming"
        /\ status' = [status EXCEPT ![s] = StatusAfter(o)]
        /\ UNCHANGED <<probe, delivered>>
    BY <2>1 DEF RecordEffect, RecordSendAttempt
  <2> QED
    BY <2>2
<1>5. ASSUME NEW p \in People, CancelFutureSends(p) PROVE ProbeInv'
  BY <1>5 DEF CancelFutureSends, ghostVars
<1>6. ASSUME NEW s \in Sends, Enqueue(s) PROVE ProbeInv'
  BY <1>6 DEF Enqueue, ghostVars
<1>7. CASE UNCHANGED <<status, probe>>
  BY <1>7, <1>a
<1> QED
  BY <1>1, <1>2, <1>3, <1>4, <1>5, <1>6, <1>7
     DEF Next, WorkerStep, SendStep, PersonStep, Clear, Submit, OwnershipLost,
         Abort, AddSuppression, PersistReply, ImportReply, Flip, SetControl,
         Tick, NewDay, vars, rowVars

(* The answer of one submission and what it says of acceptance.            *)
LEMMA Answers ==
  ASSUME NEW e \in SmtpEvents, NEW n \in Nat
  PROVE  /\ Outcome(e, n) = "accepted" => e \in Accepting
         /\ e \in Accepting => Outcome(e, n) \in {"accepted", "ambiguous"}
BY DEF SmtpEvents, Accepting, Outcome, ProviderResult, ProviderResults

(* A row becomes sent through a real acceptance only, and stays accepted.  *)
LEMMA SentStep ==
  ASSUME TypeOK, WorkerInv, FenceHolds, ProbeInv, SentIsReal, [Next]_vars
  PROVE  SentIsReal'
<1> USE AttemptAssumption DEF TypeOK, RowTypeOK, WorldTypeOK, SentIsReal
<1>a. \A s \in Sends : delivered[s] > 0 => delivered'[s] > 0
  BY Accepted
<1>1. ASSUME NEW s \in Sends, Resolve(s) PROVE SentIsReal'
  BY <1>1 DEF Resolve, ghostVars, ProbeInv
<1>2. ASSUME NEW w \in Workers, Claim(w) PROVE SentIsReal'
  <2>1. PICK B \in SUBSET {s \in Sends : Claimable(s)} : ClaimEffect(w, B)
    BY <1>2, Claiming
  <2>2. UNCHANGED delivered
    BY <1>2, Claiming
  <2> QED
    BY <2>1, <2>2 DEF ClaimEffect
<1>3. ASSUME NEW w \in Workers, Record(w) PROVE SentIsReal'
  <2>1. PICK s \in Sends, o \in Outcomes : RecordEffect(w, s, o)
    BY <1>3, Fenced
  <2>2. /\ call[w] # NoCall /\ s = call[w].send
        /\ o = Outcome(call[w].event, attempts[s])
        /\ call[w].event \in SmtpEvents
        /\ status' = [status EXCEPT ![s] = StatusAfter(o)]
        /\ UNCHANGED delivered
    BY <2>1 DEF RecordEffect, RecordSendAttempt
  <2>3. attempts[s] \in Nat
    OBVIOUS
  <2>4. o = "accepted" => delivered[s] > 0
    BY <2>2, <2>3, Answers DEF WorkerInv, InDoubt
  <2>5. StatusAfter(o) = "sent" => o = "accepted"
    BY DEF StatusAfter, StatusByOutcome, Outcomes
  <2> QED
    BY <2>2, <2>4, <2>5
<1>4. ASSUME NEW p \in People, CancelFutureSends(p) PROVE SentIsReal'
  BY <1>4 DEF CancelFutureSends, ghostVars
<1>5. ASSUME NEW s \in Sends, Enqueue(s) PROVE SentIsReal'
  BY <1>5 DEF Enqueue, ghostVars
<1>6. CASE UNCHANGED status
  BY <1>6, <1>a
<1> QED
  BY <1>1, <1>2, <1>3, <1>4, <1>5, <1>6
     DEF Next, WorkerStep, SendStep, PersonStep, Clear, Submit, OwnershipLost,
         Lookup, Abort, AddSuppression, PersistReply, ImportReply, Flip,
         SetControl, Tick, NewDay, vars, rowVars

------------------------------------------------------------------------------
(* Without faults every held send has one holder, who owns it.             *)
LEMMA OneHolder ==
  ASSUME TypeOK, WorkerInv, RowInv, FenceHolds, TimelyInv, faults = {},
         NEW s \in Sends
  PROVE  /\ delivered[s] <= 1
         /\ \A w \in Workers :
              s \in Batch(w) => /\ owner[s] = w /\ lease[s] > 0
                                /\ status[s] = "claiming"
         /\ \A w \in Workers :
              InDoubt(w) /\ call[w].send = s => s \in Batch(w)
         /\ delivered[s] > 0 =>
              \/ status[s] \in {"sent", "uncertain"}
              \/ \E w \in Workers : InDoubt(w) /\ call[w].send = s
BY DEF TimelyInv, FenceHolds, WorkerInv, InDoubt

(* A submission starts from a send nobody submitted before.                *)
LEMMA TimelySubmit ==
  ASSUME TypeOK, WorkerInv, RowInv, FenceHolds, ProbeInv, TimelyInv,
         NEW w \in Workers, NEW s \in Sends, NEW e \in SmtpEvents,
         Submit(w, s, e), faults = {}
  PROVE  TimelyInv'
<1>1. /\ call[w] = NoCall /\ s \in Batch(w)
      /\ call' = [call EXCEPT ![w] = [send |-> s, event |-> e]]
      /\ delivered' = IF e \in Accepting
                      THEN [delivered EXCEPT ![s] = OneMore(@)] ELSE delivered
      /\ UNCHANGED <<status, owner, lease, view, probe>>
  BY DEF Submit, rowVars
<1>2. status[s] = "claiming" /\ owner[s] = w
  BY <1>1, OneHolder
<1>3. delivered[s] = 0
  <2>1. ASSUME delivered[s] > 0 PROVE FALSE
    <3>1. PICK v \in Workers : InDoubt(v) /\ call[v].send = s
      BY <1>2, <2>1, OneHolder
    <3>2. v = w
      BY <1>2, <3>1, OneHolder
    <3> QED
      BY <1>1, <3>1, <3>2 DEF InDoubt
  <2> QED
    BY <2>1 DEF TypeOK, WorldTypeOK
<1>4. /\ call'[w] = [send |-> s, event |-> e]
      /\ \A v \in Workers \ {w} : call'[v] = call[v]
  BY <1>1 DEF TypeOK, WorkerTypeOK
<1>5. \A t \in Sends \ {s} : delivered'[t] = delivered[t]
  BY <1>1 DEF TypeOK, WorldTypeOK
<1>6. /\ delivered'[s] <= 1
      /\ delivered'[s] > 0 => InDoubt(w)' /\ call'[w].send = s
  BY <1>1, <1>3, <1>4, CallAssumption
     DEF OneMore, Twice, TypeOK, WorldTypeOK, InDoubt
<1>7. probe[s] # "REJECTED"
  BY <1>2 DEF ProbeInv
<1>8. \A v \in Workers : InDoubt(v) => v # w /\ InDoubt(v)' /\ call'[v] = call[v]
  BY <1>1, <1>4 DEF InDoubt
<1>9. \A t \in Sends, v \in Workers : t \in Batch(v)' => t \in Batch(v)
  BY <1>1 DEF Batch
<1>10. ASSUME NEW t \in Sends
       PROVE  /\ delivered'[t] <= 1
              /\ \A v \in Workers : t \in Batch(v)' => owner'[t] = v /\ lease'[t] > 0
              /\ delivered'[t] > 0 =>
                   \/ status'[t] \in {"sent", "uncertain"}
                   \/ \E v \in Workers : InDoubt(v)' /\ call'[v].send = t
              /\ probe'[t] = "REJECTED" => delivered'[t] = 0
  <2>1. CASE t = s
    BY <1>1, <1>6, <1>7, <1>9, <2>1, OneHolder
  <2>2. CASE t # s
    BY <1>1, <1>5, <1>8, <1>9, <2>2, OneHolder DEF TimelyInv
  <2> QED
    BY <2>1, <2>2
<1> QED
  BY <1>10 DEF TimelyInv

(* The candidates of a claim are held by nobody and were never accepted.   *)
LEMMA TimelyClaim ==
  ASSUME TypeOK, WorkerInv, RowInv, FenceHolds, ProbeInv, TimelyInv,
         NEW w \in Workers, Claim(w), faults = {}
  PROVE  TimelyInv'
<1>1. PICK B \in SUBSET {s \in Sends : Claimable(s)} : ClaimEffect(w, B)
  BY Claiming
<1>2. call[w] = NoCall /\ UNCHANGED <<call, probe, delivered, faults>>
  BY Claiming
<1>3. \A s \in B : \/ status[s] = "queued"
                   \/ status[s] = "claiming" /\ lease[s] = 0
  BY DEF Claimable, Due, Expired
<1>4. \A s \in B, v \in Workers : s \notin Batch(v)
  BY <1>3, OneHolder
<1>5. \A s \in B : delivered[s] = 0
  BY <1>3, <1>4, OneHolder DEF TypeOK, WorldTypeOK
<1>6. \A v \in Workers : InDoubt(v) <=> InDoubt(v)'
  BY <1>2 DEF InDoubt
<1>7. \A t \in Sends, v \in Workers :
        t \in Batch(v)' => IF v = w THEN t \in B ELSE t \in Batch(v)
  BY <1>1 DEF ClaimEffect, Batch, TypeOK, WorkerTypeOK
<1>8. \A t \in Sends : IF t \in B THEN owner'[t] = w /\ lease'[t] > 0
                       ELSE /\ owner'[t] = owner[t] /\ lease'[t] = lease[t]
                            /\ status'[t] = status[t]
  BY <1>1, LeaseAssumption DEF ClaimEffect
<1> QED
  BY <1>2, <1>4, <1>5, <1>6, <1>7, <1>8, OneHolder DEF TimelyInv

(* The answer of an accepted submission is recorded as an acceptance or as *)
(* unknown, and the recorded row leaves the only batch that holds it.      *)
LEMMA TimelyRecord ==
  ASSUME TypeOK, WorkerInv, RowInv, FenceHolds, ProbeInv, TimelyInv,
         NEW w \in Workers, Record(w), faults = {}
  PROVE  TimelyInv'
<1>1. PICK s \in Sends, o \in Outcomes : RecordEffect(w, s, o)
  BY Fenced
<1>2. /\ call[w] # NoCall /\ s = call[w].send
      /\ o = Outcome(call[w].event, attempts[s])
      /\ call[w].event \in SmtpEvents
      /\ owner[s] = w /\ status[s] = "claiming"
      /\ attempts[s] \in Nat
      /\ RecordSendAttempt(s, o)
      /\ view' = [view EXCEPT ![w][s] = 0]
      /\ call' = [call EXCEPT ![w] = NoCall]
      /\ UNCHANGED <<probe, delivered, faults>>
  BY <1>1, AttemptAssumption DEF RecordEffect
<1>3. \A t \in Sends \ {s} : /\ status'[t] = status[t] /\ owner'[t] = owner[t]
                             /\ lease'[t] = lease[t]
  BY <1>2 DEF RecordSendAttempt, TypeOK, RowTypeOK
<1>4. \A t \in Sends, v \in Workers :
        t \in Batch(v)' => t \in Batch(v) /\ (v = w => t # s)
  BY <1>2 DEF Batch, TypeOK, WorkerTypeOK
<1>5. \A v \in Workers : s \notin Batch(v)'
  BY <1>2, <1>4, OneHolder
<1>6. \A v \in Workers : InDoubt(v) /\ v # w => InDoubt(v)' /\ call'[v] = call[v]
  BY <1>2 DEF InDoubt, TypeOK, WorkerTypeOK
<1>7. delivered[s] > 0 => status'[s] \in {"sent", "uncertain"}
  <2>1. SUFFICES ASSUME delivered[s] > 0
                 PROVE  status'[s] \in {"sent", "uncertain"}
    OBVIOUS
  <2>2. InDoubt(w)
    BY <1>2, <2>1, OneHolder
  <2>3. o \in {"accepted", "ambiguous"}
    BY <1>2, <2>2, Answers DEF InDoubt
  <2> QED
    BY <1>2, <2>3
       DEF RecordSendAttempt, StatusAfter, StatusByOutcome, TypeOK, RowTypeOK
<1> QED
  BY <1>2, <1>3, <1>4, <1>5, <1>6, <1>7, OneHolder DEF TimelyInv

(* Without faults every step keeps one holder per send and one acceptance. *)
LEMMA TimelyInvStep ==
  ASSUME TypeOK, WorkerInv, RowInv, FenceHolds, ProbeInv, TimelyInv, [Next]_vars
  PROVE  TimelyInv'
<1> SUFFICES ASSUME faults = {} PROVE TimelyInv'
  <2>1. UNCHANGED faults
    BY DEF Next, WorkerStep, SendStep, PersonStep, Enqueue, Clear, Claim,
           Submit, Record, OwnershipLost, Abort, Lookup, Resolve,
           CancelFutureSends, AddSuppression, PersistReply, ImportReply, Flip,
           SetControl, Tick, NewDay, vars, ghostVars
  <2> QED
    BY <2>1 DEF TimelyInv
<1>1. ASSUME NEW s \in Sends, Enqueue(s) PROVE TimelyInv'
  BY <1>1, OneHolder
     DEF Enqueue, TimelyInv, Batch, InDoubt, workerVars, ghostVars, TypeOK,
         RowTypeOK
<1>2. ASSUME NEW w \in Workers, NEW s \in Sends, NEW e \in SmtpEvents,
             Submit(w, s, e)
      PROVE  TimelyInv'
  BY <1>2, TimelySubmit
<1>3. ASSUME NEW w \in Workers, Claim(w) PROVE TimelyInv'
  BY <1>3, TimelyClaim
<1>4. ASSUME NEW w \in Workers, Record(w) PROVE TimelyInv'
  BY <1>4, TimelyRecord
<1>5. ASSUME NEW w \in Workers, OwnershipLost(w) \/ Abort(w) PROVE TimelyInv'
  <2>1. ~InDoubt(w)
    <3>1. CASE OwnershipLost(w)
      BY <3>1, OneHolder
         DEF OwnershipLost, OwnsClaim, WorkerInv, Batch
    <3>2. CASE Abort(w)
      BY <3>2 DEF Abort
    <3> QED
      BY <1>5, <3>1, <3>2
  <2>2. DropBatch(w) /\ UNCHANGED <<status, owner, lease, probe, delivered>>
    BY <1>5 DEF OwnershipLost, Abort, rowVars, ghostVars
  <2>3. \A v \in Workers : InDoubt(v) => InDoubt(v)' /\ call'[v] = call[v]
    BY <2>1, <2>2 DEF DropBatch, InDoubt, TypeOK, WorkerTypeOK
  <2>4. \A t \in Sends, v \in Workers : t \in Batch(v)' => t \in Batch(v)
    BY <2>2 DEF DropBatch, Batch, NothingHeld, TypeOK, WorkerTypeOK
  <2> QED
    BY <2>2, <2>3, <2>4 DEF TimelyInv
<1>6. ASSUME NEW s \in Sends, Lookup(s) PROVE TimelyInv'
  BY <1>6
     DEF Lookup, TimelyInv, Batch, InDoubt, rowVars, workerVars, ghostVars,
         TypeOK, WorldTypeOK
<1>7. ASSUME NEW s \in Sends, Resolve(s) PROVE TimelyInv'
  <2>1. /\ status[s] = "uncertain" /\ probe[s] # "none"
        /\ status' = [status EXCEPT ![s] =
                        IF probe[s] = "ACCEPTED" THEN "sent" ELSE "failed"]
        /\ owner' = [owner EXCEPT ![s] = NoWorker]
        /\ lease' = [lease EXCEPT ![s] = 0]
        /\ probe' = [probe EXCEPT ![s] = "none"]
        /\ UNCHANGED <<view, call, delivered>>
    BY <1>7 DEF Resolve, workerVars, ghostVars
  <2>2. \A v \in Workers : s \notin Batch(v)
    BY <2>1, OneHolder
  <2>3. probe[s] # "ACCEPTED" => delivered[s] = 0
    BY <2>1 DEF TimelyInv, TypeOK, WorldTypeOK
  <2> QED
    BY <2>1, <2>2, <2>3
       DEF TimelyInv, Batch, InDoubt, TypeOK, RowTypeOK, WorldTypeOK
<1>8. ASSUME NEW p \in People, CancelFutureSends(p) PROVE TimelyInv'
  BY <1>8
     DEF CancelFutureSends, TimelyInv, Batch, InDoubt, workerVars, ghostVars,
         TypeOK, RowTypeOK
<1>9. CASE Tick
  <2>1. /\ \A w \in Workers : \A s \in Batch(w) : lease[s] > 1
        /\ lease' = [s \in Sends |-> IF lease[s] > 0 THEN lease[s] - 1 ELSE 0]
        /\ UNCHANGED <<status, owner, view, call, probe, delivered>>
    BY <1>9 DEF Tick, workerVars, ghostVars
  <2>2. \A w \in Workers : \A s \in Batch(w) : s \in Sends /\ lease'[s] > 0
    BY <2>1, LeaseAssumption DEF Batch, TypeOK, RowTypeOK
  <2> QED
    BY <2>1, <2>2 DEF TimelyInv, Batch, InDoubt
<1>10. CASE UNCHANGED <<status, owner, lease, view, call, probe, delivered>>
  BY <1>10 DEF TimelyInv, Batch, InDoubt
<1> QED
  BY <1>1, <1>2, <1>3, <1>4, <1>5, <1>6, <1>7, <1>8, <1>9, <1>10
     DEF Next, WorkerStep, SendStep, PersonStep, Clear, AddSuppression,
         PersistReply, ImportReply, Flip, SetControl, NewDay, vars, rowVars,
         workerVars, ghostVars

------------------------------------------------------------------------------
(* The inductive invariant holds at the start.                             *)
LEMMA InitInv == Init => Inv
<1> SUFFICES ASSUME Init PROVE Inv
  OBVIOUS
<1>1. TypeOK
  BY TypeInit
<1>2. WorkerInv /\ FenceHolds
  BY AttemptAssumption
     DEF Init, WorkerInv, FenceHolds, NothingHeld, Batch, InDoubt
<1>3. RowInv /\ RetryBudget /\ LogExplainsStatus /\ SentIsReal /\ ProbeInv
  BY AttemptAssumption
     DEF Init, RowInv, RetryBudget, LogExplainsStatus, SentIsReal, ProbeInv
<1>4. TimelyInv
  BY DEF Init, TimelyInv, NothingHeld, Batch
<1> QED
  BY <1>1, <1>2, <1>3, <1>4 DEF Inv

(* Every step keeps the inductive invariant: the conjuncts in the order in *)
(* which each relies on those before it.                                   *)
LEMMA InvStep == Inv /\ [Next]_vars => Inv'
<1> SUFFICES ASSUME Inv, [Next]_vars PROVE Inv'
  OBVIOUS
<1>1. /\ TypeOK /\ WorkerInv /\ RowInv /\ FenceHolds /\ RetryBudget
      /\ LogExplainsStatus /\ ProbeInv /\ SentIsReal /\ TimelyInv
  BY DEF Inv
<1>2. TypeOK'
  BY <1>1, RowTypeStep, WorkerTypeStep, WorldTypeStep DEF TypeOK
<1>3. WorkerInv'
  BY <1>1, WorkerInvStep
<1>4. (RowInv /\ RetryBudget /\ LogExplainsStatus)'
  BY <1>1, QueueInvStep DEF QueueInv
<1>5. FenceHolds'
  BY <1>1, FenceStep DEF QueueInv
<1>6. ProbeInv' /\ SentIsReal'
  BY <1>1, ProbeInvStep, SentStep
<1>7. TimelyInv'
  BY <1>1, TimelyInvStep
<1> QED
  BY <1>2, <1>3, <1>4, <1>5, <1>6, <1>7 DEF Inv

(* The inductive invariant holds throughout every behaviour of the queue.  *)
THEOREM Invariance == Spec => []Inv
BY InitInv, InvStep, PTL DEF Spec

(* Every variable keeps its type.                                          *)
THEOREM TypeCorrect == Spec => []TypeOK
<1>1. Inv => TypeOK
  BY DEF Inv
<1> QED
  BY <1>1, Invariance, PTL

(* record_send_attempt's owner check fences off every stale worker.        *)
THEOREM FenceCorrect == Spec => []FenceHolds
<1>1. Inv => FenceHolds
  BY DEF Inv
<1> QED
  BY <1>1, Invariance, PTL

(* A queued row always has a retry of RetryPolicy left.                    *)
THEOREM RetryBudgetCorrect == Spec => []RetryBudget
<1>1. Inv => RetryBudget
  BY DEF Inv
<1> QED
  BY <1>1, Invariance, PTL

(* The attempts on record explain the status of every send.                *)
THEOREM LogCorrect == Spec => []LogExplainsStatus
<1>1. Inv => LogExplainsStatus
  BY DEF Inv
<1> QED
  BY <1>1, Invariance, PTL

(* What the queue calls sent, the provider accepted.                       *)
THEOREM SentCorrect == Spec => []SentIsReal
<1>1. Inv => SentIsReal
  BY DEF Inv
<1> QED
  BY <1>1, Invariance, PTL

(* While batches keep within their lease and no worker dies between an     *)
(* acceptance and its record, the provider accepts no send twice.          *)
THEOREM DeliveryCorrect == Spec => []AtMostOneDelivery
<1>1. Inv => AtMostOneDelivery
  <2>1. SUFFICES ASSUME Inv, faults = {}, NEW s \in Sends
                 PROVE  delivered[s] <= 1
    BY DEF AtMostOneDelivery
  <2> QED
    BY <2>1, OneHolder DEF Inv, TypeOK, WorldTypeOK
<1> QED
  BY <1>1, Invariance, PTL

(* Under the same conditions, a send that is marked failed was accepted    *)
(* by nobody: an operator may send it again.                               *)
THEOREM FailureCorrect == Spec => []FailureIsTrue
<1>1. Inv => FailureIsTrue
  <2>1. SUFFICES ASSUME Inv, faults = {}, NEW s \in Sends, status[s] = "failed"
                 PROVE  delivered[s] = 0
    BY DEF FailureIsTrue
  <2> QED
    BY <2>1, OneHolder DEF Inv, TypeOK, WorldTypeOK
<1> QED
  BY <1>1, Invariance, PTL

------------------------------------------------------------------------------
(* No recorded outcome is overwritten, no settled send changes.            *)
THEOREM VerdictsCorrect == Spec => VerdictsStand
<1> DEFINE Stand ==
      \A s \in Sends :
        /\ \A n \in 1 .. AttemptCap :
             log[s][n] # "none" => log'[s][n] = log[s][n]
        /\ status[s] \in Settled => status'[s] = status[s]
<1>1. Inv /\ [Next]_vars => [Stand]_vars
  <2> SUFFICES ASSUME Inv, [Next]_vars PROVE Stand
    OBVIOUS
  <2> USE DEF Settled
  <2>0. /\ TypeOK /\ WorkerInv /\ FenceHolds
        /\ status \in [Sends -> Status] /\ log \in [Sends -> [1 .. AttemptCap -> Outcomes \cup {"none"}]]
    BY DEF Inv, TypeOK, RowTypeOK
  <2>1. ASSUME NEW s \in Sends, Enqueue(s) PROVE Stand
    BY <2>0, <2>1 DEF Enqueue
  <2>2. ASSUME NEW w \in Workers, Claim(w) PROVE Stand
    <3>1. PICK B \in SUBSET {s \in Sends : Claimable(s)} : ClaimEffect(w, B)
      BY <2>0, <2>2, Claiming
    <3>2. UNCHANGED log
      BY <2>0, <2>2, Claiming
    <3> QED
      BY <3>1, <3>2 DEF ClaimEffect, Claimable, Due, Expired
  <2>3. ASSUME NEW w \in Workers, Record(w) PROVE Stand
    <3>1. PICK s \in Sends, o \in Outcomes : RecordEffect(w, s, o)
      BY <2>0, <2>3, Fenced
    <3>2. /\ log' = [log EXCEPT ![s][attempts[s]] = o]
          /\ status' = [status EXCEPT ![s] = StatusAfter(o)]
          /\ log[s][attempts[s]] = "none" /\ status[s] = "claiming"
      BY <3>1 DEF RecordEffect, RecordSendAttempt
    <3> QED
      BY <2>0, <3>2
  <2>4. ASSUME NEW s \in Sends, Resolve(s) PROVE Stand
    BY <2>0, <2>4 DEF Resolve
  <2>5. ASSUME NEW p \in People, CancelFutureSends(p) PROVE Stand
    BY <2>0, <2>5 DEF CancelFutureSends
  <2>6. CASE UNCHANGED <<status, log>>
    BY <2>6
  <2> QED
    BY <2>1, <2>2, <2>3, <2>4, <2>5, <2>6
       DEF Next, WorkerStep, SendStep, PersonStep, Clear, Submit, OwnershipLost,
           Abort, Lookup, AddSuppression, PersistReply, ImportReply, Flip,
           SetControl, Tick, NewDay, vars, rowVars
<1> QED
  BY <1>1, Invariance, PTL DEF Spec, VerdictsStand

(* Suppressed people drain out of the workers' hands for good.             *)
THEOREM SuppressionCorrect == Spec => SuppressionDrains
<1> DEFINE Drains ==
      \A s \in Sends : PersonOf[s] \in stopped /\ ~Held(s) => ~Held(s)'
<1>1. Inv /\ [Next]_vars => [Drains]_vars
  <2> SUFFICES ASSUME Inv, [Next]_vars PROVE Drains
    OBVIOUS
  <2>0. /\ TypeOK /\ WorkerInv /\ FenceHolds
        /\ view \in [Workers -> [Sends -> 0 .. AttemptCap]]
    BY DEF Inv, TypeOK, WorkerTypeOK
  <2> USE DEF Held, Batch
  <2>1. ASSUME NEW w \in Workers, Claim(w) PROVE Drains
    <3>1. PICK B \in SUBSET {s \in Sends : Claimable(s)} : ClaimEffect(w, B)
      BY <2>0, <2>1, Claiming
    <3> QED
      BY <2>0, <3>1 DEF ClaimEffect, Claimable, MayContact
  <2>2. ASSUME NEW w \in Workers, Record(w) PROVE Drains
    <3>1. PICK s \in Sends, o \in Outcomes : RecordEffect(w, s, o)
      BY <2>0, <2>2, Fenced
    <3>2. view' = [view EXCEPT ![w][s] = 0]
      BY <3>1 DEF RecordEffect
    <3> QED
      BY <2>0, <3>2
  <2>3. ASSUME NEW w \in Workers, DropBatch(w) PROVE Drains
    BY <2>0, <2>3 DEF DropBatch, NothingHeld
  <2>4. CASE UNCHANGED view
    BY <2>4
  <2> QED
    BY <2>1, <2>2, <2>3, <2>4
       DEF Next, WorkerStep, SendStep, PersonStep, Enqueue, Clear, Submit,
           OwnershipLost, Abort, Lookup, Resolve, CancelFutureSends,
           AddSuppression, PersistReply, ImportReply, Flip, SetControl, Tick,
           NewDay, vars, rowVars, workerVars
<1> QED
  BY <1>1, Invariance, PTL DEF Spec, SuppressionDrains

(* With the gate wired no step starts a second batch after a stop.         *)
LEMMA GateInvStep ==
  ASSUME TypeOK, GateWired, GateInv, [Next]_vars
  PROVE  GateInv'
<1> USE DEF TypeOK, WorkerTypeOK, GateInv, PauseTakesEffect, Twice
<1>1. ASSUME NEW w \in Workers, Clear(w) PROVE GateInv'
  BY <1>1 DEF Clear, GatePasses, opsVars
<1>2. ASSUME NEW w \in Workers, Claim(w) PROVE GateInv'
  <2>1. PICK B \in SUBSET {s \in Sends : Claimable(s)} :
          /\ pc' = [pc EXCEPT ![w] = IF B = {} THEN "idle" ELSE "working"]
          /\ late' = IF B # {} /\ ~SendAllowed(control)
                     THEN [late EXCEPT ![w] = OneMore(@)] ELSE late
    BY <1>2 DEF Claim, Batches, Skippable
  <2>2. pc[w] = "cleared" /\ UNCHANGED control
    BY <1>2 DEF Claim, opsVars
  <2> QED
    BY <2>1, <2>2 DEF OneMore
<1>3. ASSUME NEW w \in Workers, Record(w) PROVE GateInv'
  BY <1>3 DEF Record, opsVars
<1>4. ASSUME NEW w \in Workers, OwnershipLost(w) \/ Abort(w) PROVE GateInv'
  BY <1>4 DEF OwnershipLost, Abort, DropBatch, opsVars
<1>5. ASSUME NEW row \in ControlRows \cup {NoRow}, SetControl(row) PROVE GateInv'
  BY <1>5 DEF SetControl, workerVars
<1>6. CASE UNCHANGED <<pc, control, late>>
  BY <1>6
<1> QED
  BY <1>1, <1>2, <1>3, <1>4, <1>5, <1>6
     DEF Next, WorkerStep, SendStep, PersonStep, Enqueue, Submit, Lookup,
         Resolve, CancelFutureSends, AddSuppression, PersistReply, ImportReply,
         Flip, Tick, NewDay, vars, workerVars, opsVars

(* A SAFE_STOP, or any other row the gate refuses, takes effect after at   *)
(* most one more batch per worker, provided the engine was given a gate.   *)
THEOREM PauseCorrect ==
  ASSUME GateWired
  PROVE  Spec => []PauseTakesEffect
<1>1. Init => GateInv
  BY DEF Init, GateInv, PauseTakesEffect
<1>2. TypeOK /\ GateInv /\ [Next]_vars => GateInv'
  BY GateInvStep
<1>3. GateInv => PauseTakesEffect
  BY DEF GateInv
<1> QED
  BY <1>1, <1>2, <1>3, TypeCorrect, PTL DEF Spec

------------------------------------------------------------------------------
(* The daily limit.  What counts against it are the sends that are still   *)
(* in the workers' hands together with those of the day.                   *)
Load == [w \in Workers |-> Cardinality(Batch(w))]
Bound == DailyLimit + Cardinality(Workers) * BatchSize

DayInv ==
  /\ \A w \in Workers : Cardinality(Batch(w)) <= BatchSize
  /\ DailyLimit > 0 =>
       Cardinality(AcceptedToday) + SumFunctionOnSet(Load, Workers) < Bound

LEMMA Finite ==
  ASSUME TypeOK
  PROVE  /\ IsFiniteSet(AcceptedToday) /\ Cardinality(AcceptedToday) \in Nat
         /\ \A w \in Workers : IsFiniteSet(Batch(w)) /\ Cardinality(Batch(w)) \in Nat
         /\ Cardinality(Workers) \in Nat /\ Bound \in Nat /\ BatchSize \in Nat
<1>1. AcceptedToday \in SUBSET Sends
  BY DEF AcceptedToday, TypeOK, RowTypeOK
<1>2. \A w \in Workers : Batch(w) \in SUBSET Sends
  BY DEF Batch
<1>3. \A S \in SUBSET Sends : IsFiniteSet(S) /\ Cardinality(S) \in Nat
  BY SendsAssumption, FS_Subset, FS_CardinalityType
<1>4. Cardinality(Workers) \in Nat
  BY SendsAssumption, FS_CardinalityType
<1> QED
  BY <1>1, <1>2, <1>3, <1>4, LimitAssumption DEF Bound

(* What the workers hold is at most a batch for each of them.              *)
LEMMA LoadIsBounded ==
  ASSUME TypeOK, \A w \in Workers : Cardinality(Batch(w)) <= BatchSize
  PROVE  /\ Summable(Load, Workers)
         /\ SumFunctionOnSet(Load, Workers) \in Nat
         /\ SumFunctionOnSet(Load, Workers) <= Cardinality(Workers) * BatchSize
<1>1. Load \in [Workers -> 0 .. BatchSize] /\ Load \in [Workers -> Nat] /\ Load \in [Workers -> Int]
  BY Finite DEF Load
<1> HIDE DEF Load
<1>2. SumFunctionOnSet(Load, Workers) <= Cardinality(Workers) * BatchSize
  BY <1>1, SendsAssumption, LimitAssumption, SumBounded
<1>3. SumFunctionOnSet(Load, Workers) \in Nat
  BY <1>1, SendsAssumption, SumNat
<1> QED
  BY <1>1, <1>2, <1>3, SendsAssumption DEF Summable

(* Steps that take nothing into anyone's hands and add no accepted send.   *)
LEMMA DayKept ==
  ASSUME TypeOK, TypeOK', DayInv,
         \A w \in Workers : Batch(w)' = Batch(w), AcceptedToday' \in SUBSET AcceptedToday
  PROVE  DayInv'
<1>1. Load' = Load
  BY DEF Load
<1>2. Cardinality(AcceptedToday') <= Cardinality(AcceptedToday)
  BY Finite, FS_Subset
<1>3. SumFunctionOnSet(Load, Workers) \in Nat
  BY LoadIsBounded DEF DayInv
<1>4. PICK a, b, t, m : /\ a = Cardinality(AcceptedToday) /\ b = Cardinality(AcceptedToday')
                        /\ t = SumFunctionOnSet(Load, Workers) /\ m = Bound
  OBVIOUS
<1>5. a \in Nat /\ b \in Nat /\ t \in Nat /\ m \in Nat /\ b <= a
  <2>1. IsFiniteSet(AcceptedToday') /\ Cardinality(AcceptedToday') \in Nat
    BY Finite, FS_Subset, FS_CardinalityType
  <2> QED
    BY <1>2, <1>3, <1>4, <2>1, Finite
<1>6. DailyLimit > 0 => b + t < m
  BY <1>4, <1>5 DEF DayInv
<1>7. SumFunctionOnSet(Load, Workers)' = t /\ Bound' = m /\ Cardinality(AcceptedToday)' = b
  BY <1>1, <1>4 DEF Bound
<1>8. \A w \in Workers : Cardinality(Batch(w))' <= BatchSize
  BY DEF DayInv
<1> QED
  BY <1>6, <1>7, <1>8 DEF DayInv

(* A worker's batch shrinks from B to C, and at most the sends it lost are *)
(* accepted.                                                               *)
LEMMA DayWorked ==
  ASSUME TypeOK, TypeOK', DayInv, NEW w \in Workers, NEW n \in {0, 1},
         \A v \in Workers \ {w} : Batch(v)' = Batch(v),
         Cardinality(Batch(w)') + n <= Cardinality(Batch(w)),
         Cardinality(AcceptedToday') <= Cardinality(AcceptedToday) + n
  PROVE  DayInv'
<1>1. /\ \A v \in Workers : Cardinality(Batch(v)') \in Nat
      /\ Cardinality(AcceptedToday') \in Nat
  <2>1. AcceptedToday' \in SUBSET Sends
    BY DEF AcceptedToday, TypeOK, RowTypeOK
  <2>2. \A v \in Workers : Batch(v)' \in SUBSET Sends
    BY DEF Batch
  <2> QED
    BY <2>1, <2>2, SendsAssumption, FS_Subset, FS_CardinalityType
<1>2. \A v \in Workers : Cardinality(Batch(v)') <= BatchSize
  <2>1. \A v \in Workers : Cardinality(Batch(v)) <= BatchSize /\ Cardinality(Batch(v)) \in Nat
    BY Finite DEF DayInv
  <2>2. Cardinality(Batch(w)') <= BatchSize
    BY <1>1, <2>1, LimitAssumption
  <2> QED
    BY <2>1, <2>2
<1>3. PICK f, g : f = Load /\ g = [v \in Workers |-> Cardinality(Batch(v)')]
  OBVIOUS
<1>4. Summable(f, Workers) /\ SumFunctionOnSet(f, Workers) \in Nat
  BY <1>3, LoadIsBounded DEF DayInv
<1>5. Summable(g, Workers)
  BY <1>1, <1>3, SendsAssumption DEF Summable
<1>6. \A v \in Workers \ {w} : g[v] = f[v]
  BY <1>3 DEF Load
<1>7. f[w] = Cardinality(Batch(w)) /\ g[w] = Cardinality(Batch(w)')
  BY <1>3 DEF Load
<1>8. SumFunctionOnSet(g, Workers) + f[w] = SumFunctionOnSet(f, Workers) + g[w]
  BY <1>4, <1>5, <1>6, SumChanged
<1>9. PICK a, b, t, u, m : /\ a = Cardinality(AcceptedToday) /\ b = Cardinality(AcceptedToday')
                           /\ t = SumFunctionOnSet(f, Workers) /\ u = SumFunctionOnSet(g, Workers)
                           /\ m = Bound
  OBVIOUS
<1>10. u \in Int
  BY <1>5, <1>9, SumType DEF Summable
<1>11. a \in Nat /\ b \in Nat /\ t \in Nat /\ m \in Nat /\ f[w] \in Nat /\ g[w] \in Nat
  BY <1>1, <1>4, <1>7, <1>9, Finite
<1>12. DailyLimit > 0 => b + u < m
  <2>1. DailyLimit > 0 => a + t < m
    BY <1>3, <1>9 DEF DayInv
  <2>2. u + f[w] = t + g[w] /\ g[w] + n <= f[w] /\ b <= a + n
    BY <1>7, <1>8, <1>9
  <2>3. u + n <= t
    BY <1>10, <1>11, <2>2
  <2> QED
    BY <1>10, <1>11, <2>1, <2>2, <2>3
<1>13. SumFunctionOnSet(Load, Workers)' = u /\ Bound' = m /\ Cardinality(AcceptedToday)' = b
  BY <1>3, <1>9 DEF Bound, Load
<1> QED
  BY <1>2, <1>12, <1>13 DEF DayInv

(* While the limit is not reached a claim may fill every hand there is.    *)
LEMMA DayClaim ==
  ASSUME Inv, TypeOK', DayInv, NEW w \in Workers, Claim(w)
  PROVE  DayInv'
<1>1. PICK L \in Skippable(w) : \E B \in Batches({s \in Sends : Claimable(s)} \ L) :
        /\ attempts' = [s \in Sends |-> IF s \in B THEN attempts[s] + 1 ELSE attempts[s]]
        /\ view' = [view EXCEPT ![w] = [s \in Sends |-> IF s \in B THEN attempts[s] + 1 ELSE 0]]
  BY DEF Claim
<1>2. PICK B \in SUBSET Sends :
        /\ Cardinality(B) <= BatchSize
        /\ \A s \in B : Claimable(s)
        /\ attempts' = [s \in Sends |-> IF s \in B THEN attempts[s] + 1 ELSE attempts[s]]
        /\ view' = [view EXCEPT ![w] = [s \in Sends |-> IF s \in B THEN attempts[s] + 1 ELSE 0]]
  BY <1>1 DEF Batches
<1>3. UNCHANGED <<log, sentToday>>
  BY DEF Claim
<1>4. pc[w] = "cleared" /\ view[w] = NothingHeld
  BY DEF Claim, Inv, WorkerInv
<1>5. \A s \in Sends : attempts[s] \in 0 .. AttemptCap
  BY DEF Inv, TypeOK, RowTypeOK
<1>6. \A v \in Workers \ {w} : Batch(v)' = Batch(v)
  BY <1>2 DEF Batch, Inv, TypeOK, WorkerTypeOK
<1>7. Batch(w)' = B
  <2>1. view'[w] = [s \in Sends |-> IF s \in B THEN attempts[s] + 1 ELSE 0]
    BY <1>2 DEF Inv, TypeOK, WorkerTypeOK
  <2>2. \A s \in B : attempts[s] + 1 # 0
    BY <1>5, AttemptAssumption
  <2> QED
    BY <2>1, <2>2 DEF Batch
<1>8. AcceptedToday' \in SUBSET AcceptedToday
  <2>1. ASSUME NEW s \in sentToday, LastOutcome(s)' = "accepted" PROVE LastOutcome(s) = "accepted"
    <3>1. s \in Sends
      BY DEF Inv, TypeOK, RowTypeOK
    <3>2. CASE s \in B
      <4>1. attempts'[s] = attempts[s] + 1 /\ attempts[s] + 1 \in 1 .. AttemptCap
        BY <1>2, <1>5, <3>1, <3>2, AttemptAssumption DEF Claimable
      <4>2. log'[s][attempts'[s]] = "none"
        BY <1>3, <1>5, <3>1, <4>1, AttemptAssumption DEF Inv, RowInv
      <4> QED
        BY <2>1, <4>1, <4>2 DEF LastOutcome
    <3>3. CASE s \notin B
      <4>1. attempts'[s] = attempts[s]
        BY <1>2, <3>1, <3>3
      <4> QED
        BY <1>3, <2>1, <4>1 DEF LastOutcome
    <3> QED
      BY <3>2, <3>3
  <2> QED
    BY <1>3, <2>1 DEF AcceptedToday
<1>9. CASE B = {}
  <2>1. Batch(w) = {}
    BY <1>4 DEF Batch, NothingHeld
  <2>2. \A v \in Workers : Batch(v)' = Batch(v)
    BY <1>6, <1>7, <1>9, <2>1
  <2> QED
    BY <1>8, <2>2, DayKept DEF Inv
<1>10. CASE B # {}
  <2>1. DailyLimit > 0 => Cardinality(sentToday) < DailyLimit
    BY <1>2, <1>10 DEF Claimable
  <2>2. \A v \in Workers : Cardinality(Batch(v))' <= BatchSize
    BY <1>2, <1>6, <1>7 DEF DayInv
  <2>3. PICK t, k : t = SumFunctionOnSet(Load, Workers)' /\ k = Cardinality(Workers) * BatchSize
    OBVIOUS
  <2>4. t \in Nat /\ t <= k
    <3>1. \A v \in Workers : Batch(v)' \in SUBSET Sends
      BY DEF Batch
    <3>2. \A v \in Workers : Cardinality(Batch(v)') \in 0 .. BatchSize
      BY <2>2, <3>1, SendsAssumption, FS_Subset, FS_CardinalityType, LimitAssumption
    <3>3. PICK f : f = [v \in Workers |-> Cardinality(Batch(v)')]
      OBVIOUS
    <3>4. f \in [Workers -> 0 .. BatchSize] /\ f \in [Workers -> Nat]
      BY <3>2, <3>3
    <3>5. SumFunctionOnSet(f, Workers) <= Cardinality(Workers) * BatchSize
      BY <3>4, SendsAssumption, LimitAssumption, SumBounded
    <3>6. SumFunctionOnSet(f, Workers) \in Nat
      BY <3>4, SendsAssumption, SumNat
    <3>7. Load' = f
      BY <3>3 DEF Load
    <3> QED
      BY <2>3, <3>5, <3>6, <3>7
  <2>5. PICK a, b : a = Cardinality(AcceptedToday)' /\ b = Cardinality(sentToday)
    OBVIOUS
  <2>6. a \in Nat /\ b \in Nat /\ a <= b
    <3>1. AcceptedToday' \in SUBSET sentToday /\ IsFiniteSet(sentToday)
      BY <1>3, SendsAssumption, FS_Subset DEF AcceptedToday, Inv, TypeOK, RowTypeOK
    <3> QED
      BY <2>5, <3>1, FS_Subset, FS_CardinalityType
  <2>7. k \in Nat
    BY <2>3, SendsAssumption, FS_CardinalityType, LimitAssumption
  <2>8. DailyLimit > 0 => a + t < DailyLimit + k
    BY <2>1, <2>4, <2>5, <2>6, <2>7, LimitAssumption
  <2> QED
    BY <2>2, <2>3, <2>5, <2>8 DEF DayInv, Bound
<1> QED
  BY <1>9, <1>10

(* An answer takes a send out of its worker's hands.                       *)
LEMMA DayRecord ==
  ASSUME Inv, TypeOK', DayInv, NEW w \in Workers, Record(w)
  PROVE  DayInv'
<1>1. PICK s \in Sends, o \in Outcomes : RecordEffect(w, s, o)
  BY Fenced DEF Inv
<1>2. /\ view' = [view EXCEPT ![w][s] = 0] /\ UNCHANGED attempts /\ s \in Batch(w)
      /\ sentToday' \in {sentToday, sentToday \cup {s}}
      /\ \A x \in Sends \ {s} : log'[x] = log[x]
  BY <1>1 DEF RecordEffect, RecordSendAttempt, Inv, TypeOK, RowTypeOK
<1>3. \A v \in Workers \ {w} : Batch(v)' = Batch(v)
  BY <1>2 DEF Batch, Inv, TypeOK, WorkerTypeOK
<1>4. Batch(w)' = Batch(w) \ {s}
  BY <1>2 DEF Batch, Inv, TypeOK, WorkerTypeOK
<1>5. Cardinality(Batch(w)') + 1 <= Cardinality(Batch(w))
  <2>1. IsFiniteSet(Batch(w)) /\ Cardinality(Batch(w)) \in Nat
    BY Finite DEF Inv
  <2>2. Cardinality(Batch(w) \ {s}) = Cardinality(Batch(w)) - 1
    BY <1>2, <2>1, FS_RemoveElement
  <2> QED
    BY <1>4, <2>1, <2>2
<1>6. AcceptedToday' \in SUBSET (AcceptedToday \cup {s})
  <2>1. sentToday \subseteq Sends
    BY DEF Inv, TypeOK, RowTypeOK
  <2> QED
    BY <1>2, <2>1 DEF AcceptedToday, LastOutcome
<1>7. Cardinality(AcceptedToday') <= Cardinality(AcceptedToday) + 1
  <2>1. IsFiniteSet(AcceptedToday) /\ Cardinality(AcceptedToday) \in Nat
    BY Finite DEF Inv
  <2>2. /\ IsFiniteSet(AcceptedToday \cup {s})
        /\ Cardinality(AcceptedToday \cup {s}) <= Cardinality(AcceptedToday) + 1
    <3>1. PICK A : A = AcceptedToday
      OBVIOUS
    <3>2. /\ IsFiniteSet(A \cup {s})
          /\ Cardinality(A \cup {s}) \in {Cardinality(A), Cardinality(A) + 1}
      BY <2>1, <3>1, FS_AddElement
    <3> QED
      BY <2>1, <3>1, <3>2
  <2>3. Cardinality(AcceptedToday') <= Cardinality(AcceptedToday \cup {s})
    BY <1>6, <2>2, FS_Subset
  <2>4. Cardinality(AcceptedToday') \in Nat /\ Cardinality(AcceptedToday \cup {s}) \in Nat
    BY <1>6, <2>2, FS_Subset, FS_CardinalityType
  <2> QED
    BY <2>1, <2>2, <2>3, <2>4
<1> QED
  BY <1>3, <1>5, <1>7, DayWorked DEF Inv

LEMMA DayStep ==
  ASSUME Inv, Inv', DayInv, [Next]_vars
  PROVE  DayInv'
<1>1. ASSUME NEW w \in Workers, Claim(w) PROVE DayInv'
  BY <1>1, DayClaim DEF Inv
<1>2. ASSUME NEW w \in Workers, Record(w) PROVE DayInv'
  BY <1>2, DayRecord DEF Inv
<1>3. ASSUME NEW w \in Workers, OwnershipLost(w) \/ Abort(w) PROVE DayInv'
  <2>1. /\ view' = [view EXCEPT ![w] = NothingHeld]
        /\ UNCHANGED <<sentToday, log, attempts>>
    BY <1>3 DEF OwnershipLost, Abort, DropBatch, rowVars
  <2>2. \A v \in Workers \ {w} : Batch(v)' = Batch(v)
    BY <2>1 DEF Batch, Inv, TypeOK, WorkerTypeOK
  <2>3. Batch(w)' = {}
    BY <2>1 DEF Batch, NothingHeld, Inv, TypeOK, WorkerTypeOK
  <2>4. AcceptedToday' = AcceptedToday
    BY <2>1 DEF AcceptedToday, LastOutcome
  <2>5. Cardinality(Batch(w)') + 0 <= Cardinality(Batch(w))
    BY <2>3, Finite, FS_EmptySet DEF Inv
  <2>6. Cardinality(AcceptedToday') <= Cardinality(AcceptedToday) + 0
    BY <2>4, Finite DEF Inv
  <2> QED
    BY <2>2, <2>5, <2>6, DayWorked DEF Inv
<1>4. ASSUME NEW s \in Sends, Resolve(s) PROVE DayInv'
  <2>1. /\ UNCHANGED <<attempts, log, view>> /\ status[s] = "uncertain"
        /\ sentToday' \in {sentToday, sentToday \cup {s}}
    BY <1>4 DEF Resolve, workerVars
  <2>2. LastOutcome(s) # "accepted"
    BY <2>1 DEF Inv, LogExplainsStatus
  <2>3. AcceptedToday' \in SUBSET AcceptedToday
    BY <2>1, <2>2 DEF AcceptedToday, LastOutcome
  <2>4. \A w \in Workers : Batch(w)' = Batch(w)
    BY <2>1 DEF Batch
  <2> QED
    BY <2>3, <2>4, DayKept DEF Inv
<1>5. CASE NewDay
  <2>1. sentToday' = {} /\ UNCHANGED view
    BY <1>5 DEF NewDay, workerVars
  <2>2. AcceptedToday' \in SUBSET AcceptedToday
    BY <2>1 DEF AcceptedToday
  <2>3. \A w \in Workers : Batch(w)' = Batch(w)
    BY <2>1 DEF Batch
  <2> QED
    BY <2>2, <2>3, DayKept DEF Inv
<1>6. CASE UNCHANGED <<view, attempts, log, sentToday>>
  <2>1. AcceptedToday' \in SUBSET AcceptedToday
    BY <1>6 DEF AcceptedToday, LastOutcome
  <2>2. \A w \in Workers : Batch(w)' = Batch(w)
    BY <1>6 DEF Batch
  <2> QED
    BY <2>1, <2>2, DayKept DEF Inv
<1> QED
  BY <1>1, <1>2, <1>3, <1>4, <1>5, <1>6
     DEF Next, WorkerStep, SendStep, PersonStep, Clear, Submit, Enqueue, Lookup,
         CancelFutureSends, AddSuppression, PersistReply, ImportReply, Flip,
         SetControl, Tick, vars, rowVars, workerVars

LEMMA DayInit == Init => DayInv
<1> SUFFICES ASSUME Init PROVE DayInv
  OBVIOUS
<1>1. TypeOK
  BY TypeInit
<1>2. AcceptedToday = {} /\ \A w \in Workers : Batch(w) = {}
  BY DEF Init, AcceptedToday, Batch, NothingHeld
<1>3. Cardinality(AcceptedToday) = 0 /\ \A w \in Workers : Cardinality(Batch(w)) <= BatchSize
  BY <1>2, FS_EmptySet, LimitAssumption
<1>4. PICK t, k : t = SumFunctionOnSet(Load, Workers) /\ k = Cardinality(Workers) * BatchSize
  OBVIOUS
<1>5. t \in Nat /\ t <= k
  BY <1>1, <1>3, <1>4, LoadIsBounded
<1>6. k \in Nat
  BY <1>4, SendsAssumption, FS_CardinalityType, LimitAssumption
<1>7. DailyLimit > 0 => 0 + t < DailyLimit + k
  BY <1>5, <1>6, LimitAssumption
<1> QED
  BY <1>3, <1>4, <1>7 DEF DayInv, Bound

(* However many workers claim at once and however late they answer, the    *)
(* sends they get accepted in a day exceed the daily limit by less than a  *)
(* batch for each of them (claim_due_sends counts what is marked sent).    *)
THEOREM OvershootCorrect == Spec => []OvershootIsBounded
<1>1. Inv /\ DayInv => OvershootIsBounded
  <2> SUFFICES ASSUME Inv, DayInv, DailyLimit > 0
               PROVE  Cardinality(AcceptedToday) < DailyLimit + Cardinality(Workers) * BatchSize
    BY DEF OvershootIsBounded
  <2>1. PICK a, t, m : /\ a = Cardinality(AcceptedToday) /\ t = SumFunctionOnSet(Load, Workers)
                       /\ m = Bound
    OBVIOUS
  <2>2. a \in Nat /\ t \in Nat /\ m \in Nat
    BY <2>1, Finite, LoadIsBounded DEF Inv, DayInv
  <2>3. a + t < m
    BY <2>1 DEF DayInv
  <2>4. a < m
    BY <2>2, <2>3
  <2> QED
    BY <2>1, <2>4 DEF Bound
<1>2. Init => DayInv
  BY DayInit
<1>3. Inv /\ Inv' /\ DayInv /\ [Next]_vars => DayInv'
  BY DayStep
<1> QED
  BY <1>1, <1>2, <1>3, Invariance, PTL DEF Spec

------------------------------------------------------------------------------
(* The queue implements the ledger: every step of it is a step of the      *)
(* ledger or leaves it unchanged.                                          *)
PhaseMap == [s \in Sends |-> Phase(s)]
AnsweredMap == [s \in Sends |-> AnsweredTries(s)]

(* The phase a status stands for, one status at a time.                    *)
LEMMA PhaseOf ==
  ASSUME NEW s \in Sends
  PROVE  /\ status[s] = "absent" => Phase(s) = "none"
         /\ status[s] \in {"queued", "claiming"} => Phase(s) = "open"
         /\ status[s] = "uncertain" => Phase(s) = "quarantined"
BY DEF Phase

(* The same for the phase after a step.                                    *)
LEMMA PhaseNext ==
  ASSUME NEW s \in Sends
  PROVE  /\ status'[s] \in {"queued", "claiming"} => Phase(s)' = "open"
         /\ status'[s] = "uncertain" => Phase(s)' = "quarantined"
         /\ status'[s] \in {"sent", "failed"} => Phase(s)' = "closed"
         /\ status'[s] = "cancelled" => Phase(s)' = "cancelled"
         /\ status'[s] = status[s] => Phase(s)' = Phase(s)
BY DEF Phase

(* The empty queue is an empty ledger.                                     *)
LEMMA LedgerInit == Init => Ledger!Init
<1> SUFFICES ASSUME Init PROVE Ledger!Init
  OBVIOUS
<1>1. \A s \in Sends : Phase(s) = "none" /\ attempts[s] = 0
  BY PhaseOf DEF Init
<1>2. \A s \in Sends : AnsweredTries(s) = {}
  BY DEF Init, AnsweredTries
<1>3. attempts = [s \in Sends |-> 0]
  BY DEF Init
<1> QED
  BY <1>1, <1>2, <1>3 DEF Ledger!Init

(* A claim hands out tries, a record answers the newest one, a             *)
(* cancellation cancels, a reconciliation resolves; all else stutters.     *)
LEMMA LedgerStep == Inv /\ [Next]_vars => [Ledger!Next]_(Ledger!ledger)
<1> SUFFICES ASSUME Inv, [Next]_vars
             PROVE  Ledger!Next \/ UNCHANGED Ledger!ledger
  BY DEF Ledger!ledger
<1>0. /\ TypeOK /\ WorkerInv /\ FenceHolds /\ RowInv
      /\ status \in [Sends -> Status]
      /\ attempts \in [Sends -> 0 .. AttemptCap]
      /\ log \in [Sends -> [1 .. AttemptCap -> Outcomes \cup {"none"}]]
  BY DEF Inv, TypeOK, RowTypeOK
<1>a. UNCHANGED log => UNCHANGED AnsweredMap
  BY DEF AnsweredMap, AnsweredTries
<1>b. UNCHANGED status => UNCHANGED PhaseMap
  BY DEF PhaseMap, Phase
<1>c. UNCHANGED <<PhaseMap, attempts, AnsweredMap>> => UNCHANGED Ledger!ledger
  BY DEF PhaseMap, AnsweredMap, Ledger!ledger
<1>1. ASSUME NEW s \in Sends, Enqueue(s) PROVE Ledger!Open(s)
  <2>1. /\ status[s] = "absent" /\ status' = [status EXCEPT ![s] = "queued"]
        /\ UNCHANGED <<attempts, log>>
    BY <1>1 DEF Enqueue
  <2>2. Phase(s) = "none" /\ Phase(s)' = "open"
    BY <1>0, <2>1, PhaseOf, PhaseNext
  <2>3. \A t \in Sends \ {s} : Phase(t)' = Phase(t)
    BY <2>1, PhaseNext
  <2>4. PhaseMap[s] = "none" /\ PhaseMap' = [PhaseMap EXCEPT ![s] = "open"]
    BY <2>2, <2>3 DEF PhaseMap
  <2> QED
    BY <1>a, <2>1, <2>4 DEF Ledger!Open, PhaseMap, AnsweredMap
<1>2. ASSUME NEW w \in Workers, Claim(w)
      PROVE  \E B \in SUBSET Sends : Ledger!HandOut(B)
  <2>1. PICK B \in SUBSET {s \in Sends : Claimable(s)} : ClaimEffect(w, B)
    BY <1>0, <1>2, Claiming
  <2>2. UNCHANGED log
    BY <1>0, <1>2, Claiming
  <2>3. \A s \in B : s \in Sends /\ status[s] \in {"queued", "claiming"}
    BY DEF Claimable, Due, Expired
  <2>4. \A s \in Sends : IF s \in B THEN status'[s] = "claiming"
                                    ELSE status'[s] = status[s]
    BY <2>1 DEF ClaimEffect
  <2>5. \A s \in B : PhaseMap[s] = "open"
    BY <2>3, PhaseOf DEF PhaseMap
  <2>6. \A s \in Sends : Phase(s)' = Phase(s)
    BY <2>3, <2>4, PhaseOf, PhaseNext
  <2>7. UNCHANGED PhaseMap
    BY <2>6 DEF PhaseMap
  <2>8. Ledger!HandOut(B)
    BY <1>a, <2>1, <2>2, <2>5, <2>7
       DEF Ledger!HandOut, ClaimEffect, PhaseMap, AnsweredMap
  <2> QED
    BY <2>8
<1>3. ASSUME NEW w \in Workers, Record(w)
      PROVE  \E s \in Sends, next \in {"open", "quarantined", "closed"} :
               Ledger!Answer(s, next)
  <2>1. PICK s \in Sends, o \in Outcomes : RecordEffect(w, s, o)
    BY <1>0, <1>3, Fenced
  <2>2. /\ status[s] = "claiming" /\ attempts[s] \in 1 .. AttemptCap
        /\ log[s][attempts[s]] = "none"
        /\ log' = [log EXCEPT ![s][attempts[s]] = o]
        /\ status' = [status EXCEPT ![s] = StatusAfter(o)]
        /\ UNCHANGED attempts
    BY <2>1 DEF RecordEffect, RecordSendAttempt
  <2>3. /\ status'[s] \in {"queued", "uncertain", "sent", "failed"}
        /\ \A t \in Sends \ {s} : status'[t] = status[t]
    BY <1>0, <2>2 DEF StatusAfter, StatusByOutcome, Outcomes
  <2>4. PICK next \in {"open", "quarantined", "closed"} : Phase(s)' = next
    BY <2>3, PhaseNext
  <2>5. \A t \in Sends \ {s} : Phase(t)' = Phase(t)
    BY <2>3, PhaseNext
  <2>6. PhaseMap[s] = "open" /\ PhaseMap' = [PhaseMap EXCEPT ![s] = next]
    BY <2>2, <2>4, <2>5, PhaseOf DEF PhaseMap
  <2>7. o # "none"
    BY DEF Outcomes
  <2>8. AnsweredTries(s)' = AnsweredTries(s) \cup {attempts[s]}
    BY <1>0, <2>2, <2>7 DEF AnsweredTries
  <2>9. \A t \in Sends \ {s} : AnsweredTries(t)' = AnsweredTries(t)
    BY <1>0, <2>2 DEF AnsweredTries
  <2>10. attempts[s] > 0 /\ attempts[s] \notin AnsweredMap[s]
    BY <2>2, AttemptAssumption DEF AnsweredMap, AnsweredTries
  <2>11. AnsweredMap' = [AnsweredMap EXCEPT ![s] = @ \cup {attempts[s]}]
    BY <2>8, <2>9 DEF AnsweredMap
  <2>12. Ledger!Answer(s, next)
    BY <2>2, <2>6, <2>10, <2>11 DEF Ledger!Answer, PhaseMap, AnsweredMap
  <2> QED
    BY <2>12
<1>4. ASSUME NEW s \in Sends, Resolve(s) PROVE Ledger!Resolve(s)
  <2>1. /\ status[s] = "uncertain"
        /\ status'[s] \in {"sent", "failed"}
        /\ \A t \in Sends \ {s} : status'[t] = status[t]
        /\ UNCHANGED <<attempts, log>>
    BY <1>0, <1>4 DEF Resolve
  <2>2. Phase(s) = "quarantined" /\ Phase(s)' = "closed"
    BY <2>1, PhaseOf, PhaseNext
  <2>3. \A t \in Sends \ {s} : Phase(t)' = Phase(t)
    BY <2>1, PhaseNext
  <2>4. /\ PhaseMap[s] = "quarantined"
        /\ PhaseMap' = [PhaseMap EXCEPT ![s] = "closed"]
    BY <2>2, <2>3 DEF PhaseMap
  <2> QED
    BY <1>a, <2>1, <2>4 DEF Ledger!Resolve, PhaseMap, AnsweredMap
<1>5. ASSUME NEW p \in People, CancelFutureSends(p)
      PROVE  \E B \in SUBSET Sends : Ledger!Cancel(B)
  <2> DEFINE B == {s \in Sends : PersonOf[s] = p /\ status[s] = "queued"}
  <2>1. /\ \A s \in Sends : IF s \in B THEN status'[s] = "cancelled"
                                       ELSE status'[s] = status[s]
        /\ UNCHANGED <<attempts, log>>
    BY <1>5 DEF CancelFutureSends
  <2>2. \A s \in B : PhaseMap[s] = "open"
    BY PhaseOf DEF PhaseMap
  <2>3. \A s \in Sends : Phase(s)' = IF s \in B THEN "cancelled" ELSE Phase(s)
    BY <2>1, PhaseNext
  <2>4. PhaseMap' = [s \in Sends |-> IF s \in B THEN "cancelled" ELSE PhaseMap[s]]
    BY <2>3 DEF PhaseMap
  <2>5. B \in SUBSET Sends
    OBVIOUS
  <2> HIDE DEF B
  <2>6. Ledger!Cancel(B)
    BY <1>a, <2>1, <2>2, <2>4 DEF Ledger!Cancel, PhaseMap, AnsweredMap
  <2> QED
    BY <2>5, <2>6
<1>6. CASE UNCHANGED <<status, attempts, log>>
  BY <1>6, <1>a, <1>b, <1>c
<1> QED
  BY <1>1, <1>2, <1>3, <1>4, <1>5, <1>6
     DEF Next, WorkerStep, SendStep, PersonStep, Clear, Submit, OwnershipLost,
         Abort, Lookup, AddSuppression, PersistReply, ImportReply, Flip,
         SetControl, Tick, NewDay, vars, rowVars, Ledger!Next

(* The send queue implements LeaseLedger.                                   *)
THEOREM Implements == Spec => LedgerSpec
BY LedgerInit, LedgerStep, Invariance, PTL DEF Spec, LedgerSpec, Ledger!Spec
==============================================================================
