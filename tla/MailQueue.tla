------------------------------ MODULE MailQueue ------------------------------
(***************************************************************************)
(* The durable send queue: the table public.sends with the SQL functions   *)
(* that change it (enqueue, claim with a lease, record an attempt, resolve *)
(* an uncertain send), the SendEngine loop of every mail worker, the SMTP  *)
(* provider it submits to, and the operators and events around them.       *)
(*                                                                         *)
(* Time is counted down: lease[s] is the number of ticks until the claim   *)
(* on s expires, wait[s] until s is due; 0 means "now or in the past".     *)
(*                                                                         *)
(* Bounds: MaxAborts iterations die, a send is claimed at most AttemptCap  *)
(* times, provider acceptances are counted up to Twice, batches claimed    *)
(* behind a closed gate up to Twice.                                       *)
(***************************************************************************)
EXTENDS Naturals, FiniteSets

CONSTANTS
  Sends,        \* logical sends, one per idempotency key
  People,
  PersonOf,     \* the recipient of a send
  Workers,      \* worker ids: one per MailWorker process, all different
  NoWorker,     \* SQL null in claimed_by
  NoCall,       \* no provider call in progress
  BatchSize,    \* p_batch_size of claim_due_sends
  MaxAttempts,  \* RetryPolicy.max_attempts
  Backoff,      \* RetryPolicy's delay in ticks, by attempt
  MaxDelay,     \* how far ahead a send is scheduled, and the longest backoff
  LeaseTicks,   \* the lease claim_due_sends grants
  DailyLimit,   \* campaign or mailbox limit, 0 for none
  Switches,     \* what must be on for a claim: campaign, step, mailbox, window
  Environment,  \* the engine's environment: "production" or another
  ControlRows,  \* the values operations.control_state may take
  NoRow,        \* the control row cannot be read
  GateWired,    \* is an OutboundGate passed to the SendEngine?
  FaultSets,    \* the sets of faults a behaviour may be exposed to
  Moves,        \* which moves of the environment are enabled
  MaxAborts, AttemptCap

ASSUME NullAssumption == NoWorker \notin Workers
ASSUME PersonAssumption == PersonOf \in [Sends -> People]
ASSUME SendsAssumption == IsFiniteSet(Sends) /\ IsFiniteSet(Workers)
ASSUME AttemptAssumption ==
  /\ MaxAttempts \in Nat \ {0}
  /\ AttemptCap \in Nat
  /\ MaxDelay \in Nat
  /\ Backoff \in [1 .. MaxAttempts -> 0 .. MaxDelay]
ASSUME LeaseAssumption == LeaseTicks \in Nat \ {0}
ASSUME LimitAssumption ==
  /\ BatchSize \in Nat \ {0} /\ DailyLimit \in Nat /\ MaxAborts \in Nat
ASSUME GateAssumption == GateWired \in BOOLEAN

VARIABLES
  status,     \* public.sends.status ("absent" before the insert)
  owner,      \* claimed_by
  lease,      \* claim_lease_until
  wait,       \* coalesce(next_attempt_at, scheduled_at)
  attempts,   \* attempt_count
  log,        \* send_attempts.outcome by attempt_no
  sentToday,  \* the sends with sent_at on the current day
  pc,         \* where a worker's iteration stands
  view,       \* the attempt_count of the DueSends a worker has not processed
  call,       \* the provider call a worker is in, with what SMTP answers
  probe,      \* the answer of lookup_delivery not yet written
  delivered,  \* how often the provider really accepted the send
  stopped,    \* people with a row in public.suppression
  replied,    \* people with a row in public.replies
  threaded,   \* people with a row in conversation.replies
  active,     \* the switches that are on
  control,    \* the row of operations.control_state
  late,       \* batches a worker claimed since the gate closed
  aborts,     \* iterations that died so far
  faults      \* what may happen in this behaviour, fixed from the start:
              \* "slow", a batch may outlive its lease, and "crash", a
              \* worker may die between an acceptance and its record

rowVars == <<status, owner, lease, wait, attempts, log, sentToday>>
workerVars == <<pc, view, call>>
peopleVars == <<stopped, replied, threaded>>
opsVars == <<active, control>>
ghostVars == <<delivered, faults>>
vars == <<rowVars, workerVars, probe, peopleVars, opsVars, late, aborts,
          ghostVars>>

Status == {"absent", "queued", "claiming", "sent", "failed", "cancelled",
           "uncertain"}
Settled == {"sent", "failed", "cancelled"}
Outcomes == {"accepted", "temporary_failure", "permanent_failure", "ambiguous"}
Twice == 2

OneMore(n) == IF n < Twice THEN n + 1 ELSE Twice

(* What can happen to one SMTP submission.                                 *)
SmtpEvents == {
  "delivered",    \* 250 after DATA
  "ack_lost",     \* accepted by the server, the connection died first
  "cut",          \* the connection died during submission, not accepted
  "refused",      \* the server refused the recipient: SMTPRecipientsRefused
  "code_4xx",     \* a 4xx reply to login, MAIL or DATA
  "code_5xx",     \* a 5xx reply to login, MAIL or DATA
  "unreachable"}  \* connect, TLS or login broke down
Accepting == {"delivered", "ack_lost"}

ASSUME CallAssumption == NoCall \notin [send : Sends, event : SmtpEvents]

(* SmtpMailProvider.send as the engine sees it.  An SMTPRecipientsRefused  *)
(* is an OSError, so it leaves as the ambiguous error too.                 *)
ProviderResults == [
  delivered |-> "accepted",
  ack_lost |-> "ambiguous",
  cut |-> "ambiguous",
  refused |-> "ambiguous",
  code_4xx |-> "temporary_failure",
  code_5xx |-> "permanent_failure",
  unreachable |-> "temporary_failure"]

(* Faulty variants, to show that the properties notice: a lost             *)
(* acknowledgement taken for a transport error; a refusal not looked at.   *)
BugTimeoutRetried(event) ==
  [ProviderResults EXCEPT !.ack_lost = "temporary_failure"][event]
BugRefusalIgnored(event) ==
  [ProviderResults EXCEPT !.refused = "accepted"][event]

ProviderResult(event) == ProviderResults[event]

(* RetryPolicy.next_attempt_at: no further attempt from the last one on.   *)
MayRetry(attempt) == attempt < MaxAttempts

(* Faulty variant: the transient failure of the last attempt is retried.   *)
BugEndlessRetry(event, attempt) == ProviderResult(event)

(* process_due and mark_failed: a transient failure without a retry time   *)
(* is recorded as permanent.                                               *)
Outcome(event, attempt) ==
  IF ProviderResult(event) = "temporary_failure" /\ ~MayRetry(attempt)
  THEN "permanent_failure"
  ELSE ProviderResult(event)

(* The status record_send_attempt gives the row.                           *)
StatusByOutcome == [
  accepted |-> "sent",
  temporary_failure |-> "queued",
  permanent_failure |-> "failed",
  ambiguous |-> "uncertain"]

(* Faulty variant: an unknown outcome is sent again.                       *)
BugUnknownRequeued(outcome) ==
  [StatusByOutcome EXCEPT !.ambiguous = "queued"][outcome]

StatusAfter(outcome) == StatusByOutcome[outcome]

(* OutboundGate.assert_send_allowed on the row it read.                    *)
SendAllowed(row) ==
  /\ row # NoRow
  /\ IF Environment = "production"
     THEN /\ row.environment = "production"
          /\ row.outbound_state = "ENABLED"
          /\ row.maintenance_mode = FALSE
     ELSE row.outbound_state # "SAFE_STOP"

Batch(w) == {s \in Sends : view[w][s] # 0}
NothingHeld == [s \in Sends |-> 0]
InDoubt(w) == call[w] # NoCall /\ call[w].event \in Accepting

Init ==
  /\ status = [s \in Sends |-> "absent"]
  /\ owner = [s \in Sends |-> NoWorker]
  /\ lease = [s \in Sends |-> 0]
  /\ wait = [s \in Sends |-> 0]
  /\ attempts = [s \in Sends |-> 0]
  /\ log = [s \in Sends |-> [n \in 1 .. AttemptCap |-> "none"]]
  /\ sentToday = {}
  /\ pc = [w \in Workers |-> "idle"]
  /\ view = [w \in Workers |-> NothingHeld]
  /\ call = [w \in Workers |-> NoCall]
  /\ probe = [s \in Sends |-> "none"]
  /\ delivered = [s \in Sends |-> 0]
  /\ stopped = {} /\ replied = {} /\ threaded = {}
  /\ active = Switches
  /\ control \in ControlRows
  /\ late = [w \in Workers |-> 0]
  /\ aborts = 0
  /\ faults \in FaultSets

------------------------------------------------------------------------------
(* mail.enqueue_campaign_send.  A repeated call with the same key returns  *)
(* the row it finds and a call that fails a guard raises: neither changes  *)
(* the queue.                                                              *)
Enqueue(s) ==
  /\ status[s] = "absent"
  /\ "mailbox" \in active
  /\ PersonOf[s] \notin stopped \cup replied \cup threaded
  /\ status' = [status EXCEPT ![s] = "queued"]
  /\ \E d \in 0 .. MaxDelay : wait' = [wait EXCEPT ![s] = d]
  /\ UNCHANGED <<owner, lease, attempts, log, sentToday, workerVars, probe,
                 peopleVars, opsVars, late, aborts, ghostVars>>

(* Faulty variant: the gate is there and not asked.                        *)
BugGateSkipped == TRUE

GatePasses == GateWired => SendAllowed(control)

(* The start of process_due: the gate, when there is one, reads the        *)
(* control row in a transaction of its own; a blocked iteration ends.      *)
Clear(w) ==
  /\ pc[w] = "idle"
  /\ GatePasses
  /\ pc' = [pc EXCEPT ![w] = "cleared"]
  /\ UNCHANGED <<rowVars, view, call, probe, peopleVars, opsVars, late,
                 aborts, ghostVars>>

Due(s) == status[s] = "queued" /\ wait[s] = 0

(* Faulty variants: claims without regard to their lease, or never.        *)
BugAnyClaim(s) == status[s] = "claiming"
BugNoRecovery(s) == FALSE

Expired(s) == status[s] = "claiming" /\ lease[s] = 0

(* Faulty variant: suppression is looked up for fresh sends only.          *)
BugSuppressionOnce(s) ==
  status[s] = "queued" => PersonOf[s] \notin stopped \cup replied

MayContact(s) == PersonOf[s] \notin stopped \cup replied

(* The candidates of claim_due_sends.  It reads public.replies and not     *)
(* conversation.replies, and counts the sends already marked sent today.   *)
Claimable(s) ==
  /\ Due(s) \/ Expired(s)
  /\ active = Switches
  /\ MayContact(s)
  /\ DailyLimit = 0 \/ Cardinality(sentToday) < DailyLimit
  /\ attempts[s] < AttemptCap

(* The first BatchSize candidates, expired claims before queued sends.     *)
Batches(cand) ==
  {B \in SUBSET cand :
     /\ Cardinality(B) <= BatchSize
     /\ Cardinality(B) < BatchSize => B = cand
     /\ \A s \in B, t \in cand \ B :
          status[t] = "claiming" => status[s] = "claiming"}

(* Rows another claim in flight has locked are skipped; that claim keeps   *)
(* at least one.                                                           *)
Skippable(w) ==
  {L \in SUBSET {s \in Sends : Claimable(s)} :
     \/ L = {}
     \/ /\ L # {s \in Sends : Claimable(s)}
        /\ \E v \in Workers \ {w} : pc[v] = "cleared"}

(* Faulty variant: coalesce(claimed_by, p_worker_id).                      *)
BugFirstOwner(s, w) == IF owner[s] = NoWorker THEN w ELSE owner[s]

NewOwner(s, w) == w

Claim(w) ==
  /\ pc[w] = "cleared"
  /\ \E L \in Skippable(w) :
     \E B \in Batches({s \in Sends : Claimable(s)} \ L) :
       /\ status' = [s \in Sends |-> IF s \in B THEN "claiming" ELSE status[s]]
       /\ owner' = [s \in Sends |-> IF s \in B THEN NewOwner(s, w) ELSE owner[s]]
       /\ lease' = [s \in Sends |-> IF s \in B THEN LeaseTicks ELSE lease[s]]
       /\ attempts' =
            [s \in Sends |-> IF s \in B THEN attempts[s] + 1 ELSE attempts[s]]
       /\ view' = [view EXCEPT ![w] =
            [s \in Sends |-> IF s \in B THEN attempts[s] + 1 ELSE 0]]
       /\ pc' = [pc EXCEPT ![w] = IF B = {} THEN "idle" ELSE "working"]
       /\ late' = IF B # {} /\ ~SendAllowed(control)
                  THEN [late EXCEPT ![w] = OneMore(@)] ELSE late
  /\ UNCHANGED <<wait, log, sentToday, call, probe, peopleVars, opsVars,
                 aborts, ghostVars>>

(* await provider.send for one send of the batch, whose rows come in any   *)
(* order.  Nothing is read again from the database before it.              *)
Submit(w, s, event) ==
  /\ pc[w] = "working"
  /\ call[w] = NoCall
  /\ s \in Batch(w)
  /\ call' = [call EXCEPT ![w] = [send |-> s, event |-> event]]
  /\ delivered' = IF event \in Accepting
                  THEN [delivered EXCEPT ![s] = OneMore(@)]
                  ELSE delivered
  /\ UNCHANGED <<rowVars, pc, view, probe, peopleVars, opsVars, late, aborts,
                 faults>>

(* Faulty variant: anyone may record.                                      *)
BugNoFence(s, w) == TRUE

(* "claim ownership lost" is raised unless this holds.                     *)
OwnsClaim(s, w) == owner[s] = w

(* record_send_attempt by the owner of the row.                            *)
RecordSendAttempt(s, outcome) ==
  /\ log' = [log EXCEPT ![s][attempts[s]] = outcome]
  /\ status' = [status EXCEPT ![s] = StatusAfter(outcome)]
  /\ sentToday' = IF outcome = "accepted" THEN sentToday \cup {s} ELSE sentToday
  /\ owner' = IF outcome = "ambiguous" THEN owner
              ELSE [owner EXCEPT ![s] = NoWorker]
  /\ lease' = IF outcome = "ambiguous" THEN lease ELSE [lease EXCEPT ![s] = 0]

(* mark_sent, mark_ambiguous or mark_failed: the answer is written under   *)
(* the worker's id.  The retry time counts from the start of the iteration *)
(* and may be nearer than the full backoff by now.                         *)
Record(w) ==
  /\ pc[w] = "working"
  /\ call[w] # NoCall
  /\ LET s == call[w].send
         outcome == Outcome(call[w].event, view[w][s])
     IN /\ OwnsClaim(s, w)
        /\ RecordSendAttempt(s, outcome)
        /\ IF outcome = "temporary_failure"
           THEN \E d \in 0 .. Backoff[view[w][s]] :
                  wait' = [wait EXCEPT ![s] = d]
           ELSE wait' = [wait EXCEPT ![s] = 0]
        /\ view' = [view EXCEPT ![w][s] = 0]
        /\ pc' = [pc EXCEPT ![w] = IF Batch(w) = {s} THEN "idle" ELSE "working"]
  /\ call' = [call EXCEPT ![w] = NoCall]
  /\ UNCHANGED <<attempts, probe, peopleVars, opsVars, late, aborts,
                 ghostVars>>

(* The rest of a batch is dropped: its rows stay claimed.                  *)
DropBatch(w) ==
  /\ pc' = [pc EXCEPT ![w] = "idle"]
  /\ view' = [view EXCEPT ![w] = NothingHeld]
  /\ call' = [call EXCEPT ![w] = NoCall]

(* record_send_attempt raises "claim ownership lost": MailWorker.run logs  *)
(* it and the iteration is over.                                           *)
OwnershipLost(w) ==
  /\ pc[w] = "working"
  /\ call[w] # NoCall
  /\ ~OwnsClaim(call[w].send, w)
  /\ DropBatch(w)
  /\ UNCHANGED <<rowVars, probe, peopleVars, opsVars, late, aborts,
                 ghostVars>>

(* Any other exception (a lost connection, a message that cannot be built) *)
(* or the end of the process; a new process starts idle.                   *)
Abort(w) ==
  /\ pc[w] # "idle"
  /\ InDoubt(w) => "crash" \in faults
  /\ aborts < MaxAborts
  /\ aborts' = aborts + 1
  /\ DropBatch(w)
  /\ UNCHANGED <<rowVars, probe, peopleVars, opsVars, late, ghostVars>>

------------------------------------------------------------------------------
(* SendEngine.reconcile_uncertain: the lookup is awaited, then the answer  *)
(* is written.  The lookup tells the truth at its time; UNKNOWN changes    *)
(* nothing.                                                                *)
Lookup(s) ==
  /\ "reconcile" \in Moves
  /\ status[s] = "uncertain"
  /\ probe' = [probe EXCEPT ![s] =
                 IF delivered[s] > 0 THEN "ACCEPTED" ELSE "REJECTED"]
  /\ UNCHANGED <<rowVars, workerVars, peopleVars, opsVars, late, aborts,
                 ghostVars>>

(* resolve_uncertain_send.                                                 *)
Resolve(s) ==
  /\ probe[s] # "none"
  /\ status[s] = "uncertain"
  /\ status' = [status EXCEPT ![s] =
                  IF probe[s] = "ACCEPTED" THEN "sent" ELSE "failed"]
  /\ sentToday' = IF probe[s] = "ACCEPTED" THEN sentToday \cup {s} ELSE sentToday
  /\ owner' = [owner EXCEPT ![s] = NoWorker]
  /\ lease' = [lease EXCEPT ![s] = 0]
  /\ wait' = [wait EXCEPT ![s] = 0]
  /\ probe' = [probe EXCEPT ![s] = "none"]
  /\ UNCHANGED <<attempts, log, workerVars, peopleVars, opsVars, late, aborts,
                 ghostVars>>

(* cancel_future_sends_for_person: the queued sends of a person.           *)
CancelFutureSends(p) ==
  /\ "cancel" \in Moves
  /\ LET queued == {s \in Sends : PersonOf[s] = p /\ status[s] = "queued"} IN
       /\ queued # {}
       /\ status' = [s \in Sends |->
                       IF s \in queued THEN "cancelled" ELSE status[s]]
  /\ UNCHANGED <<owner, lease, wait, attempts, log, sentToday, workerVars,
                 probe, peopleVars, opsVars, late, aborts, ghostVars>>

(* add_suppression.                                                        *)
AddSuppression(p) ==
  /\ "suppress" \in Moves
  /\ p \notin stopped
  /\ stopped' = stopped \cup {p}
  /\ UNCHANGED <<rowVars, workerVars, probe, replied, threaded, opsVars, late,
                 aborts, ghostVars>>

(* persist_handoff stores a reply in conversation.replies; nothing in the  *)
(* repository writes public.replies, another service may.                  *)
PersistReply(p) ==
  /\ "reply" \in Moves
  /\ p \notin threaded
  /\ threaded' = threaded \cup {p}
  /\ UNCHANGED <<rowVars, workerVars, probe, stopped, replied, opsVars, late,
                 aborts, ghostVars>>

ImportReply(p) ==
  /\ "import" \in Moves
  /\ p \notin replied
  /\ replied' = replied \cup {p}
  /\ UNCHANGED <<rowVars, workerVars, probe, stopped, threaded, opsVars, late,
                 aborts, ghostVars>>

(* An operator or a health job flips a switch of campaign or mailbox.      *)
Flip(x) ==
  /\ "flip" \in Moves
  /\ active' = IF x \in active THEN active \ {x} ELSE active \cup {x}
  /\ UNCHANGED <<rowVars, workerVars, probe, peopleVars, control, late,
                 aborts, ghostVars>>

(* An operator rewrites the control row, or it becomes unreadable.         *)
SetControl(row) ==
  /\ "control" \in Moves
  /\ row # control
  /\ control' = row
  /\ late' = IF SendAllowed(control) /\ ~SendAllowed(row)
             THEN [w \in Workers |-> 0] ELSE late
  /\ UNCHANGED <<rowVars, workerVars, probe, peopleVars, active, aborts,
                 ghostVars>>

(* One tick of time.  Without the fault "slow", no held lease runs out.    *)
Tick ==
  /\ \E s \in Sends : lease[s] > 0 \/ wait[s] > 0
  /\ "slow" \in faults \/ \A w \in Workers : \A s \in Batch(w) : lease[s] > 1
  /\ lease' = [s \in Sends |-> IF lease[s] > 0 THEN lease[s] - 1 ELSE 0]
  /\ wait' = [s \in Sends |-> IF wait[s] > 0 THEN wait[s] - 1 ELSE 0]
  /\ UNCHANGED <<status, owner, attempts, log, sentToday, workerVars, probe,
                 peopleVars, opsVars, late, aborts, ghostVars>>

NewDay ==
  /\ "day" \in Moves
  /\ sentToday # {}
  /\ sentToday' = {}
  /\ UNCHANGED <<status, owner, lease, wait, attempts, log, workerVars, probe,
                 peopleVars, opsVars, late, aborts, ghostVars>>

WorkerStep(w) ==
  \/ Clear(w) \/ Claim(w) \/ Record(w) \/ OwnershipLost(w) \/ Abort(w)
  \/ \E s \in Sends, event \in SmtpEvents : Submit(w, s, event)

SendStep(s) == Enqueue(s) \/ Lookup(s) \/ Resolve(s)

PersonStep(p) ==
  CancelFutureSends(p) \/ AddSuppression(p) \/ PersistReply(p) \/ ImportReply(p)

Next ==
  \/ \E w \in Workers : WorkerStep(w)
  \/ \E s \in Sends : SendStep(s)
  \/ \E p \in People : PersonStep(p)
  \/ \E x \in Switches : Flip(x)
  \/ \E row \in ControlRows \cup {NoRow} : SetControl(row)
  \/ Tick
  \/ NewDay

Spec == Init /\ [][Next]_vars

(* A worker process keeps iterating, its SMTP calls return (they have a    *)
(* timeout), its records reach the database, and time passes.  Nothing is  *)
(* assumed of aborts, operators, recipients or reconciliation.             *)
Fairness ==
  /\ WF_vars(Tick)
  /\ \A w \in Workers :
       /\ WF_vars(Clear(w))
       /\ WF_vars(Claim(w))
       /\ WF_vars(\E s \in Sends, event \in SmtpEvents : Submit(w, s, event))
       /\ WF_vars(Record(w) \/ OwnershipLost(w))

FairSpec == Spec /\ Fairness

------------------------------------------------------------------------------
(* The values every variable ranges over.                                  *)
RowTypeOK ==
  /\ status \in [Sends -> Status]
  /\ owner \in [Sends -> Workers \cup {NoWorker}]
  /\ lease \in [Sends -> 0 .. LeaseTicks]
  /\ wait \in [Sends -> 0 .. MaxDelay]
  /\ attempts \in [Sends -> 0 .. AttemptCap]
  /\ log \in [Sends -> [1 .. AttemptCap -> Outcomes \cup {"none"}]]
  /\ sentToday \in SUBSET Sends
WorkerTypeOK ==
  /\ pc \in [Workers -> {"idle", "cleared", "working"}]
  /\ view \in [Workers -> [Sends -> 0 .. AttemptCap]]
  /\ call \in [Workers -> [send : Sends, event : SmtpEvents] \cup {NoCall}]
  /\ late \in [Workers -> 0 .. Twice]
  /\ aborts \in 0 .. MaxAborts
WorldTypeOK ==
  /\ probe \in [Sends -> {"none", "ACCEPTED", "REJECTED"}]
  /\ delivered \in [Sends -> 0 .. Twice]
  /\ stopped \in SUBSET People
  /\ replied \in SUBSET People
  /\ threaded \in SUBSET People
  /\ active \in SUBSET Switches
  /\ control \in ControlRows \cup {NoRow}
  /\ faults \in FaultSets
TypeOK == RowTypeOK /\ WorkerTypeOK /\ WorldTypeOK

(* The ownership check of record_send_attempt is enough of a fence: a      *)
(* worker that still owns a row it has not processed holds the newest      *)
(* claim on it, and that claim has no verdict yet.  record_send_attempt    *)
(* looks neither at the status nor at the attempt the worker means.        *)
FenceHolds ==
  \A w \in Workers : \A s \in Batch(w) :
    /\ view[w][s] <= attempts[s]
    /\ owner[s] = w => /\ status[s] = "claiming"
                       /\ view[w][s] = attempts[s]
                       /\ log[s][attempts[s]] = "none"

(* A row in the queue always has an attempt of RetryPolicy.max_attempts    *)
(* left: the retry was granted on the attempt count the row really has.    *)
RetryBudget == \A s \in Sends : status[s] = "queued" => attempts[s] < MaxAttempts

(* send_attempts explains the status of every send: what the newest        *)
(* attempt was told is what the row says, or what reconciliation made of   *)
(* an unknown outcome.                                                     *)
LastOutcome(s) == IF attempts[s] = 0 THEN "none" ELSE log[s][attempts[s]]
LogExplainsStatus ==
  \A s \in Sends :
    /\ status[s] = "queued" => \/ attempts[s] = 0
                               \/ LastOutcome(s) = "temporary_failure"
    /\ status[s] = "claiming" => LastOutcome(s) = "none"
    /\ status[s] = "uncertain" => LastOutcome(s) = "ambiguous"
    /\ status[s] = "sent" => LastOutcome(s) \in {"accepted", "ambiguous"}
    /\ status[s] = "failed" => LastOutcome(s) \in {"permanent_failure", "ambiguous"}

(* daily_global_limit and daily_limit are compared with the sends already  *)
(* marked sent: batches claimed before the last free place is taken still  *)
(* go out, and no more than those do.  An acceptance that reconciliation   *)
(* finds later is in no worker's hands and is not bounded.                 *)
AcceptedToday == {s \in sentToday : LastOutcome(s) = "accepted"}
OvershootIsBounded ==
  DailyLimit > 0 =>
    Cardinality(AcceptedToday) < DailyLimit + Cardinality(Workers) * BatchSize

(* A send marked sent was accepted by the provider, whichever worker,      *)
(* retry or reconciliation marked it.                                      *)
SentIsReal == \A s \in Sends : status[s] = "sent" => delivered[s] > 0

(* What is recorded stays: no attempt's outcome is overwritten by the      *)
(* upsert of record_send_attempt, and a settled send never changes again.  *)
VerdictsStand ==
  [][\A s \in Sends :
       /\ \A n \in 1 .. AttemptCap :
            log[s][n] # "none" => log'[s][n] = log[s][n]
       /\ status[s] \in Settled => status'[s] = status[s]]_vars

(* As long as batches finish within their lease and no worker dies between *)
(* an acceptance and its record, the provider accepts no send twice: not   *)
(* through retries, reclaimed batches or reconciliation.                   *)
AtMostOneDelivery ==
  faults = {} => \A s \in Sends : delivered[s] <= 1

(* Under the same conditions a send marked failed never reached the        *)
(* recipient.                                                              *)
FailureIsTrue ==
  faults = {} => \A s \in Sends : status[s] = "failed" => delivered[s] = 0

(* With the gate wired, a worker starts at most one batch after Operations *)
(* stops outbound: the one whose gate check had already passed.            *)
PauseTakesEffect == \A w \in Workers : late[w] <= 1

(* Once no worker holds a send to a suppressed person, none ever will,     *)
(* whatever lease expires and whatever retry comes due.                    *)
Held(s) == \E w \in Workers : s \in Batch(w)
SuppressionDrains ==
  [][\A s \in Sends :
       PersonOf[s] \in stopped /\ ~Held(s) => ~Held(s)']_vars

(* Every send in the queue or claimed leaves both states: it is settled or *)
(* in quarantine, whatever iterations die in between.                      *)
Settles ==
  \A s \in Sends :
    status[s] \in {"queued", "claiming"} ~>
      status[s] \notin {"queued", "claiming"}

(* The queue implements the ledger: a lease that expires, a stale worker,  *)
(* a retry and a reconciliation are tries and verdicts of one send.        *)
Phase(s) ==
  CASE status[s] = "absent" -> "none"
    [] status[s] \in {"queued", "claiming"} -> "open"
    [] status[s] = "uncertain" -> "quarantined"
    [] status[s] \in {"sent", "failed"} -> "closed"
    [] status[s] = "cancelled" -> "cancelled"
AnsweredTries(s) == {n \in 1 .. AttemptCap : log[s][n] # "none"}
Ledger == INSTANCE LeaseLedger WITH
            Items <- Sends,
            phase <- [s \in Sends |-> Phase(s)],
            tries <- attempts,
            answered <- [s \in Sends |-> AnsweredTries(s)]
LedgerSpec == Ledger!Spec

------------------------------------------------------------------------------
(* What documents and tests promise and the code does not keep.            *)

(* contract-test-plan.md: "reply prevents future cold follow-up".  No      *)
(* worker starts on a send whose recipient has a stored reply.             *)
ReplyStopsClaims ==
  [][\A s \in Sends :
       ~Held(s) /\ Held(s)' => PersonOf[s] \notin threaded]_vars
==============================================================================
