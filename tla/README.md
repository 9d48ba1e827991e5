# A TLA+ model of the SentinelLayer growth systems

This directory holds a formal model of the repository's core: TLA+ modules translated from the Python engine and the SQL functions it relies on, TLC configurations that check them on small instances, and proofs, checked by TLAPS, that the main results hold for every size of the system.

Paths below are relative to the repository root. `engine.py` and the like stand for `src/sentinellayer_growth_engine/engine.py`; migrations are in `supabase/migrations/`.

## 1. The system

### Components, their state and their operations

| Component | State | Operations | How it interacts |
|---|---|---|---|
| Mail engine and send queue (`engine.py`, `worker.py`, `retry.py`, `db.py`, migrations `20260831…`, `20260905110000`, `20260907020000`) | `public.sends` (status, owner, lease, attempt count, next attempt), `public.send_attempts` | enqueue, claim a batch under a lease, submit, record accepted / failed / ambiguous, reconcile, cancel | claims from the database, calls the SMTP provider between two transactions, asks the operations gate first |
| SMTP provider (`smtp.py`) | none | one submission | turns exceptions and replies into accepted / transient / permanent / unknown |
| Operations control (`operations_gate.py`, `20260905100000`) | `operations.control_state` | read and judge the row | in front of every engine iteration, if the engine was given a gate |
| Inbound replies (`imap_inbound.py`, `conversation_worker.py`, `conversation_runtime.py`, `conversation_sales.py`, `db.py`) | IMAP flags, `conversation.threads`, `conversation.replies`, `public.suppression`, `sales.tasks` | poll, resolve the sender, store, queue the analysis, cancel sends, suppress, open a task | one transaction per step; races with the campaign's enqueue and the mail workers' claims |
| Conversation analysis (`conversation_analysis_queue.py`, `conversation_analyzer.py`) | `conversation.analysis_jobs` | enqueue, claim, complete, fail | workers call a slow provider between transactions |
| Campaign step execution (`campaign_execution.py`, `campaign_db.py`, `20260902150000`) | step lease on `campaign_enrollments` | claim, render, enqueue, complete, release | hands sends to the send queue |
| Campaign contracts (`enrollment.py`, `sequence.py`, `resolver.py`, `eligibility.py`, `outreach_policy.py`) | versions and enrollments | validate, activate, enroll | feed the step protocol |
| LinkedIn outreach (`linkedin_*.py`) | touchpoints, execution attempts, contact state | approve, create, execute, observe | operator or provider outside the database |
| Tracking (`tracking*.py`, `attribution.py`) | link and behaviour events, sessions, tokens | ingest, resolve, purge | HTTP service, threads |
| TinyFish client (`tinyfish_client.py`, `tinyfish_rate_limit.py`, `provider_resilience.py`) | sliding windows, cache, both of one process | acquire, request with retries | called by the enrichment and by Phase 2's provider |
| Enrichment batches (`tinyfish_batch.py`, `tinyfish_enrichment.py`, `enrichment_repository.py`, `enrichment_quality_gate.py`, the scheduled workflow) | `intelligence.*`, `growth.company_contacts`, `growth.decision_makers` | daily slice, refresh, import, verification, quality gate | searches and fetches through the client, persists a packet per company |
| Decision makers and scoring (`decision_maker_resolution.py`, `intelligence_scoring.py`, ...) | none | grades, outreach status, FIT, INTENT, route | applied to every packet before it is stored |
| Phase 1 lead intake (`phase1/`, `scripts/ingest_scrapercity_phase1.py`) | source records, processing state, canonical projection, quarantine, handoffs | adapt, judge and store a file of records | fills the handoff table |
| Phase 2 entity resolution (`phase2/`, `scripts/run_phase2_entity_resolution.py`) | runs, observations, candidates, comparisons, decisions | list handoffs, search, fetch, extract, match, decide, store | reads the handoffs while Phase 1 adds to them |
| Command line, dashboards, deployment scripts | none | | |

### What is hard in it

- **Leases without heartbeats.** Both queues hand rows out for a fixed time and never renew. A worker may go on with a row that belongs to somebody else by then; the only protection is the owner column checked when the result is written.
- **Calls between two transactions.** A submission happens after the claim is committed and before its result is. A death, a timeout or a lost reply in between leaves the truth outside the database.
- **Several transactions for one event.** A reply is stored, then analysed, then cancels, then suppresses. Anything may happen between those steps, in other processes too.
- **Checks that are stale when used.** Gate, suppression, daily limits and stored replies are read at the start of a batch or before an insert. An ingestion judges a whole file against what was stored when it began.
- **Runs that meet.** Two executions with one request key write into one run; two ingestions store the same file; a daily job starts over after a death with whatever the last one left.
- **Answers of a provider that fails, repeats and changes its mind.** Budgets, caches and retries decide what is asked; what is stored must still be what was answered, for the company it was asked for.

`PROJECT.json` lists each of these at its line (`hazards`) with the properties that watch it, also for the parts that are not modelled yet.

### What makes each part correct

- Send queue: a stale worker changes nothing; no verdict is overwritten; an unknown outcome is never resent; what is marked sent was accepted; retries stay within the policy; every send settles.
- Gate and suppression: a stop, or an opt-out, takes effect after a known remainder of work in progress.
- Inbound: a handled message had all its consequences; an opt-out is final; stored replies drain the sends; the mailbox keeps being read.
- Analysis queue: only the newest attempt is answered, by the process it was given to; attempts are bounded; jobs end.
- Campaign steps: one send per step, with one content, however often a step is retried; no step is passed without its send; steps advance one by one, and not under a worker whose lease or enrollment is gone.
- LinkedIn: what is marked sent was sent and is recorded so; no delivery goes unrecorded, and one executor delivers a touchpoint once; after an answer or an opt-out nobody is followed up.
- TinyFish: no window exceeds its budget, retries and delays included; a packet cites what was found for its own company; a verification survives later research; every company is reached, and reached again.
- Scoring and resolution: caps hold whatever else speaks for a company; a contact is ready for outreach only on evidence of two sources.
- Phase 1: a stored record has its outcome, whatever runs overlap and die. Phase 2: counters are the number of what is stored, a completed run has all its decisions, no match rests on a rejected lead or, once candidates can be stored at all, on evidence nobody fetched.

## 2. Modules

| Module | Role |
|---|---|
| `LeaseLedger` | Abstract specification of a queue of leased work: an item is opened once, each try gets at most one verdict, only the newest try can be given one, an unknown verdict quarantines the item until it is resolved |
| `MailQueue` | The send queue, the worker loop, the SMTP outcomes, the gate, reconciliation, suppression and cancellation. Implements `LeaseLedger` |
| `MailQueueProofs` | The proofs about `MailQueue` |
| `AnalysisQueue` | The analysis queue and its worker. Implements `LeaseLedger` |
| `InboundReplies` | The inbound pollers and runtime, with enqueue and claim of sends beside them |
| `StepLadder` | Abstract specification of the campaign path: steps one by one, each with one send that is persisted before the step is passed |
| `CampaignSteps` | The step lease, the orchestrator's call with its failures, the enqueue as the campaign sees it. Implements `StepLadder` |
| `CampaignStepsProofs` | The proofs about `CampaignSteps` |
| `LinkedInOutreach` | Approval and planning of a LinkedIn sequence, execution of its touchpoints, observations projected on the contact |
| `HandoffTable`, `Phase1Intake` | The handoff rows; ingestion runs that adapt, judge and store a file |
| `EntityMatching`, `EntityResearch` | Normalisation, blocking, signals, score and decision of Phase 2; which pages are fetched and what becomes a candidate. Operators only |
| `Phase2Run` | An execution of Phase 2 with its run row, its calls and its transactions |
| `LeadPipeline` | Composition of the two phases over the handoff table |
| `TinyFishClient` | One process's client: cache, limiter, retries |
| `DecisionMakerResolution`, `BuyingIntent`, `CompanyResearch` | Grades of identities, score and route, and the packet made of search results and pages. Operators only |
| `EnrichmentStore` | The tables a packet is persisted in, the selections, verification and the quality gate's clean-up |
| `EnrichmentCycle` | Composition of these: the enrichment job of a day, day after day |
| `AnalysisQueueProofs`, `InboundRepliesProofs`, `LinkedInOutreachProofs`, `LeadPipelineProofs`, `EnrichmentCycleProofs` | The proofs about the modules they are named for and the operators these are built from |
| `Lists`, `ListTheorems` | Sorting and slicing of lists, as several parts of the code do it; what these operators return, and sums over lists, proved once for the other proof modules |
| `MC…` | Values of the constants for TLC |

Every definition that stands for code is listed with its lines in `PROJECT.json` (`map`). Definitions named `Bug…` are faulty variants, each of one definition of the module; the property listed beside it (`mutants`) fails when the variant takes that definition's place.

### MailQueue

A row of `public.sends` is the set of functions `status`, `owner`, `lease`, `wait`, `attempts`, and `log` is `send_attempts`. Times count down: `lease[s]` ticks until the claim expires, `wait[s]` until the send is due. A worker is an iteration of `MailWorker.run`: `Clear` (the gate's transaction), `Claim` (`claim_due_sends`), then for each send of the batch `Submit` (the SMTP call starts and the server decides) and `Record` (the answer is written) or `OwnershipLost` (the function raises and the batch is dropped). `Abort` is every other exception, or the end of the process. `view[w]` is the list of `DueSend` the worker still has, with the attempt count it saw; nothing of the row is read again before the record, exactly as in `process_due`.

`delivered[s]` counts what the provider really accepted. It belongs to the world, no code reads it but `lookup_delivery`, and it is what the properties compare the queue with. `faults` is fixed at the start: `"slow"` allows a lease to run out on a worker that is still in its batch, `"crash"` allows a worker to die between an acceptance and its record. The code can exclude neither, so all properties are checked with both; `AtMostOneDelivery` and `FailureIsTrue` are conditional on their absence, since no queue of this design can have them otherwise. The condition is not empty: retries, reclaims after deaths at all other points, ambiguous outcomes and reconciliation all remain.

Sends of one batch are processed in any order: `returning` of the claim's update gives no order. `Skippable` is `skip locked`: a claim may find rows locked by another claim in flight, which itself keeps at least one.

Outside the repository and modelled from their use: the base tables, `is_suppressed`, `cancel_future_sends_for_person`, the lookup of a delivery, the administration of campaigns, mailboxes and the control row.

### AnalysisQueue

The same shape for `conversation.analysis_jobs`. `named[w]` is the `worker_id` a process writes under; it defaults to one name for all, so both a naming with own names and one with the shared default are explored. `CompleteRaises` followed by `FailRaises` is the path of a worker that lost its lease: the `RuntimeError` of `complete` is caught like an error of the analyzer, and the one of `fail` ends the batch.

### InboundReplies

A poller walks `poll_once` and `handle_inbound` one transaction at a time (`stage`). The uids of the mailbox carry any assignment of e-mails, so the same message may arrive twice; `Fail` ends a poll between any two steps. `Fetch` sets `\Seen`, which is what FETCH (RFC822) does in a mailbox selected for writing. The campaign's enqueue is two steps, its check and its insert, because each statement of the function sees its own snapshot. Claim and requeue are those of `MailQueue`, reduced to what the opt-out can see.

### CampaignSteps

The lease columns of `campaign_enrollments` are `status`, `step`, `due`, `token` and `lease`; a token is the number of its claim (`issued`), since the code's tokens are fresh UUIDs. A caller's `execute` walks `Claim`, `Render`, `HandOver`, `CompleteStep`, each a transaction or a computation of its own, with `Release` behind every exception and `Die` for the end of the process. `HandOverFails` and `CompleteFails` are exceptions that leave open whether the transaction was committed. A `plan` is what the caller passes in (mailbox, schedule, and the versions, which fix the rendering), and `sends[e][n]` the plan persisted under the step's idempotency key; `Accepts` has the order of `enqueue_campaign_send`: its guards come before the lookup of the key, and a row found is compared with the request.

Three statements of the path raise as they stand: `claim_campaign_step` names columns that are also output columns, which PL/pgSQL refuses; `enqueue_send_request` passes dictionaries as `jsonb` parameters, which psycopg cannot adapt; `release_step` and `complete_step` index a `dict_row` with 0. `repaired` is the set of those that do not raise in a behaviour. The code as it stands is `repaired = {}`; the protocol behind is checked with the others, since a correction of these lines is what lets it run at all. `moves` says what else happens: calls that outlive their lease, retries with another plan, callers of `build_send_request` (which keeps the lease), enrollments and recipients that change, sequences that are switched.

### LinkedInOutreach

`point[t][n]` is the status of a touchpoint, `attempts` the rows of `execution_attempts` by number. `execute_and_persist_touchpoint` is `Call`, `ExecuteTouchpoint` (the provider, outside the database), `ReadNumber` and `RecordAttempt` (one transaction under the touchpoint's row lock), `RecordObservation` (another one). The touchpoint it works on is an object: its status is as old as the object, and an object fresh from `build_touchpoints` has an id of its own that the insert of `create_touchpoints` does not store, so recording for it ends in `TouchpointNotFound`. `apply_observation` is `ReadState` and `WriteState`, two statements of a transaction that locks nothing in between; `NextState` keeps the order in which facts of one record win. `moves` are, as in `CampaignSteps`, the things that may happen in a behaviour: executors, two of them on one touchpoint, deaths and lost answers, unknown objects, observers, overlapping observations and operators, records with several facts. A provider that answers with a status that is no delivery is taken not to have delivered.

Nothing in the repository loads touchpoints or drives the executors; `Call` lets any caller do so at any time. `SetSequence` stands for the operators' own updates.

### LeadPipeline: Phase 1 and Phase 2

An ingester is a run of the ingestion script: `StartIngest` loads the stored records (`prior`) and judges the file against them, `CheckRow` and `WriteRow` are the two halves of `persist_result` for a row, the early return and the writes of its transaction. `ResultState` is `prepare_results`: a row sees the records that were stored when the run began and the rows before it, never what other runs store meanwhile. A source record is its key and its payload; a hash stands for what it hashes. `handoffs` keeps the order of insertion and the acquisition time, which is what `list_handoffs` sorts by.

An executor walks `ListHandoffs`, `CreateRun`, then per lead `Search`, `Fetch` and `Persist`, and ends in `Complete` or `Fail`; `Unavailable` is a provider error that decides the lead without candidates, `Raise` any other exception, `Die` the end of the process. Search results, pages and the semantic extractor's answer differ each time they are asked for, so a retry of a lead may reach another decision; its id then differs, the unique constraint refuses it and the run fails. A fetch answers for some of its URLs only, each with a text and perhaps a redirect (`PageAnswers`), and the place of a page is its place in the answer; evidence ids hash that place and the final URL, so an extraction names its evidence by places. Scores, thresholds and the order of the rules are those of the code (`EntityMatching`); strings are labels with the words and parts they have, and the similarity of two names is an input (`AlikeTokens`).

The statement that inserts a candidate raises as it stands: its VALUES list has 27 placeholders for 26 columns and 26 parameters (`phase2/repository.py:119-121`), which psycopg refuses before it asks the database (`InsertRaises`). The decision of a lead with candidates is rolled back and the run fails. As for the campaign steps, `repaired` is the set of defects that do not raise in a behaviour and never changes; the code as it stands is `repaired = {}`, where leads are decided only without candidates: nothing was found for them, or the provider failed. What the code does with candidates behind that statement is checked with the insert repaired.

### EnrichmentCycle: the TinyFish client and the enrichment

`job` is where the workflow of a day stands: daily slice, gate with its clean-up, gate again, refresh slice, gate. Each slice is a process (`ProcessEnds` takes its limiter and cache away); per company it asks the searches, chooses the URLs, fetches them, builds the packet (`CompanyResearch`), grades and scores it and persists it in one transaction (`PersistPacket`). `call` is where the client stands with a request: `Ask` (cache), `Acquire` (limiter), the outcome of the attempt, retry or end. `raised` is an exception the slice expects (the company fails and the next one follows), `escaped` one it does not (the job ends).

`received` is what has reached the provider with its age, because an admitted request may arrive later than it was admitted; the code keeps no such record, and it is what `BudgetRespected` compares the windows with. Time is ages in ticks within a process and days between jobs. Pages and search results carry what the regular expressions find in them; everything done with the findings is the code's. Evidence of a resolution has the identity the code gives it: a hash without company and person.

## 3. What the runs check

| Run | Instance | Shows |
|---|---|---|
| `mail_queue` | 2 workers, 2 sends, batch 2, 2 attempts, 3 claims per send, 1 death, with and without faults | `FenceHolds`, `RetryBudget`, `LogExplainsStatus`, `SentIsReal`, `AtMostOneDelivery`, `FailureIsTrue`, `VerdictsStand`, refinement of `LeaseLedger` |
| `mail_settles` | same, no faults, backoff of one tick, fairness | `Settles` |
| `mail_operations` | 2 workers, 2 sends, batch 1, daily limit 1, a gate, operators, suppression, both faults, one death | `PauseTakesEffect`, `SuppressionDrains` |
| `mail_reply_stop` | as `mail_queue`, with a reply | one promise the code does not keep, see below |
| `inbound` | 2 pollers, 2 uids over 5 e-mails (opt-out, negative, interested, an opt-out by a stranger in the thread, malformed), 1 send, 1 failure | `HandledIsComplete`, `OptOutHolds`, `RepliesDrain`, `InboxDrains` |
| `inbound_seen` | same | one promise the code does not keep |
| `analysis_queue` | 2 workers, 2 jobs, 3 attempts (5 in the code), own or shared names, 1 death, 1 lost lease at work | `AnswersAreFresh`, `Finishes`, refinement of `LeaseLedger` |
| `campaign_steps` | 1 enrollment, 2 callers, 2 steps, 2 plans, 3 claims, 1 failure or death, lease of one tick; 3 sets of repairs by 4 sets of moves | types, `SendsMatchSteps`, `OneRenderer`, `LeaseIsRespected`, `EndedStands`, `Progress`, refinement of `StepLadder` |
| `linkedin` | 1 sequence, one automated and one manual step, 2 executors with 3 calls, 1 observer, 5 sets of moves | `SentIsFact`, `DeliveriesOnRecord`, `OneDelivery`, `OverStaysQuiet`, `SentStays` |
| `leads` | 2 ingesters with 2 starts, 2 files of 2 rows (a payload twice; a rejected domain and another spelling of the same company), 2 executors of one request key with 2 begins, up to 2 results per lead, any of the pages asked for with one of two answers each; the candidate insert as it stands, and repaired | `NothingIsLost`, `CountersMatch`, `CompletedIsComplete`, `MatchesAreGrounded`, `DecisionsAreAccepted` |
| `tinyfish` | 3 companies in 3 worlds (two rows of one shop; a row without domain and one whose page has a malformed date; a row without name, one without domain that has an imported address and one without usable page), 2 policies, slices of 2 and 1, 1 failed call, 1 event from outside | `BudgetRespected`, `PacketsAreOwn`, `VerificationStands`, `EveryCompanyEnriched`, `RefreshGoesOn` |
| `campaign_as_is` | same as `campaign_steps`, nothing repaired, nothing else happens | one promise the code does not keep |

### Bounds

The executors of `linkedin` make three calls, so that one touchpoint is executed by both at once and again; they and the observer write no variable in common and run in different behaviours. One observer is enough: overlapping work on a contact is the operator's update between its read and its write.

`MaxAborts` and `MaxFailures` bound deaths, `MaxSlow` lost leases, `AttemptCap` claims per send; the counters of acceptances and of late batches stop at two. Two workers suffice for every race the code has, since each concerns one row and the owner it had before; two sends give a batch whose second row waits while the first is submitted, and one row that expires while another is fresh. Three claims per send cover first try, retry and reclaim of the last try. The analysis queue gives up at five attempts; at three, the same sequence of fail, reclaim and give up occurs. Enrollments do not touch each other, so one is enough; three claims cover a step that is claimed, left and claimed again and the step after it. The proofs of section 5 remove these bounds for the send queue, the analysis queue, the inbound path, the campaign steps, LinkedIn and the lead pipeline, except that claims and calls stay below a cap of any size.

In `leads` two starts give two overlapping ingestions of the same or of different files, or one that dies and is repeated; two begins give a run that is joined, or one that failed or died and is retried. A file's second row is what an early death leaves out, and the row behind a row of the same payload is what a judgement against the batch turns into a duplicate. Ingesters and executors are interchangeable and declared symmetric; the run checks no liveness. `RepairSets` has both sets of `repaired`: every behaviour is explored with the candidate insert as it stands and with it repaired, and `MatchesAreGrounded` has its case only in the second.

In `tinyfish` a minute is one tick, an hour two, a day three and a cached answer lives three: every window may run out before the next, and a call that sleeps lets older entries leave. Three searches an hour are fewer than a slice of two companies asks, so the limiter is met in every slice; a fetch of two URLs meets the minute's budget of two, or exceeds it under the second policy. Two cache entries are fewer than a company's requests. `MinAge` is one day, and three companies with a refresh of one make the refresh take turns. `MaxFaults` bounds failed calls, `MaxOutside` deaths, imports and verifications together.

`CHECK_DEADLOCK FALSE`: the instances stop when all sends are settled and the bounded moves are used up; the real processes go on polling.

### Fairness

- Mail workers: weak fairness of each worker's own steps and of time. `MailWorker.run` loops for ever and catches every exception, SMTP calls have a timeout. No fairness for deaths, operators, cancellations or reconciliation.
- Pollers and analysis workers: weak fairness of their steps. `ConversationWorker.run` loops; the process is restarted after an exception (its supervisor is outside the repository). The analysis worker is started again and again by its workflow.
- Campaign callers: nothing in the repository drives `execute`, so `Progress` is about what its docstring promises, that a retry recovers: it assumes callers that come back for a due enrollment, calls that return, and time that passes. It is stated for the repaired path and the calm set of moves.
- The enrichment job: weak fairness of the job's own steps, of research once the pages are there (`CompanyDone`), of time and of the daily schedule. Calls have timeouts, so an attempt ends; the workflow is scheduled every day. No fairness for deaths, imports and verifications. `EveryCompanyEnriched` and `RefreshGoesOn` also assume what `MaxFaults` and `MaxOutside` say, that failures from outside end; a provider that fails for ever enriches nobody.
- `Settles` is checked while the switches are on and nobody replies or is suppressed: the claim function leaves such sends in the queue by design.

### Promises the code does not keep

- `ReplyStopsClaims`: the last definition of `claim_due_sends` no longer asks `conversation.replies`, the only table replies are stored in. A queued send to somebody who answered is still submitted, unless the answer was negative or an opt-out.
- `SeenMeansHandled`: the fetch marks the message.
- `DueStepsAreClaimed`: no step is ever claimed, because of the ambiguous columns.

Others were met while modelling. The model has the behaviour and no run refutes them, because the statement is about one call, or about content the model abstracts:

- With one recipient, `smtplib` raises for a refusal (`smtp.py:82`), and the exception is taken for a connection that died: the send needs a manual reconciliation. `tests/test_smtp.py:77` expects a failure.
- `build_worker` (`__main__.py:37`) gives the engine no gate, so SAFE_STOP does not stop the workers (`PRODUCTION_CONTROL_PLANE_IMPLEMENTATION.md:12`, `contract-test-plan.md:83`). `PauseTakesEffect` holds for an engine with a gate, and is proved for it.
- The last `claim_due_sends` returns templates instead of the rendered texts that were stored.
- The refresh sorts by the priorities urgent, active and interest (`enrichment_repository.py:442`), which no score has; they are P1 to P4. What is left is the age of the run, and with it `RefreshGoesOn` holds; sorted as `TINYFISH_MONTHLY_OPERATING_MODEL.md:3` intends, companies of low priority would have no such guarantee.
- A company that can never be enriched keeps its place in the daily slice (lowest ids first) and fails it, so that the refresh of that day does not run: `EveryCompanyEnriched` and `RefreshGoesOn` say which companies are safe from that.
- A fetch of more URLs than a minute's budget looks at an empty window (`tinyfish_rate_limit.py:82`): an `IndexError` ends the slice, every day. A company without a name ends the quality gate with an `AttributeError` at the first person it compares names for, and one without a domain at its first contact address (`enrichment_quality_gate.py:66`; research makes no packet for such a company, an import may).
- The limiter lives in its process; the daily slice, the refresh and Phase 2 each have a full budget of the same key. `BudgetRespected` is about one process.
- The evidence row of a resolution has a hash without company and person: the same page and grade of another person is taken for the same row. `--fix` deletes `public_decision_maker` evidence by name in all companies. Evidence of one person on different pages of one packet is never merged, so research alone leaves a person in review at best; facts that a refresh does not find again are overwritten with NULL.
- Phase 2 stores no candidate: the insert has a placeholder too many (`phase2/repository.py:121`), so that a lead anything was found for fails its run and no match is ever stored, proved as `NoMatchAsItStands`. `tests/integration/test_phase2_storage_integration.py:224` expects a resolution with a candidate and a match to be stored; it is skipped without a database. The other statements of the repository have as many placeholders as parameters.
- Phase 2: `resolve_entity` takes the first candidate with the winner's id (`resolver.py:119`). When an extracted entity has the id of the candidate the provider adds for the lead's own site (same name and domain, type BRAND) and rests on a page that was redirected elsewhere, the match cites that page and not the one it was decided on. `MatchReadsOwnSite` is therefore about what was read, not about what is cited. The stored observation of a place keeps the first answer; a retry that is redirected elsewhere, or reads another text, decides on a page that is not stored.
- Phase 2: two executions of one request key complete the run independently, whatever status it has by then (`complete_run`). A retry that is given other search results reaches another decision id for a lead that has one, and fails the run. Handoffs that are resolved stay in the list, so a limit may hide the ones behind them.
- `update_contact_verification` has no caller in the repository; `Verify` models what its statement would do.

## 4. What the properties say

Each property has a comment beside its definition. Some deserve a word.

`FenceHolds` is the reason the send queue works. `record_send_attempt` compares `claimed_by` with the caller and looks at nothing else: neither the status nor the attempt. It is enough because worker ids are different, a worker that still holds a row in its batch and owns it must be the newest claimant, and recording removes the row from the batch. With a shared id this argument breaks; the analysis queue, where the default is shared, has the weaker property `AnswersAreFresh` with a condition on the names.

`OptOutHolds` holds although nothing locks: after the suppression is committed, the claim is the only way back to a worker, and it reads suppression in the same statement. A send in the hands of a worker at that moment goes out; the property says that it is the last one.

`DeliveriesOnRecord` and `OneDelivery` draw the line for LinkedIn: the row lock orders the records of an attempt, not the attempts. Two executors on one touchpoint both deliver, and both deliveries are recorded under numbers of their own; only callers that keep one executor per touchpoint deliver once, and that holds because the attempt and the status are written before the next object can be read. `OverStaysQuiet` is the weakest promise to a contact who answered or opted out that the projection keeps; it fails when observations overlap or one record carries several facts, and the state itself (`suppressed`) is overwritten by a later observation anyway.

`Progress` shows what "a retry recovers" needs: it holds because a retry brings the plan of the earlier try (`MayBring`). A retry with another `scheduled_at`, or after the recipient replied, meets a raising guard or the comparison, and the enrollment stays at its step with the send already queued; the run explores such retries for the safety properties.

`NothingIsLost` relates every stored source record to its outcome. It is not about one run: a record that one run judged a duplicate relies on another record that some run, perhaps a dead one, stored in the same transaction as its handoff or its quarantine row. A judgement against rows that are not stored yet (`BugResultState`) breaks it only when a run dies between two rows.

`CountersMatch` holds although two executors count into one row without a lock around their reads: the counters move in the transaction that inserts the decision and only if it was inserted. `CompletedIsComplete` compares a run with what the executor that completed it had listed, since another executor of the same run may have listed fewer leads.

`MatchesAreGrounded` follows a reference from the stored decision back to the stored observation, over a search, a fetch and an extraction that each may have been another executor's: the observation keeps its requested URL, the reference has the final one, so the property asks for a URL that leads there (`Reached`). Of the code as it stands it says nothing, because that code stores no match; it is the promise of the path behind the broken insert, and says that repairing one line is enough for it.

`BudgetRespected` is weaker than the limiter's own bookkeeping and closer to what a provider bills: admitted and received are different times, and the first request of a span may have been admitted before it. `PacketsAreOwn` is about two companies sharing one cache and one retry loop. `EveryCompanyEnriched` names the code's starvation: only companies with fewer hopeless ones before them than a slice takes are reached.

## 5. What is proved

`MailQueueProofs` proves, for all numbers of sends, people, workers, attempts, ticks, any backoff table, any control rows and any set of faults:

- `TypeCorrect`, `FenceCorrect`, `RetryBudgetCorrect`, `LogCorrect`, `SentCorrect`, `DeliveryCorrect`, `FailureCorrect`: the invariants of `mail_queue`;
- `VerdictsCorrect`, `SuppressionCorrect`: its action properties and that of `mail_operations`;
- `PauseCorrect`: `PauseTakesEffect`, assuming `GateWired`;
- `OvershootCorrect`: `OvershootIsBounded`, which no run checks (below);
- `Implements`: the queue implements `LeaseLedger`.

Assumptions: the `ASSUME`s of `MailQueue`: null and "no call" differ from real values, `PersonOf` is a function, `Sends` and `Workers` are finite, the numbers are naturals, the backoff table has an entry per attempt. TLC evaluates them in every run.

The argument. None of the invariants is inductive alone. `Inv` adds `WorkerInv` (a worker outside its loop holds nothing, the call it is in is about a row of its batch), `RowInv` (exactly claimed and quarantined rows have an owner; no log entry lies beyond the newest attempt), `ProbeInv` (a lookup in flight is about a quarantined send) and `TimelyInv` (without faults a held send is owned under a running lease, and an accepted one is in the hands of its submitter, quarantined or sent). The fence comes first: with `WorkerInv` it turns a `Record` into "the newest attempt of a claimed row gets its first verdict" (lemma `Fenced`), and all other conjuncts follow from that description. `TimelyInv` gives the single holder (`OneHolder`) that `AtMostOneDelivery` needs, and says where an accepted send may be: with its submitter, quarantined or sent, hence never failed (`FailureIsTrue`). The refinement maps claims to `HandOut`, records to `Answer`, reconciliation to `Resolve`; the fence again discharges the ledger's guard that only the newest try is answered.

`OvershootIsBounded` says what the daily limit is worth. `claim_due_sends` counts the sends already marked sent and not those in the hands of workers, so the limit is overrun; but a claim is made only while the day is below the limit, and a worker claims again only when its batch is over. The invariant `DayInv` bounds the sends accepted today together with what the workers still hold by the limit and a batch per worker: a claim raises the load of one worker from nothing to a batch at most, recording moves a send from the load to the day, a death only lowers the load, and the end of a day empties the count. Messages that were accepted and found by reconciliation afterwards are outside of it, since nothing bounds how many an operator resolves in a day. TLC agrees over three sends, two workers, batches of one and a limit of one, with all faults and operators (4.2 million distinct states), and refutes the bound that is smaller by one, so the theorem states no more slack than there is.

`CampaignStepsProofs` proves, for all numbers of enrollments, workers, steps, plans, claims, failures and ticks, any set of repaired defects and any set of moves: `CampaignTypes`, `SendsCorrect` and `RendererCorrect` (the invariants of `campaign_steps`), `LeaseCorrect` and `EndedCorrect` (its action properties) and `ClimbsLadder` (the refinement of `StepLadder`). Assumed are the `ASSUME`s of `CampaignSteps`: null values differ from real ones, the numbers are naturals, the repaired defects are some of those named.

The argument. Lemma `Kinds` sorts the steps by what they do to leases, sends and workers (claim, pass, persist, advance, release, finish, age, rest); every other lemma goes through these kinds. `SendsMatchSteps` is not inductive alone, because completing a step compares the token and the step but never looks for the send. `HandedInv` says a worker about to complete has its send persisted, and `JobInv` that a job whose token still stands is for the very next step: a claim issues a token nobody has (`TokenInv`), and the token is cleared in the update that moves the step on. With them a persisted send is at most one step ahead, which also gives the ladder's guards. `TimelyInv` (without slow calls a worker at a step holds a running lease) gives `OneRenderer`.

`AnalysisQueueProofs` proves, for all numbers of jobs, workers and attempts and any naming of the workers, `QueueTypes`, `BudgetCorrect` (`AttemptBudget`), `AnswersCorrect` (`AnswersAreFresh`) and `QueueImplements` (the refinement of `LeaseLedger`). The invariant says that the newest attempt of a job in process has no answer yet, that a worker's view of a job is no newer than the job, and that with distinct names a worker that still owns a job of its batch made the newest claim on it. With shared names the last part is lost and only the ledger remains: a late answer of another process counts as the answer to the newest attempt.

`LinkedInOutreachProofs` proves, for all numbers of sequences, steps, executors and calls and any moves, `OutreachTypes`, `ApprovalCorrect`, `OrderCorrect`, `FactsCorrect`, `SentStaysCorrect`, `DeliveryCorrect`, `RecordCorrect` (`DeliveriesOnRecord`) and `QuietCorrect`. Attempt numbers stay in range by a counting argument: each recorded attempt belongs to a call, so the number read under the row lock never exceeds the calls made (this is why `Executors` is assumed finite). `OrderCorrect` is the row lock: while one executor is recording, nobody else inserts for that touchpoint. `DeliveryCorrect` and `QuietCorrect` carry the conditions of their properties and need invariants of their own, about who may hold a touchpoint, and about what an observation in hand has read. `RecordCorrect` is a balance of two finite sets, the attempts on record and the executors that have delivered and not yet recorded: each step moves one element from one to the other, adds one with a delivery, or leaves both alone, and it needs to know that a recorded number is a fresh one.

`InboundRepliesProofs` proves, for all mailboxes, pollers, people, threads, sends and failures, `InboundTypes`, `HandledCorrect`, `OptOutCorrect` and `RepliesCorrect`. The invariant states, for every stage of a poller, which consequences of its message are in the tables, whoever wrote them (`DoneInv`); it holds because no step takes a row back, and the last stage is what `HandledIsComplete` says. The two action properties need no more than that: only the claim and the insert move a send on, and each reads what the property is about in its own statement.

`LeadPipelineProofs` proves, for all files, payloads, rules of validation, ingestion runs, executors, request keys and answers of the web and the extractor, `LostCorrect` (`NothingIsLost`), `CountersCorrect`, `CompletedCorrect`, `AcceptedCorrect` (`DecisionsAreAccepted`) `GroundsCorrect` (`MatchesAreGrounded`) and `NoMatchAsItStands`. Assumed is that a file has rows, which the script refuses otherwise, that the limits are positive, that the repaired defects are some of those named (`RepairAssumption`), and that the provider answers for every lead with lists (`ProviderAssumption`, `LeadsAssumption`).

The argument for Phase 1: a run judges a row against records that are all stored by the time the row is written (`BatchInv`: the records it loaded, and the rows before its own, because a run that loses a row does not go on). So whatever a duplicate relies on is stored, and has an outcome by induction. That outcome stands, because handoffs only grow and a row leaves the quarantine only when the same record is accepted. For Phase 2, `TaskInv` says that an executor's list is of accepted leads, that its run was created, and that all leads before the one it is at are decided in that run; `RunInv` that a run nobody created has no decisions, so that creating it may set the counters to zero; `DecisionInv` that the id of a decision tells its lead, so that a replay leaves the lead decided. These results hold for whatever candidates come out of extraction and matching.

`GroundsCorrect` looks into them. `GatheredInv` is inductive with `TaskInv`: what a task is about to fetch are pages of the web, and what it has gathered is a list of candidates that cite only pages observed for its lead in its run; observations and candidates are never removed, so it survives the steps of other executors. The lemmas below it follow the data: the pages that answer become evidence with the places they are stored under (`EvidenceOfPages`, `ObservationStored`), candidates cite evidence they were made of (`CandidatesCite`), and a match takes over the id and the references of one candidate (`MatchIsCandidate`). It covers every set of repaired defects, but its case arises only where the candidate insert is repaired; for the rest `NoMatchAsItStands` proves that no candidate is stored, and with `MatchesAreGrounded`, which asks for a stored candidate behind every match, that no match is.

About the rules themselves, for every lead, extraction and evidence: a match has a candidate with strong evidence and nothing against it, and no other that was compared has that (`MatchIsUnique`); the contract of a decision never refuses what the rules produce (`DecisionsAreValid`), so only a second decision of a lead can fail a `Persist`; and no lead is matched unless a page of its own site was read, whatever the extractor claims (`MatchReadsOwnSite`).

`EnrichmentCycleProofs` proves, for all companies, policies, windows, caches, answers, faults, imports and verdicts, `TypeCorrect`, `BudgetCorrect` (`BudgetRespected`), `OwnCorrect` (`PacketsAreOwn`) and `VerificationCorrect` (`VerificationStands`). Assumed are positive spans, budgets and limits (`TimeAssumption`, `PolicyAssumption`, `LimitAssumption`), a cache with room for an entry (`CacheAssumption`), finitely many companies with numbers for ids (`CompaniesAssumption`), imports for companies that exist (`ManualAssumption`) and provider answers of the form the client accepts (`SearchAssumption`).

The argument. `TypeInv` is more than types: the call is one the company at hand is due, and an answer at hand or in the cache is one the provider may give to the request it is kept under. With it `PacketsAreOwn` is inductive, since a packet is made of the answers to its own company's requests and cites nothing else (`FetchedIsOwn`, `PacketCites`). `BudgetRespected` needs `BudgetInv`, which turns it around: for every request that was sent, what arrived after it together with what is on its way is no more than what the limiter has admitted to the window since (`Since`) and than the policy. Admitting adds the units on both sides, and the limiter's own test bounds the first; sending moves them from "on its way" to "after"; a window only forgets entries that are older than every request it is compared for. `VerificationStands` rests on the keys of the two tables (`PeopleInv`: one row per name and title, one method per channel and value), so that an upsert finds the very row that was verified and its conflict clause keeps the status.

The same module proves about the rules, for every score and every set of evidence: the caps of a corporate route and of an M&A freeze hold whatever raises a company (`CapsHold`), a first route takes one of two combinations (`FirstRouteIsEarned`), and `outreach_ready` takes the company's own site and an independent host, a profile with the name, and no sign of a former employment (`OutreachNeedsTwoSources`; the code adds points and compares with thresholds, and the theorem says which signs that amounts to). `MoreSignalsNeverDemote` compares two scores of one company: what a signal adds is never negative and no rule of the routing reverses an order, so a company with more signals is routed at least as urgently. `UpsertIsIdempotent` is about a job that is repeated after its transaction went through: the second upsert of a packet finds the rows of the first, each by its own key, and leaves people, addresses and statuses as they are.

Every safety property of a passing run, and all three refinements, are thus proved. Model-checked only: `Settles`, `Finishes`, `InboxDrains`, `Progress`, `EveryCompanyEnriched` and `RefreshGoesOn`, which are liveness under fairness and out of the prover's reach. So is induction over data through the library's theorems, which take an operator as parameter: where the code sorts, slices and sums, the modules use the operators of `Lists` and folds, and `ListTheorems` instead takes the least element of the set of lengths or positions at which a statement fails (the library's well-foundedness of `<` on the naturals) and shows that there is none. What a given list sums up to is not computed by any proof.

## 6. What is not modelled, and the plan

Next, in this order:

1. The content of a send from rendering to submission, composing `CampaignSteps` with the claim of `MailQueue`.
2. `TrackingIngest`: event and session in two transactions, retention. As it stands every insert of it raises (a `dict` is passed as a `jsonb` parameter), so it can only be modelled as if repaired.
3. The contracts of campaigns (`enrollment.py`, `sequence.py`, `outreach_policy.py`): validation around the step protocol.

Parts of modelled components that are left out: the operator's `tinyfish-next` command and the evidence ledger of a score, which persist through the same transaction as the daily slice; ranking, recommendations and message templates, which only read; the audit table and the health probe of the operations control; telemetry; the conversation policy, a pure mapping whose result nothing reads, since the runtime always calls it without an analysis; the sales handoff, which is validation of one record.

Left out for good: text classification, page extraction, rendering and address parsing (no state, and their content is not what the properties speak about), HTTP and CLI layers, dashboards, deployment.

## 7. Running

    tlc -workers 2 -config MailQueue.cfg MCMailQueue.tla
    tlapm MailQueueProofs.tla
    tlc -workers 2 -config Leads.cfg MCLeads.tla
    tlc -workers 2 -config TinyFish.cfg MCEnrichmentCycle.tla
    tlapm LeadPipelineProofs.tla

and so on for the other runs, each with the module `PROJECT.json` names for it, and the other proof modules. `mail_queue` takes about a minute and a half and explores 796,000 states; `leads` takes as long for 687,000; so does `tinyfish` for 228,000, because of its liveness properties.
