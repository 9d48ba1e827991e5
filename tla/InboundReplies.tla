---------------------------- MODULE InboundReplies ----------------------------
(***************************************************************************)
(* Inbound replies: ConversationWorker processes poll an IMAP mailbox      *)
(* (ImapInboundProvider.poll_once) and hand every message to               *)
(* ConversationRuntime.handle_inbound, which stores the reply, queues its  *)
(* analysis, stops the recipient's sends and opens a sales task, each in a *)
(* database transaction of its own.  Around it, the campaign enqueues      *)
(* sends and the mail workers claim them.                                  *)
(*                                                                         *)
(* The messages of the mailbox are numbered by uid in order of arrival;    *)
(* two uids with the same e-mail are one message delivered twice.          *)
(*                                                                         *)
(* Bound: MaxFailures polls end in an exception or with their process,     *)
(* besides those that end on a malformed message.                          *)
(***************************************************************************)
EXTENDS Naturals, FiniteSets

CONSTANTS
  Pollers,     \* ConversationWorker processes on the mailbox
  MaxUid,
  Emails,      \* distinct messages (Message-IDs) with what they say:
  Sender,      \*   the person whose address they come from
  Thread,      \*   the root of their References
  Class,       \*   classify_reply of subject and body
  Malformed,   \*   those parse_message rejects
  People, Threads,
  Enrolled,    \* people with a campaign enrollment
  Nobody,
  Sends,       \* logical sends, one per idempotency key
  Recipient,   \* the person a send is for
  MaxFailures

ASSUME NobodyAssumption == Nobody \notin People
ASSUME EmailAssumption ==
  /\ Sender \in [Emails -> People] /\ Thread \in [Emails -> Threads]
  /\ Malformed \in SUBSET Emails
  /\ Recipient \in [Sends -> People]
ASSUME CountAssumption == MaxUid \in Nat /\ MaxFailures \in Nat

VARIABLES
  inbox,       \* the e-mail behind each uid, fixed from the start
  flag,        \* "absent", "unseen" or "seen" per uid
  todo,        \* the uids a poller's search found and it has not fetched
  uid,         \* the uid a poller is on, 0 for none
  stage,       \* how far it got with it
  person,      \* the person it resolved the sender to
  threads,     \* conversation.threads: the person of a thread
  replies,     \* conversation.replies: the person of a stored reply
  jobs,        \* e-mails with a row in conversation.analysis_jobs
  suppressed,  \* people with a row in public.suppression
  tasks,       \* open sales.tasks by person and trigger
  handled,     \* uids handle_inbound returned for
  sends,       \* public.sends.status, "checked" inside the enqueue transaction
  failures

pollVars == <<todo, uid, stage, person>>
stores == <<threads, replies, jobs, suppressed, tasks>>
vars == <<inbox, flag, pollVars, stores, handled, sends, failures>>

Uids == 1 .. MaxUid
StopClasses == {"unsubscribe", "negative"}
SalesClasses == {"interested", "question"}

Mail(w) == inbox[uid[w]]

Init ==
  /\ inbox \in [Uids -> Emails]
  /\ flag = [u \in Uids |-> "absent"]
  /\ todo = [w \in Pollers |-> {}]
  /\ uid = [w \in Pollers |-> 0]
  /\ stage = [w \in Pollers |-> "idle"]
  /\ person = [w \in Pollers |-> Nobody]
  /\ threads = [t \in Threads |-> Nobody]
  /\ replies = [e \in Emails |-> Nobody]
  /\ jobs = {} /\ suppressed = {} /\ tasks = {} /\ handled = {}
  /\ sends = [s \in Sends |-> "none"]
  /\ failures = 0

------------------------------------------------------------------------------
Arrive(u) ==
  /\ flag[u] = "absent"
  /\ \A v \in 1 .. u - 1 : flag[v] # "absent"
  /\ flag' = [flag EXCEPT ![u] = "unseen"]
  /\ UNCHANGED <<inbox, pollVars, stores, handled, sends, failures>>

(* SEARCH UNSEEN; nothing found ends the poll at once.                     *)
Search(w) ==
  /\ stage[w] = "idle"
  /\ \E u \in Uids : flag[u] = "unseen"
  /\ todo' = [todo EXCEPT ![w] = {u \in Uids : flag[u] = "unseen"}]
  /\ stage' = [stage EXCEPT ![w] = "polling"]
  /\ UNCHANGED <<inbox, flag, uid, person, stores, handled, sends, failures>>

(* On to the next uid; the poll is over when there is none.                *)
Proceed(w, rest) ==
  /\ uid' = [uid EXCEPT ![w] = 0]
  /\ person' = [person EXCEPT ![w] = Nobody]
  /\ stage' = [stage EXCEPT ![w] = IF rest = {} THEN "idle" ELSE "polling"]

(* An exception leaves poll_once: the uids found are forgotten.            *)
EndPoll(w) ==
  /\ Proceed(w, {})
  /\ todo' = [todo EXCEPT ![w] = {}]

(* Faulty variant: a fetch that does not set \Seen.                        *)
BugPeek(u) == flag

(* FETCH (RFC822) in a mailbox selected for writing sets \Seen.            *)
FlagAfterFetch(u) == [flag EXCEPT ![u] = "seen"]

(* The next message is fetched and parsed; parse_message raises ValueError *)
(* for a malformed one.                                                    *)
Fetch(w) ==
  /\ stage[w] = "polling"
  /\ \E u \in todo[w] :
       /\ \A v \in todo[w] : u <= v
       /\ flag' = FlagAfterFetch(u)
       /\ IF inbox[u] \in Malformed
          THEN EndPoll(w)
          ELSE /\ todo' = [todo EXCEPT ![w] = @ \ {u}]
               /\ uid' = [uid EXCEPT ![w] = u]
               /\ stage' = [stage EXCEPT ![w] = "fetched"]
               /\ UNCHANGED person
  /\ UNCHANGED <<inbox, stores, handled, sends, failures>>

(* resolve_inbound_identity: by thread, else by the sender's enrollment.   *)
Identity(e) ==
  IF threads[Thread[e]] # Nobody THEN threads[Thread[e]]
  ELSE IF Sender[e] \in Enrolled THEN Sender[e] ELSE Nobody

(* A message nobody is known for is passed over.                           *)
Resolve(w) ==
  /\ stage[w] = "fetched"
  /\ IF Identity(Mail(w)) = Nobody
     THEN Proceed(w, todo[w])
     ELSE /\ person' = [person EXCEPT ![w] = Identity(Mail(w))]
          /\ stage' = [stage EXCEPT ![w] = "resolved"]
          /\ UNCHANGED uid
  /\ UNCHANGED <<inbox, flag, todo, stores, handled, sends, failures>>

(* Faulty variant: a duplicate is not handled any further.                 *)
BugDuplicateReturns(e) == IF replies[e] = Nobody THEN "persisted" ELSE "tasked"

AfterPersist(e) == "persisted"

(* persist_handoff: the thread keeps the person it has, a reply stored     *)
(* before is left as it is, and either way the handling goes on.           *)
Persist(w) ==
  /\ stage[w] = "resolved"
  /\ threads' = [threads EXCEPT ![Thread[Mail(w)]] =
                   IF @ = Nobody THEN person[w] ELSE @]
  /\ replies' = [replies EXCEPT ![Mail(w)] =
                   IF @ = Nobody THEN person[w] ELSE @]
  /\ stage' = [stage EXCEPT ![w] = AfterPersist(Mail(w))]
  /\ UNCHANGED <<inbox, flag, todo, uid, person, jobs, suppressed, tasks,
                 handled, sends, failures>>

(* ConversationAnalysisQueue.enqueue, once per reply.                      *)
EnqueueAnalysis(w) ==
  /\ stage[w] = "persisted"
  /\ jobs' = jobs \cup {Mail(w)}
  /\ stage' = [stage EXCEPT ![w] = "analysed"]
  /\ UNCHANGED <<inbox, flag, todo, uid, person, threads, replies, suppressed,
                 tasks, handled, sends, failures>>

(* cancel_future_sends_for_person, for a reply that asks to stop.          *)
CancelSends(w) ==
  /\ stage[w] = "analysed"
  /\ sends' = IF Class[Mail(w)] \in StopClasses
              THEN [s \in Sends |->
                      IF Recipient[s] = person[w] /\ sends[s] = "queued"
                      THEN "cancelled" ELSE sends[s]]
              ELSE sends
  /\ stage' = [stage EXCEPT ![w] = "cancelled"]
  /\ UNCHANGED <<inbox, flag, todo, uid, person, stores, handled, failures>>

(* Faulty variant: the person of the thread is suppressed.                 *)
BugSuppressThread(w) == {person[w]}

(* The address that is suppressed is the sender's.                         *)
OptedOut(w) == {Sender[Mail(w)]}

(* add_suppression, for an unsubscribe.                                    *)
Suppress(w) ==
  /\ stage[w] = "cancelled"
  /\ suppressed' = IF Class[Mail(w)] = "unsubscribe"
                   THEN suppressed \cup OptedOut(w) ELSE suppressed
  /\ stage' = [stage EXCEPT ![w] = "suppressed"]
  /\ UNCHANGED <<inbox, flag, todo, uid, person, threads, replies, jobs, tasks,
                 handled, sends, failures>>

(* ConversationSalesBridge.bridge and upsert_open_sales_task.              *)
OpenTask(w) ==
  /\ stage[w] = "suppressed"
  /\ tasks' = IF Class[Mail(w)] \in SalesClasses
              THEN tasks \cup {<<person[w], Class[Mail(w)]>>} ELSE tasks
  /\ stage' = [stage EXCEPT ![w] = "tasked"]
  /\ UNCHANGED <<inbox, flag, todo, uid, person, threads, replies, jobs,
                 suppressed, handled, sends, failures>>

(* handle_inbound returns; the message is flagged once more.               *)
Finish(w) ==
  /\ stage[w] = "tasked"
  /\ handled' = handled \cup {uid[w]}
  /\ flag' = [flag EXCEPT ![uid[w]] = "seen"]
  /\ Proceed(w, todo[w])
  /\ UNCHANGED <<inbox, todo, stores, sends, failures>>

(* An IMAP or database call raises, or the process ends: ConversationWorker*)
(* catches nothing, and a new process starts over.                         *)
Fail(w) ==
  /\ stage[w] # "idle"
  /\ failures < MaxFailures
  /\ failures' = failures + 1
  /\ EndPoll(w)
  /\ UNCHANGED <<inbox, flag, stores, handled, sends>>

------------------------------------------------------------------------------
(* Faulty variant: only public.replies is asked, which nothing fills.      *)
BugPublicRepliesOnly(p) == p \notin suppressed

(* What enqueue_campaign_send asks of suppression and stored replies.      *)
MaySchedule(p) ==
  p \notin suppressed /\ \A e \in Emails : replies[e] # p

(* mail.enqueue_campaign_send: its checks and its insert are statements    *)
(* with snapshots of their own.                                            *)
EnqueueCheck(s) ==
  /\ sends[s] = "none"
  /\ MaySchedule(Recipient[s])
  /\ sends' = [sends EXCEPT ![s] = "checked"]
  /\ UNCHANGED <<inbox, flag, pollVars, stores, handled, failures>>

EnqueueInsert(s) ==
  /\ sends[s] = "checked"
  /\ sends' = [sends EXCEPT ![s] = "queued"]
  /\ UNCHANGED <<inbox, flag, pollVars, stores, handled, failures>>

(* claim_due_sends, as MailQueue has it; a transient failure requeues.     *)
ClaimSend(s) ==
  /\ sends[s] = "queued"
  /\ Recipient[s] \notin suppressed
  /\ sends' = [sends EXCEPT ![s] = "claiming"]
  /\ UNCHANGED <<inbox, flag, pollVars, stores, handled, failures>>

Requeue(s) ==
  /\ sends[s] = "claiming"
  /\ sends' = [sends EXCEPT ![s] = "queued"]
  /\ UNCHANGED <<inbox, flag, pollVars, stores, handled, failures>>

PollStep(w) ==
  \/ Search(w) \/ Fetch(w) \/ Resolve(w) \/ Persist(w) \/ EnqueueAnalysis(w)
  \/ CancelSends(w) \/ Suppress(w) \/ OpenTask(w) \/ Finish(w)

SendStep(s) ==
  EnqueueCheck(s) \/ EnqueueInsert(s) \/ ClaimSend(s) \/ Requeue(s)

Next ==
  \/ \E u \in Uids : Arrive(u)
  \/ \E w \in Pollers : PollStep(w) \/ Fail(w)
  \/ \E s \in Sends : SendStep(s)

Spec == Init /\ [][Next]_vars

(* Pollers keep polling.  Nothing is assumed of correspondents, campaigns  *)
(* and mail workers.                                                       *)
FairSpec == Spec /\ \A w \in Pollers : WF_vars(PollStep(w))

------------------------------------------------------------------------------
(* The values every variable ranges over.                                  *)
Stages == {"idle", "polling", "fetched", "resolved", "persisted", "analysed",
           "cancelled", "suppressed", "tasked"}
TypeOK ==
  /\ inbox \in [Uids -> Emails]
  /\ flag \in [Uids -> {"absent", "unseen", "seen"}]
  /\ todo \in [Pollers -> SUBSET Uids]
  /\ uid \in [Pollers -> 0 .. MaxUid]
  /\ stage \in [Pollers -> Stages]
  /\ person \in [Pollers -> People \cup {Nobody}]
  /\ threads \in [Threads -> People \cup {Nobody}]
  /\ replies \in [Emails -> People \cup {Nobody}]
  /\ jobs \in SUBSET Emails
  /\ suppressed \in SUBSET People
  /\ tasks \in SUBSET (People \X SalesClasses)
  /\ handled \in SUBSET Uids
  /\ sends \in [Sends -> {"none", "checked", "queued", "claiming", "cancelled"}]
  /\ failures \in 0 .. MaxFailures

(* A message handle_inbound returned for has had all its consequences,     *)
(* also when another poller or an earlier delivery stored it and died      *)
(* before the rest: it is stored and has an analysis job, an unsubscribe   *)
(* suppressed its sender, an interested reply has a sales task for the     *)
(* person it is stored under or, when deliveries were resolved apart,      *)
(* for another.                                                            *)
HandledIsComplete ==
  \A u \in handled :
    LET e == inbox[u] IN
      /\ replies[e] # Nobody /\ threads[Thread[e]] # Nobody /\ e \in jobs
      /\ Class[e] = "unsubscribe" => Sender[e] \in suppressed
      /\ Class[e] \in SalesClasses => \E p \in People : <<p, Class[e]>> \in tasks

(* An opt-out that was handled is final: no mail worker claims a send to   *)
(* its sender any more, however the enqueue, the cancellation and the      *)
(* requeue of a send under way were interleaved with it.                   *)
OptOutHolds ==
  [][\A s \in Sends :
       (\E u \in handled : /\ Class[inbox[u]] = "unsubscribe"
                           /\ Sender[inbox[u]] = Recipient[s]) =>
         ~(sends[s] # "claiming" /\ sends'[s] = "claiming")]_vars

(* A stored reply closes scheduling for good: once no send to the person   *)
(* is under way, none ever is again.                                       *)
UnderWay(s) == sends[s] \in {"checked", "queued", "claiming"}
RepliesDrain ==
  [][\A s \in Sends :
       (\E e \in Emails : replies[e] = Recipient[s]) /\ ~UnderWay(s) =>
         ~UnderWay(s)']_vars

(* The mailbox drains: no message, malformed or from a stranger, keeps     *)
(* those behind it from being read.                                        *)
InboxDrains == \A u \in Uids : flag[u] = "unseen" ~> flag[u] = "seen"

(* INBOUND_RUNTIME.md: a message is marked Seen only after successful      *)
(* runtime handling.  The fetch marks it before.                           *)
SeenMeansHandled == \A u \in Uids : flag[u] = "seen" => u \in handled
==============================================================================
