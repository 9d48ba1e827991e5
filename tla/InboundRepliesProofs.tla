------------------------- MODULE InboundRepliesProofs -------------------------
(***************************************************************************)
(* Proofs about InboundReplies: handled messages are complete, opt-outs    *)
(* hold and stored replies drain the sends, for any mailbox and any number *)
(* of pollers, sends and failures.                                         *)
(***************************************************************************)
EXTENDS InboundReplies, TLAPS

(* What the handling of a message has behind it at each stage.             *)
Stored     == {"persisted", "analysed", "cancelled", "suppressed", "tasked"}
Analysed   == Stored \ {"persisted"}
Suppressed == {"suppressed", "tasked"}

(* A poller on a message has its uid and, once resolved, a known person.   *)
PlaceInv ==
  \A w \in Pollers :
    /\ stage[w] \notin {"idle", "polling"} => uid[w] \in Uids
    /\ stage[w] \in Stored \cup {"resolved"} => person[w] \in People

(* The consequences a poller has reached are in the tables, whoever wrote  *)
(* them.                                                                   *)
DoneInv ==
  \A w \in Pollers :
    /\ stage[w] \in Stored => replies[Mail(w)] # Nobody /\ threads[Thread[Mail(w)]] # Nobody
    /\ stage[w] \in Analysed => Mail(w) \in jobs
    /\ stage[w] \in Suppressed /\ Class[Mail(w)] = "unsubscribe" =>
         Sender[Mail(w)] \in suppressed
    /\ stage[w] = "tasked" /\ Class[Mail(w)] \in SalesClasses =>
         \E p \in People : <<p, Class[Mail(w)]>> \in tasks

Inv == TypeOK /\ PlaceInv /\ DoneInv /\ HandledIsComplete

LEMMA InitInv == Init => Inv
<1> SUFFICES ASSUME Init PROVE Inv
  OBVIOUS
<1> USE EmailAssumption, CountAssumption
<1>1. TypeOK
  BY DEF Init, TypeOK, Stages, Uids
<1>2. PlaceInv /\ DoneInv /\ HandledIsComplete
  BY DEF Init, PlaceInv, DoneInv, HandledIsComplete, Stored, Analysed, Suppressed
<1> QED
  BY <1>1, <1>2 DEF Inv

------------------------------------------------------------------------------
(* The pollers' places.                                                    *)

LEMMA ProceedType ==
  ASSUME TypeOK, NEW w \in Pollers, NEW rest, Proceed(w, rest)
  PROVE  /\ uid' \in [Pollers -> 0 .. MaxUid]
         /\ stage' \in [Pollers -> Stages]
         /\ person' \in [Pollers -> People \cup {Nobody}]
BY CountAssumption DEF TypeOK, Proceed, Stages

LEMMA IdentityType ==
  ASSUME TypeOK, NEW e \in Emails
  PROVE  Identity(e) \in People \cup {Nobody}
BY EmailAssumption DEF TypeOK, Identity

LEMMA TypeStep == TypeOK /\ PlaceInv /\ [Next]_vars => TypeOK'
<1> SUFFICES ASSUME TypeOK, PlaceInv, [Next]_vars PROVE TypeOK'
  OBVIOUS
<1> USE EmailAssumption, CountAssumption
<1>1. ASSUME NEW u \in Uids, Arrive(u) PROVE TypeOK'
  BY <1>1 DEF TypeOK, Arrive, pollVars, stores
<1>2. ASSUME NEW w \in Pollers, Search(w) PROVE TypeOK'
  BY <1>2 DEF TypeOK, Search, stores, Stages
<1>3. ASSUME NEW w \in Pollers, Fetch(w) PROVE TypeOK'
  <2>1. PICK u \in todo[w] :
          /\ flag' = FlagAfterFetch(u)
          /\ IF inbox[u] \in Malformed
             THEN EndPoll(w)
             ELSE /\ todo' = [todo EXCEPT ![w] = @ \ {u}]
                  /\ uid' = [uid EXCEPT ![w] = u]
                  /\ stage' = [stage EXCEPT ![w] = "fetched"]
                  /\ UNCHANGED person
    BY <1>3 DEF Fetch
  <2>2. u \in Uids
    BY <2>1 DEF TypeOK
  <2>3. UNCHANGED <<inbox, stores, handled, sends, failures>>
    BY <1>3 DEF Fetch
  <2>4. flag' \in [Uids -> {"absent", "unseen", "seen"}]
    BY <2>1, <2>2 DEF FlagAfterFetch, TypeOK
  <2>5. CASE inbox[u] \in Malformed
    BY <2>1, <2>3, <2>4, <2>5, ProceedType DEF EndPoll, TypeOK, stores
  <2>6. CASE inbox[u] \notin Malformed
    <3>1. /\ todo' = [todo EXCEPT ![w] = @ \ {u}] /\ uid' = [uid EXCEPT ![w] = u]
          /\ stage' = [stage EXCEPT ![w] = "fetched"] /\ person' = person
      BY <2>1, <2>6
    <3>2. todo' \in [Pollers -> SUBSET Uids]
      BY <3>1 DEF TypeOK
    <3>3. uid' \in [Pollers -> 0 .. MaxUid]
      BY <2>2, <3>1 DEF TypeOK, Uids
    <3>4. stage' \in [Pollers -> Stages]
      BY <3>1 DEF TypeOK, Stages
    <3> QED
      BY <2>3, <2>4, <3>1, <3>2, <3>3, <3>4 DEF TypeOK, stores
  <2> QED
    BY <2>5, <2>6
<1>4. ASSUME NEW w \in Pollers, Resolve(w) PROVE TypeOK'
  <2>1. Mail(w) \in Emails
    BY <1>4 DEF Resolve, PlaceInv, Mail, TypeOK
  <2>2. CASE Identity(Mail(w)) = Nobody
    BY <1>4, <2>2, ProceedType DEF Resolve, TypeOK, stores
  <2>3. CASE Identity(Mail(w)) # Nobody
    BY <1>4, <2>1, <2>3, IdentityType DEF Resolve, TypeOK, stores, Stages
  <2> QED
    BY <2>2, <2>3
<1>5. ASSUME NEW w \in Pollers, Persist(w) PROVE TypeOK'
  <2>1. Mail(w) \in Emails /\ person[w] \in People
    BY <1>5 DEF Persist, PlaceInv, Mail, TypeOK
  <2>2. threads' \in [Threads -> People \cup {Nobody}]
    BY <1>5, <2>1 DEF Persist, TypeOK
  <2>3. replies' \in [Emails -> People \cup {Nobody}]
    BY <1>5, <2>1 DEF Persist, TypeOK
  <2> QED
    BY <1>5, <2>2, <2>3 DEF Persist, TypeOK, AfterPersist, Stages
<1>6. ASSUME NEW w \in Pollers, EnqueueAnalysis(w) PROVE TypeOK'
  <2>1. Mail(w) \in Emails
    BY <1>6 DEF EnqueueAnalysis, PlaceInv, Mail, TypeOK
  <2> QED
    BY <1>6, <2>1 DEF EnqueueAnalysis, TypeOK, Stages
<1>7. ASSUME NEW w \in Pollers, CancelSends(w) PROVE TypeOK'
  BY <1>7 DEF CancelSends, TypeOK, stores, Stages
<1>8. ASSUME NEW w \in Pollers, Suppress(w) PROVE TypeOK'
  <2>1. Sender[Mail(w)] \in People
    BY <1>8 DEF Suppress, PlaceInv, Mail, TypeOK
  <2> QED
    BY <1>8, <2>1 DEF Suppress, OptedOut, TypeOK, Stages
<1>9. ASSUME NEW w \in Pollers, OpenTask(w) PROVE TypeOK'
  <2>1. person[w] \in People
    BY <1>9 DEF OpenTask, PlaceInv, Stored
  <2> QED
    BY <1>9, <2>1 DEF OpenTask, TypeOK, Stages
<1>10. ASSUME NEW w \in Pollers, Finish(w) PROVE TypeOK'
  <2>1. uid[w] \in Uids
    BY <1>10 DEF Finish, PlaceInv
  <2> QED
    BY <1>10, <2>1, ProceedType DEF Finish, TypeOK, stores
<1>11. ASSUME NEW w \in Pollers, Fail(w) PROVE TypeOK'
  BY <1>11, ProceedType DEF Fail, EndPoll, TypeOK, stores
<1>12. ASSUME NEW s \in Sends, SendStep(s) PROVE TypeOK'
  BY <1>12 DEF SendStep, EnqueueCheck, EnqueueInsert, ClaimSend, Requeue, TypeOK,
               pollVars, stores
<1>13. CASE UNCHANGED vars
  BY <1>13 DEF vars, pollVars, stores, TypeOK
<1> QED
  BY <1>1, <1>2, <1>3, <1>4, <1>5, <1>6, <1>7, <1>8, <1>9, <1>10, <1>11, <1>12, <1>13
     DEF Next, PollStep

------------------------------------------------------------------------------
(* What a step leaves of the tables: nothing is taken back.                *)
Grows ==
  /\ inbox' = inbox
  /\ \A e \in Emails : replies[e] # Nobody => replies'[e] # Nobody
  /\ \A t \in Threads : threads[t] # Nobody => threads'[t] # Nobody
  /\ jobs \subseteq jobs' /\ suppressed \subseteq suppressed' /\ tasks \subseteq tasks'

LEMMA StepGrows == TypeOK /\ PlaceInv /\ [Next]_vars => Grows
<1> SUFFICES ASSUME TypeOK, PlaceInv, [Next]_vars PROVE Grows
  OBVIOUS
<1>1. ASSUME NEW w \in Pollers, Persist(w) PROVE Grows
  <2>1. person[w] \in People /\ person[w] # Nobody
    BY <1>1, NobodyAssumption DEF Persist, PlaceInv
  <2>2. \A e \in Emails : replies[e] # Nobody => replies'[e] # Nobody
    BY <1>1, <2>1 DEF Persist, TypeOK
  <2>3. \A t \in Threads : threads[t] # Nobody => threads'[t] # Nobody
    BY <1>1, <2>1 DEF Persist, TypeOK
  <2> QED
    BY <1>1, <2>2, <2>3 DEF Persist, Grows
<1>2. ASSUME NEW w \in Pollers, PollStep(w), ~Persist(w) PROVE Grows
  BY <1>2 DEF PollStep, Search, Fetch, Resolve, EnqueueAnalysis, CancelSends, Suppress,
              OpenTask, Finish, stores, Grows
<1>3. ASSUME NEW w \in Pollers, Fail(w) PROVE Grows
  BY <1>3 DEF Fail, stores, Grows
<1>4. ASSUME NEW u \in Uids, Arrive(u) PROVE Grows
  BY <1>4 DEF Arrive, stores, Grows
<1>5. ASSUME NEW s \in Sends, SendStep(s) PROVE Grows
  BY <1>5 DEF SendStep, EnqueueCheck, EnqueueInsert, ClaimSend, Requeue, stores, Grows
<1>6. CASE UNCHANGED vars
  BY <1>6 DEF vars, stores, Grows
<1> QED
  BY <1>1, <1>2, <1>3, <1>4, <1>5, <1>6 DEF Next

(* What a step does to the place of a poller: it stays, goes on to no      *)
(* message or a fetched one, or takes one stage.                           *)
Stays(w) == stage'[w] = stage[w] /\ uid'[w] = uid[w] /\ person'[w] = person[w]

Moves(v) ==
  \/ Stays(v)
  \/ stage'[v] \in {"idle", "polling"}
  \/ stage'[v] = "fetched" /\ uid'[v] \in Uids
  \/ Resolve(v) /\ stage'[v] = "resolved" /\ uid'[v] = uid[v] /\ person'[v] \in People
  \/ /\ Persist(v) \/ EnqueueAnalysis(v) \/ CancelSends(v) \/ Suppress(v) \/ OpenTask(v)
     /\ uid'[v] = uid[v] /\ person'[v] = person[v]

LEMMA PlaceStep ==
  ASSUME TypeOK, PlaceInv, [Next]_vars, NEW v \in Pollers
  PROVE  Moves(v)
<1>1. ASSUME UNCHANGED <<stage, uid, person>> PROVE Moves(v)
  BY <1>1 DEF Stays, Moves
<1>2. ASSUME NEW w \in Pollers, Search(w) PROVE Moves(v)
  BY <1>2 DEF Search, Stays, TypeOK, Moves
<1>3. ASSUME NEW w \in Pollers, NEW rest, Proceed(w, rest) PROVE Moves(v)
  BY <1>3 DEF Proceed, Stays, TypeOK, Moves
<1>4. ASSUME NEW w \in Pollers, Fetch(w) PROVE Moves(v)
  <2>1. PICK u \in todo[w] :
          IF inbox[u] \in Malformed
          THEN EndPoll(w)
          ELSE /\ uid' = [uid EXCEPT ![w] = u]
               /\ stage' = [stage EXCEPT ![w] = "fetched"]
               /\ UNCHANGED person
    BY <1>4 DEF Fetch
  <2>2. CASE inbox[u] \in Malformed
    BY <2>1, <2>2, <1>3 DEF EndPoll
  <2>3. CASE inbox[u] \notin Malformed
    BY <2>1, <2>3 DEF Stays, TypeOK, Moves
  <2> QED
    BY <2>2, <2>3
<1>5. ASSUME NEW w \in Pollers, Resolve(w) PROVE Moves(v)
  <2>1. Mail(w) \in Emails
    BY <1>5 DEF Resolve, PlaceInv, Mail, TypeOK
  <2>2. CASE Identity(Mail(w)) = Nobody
    BY <1>3, <1>5, <2>2 DEF Resolve
  <2>3. CASE Identity(Mail(w)) # Nobody
    <3>1. Identity(Mail(w)) \in People
      BY <2>1, <2>3, IdentityType
    <3>2. /\ person' = [person EXCEPT ![w] = Identity(Mail(w))]
          /\ stage' = [stage EXCEPT ![w] = "resolved"]
          /\ uid' = uid
      BY <1>5, <2>3 DEF Resolve
    <3>3. CASE v = w
      BY <1>5, <3>1, <3>2, <3>3 DEF TypeOK, Moves
    <3>4. CASE v # w
      BY <3>2, <3>4 DEF Stays, TypeOK, Moves
    <3> QED
      BY <3>3, <3>4
  <2> QED
    BY <2>2, <2>3
<1>6. ASSUME NEW w \in Pollers,
             Persist(w) \/ EnqueueAnalysis(w) \/ CancelSends(w) \/ Suppress(w) \/ OpenTask(w)
      PROVE  Moves(v)
  <2>1. /\ uid' = uid /\ person' = person
        /\ \E x : stage' = [stage EXCEPT ![w] = x]
    BY <1>6 DEF Persist, EnqueueAnalysis, CancelSends, Suppress, OpenTask
  <2>2. CASE v = w
    BY <1>6, <2>1, <2>2 DEF Moves
  <2>3. CASE v # w
    BY <2>1, <2>3 DEF Stays, TypeOK, Moves
  <2> QED
    BY <2>2, <2>3
<1>7. ASSUME NEW w \in Pollers, Finish(w) \/ Fail(w) PROVE Moves(v)
  BY <1>3, <1>7 DEF Finish, Fail, EndPoll
<1>8. ASSUME NEW u \in Uids, Arrive(u) PROVE Moves(v)
  BY <1>1, <1>8 DEF Arrive, pollVars
<1>9. ASSUME NEW s \in Sends, SendStep(s) PROVE Moves(v)
  BY <1>1, <1>9 DEF SendStep, EnqueueCheck, EnqueueInsert, ClaimSend, Requeue, pollVars
<1>10. CASE UNCHANGED vars
  BY <1>1, <1>10 DEF vars, pollVars
<1> QED
  BY <1>2, <1>4, <1>5, <1>6, <1>7, <1>8, <1>9, <1>10 DEF Next, PollStep

LEMMA PlaceKept == TypeOK /\ PlaceInv /\ [Next]_vars => PlaceInv'
<1> SUFFICES ASSUME TypeOK, PlaceInv, [Next]_vars, NEW v \in Pollers
             PROVE  /\ stage'[v] \notin {"idle", "polling"} => uid'[v] \in Uids
                    /\ stage'[v] \in Stored \cup {"resolved"} => person'[v] \in People
  BY DEF PlaceInv, Uids
<1>1. CASE Stays(v)
  BY <1>1 DEF Stays, PlaceInv
<1>2. CASE stage'[v] \in {"idle", "polling"} \/ (stage'[v] = "fetched" /\ uid'[v] \in Uids)
  BY <1>2 DEF Stored
<1>3. CASE Resolve(v) /\ stage'[v] = "resolved" /\ uid'[v] = uid[v] /\ person'[v] \in People
  BY <1>3 DEF Resolve, PlaceInv
<1>4. CASE /\ Persist(v) \/ EnqueueAnalysis(v) \/ CancelSends(v) \/ Suppress(v) \/ OpenTask(v)
           /\ uid'[v] = uid[v] /\ person'[v] = person[v]
  <2>1. stage[v] \in {"resolved", "persisted", "analysed", "cancelled", "suppressed"}
    BY <1>4 DEF Persist, EnqueueAnalysis, CancelSends, Suppress, OpenTask
  <2> QED
    BY <1>4, <2>1 DEF PlaceInv, Stored
<1> QED
  BY <1>1, <1>2, <1>3, <1>4, PlaceStep DEF Moves

------------------------------------------------------------------------------
(* What one message needs of the tables, stage by stage.                   *)
Kept(e) == replies[e] # Nobody /\ threads[Thread[e]] # Nobody
Barred(e) == Class[e] = "unsubscribe" => Sender[e] \in suppressed
Tasked(e) == Class[e] \in SalesClasses => \E p \in People : <<p, Class[e]>> \in tasks

LEMMA EffectsLast ==
  ASSUME Grows, NEW e \in Emails
  PROVE  /\ Kept(e) => Kept(e)'
         /\ e \in jobs => e \in jobs'
         /\ Barred(e) => Barred(e)'
         /\ Tasked(e) => Tasked(e)'
BY EmailAssumption DEF Grows, Kept, Barred, Tasked

LEMMA DoneKept == Inv /\ [Next]_vars => DoneInv'
<1> SUFFICES ASSUME Inv, [Next]_vars, NEW v \in Pollers
             PROVE  /\ stage'[v] \in Stored => Kept(Mail(v))'
                    /\ stage'[v] \in Analysed => Mail(v)' \in jobs'
                    /\ stage'[v] \in Suppressed => Barred(Mail(v))'
                    /\ stage'[v] = "tasked" => Tasked(Mail(v))'
  BY DEF DoneInv, Kept, Barred, Tasked, Stored, Analysed, Suppressed
<1> USE DEF Inv
<1>1. Grows
  BY StepGrows
<1>2. CASE stage'[v] \in {"idle", "polling", "fetched", "resolved"}
  BY <1>2 DEF Stored, Analysed, Suppressed
<1>3. ASSUME stage[v] \notin {"idle", "polling"}, uid'[v] = uid[v]
      PROVE  /\ Mail(v) \in Emails /\ Mail(v)' = Mail(v)
             /\ Kept(Mail(v)) => Kept(Mail(v))'
             /\ Mail(v) \in jobs => Mail(v)' \in jobs'
             /\ Barred(Mail(v)) => Barred(Mail(v))'
             /\ Tasked(Mail(v)) => Tasked(Mail(v))'
  <2>1. Mail(v) \in Emails
    BY <1>3 DEF PlaceInv, TypeOK, Mail
  <2>2. Mail(v)' = Mail(v)
    BY <1>1, <1>3 DEF Grows, Mail
  <2> QED
    BY <2>1, <2>2, <1>1, EffectsLast DEF Kept, Barred, Tasked
<1>4. /\ stage[v] \in Stored => Kept(Mail(v))
      /\ stage[v] \in Analysed => Mail(v) \in jobs
      /\ stage[v] \in Suppressed => Barred(Mail(v))
      /\ stage[v] = "tasked" => Tasked(Mail(v))
  BY DEF DoneInv, Kept, Barred, Tasked
<1>5. CASE Stays(v) /\ stage[v] \notin {"idle", "polling"}
  BY <1>3, <1>4, <1>5 DEF Stays
<1>6. CASE Persist(v) /\ uid'[v] = uid[v]
  <2>1. stage'[v] = "persisted" /\ stage[v] = "resolved" /\ person[v] \in People
    BY <1>6 DEF Persist, AfterPersist, PlaceInv, TypeOK
  <2>2. Mail(v) \in Emails /\ Mail(v)' = Mail(v)
    BY <1>3, <1>6, <2>1
  <2>3. replies'[Mail(v)] # Nobody
    BY <1>6, <2>1, <2>2, NobodyAssumption DEF Persist, TypeOK
  <2>4. threads'[Thread[Mail(v)]] # Nobody
    BY <1>6, <2>1, <2>2, NobodyAssumption, EmailAssumption DEF Persist, TypeOK
  <2> QED
    BY <2>1, <2>2, <2>3, <2>4 DEF Kept, Stored, Analysed, Suppressed
<1>7. CASE EnqueueAnalysis(v) /\ uid'[v] = uid[v]
  <2>1. stage'[v] = "analysed" /\ stage[v] = "persisted" /\ Mail(v) \in jobs'
    BY <1>7 DEF EnqueueAnalysis, TypeOK
  <2> QED
    BY <1>3, <1>4, <1>7, <2>1 DEF Stored, Analysed, Suppressed
<1>8. CASE CancelSends(v) /\ uid'[v] = uid[v]
  <2>1. stage'[v] = "cancelled" /\ stage[v] = "analysed"
    BY <1>8 DEF CancelSends, TypeOK
  <2> QED
    BY <1>3, <1>4, <1>8, <2>1 DEF Stored, Analysed, Suppressed
<1>9. CASE Suppress(v) /\ uid'[v] = uid[v]
  <2>1. stage'[v] = "suppressed" /\ stage[v] = "cancelled"
    BY <1>9 DEF Suppress, TypeOK
  <2>2. Class[Mail(v)] = "unsubscribe" => Sender[Mail(v)] \in suppressed'
    BY <1>9 DEF Suppress, OptedOut
  <2>3. Barred(Mail(v))'
    BY <1>3, <1>9, <2>1, <2>2 DEF Barred
  <2> QED
    BY <1>3, <1>4, <1>9, <2>1, <2>3 DEF Stored, Analysed, Suppressed
<1>10. CASE OpenTask(v) /\ uid'[v] = uid[v]
  <2>1. stage'[v] = "tasked" /\ stage[v] = "suppressed" /\ person[v] \in People
    BY <1>10 DEF OpenTask, TypeOK, PlaceInv, Stored
  <2>2. Class[Mail(v)] \in SalesClasses => <<person[v], Class[Mail(v)]>> \in tasks'
    BY <1>10 DEF OpenTask
  <2>3. Tasked(Mail(v))'
    BY <1>3, <1>10, <2>1, <2>2 DEF Tasked
  <2> QED
    BY <1>3, <1>4, <1>10, <2>1, <2>3 DEF Stored, Analysed, Suppressed
<1> QED
  BY <1>2, <1>5, <1>6, <1>7, <1>8, <1>9, <1>10, PlaceStep DEF Moves, Stays

(* Only a message whose handling is through joins the handled ones.        *)
LEMMA HandledStep ==
  ASSUME [Next]_vars, NEW u \in handled', u \notin handled
  PROVE  \E w \in Pollers : stage[w] = "tasked" /\ u = uid[w]
<1>1. PICK w \in Pollers : Finish(w)
  BY DEF Next, PollStep, Arrive, Search, Fetch, Resolve, Persist, EnqueueAnalysis,
         CancelSends, Suppress, OpenTask, Fail, SendStep, EnqueueCheck, EnqueueInsert,
         ClaimSend, Requeue, vars
<1> QED
  BY <1>1 DEF Finish

LEMMA HandledKept == Inv /\ [Next]_vars => HandledIsComplete'
<1> SUFFICES ASSUME Inv, [Next]_vars, NEW u \in handled', NEW e, e = inbox'[u]
             PROVE  Kept(e)' /\ e \in jobs' /\ Barred(e)' /\ Tasked(e)'
  BY DEF HandledIsComplete, Kept, Barred, Tasked
<1> USE DEF Inv
<1>1. Grows /\ inbox' = inbox
  BY StepGrows DEF Grows
<1>2. u \in Uids /\ Kept(e) /\ e \in jobs /\ Barred(e) /\ Tasked(e)
  <2>1. CASE u \in handled
    BY <1>1, <2>1 DEF HandledIsComplete, Kept, Barred, Tasked, TypeOK
  <2>2. CASE u \notin handled
    <3>1. PICK w \in Pollers : stage[w] = "tasked" /\ u = uid[w]
      BY <2>2, HandledStep
    <3> QED
      BY <1>1, <3>1 DEF DoneInv, PlaceInv, Kept, Barred, Tasked, Mail, Stored, Analysed, Suppressed
  <2> QED
    BY <2>1, <2>2
<1>3. e \in Emails
  BY <1>1, <1>2 DEF TypeOK
<1> QED
  BY <1>1, <1>2, <1>3, EffectsLast

LEMMA InvStep == Inv /\ [Next]_vars => Inv'
BY TypeStep, PlaceKept, DoneKept, HandledKept DEF Inv

THEOREM Invariance == Spec => []Inv
BY InitInv, InvStep, PTL DEF Spec

(* TypeOK: every variable of the inbound runtime keeps its type.           *)
THEOREM InboundTypes == Spec => []TypeOK
BY Invariance, PTL DEF Inv

(* HandledIsComplete: a message handle_inbound returned for has had all    *)
(* its consequences, whichever poller or earlier delivery brought them.    *)
THEOREM HandledCorrect == Spec => []HandledIsComplete
BY Invariance, PTL DEF Inv

------------------------------------------------------------------------------
(* OptOutHolds: once an opt-out was handled, no send to its sender is      *)
(* claimed any more.                                                       *)
THEOREM OptOutCorrect == Spec => OptOutHolds
<1> DEFINE OptedOutBy(s) ==
      \E u \in handled : /\ Class[inbox[u]] = "unsubscribe"
                         /\ Sender[inbox[u]] = Recipient[s]
<1>1. ASSUME Inv, Next, NEW s \in Sends, OptedOutBy(s),
             sends[s] # "claiming", sends'[s] = "claiming"
      PROVE  FALSE
  <2>1. Recipient[s] \in suppressed
    BY <1>1 DEF Inv, HandledIsComplete
  <2>2. ASSUME NEW x \in Sends, SendStep(x) PROVE FALSE
    BY <1>1, <2>1, <2>2
       DEF Inv, TypeOK, SendStep, EnqueueCheck, EnqueueInsert, ClaimSend, Requeue
  <2>3. ASSUME NEW w \in Pollers, CancelSends(w) PROVE FALSE
    BY <1>1, <2>3 DEF CancelSends, Inv, TypeOK
  <2>4. sends' # sends
    BY <1>1
  <2> QED
    BY <1>1, <2>2, <2>3, <2>4
       DEF Next, PollStep, Arrive, Search, Fetch, Resolve, Persist, EnqueueAnalysis, Suppress,
           OpenTask, Finish, Fail
<1>2. ASSUME Inv, [Next]_vars
      PROVE  [\A s \in Sends : OptedOutBy(s) => ~(sends[s] # "claiming" /\ sends'[s] = "claiming")]_vars
  BY <1>1, <1>2
<1> QED
  BY <1>2, Invariance, PTL DEF Spec, OptOutHolds

(* RepliesDrain: where a reply is stored and no send is under way, none    *)
(* ever is again.                                                          *)
THEOREM RepliesCorrect == Spec => RepliesDrain
<1> DEFINE Answered(s) == \E e \in Emails : replies[e] = Recipient[s]
<1>1. ASSUME Inv, Next, NEW s \in Sends, Answered(s), ~UnderWay(s)
      PROVE  ~UnderWay(s)'
  <2>1. ASSUME NEW x \in Sends, SendStep(x) PROVE ~UnderWay(s)'
    BY <1>1, <2>1 DEF Inv, TypeOK, SendStep, EnqueueCheck, EnqueueInsert, ClaimSend, Requeue,
                      MaySchedule, UnderWay
  <2>2. ASSUME NEW w \in Pollers, CancelSends(w) PROVE ~UnderWay(s)'
    BY <1>1, <2>2 DEF CancelSends, Inv, TypeOK, UnderWay
  <2>3. ASSUME UNCHANGED sends PROVE ~UnderWay(s)'
    BY <1>1, <2>3 DEF UnderWay
  <2> QED
    BY <1>1, <2>1, <2>2, <2>3
       DEF Next, PollStep, Arrive, Search, Fetch, Resolve, Persist, EnqueueAnalysis, Suppress,
           OpenTask, Finish, Fail
<1>2. ASSUME Inv, [Next]_vars
      PROVE  [\A s \in Sends : Answered(s) /\ ~UnderWay(s) => ~UnderWay(s)']_vars
  BY <1>1, <1>2
<1> QED
  BY <1>2, Invariance, PTL DEF Spec, RepliesDrain
==============================================================================
