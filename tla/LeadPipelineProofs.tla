-------------------------- MODULE LeadPipelineProofs --------------------------
(***************************************************************************)
(* Proofs about LeadPipeline: what Phase 1 stores has its outcome, what    *)
(* Phase 2 counts, completes and decides is what is stored and was         *)
(* accepted, and what its matches cite was fetched, for any files,         *)
(* ingestion runs, executors, request keys and answers of the provider.    *)
(***************************************************************************)
EXTENDS LeadPipeline, ListTheorems, SequenceTheorems

Records == UNION {{Record(file, i) : i \in DOMAIN Files[file].rows} : file \in DOMAIN Files}

Leads == {CanonicalLead(x) : x \in Records}

(* A lead that Phase 1 accepted, and the outcome of a source record.       *)
Ready(lead) ==
  \E x \in sourceRecords : Quality(x) \in AcceptedStates /\ CanonicalLead(x) = lead

Settled(x) ==
  IF Quality(x) \in AcceptedStates THEN HandedOff(CanonicalLead(x)) ELSE x \in quarantine

------------------------------------------------------------------------------
(* Phase 1.                                                                *)

IntakeType ==
  /\ sourceRecords \in SUBSET Records
  /\ handoffs \in Seq([lead : Leads, at : {Files[file].at : file \in DOMAIN Files}])
  /\ ingester \in [Ingesters -> [pc : {"idle", "check", "write"},
                                 file : DOMAIN Files \cup {"none"},
                                 prior : SUBSET Records, next : Nat]]

(* A run judges against records that are stored, and has stored the rows   *)
(* before the one it is at.                                                *)
BatchInv ==
  \A i \in Ingesters : ingester[i].pc # "idle" =>
    LET g == ingester[i] IN
      /\ g.file \in DOMAIN Files /\ g.next \in 1 .. Len(Files[g.file].rows)
      /\ g.prior \subseteq sourceRecords
      /\ \A j \in 1 .. (g.next - 1) : Record(g.file, j) \in sourceRecords

HandoffInv == \A n \in DOMAIN handoffs : Ready(handoffs[n].lead)

IntakeInv == IntakeType /\ BatchInv /\ HandoffInv /\ NothingIsLost

LEMMA RowsAreRecords ==
  ASSUME NEW file \in DOMAIN Files, NEW i \in 1 .. Len(Files[file].rows)
  PROVE  Record(file, i) \in Records
<1>1. i \in DOMAIN Files[file].rows
  BY IntakeAssumption
<1> QED
  BY <1>1 DEF Records

LEMMA IntakeStart == Init => IntakeInv
<1> SUFFICES ASSUME Init PROVE IntakeInv
  OBVIOUS
<1>1. IntakeType
  BY DEF Init, HandoffInit, IntakeInit, Idle, IntakeType
<1>2. BatchInv /\ HandoffInv /\ NothingIsLost
  BY DEF Init, HandoffInit, IntakeInit, Idle, BatchInv, HandoffInv, NothingIsLost
<1> QED
  BY <1>1, <1>2 DEF IntakeInv

(* What only the handling of rows changes, and that nothing stored is      *)
(* taken back.                                                             *)
LEMMA WriteGrows ==
  ASSUME IntakeInv, NEW i \in Ingesters, WriteRow(i),
         NEW record, record = Record(ingester[i].file, ingester[i].next),
         NEW state, state = ResultState(ingester[i].file, ingester[i].next, ingester[i].prior)
  PROVE  /\ record \in Records /\ sourceRecords' = sourceRecords \cup {record}
         /\ handoffs' \in Seq([lead : Leads, at : {Files[file].at : file \in DOMAIN Files}])
         /\ \A lead : HandedOff(lead) => HandedOff(lead)'
         /\ \A n \in DOMAIN handoffs' :
              \/ n \in DOMAIN handoffs /\ handoffs'[n] = handoffs[n]
              \/ Quality(record) \in AcceptedStates
                 /\ handoffs'[n].lead = CanonicalLead(record)
         /\ state \in AcceptedStates =>
              HandedOff(CanonicalLead(record))' /\ quarantine' = quarantine \ {record}
         /\ state = "QUARANTINED" => quarantine' = quarantine \cup {record}
         /\ state = "DUPLICATE" => quarantine' = quarantine
<1> USE DEF IntakeInv
<1> PICK file : file = ingester[i].file
  OBVIOUS
<1> PICK lead : lead = CanonicalLead(record)
  OBVIOUS
<1>1. file \in DOMAIN Files /\ ingester[i].next \in 1 .. Len(Files[file].rows)
  BY DEF WriteRow, BatchInv
<1>2. record \in Records
  BY <1>1, RowsAreRecords
<1>3. lead \in Leads
  BY <1>2 DEF Leads
<1>4. /\ sourceRecords' = sourceRecords \cup {record}
      /\ UpdateQuarantine(record, state)
      /\ IF state \in AcceptedStates THEN InsertHandoff(lead, Files[file].at)
         ELSE UNCHANGED handoffs
  BY DEF WriteRow
<1>5. state \in AcceptedStates => Quality(record) \in AcceptedStates
  BY DEF ResultState, JudgedState, AcceptedStates
<1>6. /\ state \in AcceptedStates => quarantine' = quarantine \ {record}
      /\ state = "QUARANTINED" => quarantine' = quarantine \cup {record}
      /\ state = "DUPLICATE" => quarantine' = quarantine
  BY <1>4 DEF UpdateQuarantine, AcceptedStates
<1>7. CASE handoffs' = handoffs /\ (state \in AcceptedStates => HandedOff(lead))
  <2>1. \A l : HandedOff(l) => HandedOff(l)'
    BY <1>7 DEF HandedOff
  <2>2. state \in AcceptedStates => HandedOff(CanonicalLead(record))'
    <3>1. state \in AcceptedStates => HandedOff(lead)'
      BY <1>7, <2>1
    <3> QED
      BY <3>1 DEF HandedOff
  <2> QED
    BY <1>2, <1>4, <1>6, <1>7, <2>1, <2>2 DEF IntakeType
<1>8. CASE /\ state \in AcceptedStates
           /\ handoffs' = Append(handoffs, [lead |-> lead, at |-> Files[file].at])
  <2> DEFINE row == [lead |-> lead, at |-> Files[file].at]
             Row == [lead : Leads, at : {Files[f].at : f \in DOMAIN Files}]
  <2>1. row \in Row /\ handoffs \in Seq(Row)
    BY <1>1, <1>3 DEF IntakeType
  <2>2. row.lead = lead
    OBVIOUS
  <2> HIDE DEF row, Row
  <2>3. /\ handoffs' \in Seq(Row) /\ DOMAIN handoffs' = 1 .. (Len(handoffs) + 1)
        /\ DOMAIN handoffs = 1 .. Len(handoffs)
        /\ \A n \in DOMAIN handoffs : handoffs'[n] = handoffs[n]
        /\ handoffs'[Len(handoffs) + 1] = row
    BY <1>8, <2>1 DEF row
  <2>4. \A l : HandedOff(l) => HandedOff(l)'
    BY <2>1, <2>3 DEF HandedOff
  <2>5. \A n \in DOMAIN handoffs' :
          \/ n \in DOMAIN handoffs /\ handoffs'[n] = handoffs[n]
          \/ handoffs'[n].lead = lead
    BY <2>1, <2>2, <2>3
  <2>6. \E n \in DOMAIN handoffs' : handoffs'[n].lead = CanonicalLead(record)
    <3>1. Len(handoffs) + 1 \in DOMAIN handoffs'
      BY <2>1, <2>3
    <3> QED
      BY <2>2, <2>3, <3>1
  <2>7. HandedOff(CanonicalLead(record))'
    BY <2>6 DEF HandedOff
  <2> QED
    BY <1>2, <1>4, <1>5, <1>6, <1>8, <2>3, <2>4, <2>5, <2>7 DEF Row
<1> QED
  BY <1>4, <1>7, <1>8 DEF InsertHandoff

(* Every other step of an ingestion run only moves the run.                *)
RunMoves == UNCHANGED <<sourceRecords, states, projection, quarantine, handoffs>>

(* Where a run is after a step of its own.                                 *)
LEMMA AdvancedInv ==
  ASSUME IntakeInv, NEW i \in Ingesters, ingester[i].pc # "idle", NEW records,
         sourceRecords \subseteq records,
         Record(ingester[i].file, ingester[i].next) \in records
  PROVE  LET g == Advanced(i) IN
         /\ g \in [pc : {"idle", "check", "write"}, file : DOMAIN Files \cup {"none"},
                   prior : SUBSET Records, next : Nat]
         /\ g.pc # "idle" =>
              /\ g.file \in DOMAIN Files /\ g.next \in 1 .. Len(Files[g.file].rows)
              /\ g.prior \subseteq records
              /\ \A j \in 1 .. (g.next - 1) : Record(g.file, j) \in records
<1> USE DEF IntakeInv
<1> DEFINE g == ingester[i]
           n == Len(Files[g.file].rows)
<1>1. /\ g \in [pc : {"idle", "check", "write"}, file : DOMAIN Files \cup {"none"},
                prior : SUBSET Records, next : Nat]
      /\ g.file \in DOMAIN Files /\ g.next \in 1 .. n /\ g.prior \subseteq sourceRecords
      /\ \A j \in 1 .. (g.next - 1) : Record(g.file, j) \in sourceRecords
  BY DEF IntakeType, BatchInv
<1>2. n \in Nat
  BY <1>1, IntakeAssumption
<1>3. CASE g.next = n
  BY <1>3 DEF Advanced, Idle
<1>4. CASE g.next # n
  <2>1. Advanced(i) = [g EXCEPT !.pc = "check", !.next = @ + 1]
    BY <1>4 DEF Advanced
  <2> HIDE DEF g, n
  <2>a. /\ g.next \in Nat /\ g.next + 1 \in Nat /\ g.prior \in SUBSET Records
        /\ g.file \in DOMAIN Files
    BY <1>1
  <2>b. Advanced(i) = [pc |-> "check", file |-> g.file, prior |-> g.prior, next |-> g.next + 1]
    BY <1>1, <2>1
  <2>2. /\ Advanced(i).file = g.file /\ Advanced(i).prior = g.prior
        /\ Advanced(i).next = g.next + 1 /\ Advanced(i).pc = "check"
        /\ Advanced(i) \in [pc : {"idle", "check", "write"}, file : DOMAIN Files \cup {"none"},
                            prior : SUBSET Records, next : Nat]
    BY <2>a, <2>b
  <2>3. g.next + 1 \in 1 .. n
    BY <1>1, <1>2, <1>4
  <2>4. \A j \in 1 .. g.next : Record(g.file, j) \in records
    <3> SUFFICES ASSUME NEW j \in 1 .. g.next PROVE Record(g.file, j) \in records
      OBVIOUS
    <3>1. CASE j = g.next
      BY <3>1 DEF g
    <3>2. CASE j # g.next
      <4>1. j \in 1 .. (g.next - 1)
        BY <2>a, <3>2
      <4> QED
        BY <1>1, <4>1
    <3> QED
      BY <3>1, <3>2
  <2>5. (g.next + 1) - 1 = g.next
    BY <2>a
  <2> QED
    BY <1>1, <2>2, <2>3, <2>4, <2>5 DEF n
<1> QED
  BY <1>3, <1>4

LEMMA IntakeKept == IntakeInv /\ IntakeNext => IntakeInv'
<1> SUFFICES ASSUME IntakeInv, IntakeNext PROVE IntakeInv'
  OBVIOUS
<1> USE DEF IntakeInv
<1>1. ASSUME RunMoves PROVE HandoffInv' /\ NothingIsLost'
  BY <1>1 DEF RunMoves, HandoffInv, Ready, NothingIsLost, HandedOff
<1>2. ASSUME NEW i \in Ingesters, ingester[i].pc # "idle", NEW g,
             ingester' = [ingester EXCEPT ![i] = g], sourceRecords \subseteq sourceRecords',
             sourceRecords' \in SUBSET Records,
             handoffs' \in Seq([lead : Leads, at : {Files[file].at : file \in DOMAIN Files}]),
             g \in [pc : {"idle", "check", "write"}, file : DOMAIN Files \cup {"none"},
                    prior : SUBSET Records, next : Nat],
             g.pc # "idle" =>
               /\ g.file \in DOMAIN Files /\ g.next \in 1 .. Len(Files[g.file].rows)
               /\ g.prior \subseteq sourceRecords'
               /\ \A j \in 1 .. (g.next - 1) : Record(g.file, j) \in sourceRecords'
      PROVE  IntakeType' /\ BatchInv'
  <2>1. IntakeType'
    BY <1>2 DEF IntakeType
  <2>2. ASSUME NEW x \in Ingesters, ingester'[x].pc # "idle", x # i
        PROVE  /\ ingester'[x].file \in DOMAIN Files
               /\ ingester'[x].next \in 1 .. Len(Files[ingester'[x].file].rows)
               /\ ingester'[x].prior \subseteq sourceRecords'
               /\ \A j \in 1 .. (ingester'[x].next - 1) :
                    Record(ingester'[x].file, j) \in sourceRecords'
    <3>1. ingester'[x] = ingester[x]
      BY <1>2, <2>2 DEF IntakeType
    <3> QED
      BY <1>2, <2>2, <3>1 DEF BatchInv
  <2>3. ingester'[i] = g
    BY <1>2 DEF IntakeType
  <2> QED
    BY <1>2, <2>1, <2>2, <2>3 DEF BatchInv
<1>3. ASSUME NEW i \in Ingesters, NEW file \in DOMAIN Files, StartIngest(i, file)
      PROVE  IntakeInv'
  <2> DEFINE g == [pc |-> "check", file |-> file, prior |-> sourceRecords, next |-> 1]
  <2>1. RunMoves /\ ingester' = [ingester EXCEPT ![i] = g]
    BY <1>3 DEF StartIngest, RunMoves, LoadedRecords
  <2>2. Len(Files[file].rows) \in Nat \ {0}
    BY IntakeAssumption
  <2>3. IntakeType'
    BY <2>1 DEF RunMoves, IntakeType
  <2>4. ASSUME NEW x \in Ingesters, ingester'[x].pc # "idle"
        PROVE  /\ ingester'[x].file \in DOMAIN Files
               /\ ingester'[x].next \in 1 .. Len(Files[ingester'[x].file].rows)
               /\ ingester'[x].prior \subseteq sourceRecords'
               /\ \A j \in 1 .. (ingester'[x].next - 1) :
                    Record(ingester'[x].file, j) \in sourceRecords'
    <3>1. CASE x = i
      BY <2>1, <2>2, <3>1 DEF RunMoves, IntakeType
    <3>2. CASE x # i
      BY <2>1, <2>4, <3>2 DEF RunMoves, IntakeType, BatchInv
    <3> QED
      BY <3>1, <3>2
  <2> QED
    BY <1>1, <2>1, <2>3, <2>4 DEF BatchInv
<1>4. ASSUME NEW i \in Ingesters, CheckRow(i) PROVE IntakeInv'
  <2> DEFINE g == ingester[i]
             record == Record(g.file, g.next)
  <2>1. /\ RunMoves /\ g.pc = "check"
        /\ \/ /\ record \in sourceRecords
              /\ ingester' = [ingester EXCEPT ![i] = Advanced(i)]
           \/ ingester' = [ingester EXCEPT ![i] = [g EXCEPT !.pc = "write"]]
    BY <1>4 DEF CheckRow, RunMoves
  <2>2. CASE record \in sourceRecords /\ ingester' = [ingester EXCEPT ![i] = Advanced(i)]
    BY <1>1, <1>2, <2>1, <2>2, AdvancedInv DEF RunMoves, IntakeType
  <2>3. CASE ingester' = [ingester EXCEPT ![i] = [g EXCEPT !.pc = "write"]]
    <3>1. g \in [pc : {"idle", "check", "write"}, file : DOMAIN Files \cup {"none"},
                 prior : SUBSET Records, next : Nat]
      BY DEF IntakeType
    <3>2. /\ [g EXCEPT !.pc = "write"] \in
               [pc : {"idle", "check", "write"}, file : DOMAIN Files \cup {"none"},
                prior : SUBSET Records, next : Nat]
          /\ [g EXCEPT !.pc = "write"].file = g.file /\ [g EXCEPT !.pc = "write"].prior = g.prior
          /\ [g EXCEPT !.pc = "write"].next = g.next
      BY <3>1
    <3>3. /\ g.file \in DOMAIN Files /\ g.next \in 1 .. Len(Files[g.file].rows)
          /\ g.prior \subseteq sourceRecords
          /\ \A j \in 1 .. (g.next - 1) : Record(g.file, j) \in sourceRecords
      BY <2>1 DEF BatchInv
    <3> DEFINE h == [g EXCEPT !.pc = "write"]
    <3> HIDE DEF h
    <3>4. /\ h \in [pc : {"idle", "check", "write"}, file : DOMAIN Files \cup {"none"},
                    prior : SUBSET Records, next : Nat]
          /\ h.file = g.file /\ h.prior = g.prior /\ h.next = g.next
          /\ ingester' = [ingester EXCEPT ![i] = h]
      BY <2>3, <3>2 DEF h
    <3> QED
      BY <1>1, <1>2, <2>1, <3>3, <3>4 DEF RunMoves, IntakeType
  <2> QED
    BY <2>1, <2>2, <2>3
<1>5. ASSUME NEW i \in Ingesters, WriteRow(i) PROVE IntakeInv'
  <2> PICK file : file = ingester[i].file
    OBVIOUS
  <2> PICK n : n = ingester[i].next
    OBVIOUS
  <2> PICK prior : prior = ingester[i].prior
    OBVIOUS
  <2> PICK record : record = Record(file, n)
    OBVIOUS
  <2> PICK state : state = ResultState(file, n, prior)
    OBVIOUS
  <2>1. /\ file \in DOMAIN Files /\ n \in 1 .. Len(Files[file].rows)
        /\ prior \subseteq sourceRecords
        /\ \A j \in 1 .. (n - 1) : Record(file, j) \in sourceRecords
        /\ ingester[i].pc # "idle"
    BY <1>5 DEF WriteRow, BatchInv
  <2>2. /\ record \in Records /\ sourceRecords' = sourceRecords \cup {record}
        /\ handoffs' \in Seq([lead : Leads, at : {Files[f].at : f \in DOMAIN Files}])
        /\ \A lead : HandedOff(lead) => HandedOff(lead)'
        /\ \A k \in DOMAIN handoffs' :
             \/ k \in DOMAIN handoffs /\ handoffs'[k] = handoffs[k]
             \/ Quality(record) \in AcceptedStates
                /\ handoffs'[k].lead = CanonicalLead(record)
        /\ state \in AcceptedStates =>
             HandedOff(CanonicalLead(record))' /\ quarantine' = quarantine \ {record}
        /\ state = "QUARANTINED" => quarantine' = quarantine \cup {record}
        /\ state = "DUPLICATE" => quarantine' = quarantine
    BY <1>5, WriteGrows
  <2>3. ingester' = [ingester EXCEPT ![i] = Advanced(i)]
    BY <1>5 DEF WriteRow
  <2>4. IntakeType' /\ BatchInv'
    <3>1. sourceRecords' \in SUBSET Records /\ sourceRecords \subseteq sourceRecords'
      BY <2>2 DEF IntakeType
    <3>2. /\ Advanced(i) \in [pc : {"idle", "check", "write"}, file : DOMAIN Files \cup {"none"},
                              prior : SUBSET Records, next : Nat]
          /\ Advanced(i).pc # "idle" =>
               /\ Advanced(i).file \in DOMAIN Files
               /\ Advanced(i).next \in 1 .. Len(Files[Advanced(i).file].rows)
               /\ Advanced(i).prior \subseteq sourceRecords'
               /\ \A j \in 1 .. (Advanced(i).next - 1) :
                    Record(Advanced(i).file, j) \in sourceRecords'
      BY <2>1, <2>2, <3>1, AdvancedInv
    <3> QED
      BY <1>2, <2>1, <2>2, <2>3, <3>1, <3>2
  <2>5. HandoffInv'
    BY <2>2 DEF HandoffInv, Ready
  <2>6. \A x : (HandedOff(CanonicalLead(x)) => HandedOff(CanonicalLead(x))')
    BY <2>2
  <2>7. CASE Duplicate(record, prior \cup {Record(file, j) : j \in 1 .. (n - 1)})
    <3>1. state = "DUPLICATE" /\ state \notin AcceptedStates
      BY <2>7 DEF ResultState, JudgedState, AcceptedStates
    <3>2. \E x \in sourceRecords : x.payload = record.payload
      BY <2>1, <2>7 DEF Duplicate
    <3>3. \A r \in sourceRecords' : \E x \in sourceRecords :
            x.payload = r.payload /\ Settled(x)
      BY <2>2, <3>2 DEF NothingIsLost, Settled
    <3>4. ASSUME NEW x \in sourceRecords, Settled(x) PROVE Settled(x)'
      BY <2>2, <2>6, <3>1, <3>4 DEF Settled
    <3>5. \A r \in sourceRecords' : \E x \in sourceRecords' :
            /\ x.payload = r.payload
            /\ IF Quality(x) \in AcceptedStates THEN HandedOff(CanonicalLead(x))'
               ELSE x \in quarantine'
      BY <2>2, <3>3, <3>4 DEF Settled
    <3> QED
      BY <2>4, <2>5, <3>5 DEF NothingIsLost
  <2>8. CASE ~Duplicate(record, prior \cup {Record(file, j) : j \in 1 .. (n - 1)})
    <3>1. state = Quality(record) /\ Quality(record) \in AcceptedStates \cup {"QUARANTINED"}
      BY <2>8 DEF ResultState, JudgedState, Quality, AcceptedStates
    <3>2. Settled(record)'
      BY <2>2, <3>1 DEF Settled
    <3>3. ASSUME NEW x \in sourceRecords, x # record, Settled(x) PROVE Settled(x)'
      <4>1. quarantine \ {record} \subseteq quarantine'
        BY <2>2, <3>1
      <4> QED
        BY <2>6, <3>3, <4>1 DEF Settled
    <3>4. \A r \in sourceRecords' : \E x \in sourceRecords' :
            x.payload = r.payload /\ Settled(x)'
      <4> SUFFICES ASSUME NEW r \in sourceRecords'
                   PROVE  \E x \in sourceRecords' : x.payload = r.payload /\ Settled(x)'
        OBVIOUS
      <4>1. CASE r = record
        BY <2>2, <3>2, <4>1
      <4>2. CASE r \in sourceRecords
        <5>1. PICK x \in sourceRecords : x.payload = r.payload /\ Settled(x)
          BY <4>2 DEF NothingIsLost, Settled
        <5> QED
          BY <2>2, <3>2, <3>3, <5>1
      <4> QED
        BY <2>2, <4>1, <4>2
    <3>5. \A r \in sourceRecords' : \E x \in sourceRecords' :
            /\ x.payload = r.payload
            /\ IF Quality(x) \in AcceptedStates THEN HandedOff(CanonicalLead(x))'
               ELSE x \in quarantine'
      BY <3>4 DEF Settled
    <3> QED
      BY <2>4, <2>5, <3>5 DEF NothingIsLost
  <2> QED
    BY <2>7, <2>8
<1>6. ASSUME NEW i \in Ingesters, StopIngest(i) PROVE IntakeInv'
  <2>1. RunMoves /\ ingester' = [ingester EXCEPT ![i] = Idle] /\ ingester[i].pc # "idle"
    BY <1>6 DEF StopIngest, RunMoves
  <2>2. /\ Idle \in [pc : {"idle", "check", "write"}, file : DOMAIN Files \cup {"none"},
                     prior : SUBSET Records, next : Nat]
        /\ Idle.pc = "idle"
    BY DEF Idle
  <2> QED
    BY <1>1, <1>2, <2>1, <2>2 DEF RunMoves, IntakeType
<1> QED
  BY <1>3, <1>4, <1>5, <1>6 DEF IntakeNext

------------------------------------------------------------------------------
(* Phase 2.                                                                *)

Shape(t) == t = [pc |-> t.pc, key |-> t.key, listed |-> t.listed, next |-> t.next,
                 urls |-> t.urls, candidates |-> t.candidates,
                 unavailable |-> t.unavailable]

RunShape(r) == r = [status |-> r.status, inputs |-> r.inputs, decisions |-> r.decisions,
                    candidates |-> r.candidates, escalations |-> r.escalations,
                    unavailable |-> r.unavailable]

Decided(k, lead) == \E r \in decisionRows : r.run = k /\ r.decision.lead = lead.id

Handling == {"search", "fetch", "persist"}

(* A task has listed accepted leads only, works on a run that was created, *)
(* and the leads before the one it is at are decided: all of them when it  *)
(* is about to complete the run.                                           *)
TaskOK(t) ==
  /\ Shape(t) /\ t.pc \in {"idle", "create", "complete", "fail"} \cup Handling
  /\ t.pc # "idle" =>
       /\ t.key \in RequestKeys /\ t.listed \in Seq(Leads)
       /\ \A j \in DOMAIN t.listed : Ready(t.listed[j])
  /\ t.pc \notin {"idle", "create"} => runs[t.key].status # "NONE"
  /\ t.pc \in Handling =>
       /\ t.next \in 1 .. Len(t.listed)
       /\ \A j \in 1 .. (t.next - 1) : Decided(t.key, t.listed[j])
  /\ t.pc = "complete" => \A j \in DOMAIN t.listed : Decided(t.key, t.listed[j])

TaskInv ==
  /\ executor = [e \in Executors |-> executor[e]]
  /\ \A e \in Executors : TaskOK(executor[e])

(* A run that does not exist has no decisions.                             *)
RunInv ==
  /\ runs = [k \in RequestKeys |-> runs[k]] /\ asked = [k \in RequestKeys |-> asked[k]]
  /\ \A k \in RequestKeys :
       RunShape(runs[k]) /\ (runs[k].status = "NONE" => \A r \in decisionRows : r.run # k)

(* The id of a decision tells its lead.                                    *)
DecisionInv ==
  /\ \A r \in decisionRows : r.decision.id[1] = r.decision.lead
  /\ \A k \in RequestKeys :
       IsFiniteSet(DecisionsOf(k)) /\ IsFiniteSet({d.lead : d \in DecisionsOf(k)})

StoreInv == /\ RunInv /\ DecisionInv /\ CountersMatch /\ CompletedIsComplete
            /\ DecisionsAreAccepted

PipelineInv == IntakeInv /\ TaskInv /\ StoreInv

LEMMA TaskFields ==
  ASSUME NEW t, Shape(t), NEW n
  PROVE  LET u == NextLead(t, n) IN
         /\ Shape(u) /\ u.key = t.key /\ u.listed = t.listed /\ u.next = n
         /\ u.pc = (IF n > Len(t.listed) THEN "complete" ELSE "search") /\ u.candidates = <<>>
<1> DEFINE pc == IF n > Len(t.listed) THEN "complete" ELSE "search"
<1>1. NextLead(t, n) = [pc |-> pc, key |-> t.key, listed |-> t.listed, next |-> n,
                        urls |-> <<>>, candidates |-> <<>>, unavailable |-> t.unavailable]
  <2> HIDE DEF pc
  <2>1. NextLead(t, n) = [t EXCEPT !.next = n, !.urls = <<>>, !.candidates = <<>>, !.pc = pc]
    BY DEF NextLead, pc
  <2>2. PICK a, k, l, m, f, c, v :
          t = [pc |-> a, key |-> k, listed |-> l, next |-> m, urls |-> f,
               candidates |-> c, unavailable |-> v]
    BY DEF Shape
  <2>3. t.key = k /\ t.listed = l /\ t.unavailable = v
    BY <2>2
  <2>4. NextLead(t, n) = [pc |-> pc, key |-> k, listed |-> l, next |-> n,
                          urls |-> <<>>, candidates |-> <<>>, unavailable |-> v]
    BY <2>1, <2>2
  <2> QED
    BY <2>3, <2>4
<1> QED
  BY <1>1 DEF Shape

LEMMA NoTaskOK == TaskOK(NoTask)
BY DEF TaskOK, NoTask, Shape, Handling

(* A task that does not move stays right while the tables only grow.       *)
LEMMA TaskKept ==
  ASSUME NEW t, TaskOK(t), sourceRecords \subseteq sourceRecords',
         decisionRows \subseteq decisionRows',
         \A k \in RequestKeys : runs[k].status # "NONE" => runs'[k].status # "NONE"
  PROVE  TaskOK(t)'
<1>1. \A lead : Ready(lead) => Ready(lead)'
  BY DEF Ready
<1>2. \A k, lead : Decided(k, lead) => Decided(k, lead)'
  BY DEF Decided
<1>3. t.pc # "idle" => \A j \in DOMAIN t.listed : Ready(t.listed[j])'
  BY <1>1 DEF TaskOK
<1>4. /\ t.pc \in Handling => \A j \in 1 .. (t.next - 1) : Decided(t.key, t.listed[j])'
      /\ t.pc = "complete" => \A j \in DOMAIN t.listed : Decided(t.key, t.listed[j])'
  BY <1>2 DEF TaskOK
<1>5. t.pc \notin {"idle", "create"} => runs'[t.key].status # "NONE"
  BY DEF TaskOK
<1>6. /\ Shape(t) /\ t.pc \in {"idle", "create", "complete", "fail"} \cup Handling
      /\ t.pc # "idle" => t.key \in RequestKeys /\ t.listed \in Seq(Leads)
      /\ t.pc \in Handling => t.next \in 1 .. Len(t.listed)
  BY DEF TaskOK
<1> QED
  BY <1>3, <1>4, <1>5, <1>6 DEF TaskOK

LEMMA TasksKept ==
  ASSUME TaskInv, NEW e \in Executors, NEW new,
         executor' = [executor EXCEPT ![e] = new], TaskOK(new)',
         sourceRecords \subseteq sourceRecords', decisionRows \subseteq decisionRows',
         \A k \in RequestKeys : runs[k].status # "NONE" => runs'[k].status # "NONE"
  PROVE  TaskInv'
<1>1. executor' = [x \in Executors |-> executor'[x]]
  BY DEF TaskInv
<1>2. ASSUME NEW x \in Executors PROVE TaskOK(executor[x])' 
  <2> PICK t : t = executor[x]
    OBVIOUS
  <2> PICK u : u = executor'[x]
    OBVIOUS
  <2>1. TaskOK(t)
    BY DEF TaskInv
  <2>2. TaskOK(t)'
    BY <2>1, TaskKept
  <2>3. u = new \/ u = t
    BY DEF TaskInv
  <2>4. TaskOK(u)'
    BY <2>2, <2>3
  <2> QED
    BY <2>4 DEF TaskOK
<1> QED
  BY <1>1, <1>2 DEF TaskInv

LEMMA StoreKept ==
  ASSUME StoreInv, UNCHANGED <<runs, decisionRows, asked>>,
         sourceRecords \subseteq sourceRecords'
  PROVE  StoreInv'
<1>1. RunInv'
  BY DEF StoreInv, RunInv
<1>2. DecisionInv' /\ CountersMatch' /\ CompletedIsComplete'
  BY DEF StoreInv, DecisionInv, CountersMatch, CompletedIsComplete, DecisionsOf
<1>3. DecisionsAreAccepted'
  BY DEF StoreInv, DecisionsAreAccepted
<1> QED
  BY <1>1, <1>2, <1>3 DEF StoreInv

(* What an executor lists was accepted by Phase 1.                         *)
LEMMA ListedReady ==
  ASSUME IntakeInv, NEW order \in Listings(Limit)
  PROVE  /\ ListedLeads(order) \in Seq(Leads)
         /\ \A j \in DOMAIN ListedLeads(order) : Ready(ListedLeads(order)[j])
<1> DEFINE n == IF Len(handoffs) < Limit THEN Len(handoffs) ELSE Limit
<1>1. handoffs \in Seq([lead : Leads, at : {Files[file].at : file \in DOMAIN Files}])
  BY DEF IntakeInv, IntakeType
<1>2. n \in Nat /\ order \in [1 .. n -> DOMAIN handoffs]
  BY <1>1, BudgetAssumption DEF Listings
<1> HIDE DEF n
<1>3. ASSUME NEW j \in 1 .. n
      PROVE  handoffs[order[j]].lead \in Leads /\ Ready(handoffs[order[j]].lead)
  <2> PICK k : k = order[j]
    OBVIOUS
  <2>1. k \in DOMAIN handoffs
    BY <1>2
  <2>2. handoffs[k] \in [lead : Leads, at : {Files[file].at : file \in DOMAIN Files}]
    <3> DEFINE Row == [lead : Leads, at : {Files[file].at : file \in DOMAIN Files}]
    <3>1. handoffs \in Seq(Row)
      BY <1>1
    <3> HIDE DEF Row
    <3>2. k \in 1 .. Len(handoffs)
      BY <2>1, <3>1
    <3>3. handoffs[k] \in Row
      BY <3>1, <3>2, ElementOfSeq
    <3> QED
      BY <3>3 DEF Row
  <2>3. handoffs[k].lead \in Leads
    BY <2>2
  <2>4. Ready(handoffs[k].lead)
    BY <2>1 DEF IntakeInv, HandoffInv
  <2> QED
    BY <2>3, <2>4
<1>4. ListedLeads(order) \in [1 .. n -> Leads]
  BY <1>2, <1>3 DEF ListedLeads
<1>5. ListedLeads(order) \in Seq(Leads)
  BY <1>2, <1>4, SeqDef
<1> QED
  BY <1>2, <1>3, <1>5 DEF ListedLeads

(* A step that handles a lead, or gives it up, and decides nothing.        *)
SameLead(t, u) ==
  /\ Shape(u) /\ u.pc \in {"fetch", "persist", "fail"}
  /\ u.key = t.key /\ u.listed = t.listed /\ u.next = t.next

LEMMA Moved ==
  ASSUME NEW t, Shape(t), NEW p \in {"fetch", "persist", "fail"}
  PROVE  /\ SameLead(t, [t EXCEPT !.pc = p])
         /\ \A a : SameLead(t, [t EXCEPT !.urls = a, !.pc = p])
         /\ \A c : SameLead(t, [t EXCEPT !.pc = p, !.candidates = c])
         /\ \A v : SameLead(t, [t EXCEPT !.pc = p, !.candidates = <<>>, !.unavailable = v])
<1>1. PICK q, k, l, n, f, d, w :
        t = [pc |-> q, key |-> k, listed |-> l, next |-> n, urls |-> f,
             candidates |-> d, unavailable |-> w]
  BY DEF Shape
<1>2. t.key = k /\ t.listed = l /\ t.next = n
  BY <1>1
<1>3. ASSUME NEW u, NEW a, NEW c, NEW v,
             u = [pc |-> p, key |-> k, listed |-> l, next |-> n, urls |-> a,
                  candidates |-> c, unavailable |-> v]
      PROVE  SameLead(t, u)
  <2>1. u.pc = p /\ u.key = k /\ u.listed = l /\ u.next = n /\ Shape(u)
    BY <1>3 DEF Shape
  <2> QED
    BY <1>2, <2>1 DEF SameLead
<1>4. SameLead(t, [t EXCEPT !.pc = p])
  <2>1. [t EXCEPT !.pc = p] = [pc |-> p, key |-> k, listed |-> l, next |-> n, urls |-> f,
                               candidates |-> d, unavailable |-> w]
    BY <1>1
  <2> QED
    BY <1>3, <2>1
<1>5. ASSUME NEW a PROVE SameLead(t, [t EXCEPT !.urls = a, !.pc = p])
  <2> PICK u : u = [t EXCEPT !.urls = a, !.pc = p]
    OBVIOUS
  <2>1. u = [pc |-> p, key |-> k, listed |-> l, next |-> n, urls |-> a,
               candidates |-> d, unavailable |-> w]
    BY <1>1
  <2> QED
    BY <1>3, <2>1
<1>6. ASSUME NEW c PROVE SameLead(t, [t EXCEPT !.pc = p, !.candidates = c])
  <2> PICK u : u = [t EXCEPT !.pc = p, !.candidates = c]
    OBVIOUS
  <2>1. u = [pc |-> p, key |-> k, listed |-> l, next |-> n, urls |-> f,
               candidates |-> c, unavailable |-> w]
    BY <1>1
  <2> QED
    BY <1>3, <2>1
<1>7. ASSUME NEW v
      PROVE  SameLead(t, [t EXCEPT !.pc = p, !.candidates = <<>>, !.unavailable = v])
  <2> PICK u : u = [t EXCEPT !.pc = p, !.candidates = <<>>, !.unavailable = v]
    OBVIOUS
  <2>1. u = [pc |-> p, key |-> k, listed |-> l, next |-> n, urls |-> f,
               candidates |-> <<>>, unavailable |-> v]
    BY <1>1
  <2> QED
    BY <1>3, <2>1
<1> QED
  BY <1>4, <1>5, <1>6, <1>7

HandlingStep(e) ==
  /\ UNCHANGED <<runs, decisionRows, asked, handoffs>>
  /\ executor[e].pc \in Handling
  /\ \E u : SameLead(executor[e], u) /\ executor' = [executor EXCEPT ![e] = u]

LEMMA HandlingKept ==
  ASSUME TaskInv, StoreInv, NEW e \in Executors, HandlingStep(e), UNCHANGED sourceRecords
  PROVE  TaskInv' /\ StoreInv'
<1> PICK t : t = executor[e]
  OBVIOUS
<1>1. TaskOK(t) /\ t.pc \in Handling
  BY DEF TaskInv, HandlingStep
<1>2. PICK u : SameLead(t, u) /\ executor' = [executor EXCEPT ![e] = u]
  BY DEF HandlingStep
<1>3. TaskOK(u)
  BY <1>1, <1>2 DEF TaskOK, Handling, SameLead
<1>4. UNCHANGED <<runs, decisionRows, asked>>
  BY DEF HandlingStep
<1>5. TaskOK(u)'
  BY <1>3, <1>4, TaskKept
<1>6. TaskInv'
  BY <1>2, <1>4, <1>5, TasksKept
<1> QED
  BY <1>4, <1>6, StoreKept

LEMMA HandlingSteps ==
  ASSUME TaskInv, NEW e \in Executors,
         \/ Search(e) \/ Fetch(e) \/ Unavailable(e) \/ Raise(e)
         \/ Persist(e) /\ UNCHANGED <<runs, decisionRows>>
                       /\ executor' = [executor EXCEPT ![e].pc = "fail"]
  PROVE  HandlingStep(e)
<1> PICK t : t = executor[e]
  OBVIOUS
<1>1. Shape(t)
  BY DEF TaskInv, TaskOK
<1>2. executor = [x \in Executors |-> executor[x]]
  BY DEF TaskInv
<1>3. \A u : executor' = [executor EXCEPT ![e] = u] /\ SameLead(t, u)
        => \E w : SameLead(executor[e], w) /\ executor' = [executor EXCEPT ![e] = w]
  OBVIOUS
<1>4. CASE Search(e)
  <2>1. PICK urls : executor' = [executor EXCEPT ![e].urls = urls,
                                   ![e].pc = IF urls = <<>> THEN "persist" ELSE "fetch"]
    BY <1>4, Zenon DEF Search
  <2> PICK p : p = IF urls = <<>> THEN "persist" ELSE "fetch"
    OBVIOUS
  <2> PICK u : u = [t EXCEPT !.urls = urls, !.pc = p]
    OBVIOUS
  <2>2. executor' = [executor EXCEPT ![e] = u]
    BY <1>2, <2>1
  <2>3. SameLead(t, u)
    BY <1>1, Moved
  <2>4. executor[e].pc \in Handling /\ UNCHANGED <<runs, decisionRows, asked, handoffs>>
    BY <1>4 DEF Search, Handling
  <2> QED
    BY <1>3, <2>2, <2>3, <2>4 DEF HandlingStep
<1>5. CASE Fetch(e)
  <2>1. \/ executor' = [executor EXCEPT ![e] = [@ EXCEPT !.pc = "fail"]]
        \/ \E c : executor' = [executor EXCEPT ![e] =
                                  [@ EXCEPT !.pc = "persist", !.candidates = c]]
    BY <1>5, Zenon DEF Fetch
  <2>2. \E u : executor' = [executor EXCEPT ![e] = u] /\ SameLead(t, u)
    <3>1. CASE executor' = [executor EXCEPT ![e] = [@ EXCEPT !.pc = "fail"]]
      <4> PICK u : u = [t EXCEPT !.pc = "fail"]
        OBVIOUS
      <4>1. SameLead(t, u)
        BY <1>1, Moved
      <4> QED
        BY <3>1, <4>1
    <3>2. CASE \E c : executor' = [executor EXCEPT ![e] =
                                     [@ EXCEPT !.pc = "persist", !.candidates = c]]
      <4> PICK c : executor' = [executor EXCEPT ![e] =
                                   [@ EXCEPT !.pc = "persist", !.candidates = c]]
        BY <3>2
      <4> PICK u : u = [t EXCEPT !.pc = "persist", !.candidates = c]
        OBVIOUS
      <4>1. SameLead(t, u)
        BY <1>1, Moved
      <4> QED
        BY <4>1
    <3> QED
      BY <2>1, <3>1, <3>2
  <2>3. executor[e].pc \in Handling /\ UNCHANGED <<runs, decisionRows, asked, handoffs>>
    BY <1>5 DEF Fetch, Handling
  <2> QED
    BY <1>3, <2>2, <2>3 DEF HandlingStep
<1>6. CASE Unavailable(e)
  <2> PICK u : u = [t EXCEPT !.pc = "persist", !.candidates = <<>>,
                             !.unavailable = t.unavailable + 1]
    OBVIOUS
  <2>1. executor' = [executor EXCEPT ![e] = u]
    BY <1>2, <1>6 DEF Unavailable
  <2>2. SameLead(t, u)
    BY <1>1, Moved
  <2>3. executor[e].pc \in Handling /\ UNCHANGED <<runs, decisionRows, asked, handoffs>>
    BY <1>6 DEF Unavailable, Handling, dbVars
  <2> QED
    BY <1>3, <2>1, <2>2, <2>3 DEF HandlingStep
<1>7. CASE \/ Raise(e)
           \/ Persist(e) /\ UNCHANGED <<runs, decisionRows>>
                         /\ executor' = [executor EXCEPT ![e].pc = "fail"]
  <2> PICK u : u = [t EXCEPT !.pc = "fail"]
    OBVIOUS
  <2>1. executor' = [executor EXCEPT ![e] = u]
    BY <1>2, <1>7 DEF Raise
  <2>2. SameLead(t, u)
    BY <1>1, Moved
  <2>3. executor[e].pc \in Handling /\ UNCHANGED <<runs, decisionRows, asked, handoffs>>
    BY <1>7 DEF Raise, Persist, Handling, dbVars
  <2> QED
    BY <1>3, <2>1, <2>2, <2>3 DEF HandlingStep
<1> QED
  BY <1>4, <1>5, <1>6, <1>7

LEMMA ListHandoffsKept ==
  ASSUME IntakeInv, TaskInv, StoreInv, NEW e \in Executors, NEW k \in RequestKeys,
         ListHandoffs(e, k), UNCHANGED sourceRecords
  PROVE  TaskInv' /\ StoreInv'
<1>1. PICK order \in Listings(Limit) : executor' = [executor EXCEPT ![e] =
            [NoTask EXCEPT !.pc = "create", !.key = k, !.listed = ListedLeads(order)]]
  BY DEF ListHandoffs
<1> PICK listed : listed = ListedLeads(order)
  OBVIOUS
<1> PICK u : u = [NoTask EXCEPT !.pc = "create", !.key = k, !.listed = listed]
  OBVIOUS
<1>2. u = [pc |-> "create", key |-> k, listed |-> listed, next |-> 0, urls |-> <<>>,
           candidates |-> <<>>, unavailable |-> 0]
  BY DEF NoTask
<1>3. listed \in Seq(Leads) /\ \A j \in DOMAIN listed : Ready(listed[j])
  BY ListedReady
<1>4. TaskOK(u)
  BY <1>2, <1>3 DEF TaskOK, Shape, Handling
<1>5. UNCHANGED <<runs, decisionRows, asked>>
  BY DEF ListHandoffs, dbVars
<1>6. TaskOK(u)'
  BY <1>4, <1>5, TaskKept
<1>7. TaskInv'
  BY <1>1, <1>5, <1>6, TasksKept
<1> QED
  BY <1>5, <1>7, StoreKept

LEMMA CreateRunKept ==
  ASSUME TaskInv, StoreInv, NEW e \in Executors, CreateRun(e), UNCHANGED sourceRecords
  PROVE  TaskInv' /\ StoreInv'
<1> PICK t : t = executor[e]
  OBVIOUS
<1> PICK k : k = t.key
  OBVIOUS
<1> PICK u : u = executor'[e]
  OBVIOUS
<1>1. TaskOK(t) /\ t.pc = "create" /\ k \in RequestKeys
  BY DEF TaskInv, CreateRun, TaskOK
<1>2. /\ UNCHANGED <<decisionRows, asked>>
      /\ runs' = IF runs[k].status = "NONE" THEN [runs EXCEPT ![k] = NewRun("RUNNING")]
                 ELSE runs
      /\ executor' = [executor EXCEPT ![e] = u]
      /\ u = NoTask \/ (u = NextLead(t, 1) /\ runs'[k].status # "NONE")
  BY <1>1 DEF CreateRun, TaskInv, StoreInv, RunInv, NewRun
<1>3. TaskOK(u)'
  <2>1. CASE u = NoTask
    BY <2>1 DEF TaskOK, NoTask, Shape, Handling
  <2>2. CASE u = NextLead(t, 1) /\ runs'[k].status # "NONE"
    <3>1. /\ Shape(u) /\ u.key = k /\ u.listed = t.listed /\ u.next = 1
          /\ u.pc = IF 1 > Len(t.listed) THEN "complete" ELSE "search"
      BY <1>1, <2>2, TaskFields DEF TaskOK
    <3>2. t.listed \in Seq(Leads) /\ Len(t.listed) \in Nat
          /\ DOMAIN t.listed = 1 .. Len(t.listed)
      BY <1>1 DEF TaskOK
    <3>3. \A j \in DOMAIN t.listed : Ready(t.listed[j])'
      BY <1>1 DEF TaskOK, Ready
    <3>4. u.pc \in Handling => /\ u.next \in 1 .. Len(u.listed)
                               /\ 1 .. (u.next - 1) = {}
      BY <3>1, <3>2 DEF Handling
    <3>5. u.pc = "complete" => DOMAIN u.listed = {}
      BY <3>1, <3>2
    <3> QED
      BY <1>1, <2>2, <3>1, <3>2, <3>3, <3>4, <3>5 DEF TaskOK, Handling
  <2> QED
    BY <1>2, <2>1, <2>2
<1>4. TaskInv'
  <2>1. \A x \in RequestKeys : runs[x].status # "NONE" => runs'[x].status # "NONE"
    BY <1>2
  <2> QED
    BY <1>2, <1>3, <2>1, TasksKept
<1>5. StoreInv'
  <2>1. CASE runs' = runs
    BY <1>2, <2>1, StoreKept
  <2>2. CASE runs[k].status = "NONE" /\ runs' = [runs EXCEPT ![k] = NewRun("RUNNING")]
    <3>1. /\ runs' = [x \in RequestKeys |-> runs'[x]] /\ runs'[k] = NewRun("RUNNING")
          /\ \A x \in RequestKeys : x # k => runs'[x] = runs[x]
      BY <1>1, <2>2 DEF StoreInv, RunInv
    <3>2. \A x : DecisionsOf(x)' = DecisionsOf(x)
      BY <1>2 DEF DecisionsOf
    <3>3. DecisionsOf(k) = {} /\ Cardinality({}) = 0
      BY <1>1, <2>2, FS_EmptySet DEF StoreInv, RunInv, DecisionsOf
    <3>4. RunInv'
      BY <1>1, <1>2, <2>2, <3>1 DEF StoreInv, RunInv, RunShape, NewRun
    <3>5. DecisionInv' /\ DecisionsAreAccepted'
      BY <1>2, <3>2 DEF StoreInv, DecisionInv, DecisionsAreAccepted
    <3>6. CountersMatch'
      <4> SUFFICES ASSUME NEW x \in RequestKeys
                   PROVE  /\ runs'[x].decisions = Cardinality(DecisionsOf(x))
                          /\ runs'[x].inputs = Cardinality({d.lead : d \in DecisionsOf(x)})
                          /\ runs'[x].escalations
                               = Cardinality({d \in DecisionsOf(x) : d.research})
        BY <3>2 DEF CountersMatch
      <4>1. CASE x = k
        <5>1. {d.lead : d \in DecisionsOf(k)} = {} /\ {d \in DecisionsOf(k) : d.research} = {}
          BY <3>3
        <5> QED
          BY <3>1, <3>3, <4>1, <5>1 DEF NewRun
      <4>2. CASE x # k
        BY <3>1, <4>2 DEF StoreInv, CountersMatch
      <4> QED
        BY <4>1, <4>2
    <3>7. CompletedIsComplete'
      BY <1>2, <3>1, <3>2 DEF StoreInv, CompletedIsComplete, NewRun
    <3> QED
      BY <3>4, <3>5, <3>6, <3>7 DEF StoreInv
  <2> QED
    BY <1>2, <2>1, <2>2
<1> QED
  BY <1>4, <1>5

Ended(r, status, w) == [r EXCEPT !.status = status, !.unavailable = w]

LEMMA StatusFields ==
  ASSUME NEW r, RunShape(r), NEW status, NEW w, NEW q, q = Ended(r, status, w)
  PROVE  /\ RunShape(q) /\ q.status = status /\ q.decisions = r.decisions
         /\ q.inputs = r.inputs /\ q.escalations = r.escalations
<1>1. PICK s, i, d, c, g, v :
        r = [status |-> s, inputs |-> i, decisions |-> d, candidates |-> c,
             escalations |-> g, unavailable |-> v]
  BY DEF RunShape
<1>2. q = [status |-> status, inputs |-> i, decisions |-> d, candidates |-> c,
           escalations |-> g, unavailable |-> w]
  BY <1>1 DEF Ended
<1> QED
  BY <1>1, <1>2 DEF RunShape

LEMMA RunRecord ==
  ASSUME NEW q, NEW s, NEW i, NEW d, NEW c, NEW g, NEW v,
         q = [status |-> s, inputs |-> i, decisions |-> d, candidates |-> c,
              escalations |-> g, unavailable |-> v]
  PROVE  RunShape(q) /\ q.status = s /\ q.decisions = d /\ q.inputs = i /\ q.escalations = g
BY DEF RunShape

Tallied(r, n, research) == Counted(r, FALSE, n, research)

LEMMA CountedFields ==
  ASSUME NEW r, RunShape(r), NEW n, NEW research, NEW q, q = Tallied(r, n, research)
  PROVE  /\ RunShape(q) /\ q.status = r.status /\ q.decisions = r.decisions + 1
         /\ q.inputs = r.inputs + 1
         /\ q.escalations = r.escalations + IF research THEN 1 ELSE 0
<1>1. PICK s, i, d, c, g, v :
        r = [status |-> s, inputs |-> i, decisions |-> d, candidates |-> c,
             escalations |-> g, unavailable |-> v]
  BY DEF RunShape
<1>2. PICK i1, d1, c1, g1 : i1 = i + 1 /\ d1 = d + 1 /\ c1 = c + n
                            /\ g1 = g + IF research THEN 1 ELSE 0
  OBVIOUS
<1>3. q = [status |-> s, inputs |-> i1, decisions |-> d1, candidates |-> c1,
           escalations |-> g1, unavailable |-> v]
  BY <1>1, <1>2 DEF Counted, Tallied
<1>4. r.status = s /\ r.decisions = d /\ r.inputs = i /\ r.escalations = g
  BY <1>1
<1>5. RunShape(q) /\ q.status = s /\ q.decisions = d1 /\ q.inputs = i1 /\ q.escalations = g1
  BY <1>3, RunRecord
<1> QED
  BY <1>2, <1>4, <1>5

LEMMA FinishKept ==
  ASSUME TaskInv, StoreInv, NEW e \in Executors, Complete(e) \/ Fail(e),
         UNCHANGED sourceRecords
  PROVE  TaskInv' /\ StoreInv'
<1> PICK t : t = executor[e]
  OBVIOUS
<1> PICK k : k = t.key
  OBVIOUS
<1>1. PICK status \in {"COMPLETED", "FAILED"} :
        /\ status = "COMPLETED" => t.pc = "complete"
        /\ t.pc \in {"complete", "fail"}
        /\ runs' = [runs EXCEPT ![k].status = status, ![k].unavailable = t.unavailable]
        /\ asked' = [asked EXCEPT ![k] = ToSet(t.listed)]
        /\ executor' = [executor EXCEPT ![e] = NoTask]
        /\ decisionRows' = decisionRows
  <2>1. CASE Complete(e)
    BY <2>1 DEF Complete, Finish
  <2>2. CASE Fail(e)
    BY <2>2 DEF Fail, Finish
  <2> QED
    BY <2>1, <2>2
<1>2. TaskOK(t) /\ k \in RequestKeys
  BY <1>1 DEF TaskInv, TaskOK
<1>3. /\ runs' = [x \in RequestKeys |-> runs'[x]]
      /\ runs'[k] = [runs[k] EXCEPT !.status = status, !.unavailable = t.unavailable]
      /\ \A x \in RequestKeys : x # k => runs'[x] = runs[x]
  BY <1>1, <1>2 DEF StoreInv, RunInv
<1>4. /\ RunShape(runs'[k]) /\ runs'[k].status = status
      /\ runs'[k].decisions = runs[k].decisions /\ runs'[k].inputs = runs[k].inputs
      /\ runs'[k].escalations = runs[k].escalations
  <2> PICK r : r = runs[k]
    OBVIOUS
  <2> PICK q : q = Ended(r, status, t.unavailable)
    OBVIOUS
  <2>1. RunShape(r)
    BY <1>2 DEF StoreInv, RunInv
  <2>2. /\ RunShape(q) /\ q.status = status /\ q.decisions = r.decisions
        /\ q.inputs = r.inputs /\ q.escalations = r.escalations
    BY <2>1, StatusFields
  <2>3. runs'[k] = q
    BY <1>3 DEF Ended
  <2> QED
    BY <2>2, <2>3 DEF RunShape
<1>5. TaskInv'
  <2>1. TaskOK(NoTask)'
    BY DEF TaskOK, NoTask, Shape, Handling
  <2>2. \A x \in RequestKeys : runs[x].status # "NONE" => runs'[x].status # "NONE"
    BY <1>3, <1>4
  <2> QED
    BY <1>1, <2>1, <2>2, TasksKept
<1>6. \A x : DecisionsOf(x)' = DecisionsOf(x)
  BY <1>1 DEF DecisionsOf
<1>7. RunInv'
  BY <1>1, <1>3, <1>4 DEF StoreInv, RunInv, RunShape
<1>8. DecisionInv' /\ DecisionsAreAccepted' /\ CountersMatch'
  <2>1. DecisionInv'
    BY <1>1, <1>6 DEF StoreInv, DecisionInv
  <2>2. DecisionsAreAccepted'
    BY <1>1 DEF StoreInv, DecisionsAreAccepted
  <2>3. \A x \in RequestKeys : /\ runs'[x].decisions = runs[x].decisions
                               /\ runs'[x].inputs = runs[x].inputs
                               /\ runs'[x].escalations = runs[x].escalations
    BY <1>3, <1>4
  <2>4. CountersMatch'
    BY <1>6, <2>3 DEF StoreInv, CountersMatch
  <2> QED
    BY <2>1, <2>2, <2>4
<1>9. CompletedIsComplete'
  <2> SUFFICES ASSUME NEW x \in RequestKeys, runs'[x].status = "COMPLETED",
                      NEW lead \in asked'[x]
               PROVE  \E d \in DecisionsOf(x) : d.lead = lead.id
    BY <1>6 DEF CompletedIsComplete
  <2>1. CASE x = k
    <3>1. t.pc = "complete" /\ asked'[k] = ToSet(t.listed)
      BY <1>1, <1>2, <1>4, <2>1 DEF StoreInv, RunInv
    <3>2. PICK j \in DOMAIN t.listed : lead = t.listed[j]
      BY <2>1, <3>1 DEF ToSet
    <3>3. Decided(k, lead)
      BY <1>2, <3>1, <3>2 DEF TaskOK
    <3> QED
      BY <2>1, <3>3 DEF Decided, DecisionsOf
  <2>2. CASE x # k
    <3>1. asked'[x] = asked[x] /\ runs'[x] = runs[x]
      BY <1>1, <1>3, <2>2 DEF StoreInv, RunInv
    <3> QED
      BY <3>1 DEF StoreInv, CompletedIsComplete
  <2> QED
    BY <2>1, <2>2
<1> QED
  BY <1>5, <1>7, <1>8, <1>9 DEF StoreInv

(* A transaction of persist_resolution that commits: the decision is new   *)
(* and counted, or it is the one that is stored.                           *)
Commits(e, t, d, u) ==
  /\ u = NextLead(t, t.next + 1) /\ executor' = [executor EXCEPT ![e] = u]
  /\ asked' = asked
  /\ \/ /\ \E r \in decisionRows : r.run = t.key /\ r.decision.id = d.id
        /\ UNCHANGED <<runs, decisionRows>>
     \/ /\ \A r \in decisionRows :
             r.run = t.key => r.decision.id # d.id /\ r.decision.lead # d.lead
        /\ decisionRows' = decisionRows \cup {[run |-> t.key, decision |-> d]}
        /\ \E n : runs' = [runs EXCEPT ![t.key] = Tallied(runs[t.key], n, d.research)]

LEMMA PersistKinds ==
  ASSUME TaskInv, StoreInv, NEW e \in Executors, Persist(e),
         NEW t, t = executor[e], NEW d, d = Decision(e),
         ~(/\ UNCHANGED <<runs, decisionRows>>
           /\ executor' = [executor EXCEPT ![e].pc = "fail"])
  PROVE  t.pc = "persist" /\ Commits(e, t, d, NextLead(t, t.next + 1))
<1> DEFINE replay == \E r \in decisionRows : r.run = t.key /\ r.decision.id = d.id
           refused == \/ ~ValidDecision(d)
                      \/ InsertRaises(t.candidates)
                      \/ ~replay /\ \E r \in decisionRows :
                                      r.run = t.key /\ r.decision.lead = d.lead
           n == Len(t.candidates)
<1>1. t.pc = "persist" /\ asked' = asked /\ ~refused
  BY DEF Persist, dbVars
<1>2. /\ decisionRows' = IF replay THEN decisionRows
                         ELSE decisionRows \cup {[run |-> t.key, decision |-> d]}
      /\ runs' = [runs EXCEPT ![t.key] = Counted(runs[t.key], replay, n, d.research)]
      /\ executor' = [executor EXCEPT ![e] = NextLead(t, t.next + 1)]
  BY <1>1 DEF Persist
<1>3. CASE replay
  <2>1. Counted(runs[t.key], replay, n, d.research) = runs[t.key]
    BY <1>3 DEF Counted
  <2>2. runs' = runs
    BY <1>2, <2>1 DEF StoreInv, RunInv
  <2> QED
    BY <1>1, <1>2, <1>3, <2>2 DEF Commits
<1>4. CASE ~replay
  <2>1. Counted(runs[t.key], replay, n, d.research) = Tallied(runs[t.key], n, d.research)
    BY <1>4 DEF Counted, Tallied
  <2>2. \E m : runs' = [runs EXCEPT ![t.key] = Tallied(runs[t.key], m, d.research)]
    BY <1>2, <2>1
  <2>3. \A r \in decisionRows : r.run = t.key => r.decision.id # d.id /\ r.decision.lead # d.lead
    BY <1>1, <1>4
  <2>4. decisionRows' = decisionRows \cup {[run |-> t.key, decision |-> d]}
    BY <1>2, <1>4
  <2> QED
    BY <1>1, <1>2, <2>2, <2>3, <2>4 DEF Commits
<1> QED
  BY <1>3, <1>4

LEMMA DecisionLead ==
  ASSUME NEW e
  PROVE  /\ Decision(e).lead = executor[e].listed[executor[e].next].id
         /\ Decision(e).id[1] = Decision(e).lead
<1> DEFINE lead == CurrentLead(e)
           candidates == executor[e].candidates
<1>1. lead.id = executor[e].listed[executor[e].next].id
  BY DEF CurrentLead, LeadOf
<1>2. Decision(e) = ResolveEntity(lead, candidates, {}, CandidateBudget)
  BY DEF Decision
<1> HIDE DEF lead, candidates
<1>3. /\ ResolveEntity(lead, candidates, {}, CandidateBudget).lead = lead.id
      /\ ResolveEntity(lead, candidates, {}, CandidateBudget).id[1] = lead.id
  BY DEF ResolveEntity
<1> QED
  BY <1>1, <1>2, <1>3

LEMMA PersistKept ==
  ASSUME TaskInv, StoreInv, NEW e \in Executors, NEW t, t = executor[e], t.pc = "persist",
         NEW d, d.lead = t.listed[t.next].id, d.id[1] = d.lead,
         NEW u, Commits(e, t, d, u), UNCHANGED sourceRecords
  PROVE  TaskInv' /\ StoreInv'
<1> PICK k : k = t.key
  OBVIOUS
<1>1. /\ TaskOK(t) /\ k \in RequestKeys /\ t.next \in 1 .. Len(t.listed)
      /\ t.listed \in Seq(Leads) /\ \A j \in DOMAIN t.listed : Ready(t.listed[j])
      /\ \A j \in 1 .. (t.next - 1) : Decided(k, t.listed[j])
      /\ runs[k].status # "NONE"
  BY DEF TaskInv, TaskOK, Handling
<1>2. /\ decisionRows \subseteq decisionRows'
      /\ \E r \in decisionRows' : r.run = k /\ r.decision.lead = d.lead
  <2>1. CASE /\ \E r \in decisionRows : r.run = k /\ r.decision.id = d.id
             /\ UNCHANGED <<runs, decisionRows>>
    BY <2>1 DEF StoreInv, DecisionInv
  <2>2. CASE decisionRows' = decisionRows \cup {[run |-> k, decision |-> d]}
    <3> PICK row : row = [run |-> k, decision |-> d]
      OBVIOUS
    <3>1. row.run = k /\ row.decision = d /\ row \in decisionRows'
      BY <2>2
    <3> QED
      BY <2>2, <3>1
  <2> QED
    BY <2>1, <2>2 DEF Commits
<1>3. \A x \in RequestKeys : /\ runs'[x].status = runs[x].status
                             /\ x # k => runs'[x] = runs[x]
  <2>1. CASE runs' = runs
    BY <2>1
  <2>2. CASE \E n : runs' = [runs EXCEPT ![k] = Tallied(runs[k], n, d.research)]
    <3>1. PICK n : runs' = [runs EXCEPT ![k] = Tallied(runs[k], n, d.research)]
      BY <2>2
    <3>2. \A q : q = Tallied(runs[k], n, d.research) => q.status = runs[k].status
      BY <1>1, CountedFields DEF StoreInv, RunInv
    <3> QED
      BY <1>1, <3>1, <3>2 DEF StoreInv, RunInv
  <2> QED
    BY <2>1, <2>2 DEF Commits
<1>4. TaskOK(u)'
  <2>1. /\ Shape(u) /\ u.key = k /\ u.listed = t.listed /\ u.next = t.next + 1
        /\ u.pc = IF t.next + 1 > Len(t.listed) THEN "complete" ELSE "search"
    BY <1>1, TaskFields DEF TaskOK, Commits
  <2>2. /\ DOMAIN t.listed = 1 .. Len(t.listed) /\ Len(t.listed) \in Nat /\ t.next \in Nat
        /\ (t.next + 1) - 1 = t.next
    BY <1>1
  <2>3. \A j \in DOMAIN t.listed : Ready(t.listed[j])'
    BY <1>1 DEF Ready
  <2>4. ASSUME NEW j \in 1 .. t.next PROVE Decided(k, t.listed[j])'
    <3>1. CASE j = t.next
      BY <1>2, <3>1 DEF Decided
    <3>2. CASE j # t.next
      <4>1. j \in 1 .. (t.next - 1)
        BY <2>2, <3>2
      <4> QED
        BY <1>1, <1>2, <4>1 DEF Decided
    <3> QED
      BY <3>1, <3>2
  <2>5. runs'[k].status # "NONE"
    BY <1>1, <1>3
  <2>6. u.pc = "complete" => DOMAIN u.listed \subseteq 1 .. t.next
    BY <1>1, <2>1, <2>2
  <2>7. u.pc \in Handling => u.next \in 1 .. Len(u.listed)
    BY <1>1, <2>1, <2>2 DEF Handling
  <2>8. u.pc \in {"search", "complete"}
    BY <2>1
  <2> QED
    BY <1>1, <2>1, <2>2, <2>3, <2>4, <2>5, <2>6, <2>7, <2>8 DEF TaskOK, Handling
<1>5. TaskInv'
  BY <1>2, <1>3, <1>4, TasksKept DEF Commits
<1>6. CASE UNCHANGED <<runs, decisionRows>>
  BY <1>5, <1>6, StoreKept DEF Commits
<1>7. ASSUME \A r \in decisionRows :
                r.run = k => r.decision.id # d.id /\ r.decision.lead # d.lead,
             decisionRows' = decisionRows \cup {[run |-> k, decision |-> d]},
             NEW n, runs' = [runs EXCEPT ![k] = Tallied(runs[k], n, d.research)]
      PROVE  StoreInv'
  <2> DEFINE Old(x) == DecisionsOf(x)
  <2> PICK row : row = [run |-> k, decision |-> d]
    OBVIOUS
  <2>1. row.run = k /\ row.decision = d /\ decisionRows' = decisionRows \cup {row}
    BY <1>7
  <2>2. /\ runs' = [x \in RequestKeys |-> runs'[x]]
        /\ runs'[k] = Tallied(runs[k], n, d.research)
    BY <1>1, <1>7 DEF StoreInv, RunInv
  <2>3. \A x \in RequestKeys : x # k => DecisionsOf(x)' = DecisionsOf(x)
    BY <2>1 DEF DecisionsOf
  <2>4. DecisionsOf(k)' = DecisionsOf(k) \cup {d}
    BY <2>1 DEF DecisionsOf
  <2>5. /\ d \notin DecisionsOf(k) /\ d.lead \notin {c.lead : c \in DecisionsOf(k)}
        /\ d \notin {c \in DecisionsOf(k) : c.research}
    BY <1>7 DEF DecisionsOf
  <2>6. RunShape(runs[k])
    BY <1>1 DEF StoreInv, RunInv
  <2>7. /\ RunShape(runs'[k])
        /\ runs'[k].decisions = runs[k].decisions + 1
        /\ runs'[k].inputs = runs[k].inputs + 1
        /\ runs'[k].escalations = runs[k].escalations + IF d.research THEN 1 ELSE 0
    BY <2>2, <2>6, CountedFields DEF RunShape
  <2>8. RunInv'
    <3>1. asked' = [x \in RequestKeys |-> asked'[x]]
      BY <1>1 DEF StoreInv, RunInv, Commits
    <3>2. runs[k].status # "NONE" /\ runs'[k].status # "NONE"
      BY <1>1, <1>3
    <3>3. ASSUME NEW x \in RequestKeys
          PROVE  RunShape(runs'[x]) /\ (runs'[x].status = "NONE" => \A r \in decisionRows' : r.run # x)
      <4>1. CASE x = k
        BY <2>7, <3>2, <4>1
      <4>2. CASE x # k
        <5>1. runs'[x] = runs[x]
          BY <1>1, <1>7, <4>2 DEF StoreInv, RunInv
        <5>2. RunShape(runs[x]) /\ (runs[x].status = "NONE" => \A r \in decisionRows : r.run # x)
          BY <1>1 DEF StoreInv, RunInv
        <5> QED
          BY <2>1, <4>2, <5>1, <5>2
      <4> QED
        BY <4>1, <4>2
    <3> QED
      BY <2>2, <3>1, <3>3 DEF RunInv
  <2>9. {c.lead : c \in DecisionsOf(k) \cup {d}} = {c.lead : c \in DecisionsOf(k)} \cup {d.lead}
    OBVIOUS
  <2>10. /\ IsFiniteSet(DecisionsOf(k)) /\ IsFiniteSet({c.lead : c \in DecisionsOf(k)})
         /\ IsFiniteSet({c \in DecisionsOf(k) : c.research})
    <3>1. IsFiniteSet(DecisionsOf(k)) /\ IsFiniteSet({c.lead : c \in DecisionsOf(k)})
      BY <1>1 DEF StoreInv, DecisionInv
    <3> QED
      BY <3>1, FS_Subset
  <2>11. DecisionInv'
    <3>1. \A r \in decisionRows' : r.decision.id[1] = r.decision.lead
      BY <2>1 DEF StoreInv, DecisionInv
    <3>2. IsFiniteSet(DecisionsOf(k) \cup {d})
          /\ IsFiniteSet({c.lead : c \in DecisionsOf(k)} \cup {d.lead})
      BY <2>10, FS_AddElement
    <3>3. ASSUME NEW x \in RequestKeys
          PROVE  IsFiniteSet(DecisionsOf(x)') /\ IsFiniteSet({c.lead : c \in DecisionsOf(x)'})
      <4>1. CASE x = k
        BY <2>4, <2>9, <3>2, <4>1
      <4>2. CASE x # k
        BY <2>3, <4>2 DEF StoreInv, DecisionInv
      <4> QED
        BY <4>1, <4>2
    <3> QED
      BY <3>1, <3>3 DEF DecisionInv
  <2>12. CountersMatch'
    <3>1. /\ runs[k].decisions = Cardinality(DecisionsOf(k))
          /\ runs[k].inputs = Cardinality({c.lead : c \in DecisionsOf(k)})
          /\ runs[k].escalations = Cardinality({c \in DecisionsOf(k) : c.research})
      BY <1>1 DEF StoreInv, CountersMatch
    <3>2. runs'[k].decisions = Cardinality(DecisionsOf(k) \cup {d})
      <4>1. Cardinality(DecisionsOf(k) \cup {d}) = Cardinality(DecisionsOf(k)) + 1
        BY <2>5, <2>10, FS_AddElement
      <4> QED
        BY <2>7, <3>1, <4>1
    <3>3. runs'[k].inputs = Cardinality({c.lead : c \in DecisionsOf(k) \cup {d}})
      <4>1. Cardinality({c.lead : c \in DecisionsOf(k)} \cup {d.lead})
              = Cardinality({c.lead : c \in DecisionsOf(k)}) + 1
        BY <2>5, <2>10, FS_AddElement
      <4> QED
        BY <2>7, <2>9, <3>1, <4>1
    <3>4. runs'[k].escalations = Cardinality({c \in DecisionsOf(k) \cup {d} : c.research})
      <4>1. CASE d.research
        <5>1. {c \in DecisionsOf(k) \cup {d} : c.research}
                = {c \in DecisionsOf(k) : c.research} \cup {d}
          BY <4>1
        <5>2. Cardinality({c \in DecisionsOf(k) : c.research} \cup {d})
                = Cardinality({c \in DecisionsOf(k) : c.research}) + 1
          BY <2>5, <2>10, FS_AddElement
        <5>3. runs'[k].escalations = runs[k].escalations + 1
          BY <2>7, <4>1
        <5> QED
          BY <3>1, <5>1, <5>2, <5>3
      <4>2. CASE ~d.research
        <5>1. {c \in DecisionsOf(k) \cup {d} : c.research} = {c \in DecisionsOf(k) : c.research}
          BY <4>2
        <5> PICK m : m = Cardinality({c \in DecisionsOf(k) : c.research})
          OBVIOUS
        <5>2. m \in Nat
          BY <2>10, FS_CardinalityType
        <5>3. runs'[k].escalations = runs[k].escalations + 0 /\ runs[k].escalations = m
          BY <2>7, <3>1, <4>2
        <5>4. runs'[k].escalations = m
          BY <5>2, <5>3
        <5> QED
          BY <5>1, <5>4
      <4> QED
        BY <4>1, <4>2
    <3>5. ASSUME NEW x \in RequestKeys
          PROVE  /\ runs'[x].decisions = Cardinality(DecisionsOf(x)')
                 /\ runs'[x].inputs = Cardinality({c.lead : c \in DecisionsOf(x)'})
                 /\ runs'[x].escalations = Cardinality({c \in DecisionsOf(x)' : c.research})
      <4>1. CASE x = k
        BY <2>4, <3>2, <3>3, <3>4, <4>1
      <4>2. CASE x # k
        BY <1>3, <2>3, <4>2 DEF StoreInv, CountersMatch
      <4> QED
        BY <4>1, <4>2
    <3> QED
      BY <3>5 DEF CountersMatch
  <2>13. CompletedIsComplete'
    <3>1. \A x \in RequestKeys : DecisionsOf(x) \subseteq DecisionsOf(x)'
      BY <2>3, <2>4
    <3>2. asked' = asked
      BY DEF Commits
    <3> QED
      BY <1>3, <3>1, <3>2 DEF StoreInv, CompletedIsComplete
  <2>14. DecisionsAreAccepted'
    <3>1. Ready(t.listed[t.next])
      BY <1>1
    <3>2. \E x \in sourceRecords : x.key = d.lead /\ Quality(x) \in AcceptedStates
      BY <3>1 DEF Ready, CanonicalLead
    <3> QED
      BY <2>1, <3>2 DEF StoreInv, DecisionsAreAccepted
  <2> QED
    BY <2>8, <2>11, <2>12, <2>13, <2>14 DEF StoreInv
<1> QED
  BY <1>5, <1>6, <1>7 DEF Commits

------------------------------------------------------------------------------
(* Both phases together.                                                   *)

LEMMA ResolutionKept ==
  ASSUME IntakeInv, TaskInv, StoreInv, ResolutionNext, UNCHANGED intakeVars
  PROVE  IntakeInv' /\ TaskInv' /\ StoreInv'
<1>1. UNCHANGED sourceRecords
  BY DEF intakeVars
<1> PICK e \in Executors :
        \/ \E k \in RequestKeys : ListHandoffs(e, k)
        \/ CreateRun(e) \/ Search(e) \/ Fetch(e) \/ Unavailable(e) \/ Raise(e)
        \/ Persist(e) \/ Complete(e) \/ Fail(e) \/ Die(e)
  BY DEF ResolutionNext
<1>2. UNCHANGED handoffs
  <2>1. \A k \in RequestKeys : ListHandoffs(e, k) => UNCHANGED handoffs
    BY DEF ListHandoffs
  <2>2. ASSUME \/ CreateRun(e) \/ Search(e) \/ Fetch(e) \/ Unavailable(e) \/ Raise(e)
               \/ Persist(e) \/ Complete(e) \/ Fail(e) \/ Die(e)
        PROVE  UNCHANGED handoffs
    BY <2>2 DEF CreateRun, Search, Fetch, Unavailable, Raise, Persist, Complete, Fail, Finish, Die
  <2> QED
    BY <2>1, <2>2
<1>3. IntakeInv'
  BY <1>2 DEF IntakeInv, IntakeType, BatchInv, HandoffInv, NothingIsLost, Ready, HandedOff,
              intakeVars
<1>4. CASE \E k \in RequestKeys : ListHandoffs(e, k)
  BY <1>1, <1>3, <1>4, ListHandoffsKept
<1>5. CASE CreateRun(e)
  BY <1>1, <1>3, <1>5, CreateRunKept
<1>6. CASE Search(e) \/ Fetch(e) \/ Unavailable(e) \/ Raise(e)
  BY <1>1, <1>3, <1>6, HandlingSteps, HandlingKept
<1>7. CASE Persist(e)
  <2>1. CASE UNCHANGED <<runs, decisionRows>>
             /\ executor' = [executor EXCEPT ![e].pc = "fail"]
    BY <1>1, <1>3, <1>7, <2>1, HandlingSteps, HandlingKept
  <2>2. CASE ~(UNCHANGED <<runs, decisionRows>>
               /\ executor' = [executor EXCEPT ![e].pc = "fail"])
    <3> PICK t : t = executor[e]
      OBVIOUS
    <3> PICK d : d = Decision(e)
      OBVIOUS
    <3> PICK u : u = NextLead(t, t.next + 1)
      OBVIOUS
    <3>1. t.pc = "persist" /\ Commits(e, t, d, u)
      BY <1>7, <2>2, PersistKinds
    <3>2. d.lead = t.listed[t.next].id /\ d.id[1] = d.lead
      BY DecisionLead
    <3> QED
      BY <1>1, <1>3, <3>1, <3>2, PersistKept
  <2> QED
    BY <2>1, <2>2
<1>8. CASE Complete(e) \/ Fail(e)
  BY <1>1, <1>3, <1>8, FinishKept
<1>9. CASE Die(e)
  <2>1. executor' = [executor EXCEPT ![e] = NoTask] /\ UNCHANGED <<runs, decisionRows, asked>>
    BY <1>9 DEF Die, dbVars
  <2>2. TaskOK(NoTask)'
    BY DEF TaskOK, NoTask, Shape, Handling
  <2>3. TaskInv'
    BY <1>1, <2>1, <2>2, TasksKept
  <2> QED
    BY <1>1, <1>3, <2>1, <2>3, StoreKept
<1> QED
  BY <1>4, <1>5, <1>6, <1>7, <1>8, <1>9

(* The tasks of Phase 2 only gain from what Phase 1 adds.                  *)
LEMMA IntakeSteps ==
  ASSUME IntakeInv, TaskInv, StoreInv, IntakeNext, UNCHANGED phase2Vars
  PROVE  IntakeInv' /\ TaskInv' /\ StoreInv'
<1>1. IntakeInv'
  BY IntakeKept
<1>2. sourceRecords \subseteq sourceRecords'
  BY DEF IntakeNext, StartIngest, CheckRow, WriteRow, StopIngest
<1>3. UNCHANGED <<runs, decisionRows, asked, executor>>
  BY DEF phase2Vars
<1>4. ASSUME NEW e \in Executors PROVE TaskOK(executor[e])'
  <2> PICK t : t = executor[e]
    OBVIOUS
  <2>1. TaskOK(t)
    BY DEF TaskInv
  <2>2. TaskOK(t)'
    BY <1>2, <1>3, <2>1, TaskKept
  <2>3. t = executor'[e]
    BY <1>3
  <2> QED
    BY <2>2, <2>3 DEF TaskOK
<1>5. TaskInv'
  BY <1>3, <1>4 DEF TaskInv
<1> QED
  BY <1>1, <1>2, <1>3, <1>5, StoreKept

LEMMA PipelineInit == Init => PipelineInv
<1> SUFFICES ASSUME Init PROVE PipelineInv
  OBVIOUS
<1>1. IntakeInv
  BY IntakeStart
<1>2. /\ executor = [e \in Executors |-> NoTask] /\ decisionRows = {}
      /\ runs = [k \in RequestKeys |-> NewRun("NONE")]
      /\ asked = [k \in RequestKeys |-> {}]
  BY DEF Init, ResolutionInit
<1>3. TaskInv
  BY <1>2, NoTaskOK DEF TaskInv
<1>4. \A k \in RequestKeys : DecisionsOf(k) = {} /\ runs[k] = NewRun("NONE")
  BY <1>2 DEF DecisionsOf
<1>5. RunInv
  BY <1>2, <1>4 DEF RunInv, RunShape, NewRun
<1>6. CountersMatch
  <2> SUFFICES ASSUME NEW k \in RequestKeys
               PROVE  /\ runs[k].decisions = Cardinality(DecisionsOf(k))
                      /\ runs[k].inputs = Cardinality({d.lead : d \in DecisionsOf(k)})
                      /\ runs[k].escalations
                           = Cardinality({d \in DecisionsOf(k) : d.research})
    BY DEF CountersMatch
  <2>1. /\ DecisionsOf(k) = {} /\ {d.lead : d \in DecisionsOf(k)} = {}
        /\ {d \in DecisionsOf(k) : d.research} = {} /\ Cardinality({}) = 0
    BY <1>4, FS_EmptySet
  <2>2. runs[k].decisions = 0 /\ runs[k].inputs = 0 /\ runs[k].escalations = 0
    BY <1>4 DEF NewRun
  <2> QED
    BY <2>1, <2>2
<1>7. DecisionInv
  <2>1. ASSUME NEW k \in RequestKeys
        PROVE  IsFiniteSet(DecisionsOf(k)) /\ IsFiniteSet({d.lead : d \in DecisionsOf(k)})
    <3>1. DecisionsOf(k) = {} /\ {d.lead : d \in DecisionsOf(k)} = {}
      BY <1>4
    <3> QED
      BY <3>1, FS_EmptySet
  <2> QED
    BY <1>2, <2>1 DEF DecisionInv
<1>8. CompletedIsComplete /\ DecisionsAreAccepted
  BY <1>2 DEF CompletedIsComplete, DecisionsAreAccepted
<1> QED
  BY <1>1, <1>3, <1>5, <1>6, <1>7, <1>8 DEF PipelineInv, StoreInv

THEOREM Invariance == Spec => []PipelineInv
<1>1. Init => PipelineInv
  BY PipelineInit
<1>2. PipelineInv /\ [Next]_pipelineVars => PipelineInv'
  <2> SUFFICES ASSUME PipelineInv, [Next]_pipelineVars PROVE PipelineInv'
    OBVIOUS
  <2>1. IntakeInv /\ TaskInv /\ StoreInv
    BY DEF PipelineInv
  <2>2. CASE IntakeNext /\ UNCHANGED phase2Vars
    BY <2>1, <2>2, IntakeSteps DEF PipelineInv
  <2>3. CASE ResolutionNext /\ UNCHANGED intakeVars
    BY <2>1, <2>3, ResolutionKept DEF PipelineInv
  <2>4. CASE UNCHANGED pipelineVars
    <3>1. UNCHANGED <<handoffs, intakeVars>> /\ UNCHANGED <<runs, decisionRows, asked, executor>>
      BY <2>4 DEF pipelineVars, phase2Vars
    <3>2. IntakeInv'
      BY <2>1, <3>1 DEF IntakeInv, IntakeType, BatchInv, HandoffInv, NothingIsLost, Ready,
                        HandedOff, intakeVars
    <3>3. TaskInv'
      BY <2>1, <3>1 DEF TaskInv, TaskOK, Ready, Decided, intakeVars
    <3>4. StoreInv'
      BY <2>1, <3>1, StoreKept DEF intakeVars
    <3> QED
      BY <3>2, <3>3, <3>4 DEF PipelineInv
  <2> QED
    BY <2>2, <2>3, <2>4 DEF Next
<1> QED
  BY <1>1, <1>2, PTL DEF Spec

(* NothingIsLost (persist_result, whatever ingestion runs overlap and die): *)
(* a stored record, or one with its payload, was handed to Phase 2 or is in *)
(* quarantine.                                                              *)
THEOREM LostCorrect == Spec => []NothingIsLost
<1>1. PipelineInv => NothingIsLost
  BY DEF PipelineInv, IntakeInv
<1> QED
  BY <1>1, Invariance, PTL

(* CountersMatch (persist_resolution): the counters of a run count the      *)
(* decisions that are stored, however often its leads were decided.         *)
THEOREM CountersCorrect == Spec => []CountersMatch
<1>1. PipelineInv => CountersMatch
  BY DEF PipelineInv, StoreInv
<1> QED
  BY <1>1, Invariance, PTL

(* CompletedIsComplete (execute_phase2_run, complete_run): what a COMPLETED *)
(* run was asked for is decided.                                            *)
THEOREM CompletedCorrect == Spec => []CompletedIsComplete
<1>1. PipelineInv => CompletedIsComplete
  BY DEF PipelineInv, StoreInv
<1> QED
  BY <1>1, Invariance, PTL

(* DecisionsAreAccepted (list_handoffs to persist_resolution): only leads   *)
(* of records Phase 1 accepted are decided.                                 *)
THEOREM AcceptedCorrect == Spec => []DecisionsAreAccepted
<1>1. PipelineInv => DecisionsAreAccepted
  BY DEF PipelineInv, StoreInv
<1> QED
  BY <1>1, Invariance, PTL

-----------------------------------------------------------------------------
(* Phase 2: what a match rests on.                                         *)

(* The entries of a list.                                                  *)
Entries(s) == {s[i] : i \in DOMAIN s}

(* A sequence is a list.                                                   *)
LEMMA SeqIsList == ASSUME NEW X, NEW s \in Seq(X) PROVE IsList(s) /\ Entries(s) \subseteq X
BY DEF IsList, Entries

(* At(s, I) lists the entries of s at the places I.                        *)
LEMMA AtList ==
  ASSUME NEW s, IsList(s), NEW I \in SUBSET DOMAIN s
  PROVE  At(s, I) \in Seq({s[i] : i \in I})
<1>1. PICK n \in Nat : DOMAIN s = 1 .. n
  BY DEF IsList
<1>2. I \in SUBSET Int /\ IsFiniteSet(I)
  BY <1>1, FS_Interval, FS_Subset
<1>3. PICK p \in Seq(I) : p = Ascending(I)
  BY <1>2, AscendingType
<1>4. [k \in DOMAIN p |-> s[p[k]]] \in Seq({s[i] : i \in I})
  OBVIOUS
<1> QED
  BY <1>3, <1>4 DEF At


(* A list made of another one, entry by entry.                             *)
LEMMA MadeList ==
  ASSUME NEW s, IsList(s), NEW r, r = [i \in DOMAIN s |-> r[i]]
  PROVE  IsList(r)
<1>1. PICK n \in Nat : DOMAIN s = 1 .. n
  BY DEF IsList
<1>2. r \in [1 .. n -> {r[i] : i \in 1 .. n}]
  BY <1>1
<1> QED
  BY <1>2 DEF IsList

------------------------------------------------------------------------------
(* What Phase 2 makes of the evidence.                                     *)

(* The deterministic extraction finds a list of entities.                  *)
LEMMA MentionsList ==
  ASSUME NEW evidence, IsList(evidence),
         \A i \in DOMAIN evidence : IsList(MentionsIn[evidence[i].text])
  PROVE  IsList(DeterministicExtraction(evidence).entities)
<1> DEFINE Found == Mentions(evidence)
           T == {t \in Found : \A s \in Found : Sooner(s, t) =>
                   EntityNamed(evidence, s) # EntityNamed(evidence, t)}
           Of(i) == {<<i, k>> : k \in DOMAIN MentionsIn[evidence[i].text]}
<1>1. IsFiniteSet(DOMAIN evidence) /\ DOMAIN evidence \in SUBSET Nat
  BY FS_Interval DEF IsList
<1>2. \A i \in DOMAIN evidence : IsFiniteSet(Of(i)) /\ Of(i) \in SUBSET [1 .. 2 -> Int]
  <2> SUFFICES ASSUME NEW i \in DOMAIN evidence
               PROVE  IsFiniteSet(Of(i)) /\ Of(i) \in SUBSET [1 .. 2 -> Int]
    OBVIOUS
  <2>1. PICK n \in Nat : DOMAIN MentionsIn[evidence[i].text] = 1 .. n
    BY DEF IsList
  <2>2. IsFiniteSet({<<i, k>> : k \in 1 .. n})
    <3> DEFINE f == [k \in 1 .. n |-> <<i, k>>]
               S == {<<i, k>> : k \in 1 .. n}
    <3>1. f \in [1 .. n -> S] /\ \A t \in S : \E k \in 1 .. n : f[k] = t
      OBVIOUS
    <3>2. f \in Surjection(1 .. n, S)
      BY <3>1 DEF Surjection
    <3>3. IsFiniteSet(1 .. n)
      BY FS_Interval
    <3> HIDE DEF f, S
    <3>4. IsFiniteSet(S)
      BY <3>2, <3>3, FS_Surjection
    <3> QED
      BY <3>4 DEF S
  <2>3. \A k \in 1 .. n : <<i, k>> \in [1 .. 2 -> Int]
    BY <1>1
  <2> QED
    BY <2>1, <2>2, <2>3
<1>3. IsFiniteSet(Found) /\ Found \in SUBSET [1 .. 2 -> Int]
  <2> DEFINE S == {Of(i) : i \in DOMAIN evidence}
  <2>1. IsFiniteSet(S)
    <3> DEFINE f == [i \in DOMAIN evidence |-> Of(i)]
    <3> HIDE DEF Of
    <3>1. f \in [DOMAIN evidence -> S] /\ \A t \in S : \E i \in DOMAIN evidence : f[i] = t
      OBVIOUS
    <3>2. f \in Surjection(DOMAIN evidence, S)
      BY <3>1 DEF Surjection
    <3> QED
      BY <1>1, <3>2, FS_Surjection
  <2>2. \A s \in S : IsFiniteSet(s) /\ s \in SUBSET [1 .. 2 -> Int]
    BY <1>2
  <2>3. Found = UNION S
    BY DEF Mentions
  <2> HIDE DEF S, Found
  <2> QED
    BY <2>1, <2>2, <2>3, FS_UNION
<1>4. T \in SUBSET [1 .. 2 -> Int] /\ IsFiniteSet(T)
  <2> HIDE DEF Found
  <2>1. T \subseteq Found
    OBVIOUS
  <2> HIDE DEF T
  <2> QED
    BY <1>3, <2>1, FS_Subset
<1>5. PICK kept \in Seq(T) : kept = InTurn(T)
  <2> HIDE DEF T
  <2> QED
    BY <1>4, InTurnType
<1> PICK entities : entities = DeterministicExtraction(evidence).entities
  OBVIOUS
<1>6. entities = [n \in DOMAIN kept |-> entities[n]]
  <2>1. entities = [n \in DOMAIN InTurn(T) |->
                             [name    |-> EntityNamed(evidence, InTurn(T)[n])[1],
                              type    |-> EntityNamed(evidence, InTurn(T)[n])[2],
                              domain  |-> NoDomain,
                              related |-> TRUE,
                              refs    |-> {InTurn(T)[n][1]}]]
    BY DEF DeterministicExtraction
  <2> HIDE DEF T
  <2> QED
    BY <1>5, <2>1
<1>7. IsList(kept)
  <2> HIDE DEF T
  <2> QED
    BY <1>5 DEF IsList
<1> QED
  BY <1>6, <1>7, MadeList

(* The URLs that are fetched come from those that were found.              *)
LEMMA SelectedUrls ==
  ASSUME NEW X, NEW urls \in Seq(X), NEW domain, NEW limit \in Nat
  PROVE  SelectFetchUrls(domain, urls, limit) \in Seq(X)
<1> DEFINE Relevant(u) == \/ RegistrableDomain(domain) = <<>>
                          \/ RegistrableDomain(HostOf[u]) = RegistrableDomain(domain)
<1>1. PICK I \in SUBSET DOMAIN urls :
        I = {i \in DOMAIN urls : Relevant(urls[i]) /\ \A j \in 1 .. (i - 1) : urls[j] # urls[i]}
  OBVIOUS
<1>2. SelectFetchUrls(domain, urls, limit) = Slice(At(urls, I), limit)
  BY <1>1 DEF SelectFetchUrls
<1>3. At(urls, I) \in Seq(X)
  BY AtType
<1> QED
  BY <1>2, <1>3, SliceType

(* Every candidate cites evidence that it was given.                       *)
CitesOnly(candidates, evidence) ==
  \A c \in Entries(candidates) : \A ref \in c.refs : \E i \in DOMAIN evidence : ref = evidence[i].id

(* What is made of the entities, and the places of those that are kept     *)
(* and repeat no earlier one.                                              *)
MadeOf(lead, extraction, evidence) ==
  [n \in DOMAIN extraction.entities |->
     ResearchCandidate(lead, evidence, extraction.currentness, extraction.entities[n])]

KeptOf(made) == {n \in DOMAIN made : /\ made[n].kept
                   /\ \A m \in 1 .. (n - 1) : made[m].kept => made[m].id # made[n].id}

LEMMA KeptPlaces ==
  ASSUME NEW made
  PROVE  KeptOf(made) \in SUBSET DOMAIN made /\ \A n \in KeptOf(made) : made[n].kept
  BY DEF KeptOf

(* The candidates are those that are kept, and at most the one made of the *)
(* lead's own site.                                                        *)
LEMMA CandidateList ==
  ASSUME NEW lead, NEW extraction, NEW evidence,
         NEW made, made = MadeOf(lead, extraction, evidence),
         NEW own, own = FirstPartyCandidate(lead, evidence)
  PROVE  \/ CandidateObjects(lead, extraction, evidence) = At(made, KeptOf(made))
         \/ /\ CandidateObjects(lead, extraction, evidence) = Append(At(made, KeptOf(made)), own)
            /\ own.refs # {}
  BY DEF CandidateObjects, MadeOf, KeptOf

LEMMA CandidatesCite ==
  ASSUME NEW lead, NEW extraction, IsList(extraction.entities), NEW evidence,
         NEW found, found = CandidateObjects(lead, extraction, evidence)
  PROVE  IsList(found) /\ CitesOnly(found, evidence)
<1> DEFINE Cites(c) == \A ref \in c.refs : \E i \in DOMAIN evidence : ref = evidence[i].id
           Made(n) == ResearchCandidate(lead, evidence, extraction.currentness,
                                        extraction.entities[n])
<1> PICK made : made = MadeOf(lead, extraction, evidence)
  OBVIOUS
<1>0. made = [n \in DOMAIN extraction.entities |-> Made(n)]
  BY DEF MadeOf
<1>1. IsList(made)
  BY <1>0, MadeList
<1>2. \A n \in DOMAIN made : Cites(made[n])
  <2>1. ASSUME NEW n \in DOMAIN made PROVE Cites(made[n])
    <3>1. PICK x : x = extraction.entities[n]
      OBVIOUS
    <3>2. made[n] = ResearchCandidate(lead, evidence, extraction.currentness, x)
      BY <1>0, <2>1, <3>1
    <3>3. made[n].refs = EvidenceIds(evidence, x.refs)
      BY <3>2 DEF ResearchCandidate
    <3> QED
      BY <3>3 DEF EvidenceIds
  <2> QED
    BY <2>1
<1> PICK own : own = FirstPartyCandidate(lead, evidence)
  OBVIOUS
<1>3. Cites(own)
  BY DEF FirstPartyCandidate, EvidenceIds
<1>4. PICK I \in SUBSET DOMAIN made : I = KeptOf(made) /\ \A n \in I : made[n].kept
  <2>1. KeptOf(made) \in SUBSET DOMAIN made /\ \A n \in KeptOf(made) : made[n].kept
    BY KeptPlaces
  <2> QED
    BY <2>1
<1> DEFINE X == {made[n] : n \in I} \cup {own}
<1> PICK s : s = At(made, I)
  OBVIOUS
<1>5. found = s \/ found = Append(s, own)
  <2> HIDE DEF Cites, X
  <2> QED
    BY <1>4, CandidateList
<1>6. s \in Seq({made[n] : n \in I})
  BY <1>1, AtList
<1>7. s \in Seq(X) /\ own \in X
  BY <1>6
<1>8. \A c \in X : Cites(c)
  BY <1>2, <1>3
<1> HIDE DEF X, Cites
<1>9. found \in Seq(X)
  BY <1>5, <1>7, AppendProperties
<1>10. IsList(found) /\ Entries(found) \subseteq X
  BY <1>9, SeqIsList
<1> QED
  BY <1>8, <1>10 DEF Cites, CitesOnly

(* What is compared is a list of the candidates.                           *)
LEMMA SelectedList ==
  ASSUME NEW lead, NEW candidates, IsList(candidates), NEW budget \in Nat
  PROVE  GenerateCandidates(lead, candidates, budget) \in Seq(Entries(candidates))
<1>1. PICK I \in SUBSET DOMAIN candidates :
        I = {i \in DOMAIN candidates : BlockMatch(lead, candidates[i])}
  OBVIOUS
<1>2. At(candidates, I) \in Seq({candidates[i] : i \in I})
  BY AtList
<1>3. {candidates[i] : i \in I} \subseteq Entries(candidates)
  BY DEF Entries
<1>4. At(candidates, I) \in Seq(Entries(candidates))
  BY <1>2, <1>3, SeqMonotonic
<1>5. GenerateCandidates(lead, candidates, budget) = Slice(At(candidates, I), budget)
  BY <1>1 DEF GenerateCandidates
<1> QED
  BY <1>4, <1>5, SliceType

(* The candidate a match names is one of those it was made of.             *)
LEMMA MatchIsCandidate ==
  ASSUME NEW lead, NEW candidates, IsList(candidates), NEW relationships, NEW budget \in Nat,
         NEW d, d = ResolveEntity(lead, candidates, relationships, budget), Matched(d)
  PROVE  \E c \in Entries(candidates) :
           d.entity = c.id /\ d.refs = c.refs /\ d.type = c.type
<1> PICK selected : selected = GenerateCandidates(lead, candidates, budget)
  OBVIOUS
<1>1. selected \in Seq(Entries(candidates))
  BY SelectedList
<1> PICK comparisons : comparisons = Compare(lead, selected)
  OBVIOUS
<1> PICK status : status = Status(comparisons, relationships)
  OBVIOUS
<1>2. /\ DOMAIN comparisons = DOMAIN selected
      /\ \A i \in DOMAIN selected : comparisons[i].id = selected[i].id
  BY DEF Compare, CompareCandidate
<1>3. status \in MatchedStatuses
  BY DEF ResolveEntity, Matched
<1>4. \E c \in ToSet(comparisons) : c.eligible
  BY <1>3 DEF Status, MatchedStatuses
<1> PICK top : top = CHOOSE c \in ToSet(comparisons) : c.eligible
  OBVIOUS
<1>5. PICK i \in DOMAIN selected : top = comparisons[i]
  <2>1. top \in ToSet(comparisons)
    BY <1>4
  <2> QED
    BY <1>2, <2>1 DEF ToSet
<1> DEFINE places == {j \in DOMAIN selected : selected[j].id = top.id}
<1>6. \E m \in places : \A j \in places : m <= j
  <2>1. selected[i].id = top.id
    BY <1>2, <1>5
  <2>2. DOMAIN selected \in SUBSET Nat
    BY <1>1
  <2>3. i \in places /\ places \in SUBSET Nat
    BY <1>5, <2>1, <2>2
  <2> HIDE DEF places
  <2> QED
    BY <2>3, LeastNat
<1> PICK first : first = CHOOSE m \in places : \A j \in places : m <= j
  OBVIOUS
<1>7. first \in places
  <2> HIDE DEF places
  <2> QED
    BY <1>6
<1>8. TopCandidate(selected, comparisons) = selected[first]
  BY DEF TopCandidate
<1>9. /\ d.entity = selected[first].id /\ d.refs = selected[first].refs
      /\ d.type = selected[first].type
  <2>1. /\ d.entity = TopCandidate(selected, comparisons).id
        /\ d.refs = TopCandidate(selected, comparisons).refs
        /\ d.type = TopCandidate(selected, comparisons).type
    BY <1>3 DEF ResolveEntity
  <2> QED
    BY <1>8, <2>1
<1>10. selected[first] \in Entries(candidates)
  BY <1>1, <1>7
<1> QED
  BY <1>9, <1>10

(* One of the candidates with an id is the first.                          *)
LEMMA FirstIsThere ==
  ASSUME NEW s, IsList(s), NEW c \in Entries(s)
  PROVE  \E f \in FirstWithId(s) : f.id = c.id
<1> DEFINE places == {j \in DOMAIN s : s[j].id = c.id}
<1>1. PICK n \in Nat : DOMAIN s = 1 .. n
  BY DEF IsList
<1>2. places # {} /\ places \in SUBSET Nat
  BY <1>1 DEF Entries
<1>3. PICK m \in places : \A j \in places : m <= j
  <2> HIDE DEF places
  <2> QED
    BY <1>2, LeastNat
<1>4. ASSUME NEW h \in 1 .. (m - 1) PROVE s[h].id # s[m].id
  <2>1. h \in DOMAIN s /\ ~(m <= h)
    BY <1>1, <1>3
  <2> QED
    BY <1>3, <2>1
<1>5. s[m] \in FirstWithId(s)
  BY <1>3, <1>4 DEF FirstWithId
<1> QED
  BY <1>3, <1>5

(* A page that was fetched for a lead in a run.                            *)
Fetched(k, lead, ref) ==
  \E o \in observations : /\ o.run = k /\ o.lead = lead /\ o.kind = "FETCH_RESULT"
                          /\ o.position = ref[1] /\ ref[2] \in Reached(o.url)

(* What a task has gathered for its lead is a list of pages to fetch, then *)
(* of candidates that cite pages it has fetched.                           *)
GatheredOK(t) ==
  /\ t.pc = "fetch" => t.urls \in Seq(DOMAIN PageAnswers)
  /\ t.pc \in Handling =>
       /\ IsList(t.candidates)
       /\ \A c \in Entries(t.candidates) : \A ref \in c.refs :
            Fetched(t.key, t.listed[t.next].id, ref)

(* The inductive invariant of MatchesAreGrounded.                          *)
GatheredInv ==
  /\ \A e \in Executors : GatheredOK(executor[e])
  /\ MatchesAreGrounded

(* No executor has a task at the start.                                    *)
LEMMA GatheredStart == Init => GatheredInv
BY DEF Init, ResolutionInit, GatheredInv, GatheredOK, NoTask, Handling, MatchesAreGrounded

(* What is inserted under a key is there afterwards.                       *)
LEMMA ObservationStored ==
  ASSUME NEW e, NEW kind, NEW urls, Observe(e, kind, urls)
  PROVE  /\ observations \subseteq observations'
         /\ \A i \in DOMAIN urls : \E o \in observations' :
              /\ o.run = executor[e].key /\ o.lead = CurrentLead(e).id /\ o.kind = kind
              /\ o.position = i /\ o.url = urls[i]
<1> PICK k : k = executor[e].key
  OBVIOUS
<1> PICK lead : lead = CurrentLead(e).id
  OBVIOUS
<1> DEFINE Row(i) == [run |-> k, lead |-> lead, kind |-> kind, position |-> i, url |-> urls[i]]
<1>1. observations' = observations \cup
        {r \in {Row(i) : i \in DOMAIN urls} :
            \A x \in observations : ObservationKey(x) # ObservationKey(r)}
  BY DEF Observe, InsertObservations, Missed
<1>2. ASSUME NEW i \in DOMAIN urls
      PROVE  \E o \in observations' : ObservationKey(o) = ObservationKey(Row(i))
  <2> HIDE DEF Row
  <2>1. CASE \E x \in observations : ObservationKey(x) = ObservationKey(Row(i))
    BY <1>1, <2>1
  <2>2. CASE ~ \E x \in observations : ObservationKey(x) = ObservationKey(Row(i))
    BY <1>1, <2>2
  <2> QED
    BY <2>1, <2>2
<1>3. ASSUME NEW i \in DOMAIN urls, NEW o, ObservationKey(o) = ObservationKey(Row(i))
      PROVE  o.run = k /\ o.lead = lead /\ o.kind = kind /\ o.position = i /\ o.url = urls[i]
  BY <1>3 DEF ObservationKey
<1> HIDE DEF Row
<1> QED
  BY <1>1, <1>2, <1>3

(* What a task has gathered stays good as observations are added.          *)
LEMMA GatheredGrows ==
  ASSUME NEW t, GatheredOK(t), observations \subseteq observations'
  PROVE  GatheredOK(t)'
<1>1. \A k, lead, ref : Fetched(k, lead, ref) => Fetched(k, lead, ref)'
  BY DEF Fetched
<1>2. /\ t.pc = "fetch" => t.urls \in Seq(DOMAIN PageAnswers)
      /\ t.pc \in Handling => IsList(t.candidates)
  BY DEF GatheredOK
<1>3. t.pc \in Handling =>
        \A c \in Entries(t.candidates) : \A ref \in c.refs :
            Fetched(t.key, t.listed[t.next].id, ref)'
  BY <1>1 DEF GatheredOK
<1> QED
  BY <1>2, <1>3 DEF GatheredOK

(* A step of one executor that removes no observation.                     *)
LEMMA GatheredKept ==
  ASSUME TaskInv, GatheredInv, NEW e \in Executors, NEW new,
         executor' = [executor EXCEPT ![e] = new], GatheredOK(new)',
         observations \subseteq observations', MatchesAreGrounded'
  PROVE  GatheredInv'
<1>1. ASSUME NEW x \in Executors PROVE GatheredOK(executor[x])'
  <2> PICK t : t = executor[x]
    OBVIOUS
  <2> PICK u : u = executor'[x]
    OBVIOUS
  <2>1. GatheredOK(t)
    BY DEF GatheredInv
  <2>2. GatheredOK(t)'
    BY <2>1, GatheredGrows
  <2>3. u = new \/ u = t
    BY DEF TaskInv
  <2>4. GatheredOK(u)'
    BY <2>2, <2>3
  <2> QED
    BY <2>4 DEF GatheredOK
<1> QED
  BY <1>1 DEF GatheredInv

(* Nothing a match rests on is removed.                                    *)
LEMMA GroundsKept ==
  ASSUME MatchesAreGrounded, UNCHANGED decisionRows,
         observations \subseteq observations', candidateRows \subseteq candidateRows'
  PROVE  MatchesAreGrounded'
<1> SUFFICES ASSUME NEW r \in decisionRows, Matched(r.decision)
             PROVE  /\ \E c \in candidateRows' : c.run = r.run /\ c.id = r.decision.entity
                    /\ \A ref \in r.decision.refs : \E o \in observations' :
                         /\ o.run = r.run /\ o.lead = r.decision.lead
                         /\ o.kind = "FETCH_RESULT" /\ o.position = ref[1] /\ ref[2] \in Reached(o.url)
  BY DEF MatchesAreGrounded
<1>1. /\ \E c \in candidateRows : c.run = r.run /\ c.id = r.decision.entity
      /\ \A ref \in r.decision.refs : \E o \in observations :
           /\ o.run = r.run /\ o.lead = r.decision.lead
           /\ o.kind = "FETCH_RESULT" /\ o.position = ref[1] /\ ref[2] \in Reached(o.url)
  BY DEF MatchesAreGrounded
<1> QED
  BY <1>1

(* Where a task may go without having gathered anything.                   *)
LEMMA NothingGathered ==
  ASSUME NEW u, \/ u.pc \notin Handling
                \/ u.pc \in {"search", "persist"} /\ u.candidates = <<>>
  PROVE  GatheredOK(u)'
<1>1. IsList(<<>>) /\ Entries(<<>>) = {}
  BY DEF IsList, Entries
<1> QED
  BY <1>1 DEF GatheredOK, Handling

(* The provider has an answer for every lead.                              *)
LEMMA LeadAnswered ==
  ASSUME NEW h \in Leads
  PROVE  h.id \in DOMAIN SearchAnswers /\ h.id \in DOMAIN Answers
<1>1. PICK x \in Records : h = CanonicalLead(x)
  BY DEF Leads
<1>2. PICK file \in DOMAIN Files : x \in {Record(file, i) : i \in DOMAIN Files[file].rows}
  BY DEF Records
<1>3. PICK i \in DOMAIN Files[file].rows : x = Record(file, i)
  BY <1>2
<1>4. h.id = i
  BY <1>1, <1>3 DEF CanonicalLead, Record
<1> QED
  BY <1>2, <1>3, <1>4, LeadsAssumption

(* A task that moves on, with URLs to fetch or with candidates.            *)
WithUrls(t, p, a) == [t EXCEPT !.urls = a, !.pc = p]
WithCandidates(t, p, c) == [t EXCEPT !.pc = p, !.candidates = c]
WithNothing(t, p, v) == [t EXCEPT !.pc = p, !.candidates = <<>>, !.unavailable = v]
Moving(t, p) == [t EXCEPT !.pc = p]

(* The fields of a task after each way of moving on.                       *)
LEMMA UrlFields ==
  ASSUME NEW t, Shape(t), NEW p, NEW a, NEW u, u = WithUrls(t, p, a)
  PROVE  /\ u.key = t.key /\ u.listed = t.listed /\ u.next = t.next /\ u.pc = p
         /\ u.urls = a /\ u.candidates = t.candidates
<1>1. PICK q, k, l, n, f, d, w :
        t = [pc |-> q, key |-> k, listed |-> l, next |-> n, urls |-> f,
             candidates |-> d, unavailable |-> w]
  BY DEF Shape
<1>2. u = [pc |-> p, key |-> k, listed |-> l, next |-> n, urls |-> a,
           candidates |-> d, unavailable |-> w]
  BY <1>1 DEF WithUrls
<1>3. t.key = k /\ t.listed = l /\ t.next = n /\ t.candidates = d
  BY <1>1
<1>4. /\ u.key = k /\ u.listed = l /\ u.next = n /\ u.pc = p
      /\ u.urls = a /\ u.candidates = d
  BY <1>2
<1> QED
  BY <1>3, <1>4

LEMMA CandidateFields ==
  ASSUME NEW t, Shape(t), NEW p, NEW c, NEW u, u = WithCandidates(t, p, c)
  PROVE  /\ u.key = t.key /\ u.listed = t.listed /\ u.next = t.next /\ u.pc = p
         /\ u.candidates = c
<1>1. PICK q, k, l, n, f, d, w :
        t = [pc |-> q, key |-> k, listed |-> l, next |-> n, urls |-> f,
             candidates |-> d, unavailable |-> w]
  BY DEF Shape
<1>2. u = [pc |-> p, key |-> k, listed |-> l, next |-> n, urls |-> f,
           candidates |-> c, unavailable |-> w]
  BY <1>1 DEF WithCandidates
<1>3. t.key = k /\ t.listed = l /\ t.next = n /\ t.candidates = d
  BY <1>1
<1>4. /\ u.key = k /\ u.listed = l /\ u.next = n /\ u.pc = p
      /\ u.urls = f /\ u.candidates = c
  BY <1>2
<1> QED
  BY <1>3, <1>4

LEMMA NothingFields ==
  ASSUME NEW t, Shape(t), NEW p, NEW v, NEW u, u = WithNothing(t, p, v)
  PROVE  u.pc = p /\ u.candidates = <<>>
<1>1. PICK q, k, l, n, f, d, w :
        t = [pc |-> q, key |-> k, listed |-> l, next |-> n, urls |-> f,
             candidates |-> d, unavailable |-> w]
  BY DEF Shape
<1>2. u = [pc |-> p, key |-> k, listed |-> l, next |-> n, urls |-> f,
           candidates |-> <<>>, unavailable |-> v]
  BY <1>1 DEF WithNothing
<1>3. t.key = k /\ t.listed = l /\ t.next = n /\ t.candidates = d
  BY <1>1
<1>4. /\ u.key = k /\ u.listed = l /\ u.next = n /\ u.pc = p
      /\ u.urls = f /\ u.candidates = <<>>
  BY <1>2
<1> QED
  BY <1>3, <1>4

LEMMA MovingFields ==
  ASSUME NEW t, Shape(t), NEW p, NEW u, u = Moving(t, p)
  PROVE  u.pc = p
<1>1. PICK q, k, l, n, f, d, w :
        t = [pc |-> q, key |-> k, listed |-> l, next |-> n, urls |-> f,
             candidates |-> d, unavailable |-> w]
  BY DEF Shape
<1>2. u = [pc |-> p, key |-> k, listed |-> l, next |-> n, urls |-> f,
           candidates |-> d, unavailable |-> w]
  BY <1>1 DEF Moving
<1>3. t.key = k /\ t.listed = l /\ t.next = n /\ t.candidates = d
  BY <1>1
<1>4. /\ u.key = k /\ u.listed = l /\ u.next = n /\ u.pc = p
      /\ u.urls = f /\ u.candidates = d
  BY <1>2
<1> QED
  BY <1>3, <1>4

(* The lead a task is at.                                                  *)
LEMMA LeadAt ==
  ASSUME TaskInv, NEW e \in Executors, NEW t, t = executor[e], t.pc \in Handling
  PROVE  /\ t.listed[t.next].id \in DOMAIN SearchAnswers
         /\ t.listed[t.next].id \in DOMAIN Answers
         /\ CurrentLead(e).id = t.listed[t.next].id
<1>1. t.listed \in Seq(Leads) /\ t.next \in 1 .. Len(t.listed)
  BY DEF TaskInv, TaskOK, Handling
<1>2. PICK h \in Leads : h = t.listed[t.next]
  BY <1>1
<1>3. CurrentLead(e).id = h.id
  BY <1>2 DEF CurrentLead, LeadOf
<1> QED
  BY <1>2, <1>3, LeadAnswered

(* A search leaves URLs that are known pages, or nothing.                  *)
LEMMA SearchGathers ==
  ASSUME TaskInv, GatheredInv, NEW e \in Executors, Search(e)
  PROVE  GatheredInv'
<1> PICK t : t = executor[e]
  OBVIOUS
<1>1. Shape(t) /\ t.pc = "search" /\ t.pc \in Handling
  BY DEF TaskInv, TaskOK, Search, Handling
<1>2. PICK lead : lead = CurrentLead(e) /\ lead.id \in DOMAIN SearchAnswers
                  /\ lead.id = t.listed[t.next].id
  BY <1>1, LeadAt
<1> DEFINE Selected(found) ==
             SelectFetchUrls(lead.domain, Slice(found, SearchBudget), FetchBudget)
<1>3. PICK found \in SearchAnswers[lead.id] :
        /\ Observe(e, "SEARCH_RESULT", Slice(found, SearchBudget))
        /\ executor' = [executor EXCEPT ![e].urls = Selected(found),
                          ![e].pc = IF Selected(found) = <<>> THEN "persist" ELSE "fetch"]
  BY <1>2 DEF Search
<1>4. PICK urls : urls = Selected(found)
  OBVIOUS
<1>5. /\ Observe(e, "SEARCH_RESULT", Slice(found, SearchBudget))
      /\ executor' = [executor EXCEPT ![e].urls = urls,
                        ![e].pc = IF urls = <<>> THEN "persist" ELSE "fetch"]
  BY <1>3, <1>4
<1>6. urls \in Seq(DOMAIN PageAnswers)
  <2>1. found \in Seq(DOMAIN PageAnswers)
    BY <1>2, <1>3, ProviderAssumption
  <2>2. Slice(found, SearchBudget) \in Seq(DOMAIN PageAnswers)
    BY <2>1, SliceType, BudgetAssumption
  <2> QED
    BY <1>4, <2>2, SelectedUrls, BudgetAssumption
<1>7. observations \subseteq observations'
  BY <1>5, ObservationStored
<1> PICK p : p = IF urls = <<>> THEN "persist" ELSE "fetch"
  OBVIOUS
<1> PICK u : u = WithUrls(t, p, urls)
  OBVIOUS
<1>8. executor' = [executor EXCEPT ![e] = u]
  BY <1>5 DEF TaskInv, WithUrls
<1>9. /\ u.key = t.key /\ u.listed = t.listed /\ u.next = t.next /\ u.urls = urls
      /\ u.candidates = t.candidates
  BY <1>1, UrlFields
<1>10. GatheredOK(t)
  BY DEF GatheredInv
<1>11. GatheredOK(u)
  BY <1>1, <1>6, <1>9, <1>10 DEF GatheredOK
<1>12. GatheredOK(u)'
  BY <1>7, <1>11, GatheredGrows
<1>13. MatchesAreGrounded'
  <2>1. UNCHANGED <<decisionRows, candidateRows>>
    BY DEF Search
  <2> QED
    BY <1>7, <2>1, GroundsKept DEF GatheredInv
<1> QED
  BY <1>7, <1>8, <1>12, <1>13, GatheredKept

(* The pages that were fetched from the URLs.                              *)
PagesOf(urls, page) ==
  [i \in DOMAIN urls |-> [url |-> urls[i], final |-> page[i].final, text |-> page[i].text]]

(* The evidence made of fetched pages: a list whose ids are the places and *)
(* URLs that the pages were reached under.                                 *)
LEMMA EvidenceOfPages ==
  ASSUME NEW urls \in Seq(DOMAIN PageAnswers), NEW page,
         \A i \in DOMAIN urls : page[i] \in PageAnswers[urls[i]],
         NEW pages, pages = PagesOf(urls, page),
         ~EvidenceRaises(pages), NEW evidence, evidence = EvidenceInputs(pages)
  PROVE  /\ IsList(evidence) /\ DOMAIN evidence = DOMAIN urls
         /\ \A i \in DOMAIN urls : /\ evidence[i].id[1] = i
                                   /\ evidence[i].id[2] \in Reached(urls[i])
         /\ \A i \in DOMAIN evidence : IsList(MentionsIn[evidence[i].text])
<1>1. evidence = [i \in DOMAIN urls |-> evidence[i]]
  BY DEF EvidenceInputs, PagesOf
<1>2. \A i \in DOMAIN urls :
        /\ pages[i].text = page[i].text /\ pages[i].text # NoText
        /\ PageUrl(pages[i]) = PageUrl([url |-> urls[i], final |-> page[i].final])
  BY DEF PageUrl, EvidenceRaises, PagesOf
<1>3. \A i \in DOMAIN urls : /\ evidence[i].id = <<i, PageUrl(pages[i])>>
                             /\ evidence[i].text = pages[i].text
  BY DEF EvidenceInputs, PagesOf
<1>4. IsList(evidence)
  <2>1. IsList(urls)
    BY DEF IsList
  <2> QED
    BY <1>1, <2>1, MadeList
<1>5. ASSUME NEW i \in DOMAIN urls
      PROVE  /\ evidence[i].id[1] = i /\ evidence[i].id[2] \in Reached(urls[i])
             /\ IsList(MentionsIn[evidence[i].text])
  <2>1. urls[i] \in DOMAIN PageAnswers /\ page[i] \in PageAnswers[urls[i]]
    OBVIOUS
  <2>2. PageUrl(pages[i]) \in Reached(urls[i])
    BY <1>2, <2>1 DEF Reached
  <2>3. page[i].text \in DOMAIN MentionsIn
    BY <1>2, <2>1, ProviderAssumption
  <2>4. evidence[i].text = page[i].text /\ evidence[i].id = <<i, PageUrl(pages[i])>>
    BY <1>2, <1>3
  <2>5. IsList(MentionsIn[evidence[i].text])
    BY <2>3, <2>4, ProviderAssumption
  <2> QED
    BY <2>2, <2>4, <2>5
<1> QED
  BY <1>1, <1>4, <1>5

(* An extraction, the provider's or the deterministic one, lists entities. *)
LEMMA ExtractedList ==
  ASSUME NEW id \in DOMAIN Answers, NEW answer \in Answers[id], NEW evidence, IsList(evidence),
         \A i \in DOMAIN evidence : IsList(MentionsIn[evidence[i].text])
  PROVE  IsList(Extract(answer, evidence).entities)
<1>1. CASE answer.refs \subseteq DOMAIN evidence
  <2>1. Extract(answer, evidence).entities = answer.entities
    BY <1>1 DEF Extract
  <2> QED
    BY <2>1, ProviderAssumption
<1>2. CASE ~(answer.refs \subseteq DOMAIN evidence)
  BY <1>2, MentionsList DEF Extract
<1> QED
  BY <1>1, <1>2

(* A fetch records the pages its candidates then cite.                     *)
LEMMA FetchGathers ==
  ASSUME TaskInv, GatheredInv, NEW e \in Executors, Fetch(e)
  PROVE  GatheredInv'
<1> PICK t : t = executor[e]
  OBVIOUS
<1>1. Shape(t) /\ t.pc = "fetch" /\ t.pc \in Handling
  BY DEF TaskInv, TaskOK, Fetch, Handling
<1>2. PICK lead : lead = CurrentLead(e) /\ lead.id \in DOMAIN Answers
                  /\ lead.id = t.listed[t.next].id
  BY <1>1, LeadAt
<1> DEFINE Move(l, answer, us, ps) == executor' = [executor EXCEPT ![e] =
             IF us = <<>> THEN [@ EXCEPT !.pc = "persist", !.candidates = <<>>]
             ELSE IF \/ EvidenceRaises(ps)
                     \/ CandidatesRaise(l, Extract(answer, EvidenceInputs(ps)), EvidenceInputs(ps))
             THEN [@ EXCEPT !.pc = "fail"]
             ELSE [@ EXCEPT !.pc = "persist",
                     !.candidates = CandidateObjects(l, Extract(answer, EvidenceInputs(ps)),
                                                     EvidenceInputs(ps))]]
           Answered(l, us) == \E page \in [DOMAIN us -> UNION {PageAnswers[u] : u \in ToSet(us)}] :
             /\ \A i \in DOMAIN us : page[i] \in PageAnswers[us[i]]
             /\ \E answer \in Answers[l.id] : Move(l, answer, us, PagesOf(us, page))
<1>3. \E answered \in SUBSET DOMAIN executor[e].urls :
        /\ Observe(e, "FETCH_RESULT", At(executor[e].urls, answered))
        /\ Answered(CurrentLead(e), At(executor[e].urls, answered))
  BY Zenon DEF Fetch, PagesOf
<1>4. PICK urls \in Seq(DOMAIN PageAnswers) :
        Observe(e, "FETCH_RESULT", urls) /\ Answered(lead, urls)
  <2> HIDE DEF Answered
  <2>1. PICK answered \in SUBSET DOMAIN t.urls :
          /\ Observe(e, "FETCH_RESULT", At(t.urls, answered))
          /\ Answered(lead, At(t.urls, answered))
    BY <1>2, <1>3
  <2>2. t.urls \in Seq(DOMAIN PageAnswers)
    BY <1>1 DEF GatheredInv, GatheredOK
  <2>3. At(t.urls, answered) \in Seq({t.urls[i] : i \in answered})
    BY <2>2, AtList DEF IsList
  <2>4. {t.urls[i] : i \in answered} \subseteq DOMAIN PageAnswers
    BY <2>2
  <2> QED
    BY <2>1, <2>3, <2>4
<1>5. PICK page : /\ \A i \in DOMAIN urls : page[i] \in PageAnswers[urls[i]]
                  /\ \E answer \in Answers[lead.id] : Move(lead, answer, urls, PagesOf(urls, page))
  <2> HIDE DEF Move
  <2> QED
    BY <1>4, Zenon DEF Answered
<1> HIDE DEF Answered
<1> PICK pages : pages = PagesOf(urls, page)
  OBVIOUS
<1> PICK evidence : evidence = EvidenceInputs(pages)
  OBVIOUS
<1> HIDE DEF Move
<1>6. PICK answer \in Answers[lead.id] :
        \/ executor' = [executor EXCEPT ![e] = Moving(t, "fail")]
        \/ executor' = [executor EXCEPT ![e] = WithCandidates(t, "persist", <<>>)]
        \/ /\ ~EvidenceRaises(pages)
           /\ executor' = [executor EXCEPT ![e] = WithCandidates(t, "persist",
                CandidateObjects(lead, Extract(answer, evidence), evidence))]
  <2>1. PICK answer \in Answers[lead.id] : Move(lead, answer, urls, pages)
    BY <1>5
  <2> QED
    BY <2>1, Zenon DEF Move, Moving, WithCandidates
<1>7. /\ observations \subseteq observations'
      /\ \A i \in DOMAIN urls : \E o \in observations' :
           /\ o.run = t.key /\ o.lead = lead.id /\ o.kind = "FETCH_RESULT"
           /\ o.position = i /\ o.url = urls[i]
  BY <1>2, <1>4, ObservationStored
<1>8. MatchesAreGrounded'
  <2>1. UNCHANGED <<decisionRows, candidateRows>>
    BY DEF Fetch
  <2> QED
    BY <1>7, <2>1, GroundsKept DEF GatheredInv
<1>9. CASE executor' = [executor EXCEPT ![e] = Moving(t, "fail")]
  <2> PICK u : u = Moving(t, "fail")
    OBVIOUS
  <2>1. u.pc = "fail"
    BY <1>1, MovingFields
  <2>2. GatheredOK(u)'
    BY <2>1, NothingGathered DEF Handling
  <2> QED
    BY <1>7, <1>8, <1>9, <2>2, GatheredKept
<1>10. CASE executor' = [executor EXCEPT ![e] = WithCandidates(t, "persist", <<>>)]
  <2> PICK u : u = WithCandidates(t, "persist", <<>>)
    OBVIOUS
  <2>1. u.pc = "persist" /\ u.candidates = <<>>
    BY <1>1, CandidateFields
  <2>2. GatheredOK(u)'
    BY <2>1, NothingGathered
  <2> QED
    BY <1>7, <1>8, <1>10, <2>2, GatheredKept
<1>11. CASE /\ ~EvidenceRaises(pages)
           /\ executor' = [executor EXCEPT ![e] = WithCandidates(t, "persist",
                CandidateObjects(lead, Extract(answer, evidence), evidence))]
  <2> PICK found : found = CandidateObjects(lead, Extract(answer, evidence), evidence)
    OBVIOUS
  <2>1. ~EvidenceRaises(pages) /\ \A i \in DOMAIN urls : page[i] \in PageAnswers[urls[i]]
    BY <1>5, <1>11
  <2>2. lead.id \in DOMAIN Answers /\ answer \in Answers[lead.id]
    BY <1>2, <1>6
  <2>3. /\ IsList(evidence) /\ DOMAIN evidence = DOMAIN urls
        /\ \A i \in DOMAIN urls : /\ evidence[i].id[1] = i
                                  /\ evidence[i].id[2] \in Reached(urls[i])
        /\ \A i \in DOMAIN evidence : IsList(MentionsIn[evidence[i].text])
    BY <1>4, <2>1, EvidenceOfPages
  <2> PICK extraction : extraction = Extract(answer, evidence)
    OBVIOUS
  <2>4. IsList(extraction.entities)
    BY <2>3, <2>2, ExtractedList
  <2>5. found = CandidateObjects(lead, extraction, evidence)
    OBVIOUS
  <2>6. IsList(found) /\ CitesOnly(found, evidence)
    BY <2>4, <2>5, CandidatesCite
  <2>7. \A i \in DOMAIN evidence : Fetched(t.key, lead.id, evidence[i].id)'
    BY <1>7, <2>3 DEF Fetched
  <2>8. \A c \in Entries(found) : \A ref \in c.refs : Fetched(t.key, lead.id, ref)'
    BY <2>6, <2>7 DEF CitesOnly
  <2> PICK u : u = WithCandidates(t, "persist", found)
    OBVIOUS
  <2>9. /\ u.key = t.key /\ u.listed = t.listed /\ u.next = t.next /\ u.pc = "persist"
        /\ u.candidates = found
    BY <1>1, CandidateFields
  <2>10. GatheredOK(u)'
    BY <1>2, <2>6, <2>8, <2>9 DEF GatheredOK
  <2> QED
    BY <1>7, <1>8, <1>11, <2>10, GatheredKept
<1> QED
  BY <1>6, <1>9, <1>10, <1>11

(* A candidate that is inserted, or was there under its key, is stored.    *)
LEMMA CandidateStored ==
  ASSUME NEW k, NEW lead, NEW s, InsertCandidates(k, lead, s), NEW f \in FirstWithId(s)
  PROVE  \E c \in candidateRows' : c.run = k /\ c.id = f.id
<1> DEFINE Row(c) == [run |-> k, id |-> c.id, lead |-> lead, refs |-> c.refs]
<1>1. candidateRows' = candidateRows \cup
        {r \in {Row(c) : c \in FirstWithId(s)} : \A x \in candidateRows : RowKey(x) # RowKey(r)}
  BY DEF InsertCandidates, Missed
<1>2. \E x \in candidateRows' : RowKey(x) = RowKey(Row(f))
  <2> HIDE DEF Row
  <2>1. CASE \E x \in candidateRows : RowKey(x) = RowKey(Row(f))
    BY <1>1, <2>1
  <2>2. CASE ~ \E x \in candidateRows : RowKey(x) = RowKey(Row(f))
    BY <1>1, <2>2
  <2> QED
    BY <2>1, <2>2
<1>3. ASSUME NEW x, RowKey(x) = RowKey(Row(f)) PROVE x.run = k /\ x.id = f.id
  BY <1>3 DEF RowKey
<1> QED
  BY <1>2, <1>3

(* A match that is stored cites what its candidates cite.                  *)
LEMMA PersistGathers ==
  ASSUME TaskInv, StoreInv, GatheredInv, NEW e \in Executors, Persist(e)
  PROVE  GatheredInv'
<1> PICK t : t = executor[e]
  OBVIOUS
<1> PICK d : d = Decision(e)
  OBVIOUS
<1>1. Shape(t) /\ t.pc = "persist" /\ t.pc \in Handling /\ GatheredOK(t)
  BY DEF TaskInv, TaskOK, Persist, Handling, GatheredInv
<1>2. \/ UNCHANGED dbVars /\ executor' = [executor EXCEPT ![e] = Moving(t, "fail")]
      \/ /\ InsertCandidates(t.key, d.lead, t.candidates) /\ UNCHANGED observations
         /\ decisionRows' \subseteq decisionRows \cup {[run |-> t.key, decision |-> d]}
         /\ executor' = [executor EXCEPT ![e] = NextLead(t, t.next + 1)]
  BY DEF Persist, Moving
<1>3. CASE UNCHANGED dbVars /\ executor' = [executor EXCEPT ![e] = Moving(t, "fail")]
  <2> PICK u : u = Moving(t, "fail")
    OBVIOUS
  <2>1. u.pc = "fail"
    BY <1>1, MovingFields
  <2>2. GatheredOK(u)'
    BY <2>1, NothingGathered DEF Handling
  <2>3. UNCHANGED <<decisionRows, candidateRows, observations>>
    BY <1>3 DEF dbVars
  <2>4. MatchesAreGrounded'
    BY <2>3, GroundsKept DEF GatheredInv
  <2> QED
    BY <1>3, <2>2, <2>3, <2>4, GatheredKept
<1>4. CASE /\ InsertCandidates(t.key, d.lead, t.candidates) /\ UNCHANGED observations
           /\ decisionRows' \subseteq decisionRows \cup {[run |-> t.key, decision |-> d]}
           /\ executor' = [executor EXCEPT ![e] = NextLead(t, t.next + 1)]
  <2> PICK u : u = NextLead(t, t.next + 1)
    OBVIOUS
  <2>1. u.pc \in {"search", "complete"} /\ u.candidates = <<>>
    BY <1>1, TaskFields
  <2>2. GatheredOK(u)'
    BY <2>1, NothingGathered DEF Handling
  <2>3. candidateRows \subseteq candidateRows'
    BY <1>4 DEF InsertCandidates
  <2>4. d.lead = t.listed[t.next].id
    BY DecisionLead
  <2>5. ASSUME Matched(d)
        PROVE  /\ \E c \in candidateRows' : c.run = t.key /\ c.id = d.entity
               /\ \A ref \in d.refs : Fetched(t.key, d.lead, ref)
    <3>1. IsList(t.candidates) /\ \A c \in Entries(t.candidates) : \A ref \in c.refs :
            Fetched(t.key, t.listed[t.next].id, ref)
      BY <1>1 DEF GatheredOK
    <3>2. d = ResolveEntity(CurrentLead(e), t.candidates, {}, CandidateBudget)
      BY DEF Decision
    <3>3. PICK c \in Entries(t.candidates) : d.entity = c.id /\ d.refs = c.refs
      BY <2>5, <3>1, <3>2, MatchIsCandidate, BudgetAssumption
    <3>4. PICK f \in FirstWithId(t.candidates) : f.id = c.id
      BY <3>1, FirstIsThere
    <3>5. \E x \in candidateRows' : x.run = t.key /\ x.id = f.id
      BY <1>4, CandidateStored
    <3> QED
      BY <2>4, <3>1, <3>3, <3>4, <3>5
  <2>6. ASSUME NEW r \in decisionRows', Matched(r.decision)
        PROVE  /\ \E c \in candidateRows' : c.run = r.run /\ c.id = r.decision.entity
               /\ \A ref \in r.decision.refs : Fetched(r.run, r.decision.lead, ref)
    <3>1. CASE r \in decisionRows
      BY <2>3, <2>6, <3>1 DEF GatheredInv, MatchesAreGrounded, Fetched
    <3>2. CASE r.run = t.key /\ r.decision = d
      BY <2>5, <2>6, <3>2
    <3> QED
      BY <1>4, <3>1, <3>2
  <2>7. MatchesAreGrounded'
    BY <1>4, <2>6 DEF MatchesAreGrounded, Fetched
  <2> QED
    BY <1>4, <2>2, <2>7, GatheredKept
<1> QED
  BY <1>2, <1>3, <1>4

(* Every other step of an executor leaves the task with nothing gathered.  *)
LEMMA OthersGather ==
  ASSUME TaskInv, GatheredInv, NEW e \in Executors,
         \/ \E k \in RequestKeys : ListHandoffs(e, k)
         \/ CreateRun(e) \/ Unavailable(e) \/ Raise(e) \/ Complete(e) \/ Fail(e) \/ Die(e)
  PROVE  GatheredInv'
<1> PICK t : t = executor[e]
  OBVIOUS
<1>1. Shape(t)
  BY DEF TaskInv, TaskOK
<1>2. UNCHANGED <<decisionRows, candidateRows, observations>>
  BY DEF ListHandoffs, CreateRun, Unavailable, Raise, Complete, Fail, Finish, Die, dbVars
<1>3. MatchesAreGrounded'
  BY <1>2, GroundsKept DEF GatheredInv
<1>4. ASSUME NEW u, executor' = [executor EXCEPT ![e] = u],
             \/ u.pc \notin Handling
             \/ u.pc \in {"search", "persist"} /\ u.candidates = <<>>
      PROVE  GatheredInv'
  <2>1. GatheredOK(u)'
    BY <1>4, NothingGathered
  <2> QED
    BY <1>2, <1>3, <1>4, <2>1, GatheredKept
<1>5. CASE \E k \in RequestKeys : ListHandoffs(e, k)
  <2>1. PICK k \in RequestKeys, order \in Listings(Limit) : executor' = [executor EXCEPT ![e] =
            [NoTask EXCEPT !.pc = "create", !.key = k, !.listed = ListedLeads(order)]]
    BY <1>5 DEF ListHandoffs
  <2> PICK listed : listed = ListedLeads(order)
    OBVIOUS
  <2> PICK u : u = [NoTask EXCEPT !.pc = "create", !.key = k, !.listed = listed]
    OBVIOUS
  <2>2. u.pc = "create"
    BY DEF NoTask
  <2> QED
    BY <1>4, <2>1, <2>2 DEF Handling
<1>6. CASE CreateRun(e)
  <2>1. \/ executor' = [executor EXCEPT ![e] = NextLead(t, 1)]
        \/ executor' = [executor EXCEPT ![e] = NoTask]
    BY <1>6 DEF CreateRun
  <2> PICK u : u = NextLead(t, 1)
    OBVIOUS
  <2>2. u.pc \in {"search", "complete"} /\ u.candidates = <<>> /\ NoTask.pc = "idle"
    BY <1>1, TaskFields DEF NoTask
  <2> QED
    BY <1>4, <2>1, <2>2 DEF Handling
<1>7. CASE Unavailable(e)
  <2> PICK v : v = t.unavailable + 1
    OBVIOUS
  <2> PICK u : u = WithNothing(t, "persist", v)
    OBVIOUS
  <2>1. executor' = [executor EXCEPT ![e] = u]
    BY <1>7 DEF Unavailable, TaskInv, WithNothing
  <2>2. u.pc = "persist" /\ u.candidates = <<>>
    BY <1>1, NothingFields
  <2> QED
    BY <1>4, <2>1, <2>2
<1>8. CASE Raise(e)
  <2> PICK u : u = Moving(t, "fail")
    OBVIOUS
  <2>1. executor' = [executor EXCEPT ![e] = u]
    BY <1>8 DEF Raise, Moving
  <2>2. u.pc = "fail"
    BY <1>1, MovingFields
  <2> QED
    BY <1>4, <2>1, <2>2 DEF Handling
<1>9. CASE Complete(e) \/ Fail(e) \/ Die(e)
  <2>1. executor' = [executor EXCEPT ![e] = NoTask] /\ NoTask.pc = "idle"
    BY <1>9 DEF Complete, Fail, Finish, Die, NoTask
  <2> QED
    BY <1>4, <2>1 DEF Handling
<1> QED
  BY <1>5, <1>6, <1>7, <1>8, <1>9

(* A step that changes none of this.                                       *)
LEMMA GatheredSame ==
  GatheredInv /\ UNCHANGED <<executor, observations, candidateRows, decisionRows>> => GatheredInv'
<1> SUFFICES ASSUME GatheredInv,
                    UNCHANGED <<executor, observations, candidateRows, decisionRows>>
             PROVE  GatheredInv'
  OBVIOUS
<1>1. MatchesAreGrounded'
  BY GroundsKept DEF GatheredInv
<1>2. ASSUME NEW e \in Executors PROVE GatheredOK(executor[e])'
  <2> PICK t : t = executor[e]
    OBVIOUS
  <2>1. GatheredOK(t)'
    BY GatheredGrows DEF GatheredInv
  <2> QED
    BY <2>1 DEF GatheredOK
<1> QED
  BY <1>1, <1>2 DEF GatheredInv

(* MatchesAreGrounded (discover to persist_resolution): what a stored match *)
(* cites was fetched for its lead in its run, and its entity is stored.  It *)
(* speaks of the behaviours whose candidate insert is repaired; of the      *)
(* others NoMatchAsItStands says that there is no match.                    *)
THEOREM GroundsCorrect == Spec => []MatchesAreGrounded
<1>1. Init => GatheredInv
  BY GatheredStart
<1>2. PipelineInv /\ GatheredInv /\ [Next]_pipelineVars => GatheredInv'
  <2> SUFFICES ASSUME PipelineInv, GatheredInv, [Next]_pipelineVars PROVE GatheredInv'
    OBVIOUS
  <2>1. TaskInv /\ StoreInv
    BY DEF PipelineInv
  <2>2. CASE UNCHANGED phase2Vars \/ UNCHANGED pipelineVars
    BY <2>2, GatheredSame DEF phase2Vars, pipelineVars
  <2>3. CASE ResolutionNext
    BY <2>1, <2>3, SearchGathers, FetchGathers, PersistGathers, OthersGather DEF ResolutionNext
  <2> QED
    BY <2>2, <2>3 DEF Next
<1>3. GatheredInv => MatchesAreGrounded
  BY DEF GatheredInv
<1> QED
  BY <1>1, <1>2, <1>3, Invariance, PTL DEF Spec

(* A step stores a candidate only where the insert does not raise.          *)
LEMMA NothingInserted ==
  ASSUME "placeholders" \notin repaired, candidateRows = {}, [Next]_pipelineVars
  PROVE  "placeholders" \notin repaired' /\ candidateRows' = {}
<1>1. repaired' = repaired
  BY DEF Next, ResolutionNext, pipelineVars, phase2Vars
<1>2. CASE candidateRows' = candidateRows
  BY <1>1, <1>2
<1>3. CASE \E e \in Executors : Persist(e)
  <2>1. PICK e \in Executors : Persist(e)
    BY <1>3
  <2>2. CASE UNCHANGED dbVars
    BY <1>1, <2>2 DEF dbVars
  <2>3. CASE ~UNCHANGED dbVars
    <3> PICK s : s = executor[e].candidates
      OBVIOUS
    <3>1. /\ ~InsertRaises(s)
          /\ \E k, lead : InsertCandidates(k, lead, s)
      BY <2>1, <2>3 DEF Persist
    <3>2. s = <<>>
      BY <3>1 DEF InsertRaises
    <3>3. FirstWithId(s) = {}
      BY <3>2 DEF FirstWithId
    <3>4. candidateRows' = {}
      BY <3>1, <3>3 DEF InsertCandidates, Missed
    <3> QED
      BY <1>1, <3>4
  <2> QED
    BY <2>2, <2>3
<1>4. candidateRows' = candidateRows \/ \E e \in Executors : Persist(e)
  <2>1. CASE ResolutionNext
    BY <2>1 DEF ResolutionNext, ListHandoffs, CreateRun, Search, Fetch, Unavailable, Raise,
                Complete, Fail, Finish, Die, dbVars
  <2>2. CASE UNCHANGED phase2Vars \/ UNCHANGED pipelineVars
    BY <2>2 DEF phase2Vars, pipelineVars
  <2> QED
    BY <2>1, <2>2 DEF Next
<1> QED
  BY <1>2, <1>3, <1>4

(* Where nobody repaired the candidate insert (persist_resolution, the code *)
(* as it stands), no candidate is ever stored, and so no match either: what *)
(* such a run decides are the leads that nothing was found for.             *)
THEOREM NoMatchAsItStands ==
  Spec => []("placeholders" \notin repaired =>
               candidateRows = {} /\ \A r \in decisionRows : ~Matched(r.decision))
<1> DEFINE Empty == "placeholders" \notin repaired => candidateRows = {}
<1>1. Init => Empty
  BY DEF Init, ResolutionInit
<1>2. Empty /\ [Next]_pipelineVars => Empty'
  <2>1. [Next]_pipelineVars => repaired' = repaired
    BY DEF Next, ResolutionNext, pipelineVars, phase2Vars
  <2> QED
    BY <2>1, NothingInserted
<1>3. Empty /\ MatchesAreGrounded =>
        ("placeholders" \notin repaired =>
           candidateRows = {} /\ \A r \in decisionRows : ~Matched(r.decision))
  BY DEF MatchesAreGrounded
<1> HIDE DEF Empty
<1> QED
  BY <1>1, <1>2, <1>3, GroundsCorrect, PTL DEF Spec

-----------------------------------------------------------------------------
(* Phase 2: the rules of a decision, for whatever was extracted.            *)

(* A match has a candidate with strong evidence and nothing against it, and *)
(* no other candidate that was compared has that.                          *)
THEOREM MatchIsUnique ==
  ASSUME NEW lead, NEW candidates, IsList(candidates), NEW relationships, NEW budget \in Nat,
         NEW d, d = ResolveEntity(lead, candidates, relationships, budget), Matched(d)
  PROVE  /\ \E c \in Entries(candidates) :
              c.id = d.entity /\ CompareCandidate(lead, c).eligible
         /\ \A i \in DOMAIN d.comparisons :
              d.comparisons[i].eligible => d.comparisons[i].id = d.entity
<1> PICK selected : selected = GenerateCandidates(lead, candidates, budget)
  OBVIOUS
<1>1. selected \in Seq(Entries(candidates))
  BY SelectedList
<1> PICK comparisons : comparisons = Compare(lead, selected)
  OBVIOUS
<1>2. /\ DOMAIN comparisons = DOMAIN selected
      /\ \A i \in DOMAIN selected : comparisons[i] = CompareCandidate(lead, selected[i])
  BY DEF Compare
<1>3. \A i \in DOMAIN selected : comparisons[i].id = selected[i].id
  BY DEF Compare, CompareCandidate
<1> PICK status : status = Status(comparisons, relationships)
  OBVIOUS
<1>4. status \in MatchedStatuses
  BY DEF ResolveEntity, Matched
<1> DEFINE eligible == {c \in ToSet(comparisons) : c.eligible}
           ids == {c.id : c \in eligible}
<1>5. eligible # {} /\ ~(Cardinality(ids) > 1)
  BY <1>4 DEF Status, MatchedStatuses
<1>6. PICK one : ids = {one}
  <2>1. PICK n \in Nat : DOMAIN comparisons = 1 .. n
    BY <1>1, <1>2
  <2>2. IsFiniteSet(DOMAIN comparisons)
    BY <2>1, FS_Interval
  <2> DEFINE J == {j \in DOMAIN comparisons : comparisons[j].eligible}
             f == [j \in J |-> comparisons[j].id]
  <2>3. IsFiniteSet(J)
    BY <2>2, FS_Subset
  <2>4. ids = {comparisons[j].id : j \in J}
    BY DEF ToSet
  <2>5. f \in Surjection(J, ids)
    BY <2>4 DEF Surjection
  <2>6. IsFiniteSet(ids)
    BY <2>3, <2>5, FS_Surjection
  <2>7. ids # {}
    BY <1>5
  <2> HIDE DEF ids
  <2>8. Cardinality(ids) \in Nat /\ Cardinality(ids) # 0
    BY <2>6, <2>7, FS_CardinalityType, FS_EmptySet
  <2>9. Cardinality(ids) = 1
    BY <1>5, <2>8
  <2> QED
    BY <2>6, <2>9, FS_Singleton
<1> PICK top : top = CHOOSE c \in ToSet(comparisons) : c.eligible
  OBVIOUS
<1>7. top \in eligible
  BY <1>5
<1>8. PICK i \in DOMAIN selected : top = comparisons[i]
  BY <1>2, <1>7 DEF ToSet
<1>9. d.entity = top.id /\ d.comparisons = comparisons
  <2>1. d.entity = TopCandidate(selected, comparisons).id /\ d.comparisons = comparisons
    BY <1>4 DEF ResolveEntity
  <2> DEFINE places == {j \in DOMAIN selected : selected[j].id = top.id}
  <2>2. i \in places
    BY <1>3, <1>8
  <2>3. DOMAIN selected \in SUBSET Nat
    BY <1>1
  <2>4. places \in SUBSET Nat
    BY <2>3
  <2> PICK first : first = CHOOSE m \in places : \A j \in places : m <= j
    OBVIOUS
  <2>5. TopCandidate(selected, comparisons) = selected[first]
    BY DEF TopCandidate
  <2>6. first \in places
    <3> HIDE DEF places
    <3> QED
      BY <2>2, <2>4, LeastNat
  <2> QED
    BY <2>1, <2>5, <2>6
<1>10. selected[i] \in Entries(candidates) /\ selected[i].id = d.entity
       /\ CompareCandidate(lead, selected[i]).eligible
  BY <1>1, <1>2, <1>3, <1>7, <1>8, <1>9
<1>11. ASSUME NEW j \in DOMAIN comparisons, comparisons[j].eligible
       PROVE  comparisons[j].id = top.id
  <2>1. comparisons[j] \in eligible
    BY <1>11 DEF ToSet
  <2> QED
    BY <1>6, <1>7, <2>1
<1> QED
  BY <1>9, <1>10, <1>11

(* What a candidate made of an entity says.                                *)
LEMMA ResearchFields ==
  ASSUME NEW lead, NEW evidence, NEW claims, NEW e,
         NEW c, c = ResearchCandidate(lead, evidence, claims, e)
  PROVE  /\ c.type = e.type /\ c.refs = EvidenceIds(evidence, e.refs) /\ c.id # NoId
         /\ c.kept => e.type \in KnownEntityTypes /\ EvidenceIds(evidence, e.refs) # {}
         /\ c.flags # {} => FirstParty(lead, evidence, e.refs) # {}
<1>1. c.type = e.type /\ c.refs = EvidenceIds(evidence, e.refs)
  BY DEF ResearchCandidate
<1>2. c.id # NoId
  BY DEF ResearchCandidate, CandidateId, NoId
<1>3. c.kept => e.type \in KnownEntityTypes /\ EvidenceIds(evidence, e.refs) # {}
  BY DEF ResearchCandidate
<1>4. c.flags # {} => FirstParty(lead, evidence, e.refs) # {}
  BY DEF ResearchCandidate
<1> QED
  BY <1>1, <1>2, <1>3, <1>4

(* What every candidate of the provider has: an id, a known type, evidence, *)
(* and a page of the lead's own site behind each of its identity flags.     *)
LEMMA CandidateShape ==
  ASSUME NEW lead, NEW extraction, IsList(extraction.entities), NEW evidence,
         NEW c \in Entries(CandidateObjects(lead, extraction, evidence))
  PROVE  /\ c.id # NoId /\ c.type # "UNKNOWN" /\ c.refs # {}
         /\ c.flags # {} => FirstParty(lead, evidence, DOMAIN evidence) # {}
<1> DEFINE Good(x) == /\ x.id # NoId /\ x.type # "UNKNOWN" /\ x.refs # {}
                      /\ x.flags # {} => FirstParty(lead, evidence, DOMAIN evidence) # {}
           Made(n) == ResearchCandidate(lead, evidence, extraction.currentness,
                                        extraction.entities[n])
<1> PICK found : found = CandidateObjects(lead, extraction, evidence)
  OBVIOUS
<1> PICK made : made = MadeOf(lead, extraction, evidence)
  OBVIOUS
<1>0. made = [n \in DOMAIN extraction.entities |-> Made(n)]
  BY DEF MadeOf
<1>1. IsList(made)
  BY <1>0, MadeList
<1>2. ASSUME NEW n \in DOMAIN made, made[n].kept PROVE Good(made[n])
  <2> PICK x : x = extraction.entities[n]
    OBVIOUS
  <2>1. made[n] = ResearchCandidate(lead, evidence, extraction.currentness, x)
    BY <1>0
  <2>2. x.type \in KnownEntityTypes /\ EvidenceIds(evidence, x.refs) # {}
    BY <1>2, <2>1, ResearchFields
  <2>3. made[n].type = x.type /\ made[n].refs = EvidenceIds(evidence, x.refs)
    BY <2>1, ResearchFields
  <2>4. made[n].id # NoId
    BY <2>1, ResearchFields
  <2>5. made[n].flags # {} => FirstParty(lead, evidence, x.refs) # {}
    BY <2>1, ResearchFields
  <2>6. FirstParty(lead, evidence, x.refs) \subseteq FirstParty(lead, evidence, DOMAIN evidence)
    BY DEF FirstParty
  <2> QED
    BY <2>2, <2>3, <2>4, <2>5, <2>6 DEF KnownEntityTypes
<1> PICK own : own = FirstPartyCandidate(lead, evidence)
  OBVIOUS
<1>3. own.refs # {} => Good(own)
  <2>1. own.id # NoId /\ own.type = "BRAND"
    BY DEF FirstPartyCandidate, CandidateId, NoId
  <2>2. own.refs = EvidenceIds(evidence, FirstParty(lead, evidence, DOMAIN evidence))
    BY DEF FirstPartyCandidate
  <2>3. own.refs # {} => FirstParty(lead, evidence, DOMAIN evidence) # {}
    BY <2>2 DEF EvidenceIds
  <2> QED
    BY <2>1, <2>3
<1>4. PICK I \in SUBSET DOMAIN made : I = KeptOf(made) /\ \A n \in I : made[n].kept
  <2>1. KeptOf(made) \in SUBSET DOMAIN made /\ \A n \in KeptOf(made) : made[n].kept
    BY KeptPlaces
  <2> QED
    BY <2>1
<1> PICK s : s = At(made, I)
  OBVIOUS
<1>5. \/ found = s
      \/ found = Append(s, own) /\ own.refs # {}
  <2> HIDE DEF Good
  <2> QED
    BY <1>4, CandidateList
<1>6. s \in Seq({made[n] : n \in I})
  BY <1>1, AtList
<1> DEFINE X == {made[n] : n \in I} \cup {x \in {own} : own.refs # {}}
<1>7. \A x \in X : Good(x)
  <2> HIDE DEF Good
  <2> QED
    BY <1>2, <1>3, <1>4
<1>8. s \in Seq(X) /\ (own.refs # {} => own \in X)
  BY <1>6
<1> HIDE DEF X, Good
<1>9. found \in Seq(X)
  BY <1>5, <1>8, AppendProperties
<1>10. Entries(found) \subseteq X
  BY <1>9, SeqIsList
<1> QED
  BY <1>7, <1>10 DEF Good

(* The contract of a decision (validate_state_contract) never refuses what  *)
(* resolve_entity makes of the provider's candidates.                      *)
THEOREM DecisionsAreValid ==
  ASSUME NEW lead, NEW extraction, IsList(extraction.entities), NEW evidence,
         NEW relationships, NEW budget \in Nat,
         NEW d, d = ResolveEntity(lead, CandidateObjects(lead, extraction, evidence),
                                  relationships, budget)
  PROVE  ValidDecision(d)
<1> PICK found : found = CandidateObjects(lead, extraction, evidence)
  OBVIOUS
<1>1. IsList(found)
  BY CandidatesCite
<1>2. ASSUME Matched(d) PROVE d.entity # NoId /\ d.type # "UNKNOWN" /\ d.refs # {}
  <2>1. PICK c \in Entries(found) : d.entity = c.id /\ d.refs = c.refs /\ d.type = c.type
    BY <1>1, <1>2, MatchIsCandidate
  <2> QED
    BY <2>1, CandidateShape
<1>3. d.status = "MATCHED_WITH_RELATIONSHIP" => d.relationships # {}
  BY DEF ResolveEntity, Status, MatchedStatuses
<1>4. ~Matched(d) => d.entity = NoId
  BY DEF ResolveEntity, Matched, NoEntity
<1> QED
  BY <1>2, <1>3, <1>4 DEF ValidDecision

(* No lead is matched unless one of the pages that were read is of the      *)
(* lead's own site (_candidate_objects, compare_candidate, resolve_entity). *)
THEOREM MatchReadsOwnSite ==
  ASSUME NEW lead, NEW extraction, IsList(extraction.entities), NEW evidence,
         NEW relationships, NEW budget \in Nat,
         NEW d, d = ResolveEntity(lead, CandidateObjects(lead, extraction, evidence),
                                  relationships, budget),
         Matched(d)
  PROVE  FirstParty(lead, evidence, DOMAIN evidence) # {}
<1> PICK found : found = CandidateObjects(lead, extraction, evidence)
  OBVIOUS
<1>1. IsList(found)
  BY CandidatesCite
<1>2. PICK c \in Entries(found) : CompareCandidate(lead, c).eligible
  BY <1>1, MatchIsUnique
<1>3. Signals(lead, c) \cap StrongCodes # {}
  BY <1>2 DEF CompareCandidate
<1>4. c.flags # {}
  <2> SUFFICES ASSUME c.flags = {} PROVE Signals(lead, c) \cap StrongCodes = {}
    BY <1>3
  <2>1. Signals(lead, c) \subseteq {"normalized_company_name", "geography_match", "name_similarity"}
    BY DEF Signals
  <2> QED
    BY <2>1 DEF StrongCodes
<1> QED
  BY <1>4, CandidateShape
==============================================================================
