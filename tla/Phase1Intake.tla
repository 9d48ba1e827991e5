---------------------------- MODULE Phase1Intake ----------------------------
(***************************************************************************)
(* Phase 1, lead intake: an ingestion run                                  *)
(* (scripts/ingest_scrapercity_phase1.py) adapts the rows of a file to     *)
(* source records, loads the records already stored, judges every row of   *)
(* the batch (phase1/pipeline.py with its validation and normalisation)    *)
(* and only then persists the results, one transaction per row             *)
(* (phase1/repository.py).  Several runs may overlap and each may die      *)
(* between two statements.                                                 *)
(*                                                                         *)
(* A file is [at, rows]: the acquisition time and the payloads of its      *)
(* rows.  The payload p has the fields DOMAIN Observed[p] with their raw   *)
(* values; hashes of payloads are the payloads themselves.                 *)
(***************************************************************************)
EXTENDS HandoffTable, FiniteSets

CONSTANTS
    Ingesters,
    Files,          \* [file name -> [at, rows]]
    Observed,       \* [payload -> [field -> raw value]]
    NormalOf,       \* [field -> [raw value -> normal value or Missing]]
    RawDomains,     \* the raw domains that pass the check of the source record
    GoodDomains,    \* the normal domains that pass the check of the lead
    GoodCountries,  \* the country codes, raw or normal, of two letters
    MaxStarts       \* bound on the ingestion runs of a behaviour

Fields == {"display_name", "legal_name", "domain", "canonical_url", "country_code"}

ASSUME IntakeAssumption ==
    /\ MaxStarts \in Nat
    /\ \A p \in DOMAIN Observed : DOMAIN Observed[p] \subseteq Fields
    /\ \A file \in DOMAIN Files : Files[file].rows \in Seq(DOMAIN Observed) \ {<<>>}

VARIABLES
    sourceRecords,  \* ids of growth.lead_source_records
    states,         \* growth.lead_processing_state, [id -> state]
    projection,     \* growth.lead_canonical_projection, [lead id -> [lead, status]]
    quarantine,     \* unresolved rows of growth.lead_quarantine
    ingester,       \* [pc, file, prior, next] of every ingestion run
    starts

intakeVars == <<sourceRecords, states, projection, quarantine, ingester, starts>>

-----------------------------------------------------------------------------
(* A source record is [key, payload]: the row number is the record key,    *)
(* and the hash of both is the id.  The key alone names the lead.          *)

Record(file, i) == [key |-> i, payload |-> Files[file].rows[i]]

RawValue(p, f) == Observed[p][f]

NormalValue(p, f) ==
    IF f \in DOMAIN Observed[p] THEN NormalOf[f][RawValue(p, f)] ELSE Missing

(* build_canonical_lead; geo stands for the values that describe a place.  *)
CanonicalLead(record) ==
    [id      |-> record.key,
     display |-> NormalValue(record.payload, "display_name"),
     legal   |-> NormalValue(record.payload, "legal_name"),
     domain  |-> NormalValue(record.payload, "domain"),
     url     |-> NormalValue(record.payload, "canonical_url"),
     geo     |-> {NormalValue(record.payload, "country_code")} \ {Missing}]

SourceErrors(record) ==
    LET p == record.payload
    IN  {code \in {"EMPTY_SOURCE_PAYLOAD"} : DOMAIN Observed[p] = {}}
        \cup {code \in {"INVALID_DOMAIN"} :
                /\ "domain" \in DOMAIN Observed[p]
                /\ RawValue(p, "domain") # Missing
                /\ RawValue(p, "domain") \notin RawDomains}

LeadErrors(lead) ==
    {code \in {"MISSING_IDENTITY_ANCHOR"} :
        lead.display = Missing /\ lead.domain = Missing /\ lead.url = Missing}
    \cup {code \in {"INVALID_NORMALIZED_DOMAIN"} :
            lead.domain # Missing /\ lead.domain \notin GoodDomains}

(* Of the warnings only the country can occur: an adapter maps each field  *)
(* once, so no two observations of one field conflict.                     *)
Warned(record) == ~(CanonicalLead(record).geo \subseteq GoodCountries)

Quality(record) ==
    IF SourceErrors(record) \cup LeadErrors(CanonicalLead(record)) # {} THEN "QUARANTINED"
    ELSE IF Warned(record) THEN "ACCEPTED_WITH_WARNINGS" ELSE "ACCEPTED"

AcceptedStates == {"ACCEPTED", "ACCEPTED_WITH_WARNINGS"}

(* _check_duplicate: a replay of a known record, or the payload of another *)
Duplicate(record, existing) ==
    record \in existing \/ \E x \in existing : x.payload = record.payload

(* Faulty variant: the lead is judged, the source record no longer.          *)
BugJudgedState(record, existing) ==
    IF Duplicate(record, existing) THEN "DUPLICATE"
    ELSE IF LeadErrors(CanonicalLead(record)) # {} THEN "QUARANTINED" ELSE "ACCEPTED"

JudgedState(record, existing) ==
    IF Duplicate(record, existing) THEN "DUPLICATE" ELSE Quality(record)

(* Faulty variant: a row is judged against all other rows of the batch.      *)
BugResultState(file, i, prior) ==
    JudgedState(Record(file, i),
                prior \cup {Record(file, j) : j \in DOMAIN Files[file].rows \ {i}})

(* prepare_results: row i is judged against the stored records and the     *)
(* rows before it.                                                         *)
ResultState(file, i, prior) ==
    JudgedState(Record(file, i), prior \cup {Record(file, j) : j \in 1..(i - 1)})

-----------------------------------------------------------------------------
Idle == [pc |-> "idle", file |-> "none", prior |-> {}, next |-> 0]

IntakeInit ==
    /\ sourceRecords = {} /\ states = <<>> /\ projection = <<>> /\ quarantine = {}
    /\ ingester = [i \in Ingesters |-> Idle]
    /\ starts = 0

(* load_source_records: what a run judges its whole batch against.         *)
LoadedRecords == sourceRecords

(* main: load_source_records and prepare_results.                          *)
StartIngest(i, file) ==
    /\ ingester[i].pc = "idle" /\ starts < MaxStarts
    /\ ingester' = [ingester EXCEPT ![i] =
            [pc |-> "check", file |-> file, prior |-> LoadedRecords, next |-> 1]]
    /\ starts' = starts + 1
    /\ UNCHANGED <<sourceRecords, states, projection, quarantine, handoffs>>

Advanced(i) ==
    IF ingester[i].next = Len(Files[ingester[i].file].rows) THEN Idle
    ELSE [ingester[i] EXCEPT !.pc = "check", !.next = @ + 1]

(* persist_result up to the early return: a record that was accepted or    *)
(* found a duplicate is a REPLAY_NOOP.                                     *)
CheckRow(i) ==
    LET record == Record(ingester[i].file, ingester[i].next)
        noop   == /\ record \in sourceRecords
                  /\ states[record] \in AcceptedStates \cup {"DUPLICATE"}
    IN  /\ ingester[i].pc = "check"
        /\ ingester' = [ingester EXCEPT ![i] =
                IF noop THEN Advanced(i) ELSE [@ EXCEPT !.pc = "write"]]
        /\ UNCHANGED <<sourceRecords, states, projection, quarantine, handoffs, starts>>

(* _upsert_canonical_projection: the last write of a lead id stands.       *)
UpsertProjection(lead, state) ==
    projection' = (lead.id :> [lead |-> lead, status |-> state]) @@ projection

(* _upsert_quarantine and _resolve_quarantine; a duplicate does neither.   *)
UpdateQuarantine(record, state) ==
    quarantine' = IF state = "QUARANTINED" THEN quarantine \cup {record}
                  ELSE IF state \in AcceptedStates THEN quarantine \ {record}
                  ELSE quarantine

(* The rest of persist_result and its commit.  The rows of observations,   *)
(* findings and duplicate decisions are append-only copies of the result   *)
(* that nothing reads back.                                                *)
WriteRow(i) ==
    LET file   == ingester[i].file
        record == Record(file, ingester[i].next)
        lead   == CanonicalLead(record)
        state  == ResultState(file, ingester[i].next, ingester[i].prior)
    IN  /\ ingester[i].pc = "write"
        /\ sourceRecords' = sourceRecords \cup {record}
        /\ states' = (record :> state) @@ states
        /\ UpsertProjection(lead, state)
        /\ UpdateQuarantine(record, state)
        /\ IF state \in AcceptedStates THEN InsertHandoff(lead, Files[file].at)
           ELSE UNCHANGED handoffs
        /\ ingester' = [ingester EXCEPT ![i] = Advanced(i)]
        /\ UNCHANGED starts

(* The run dies, or its database connection does: the open transaction is  *)
(* rolled back and the rest of the batch is not persisted.                 *)
StopIngest(i) ==
    /\ ingester[i].pc # "idle"
    /\ ingester' = [ingester EXCEPT ![i] = Idle]
    /\ UNCHANGED <<sourceRecords, states, projection, quarantine, handoffs, starts>>

IntakeNext ==
    \E i \in Ingesters :
        \/ \E file \in DOMAIN Files : StartIngest(i, file)
        \/ CheckRow(i)
        \/ WriteRow(i)
        \/ StopIngest(i)

-----------------------------------------------------------------------------
(* Whatever runs overlap, die and start again: what a stored record says   *)
(* reached Phase 2, or waits in quarantine when it is in error, under this *)
(* record or one with the same payload.  A duplicate is never a record     *)
(* whose original was dropped.                                             *)
NothingIsLost ==
    \A r \in sourceRecords : \E x \in sourceRecords :
        /\ x.payload = r.payload
        /\ IF Quality(x) \in AcceptedStates THEN HandedOff(CanonicalLead(x))
           ELSE x \in quarantine
=============================================================================
