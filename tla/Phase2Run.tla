----------------------------- MODULE Phase2Run ------------------------------
(***************************************************************************)
(* Phase 2, entity resolution: an executor (phase2/execution.py) lists the *)
(* handoffs of Phase 1, creates or finds the run of its request key and    *)
(* for every lead searches and fetches pages (phase2/tinyfish_provider.py),*)
(* decides (EntityResearch, EntityMatching) and persists the decision with *)
(* its evidence (phase2/repository.py).  Executors may be given the same   *)
(* key, calls fail, and a process may die between any two steps.           *)
(*                                                                         *)
(* The statement that inserts a candidate raises in the repository's code  *)
(* (Defects), so that no lead with a candidate is decided.  A behaviour    *)
(* fixes whether it has been repaired; repaired = {} is the code as it     *)
(* stands.                                                                 *)
(*                                                                         *)
(* The web and the semantic extractor answer from the constants            *)
(* SearchAnswers, PageAnswers and Answers, differently each time they are  *)
(* asked.  The telemetry of the calls is modelled with the client.         *)
(***************************************************************************)
EXTENDS EntityResearch, HandoffTable

CONSTANTS
    Executors, RequestKeys,
    Limit,          \* --limit
    SearchBudget,   \* --max-search-results
    FetchBudget,    \* --max-fetch-urls
    CandidateBudget,
    SearchAnswers,  \* [lead id -> possible sequences of result URLs]
    PageAnswers,    \* [url -> possible pages [final, text] it leads to]
    Answers,        \* [lead id -> possible answers of the extractor]
    MaxBegins,      \* bound on the invocations of a behaviour
    RepairSets      \* the sets of defects a behaviour may start without

ASSUME BudgetAssumption ==
    /\ Limit \in Nat \ {0} /\ SearchBudget \in Nat \ {0}
    /\ FetchBudget \in 1..10 /\ CandidateBudget \in Nat \ {0} /\ MaxBegins \in Nat

(* "placeholders": the VALUES of the candidate insert have 27 placeholders *)
(* for its 26 columns and 26 parameters, which psycopg refuses.            *)
Defects == {"placeholders"}

ASSUME RepairAssumption == RepairSets \subseteq SUBSET Defects

(* Search finds pages of the web, and what is said of a page is a list.    *)
ASSUME ProviderAssumption ==
    /\ \A id \in DOMAIN SearchAnswers : SearchAnswers[id] \subseteq Seq(DOMAIN PageAnswers)
    /\ \A url \in DOMAIN PageAnswers : \A page \in PageAnswers[url] :
            page.text \in DOMAIN MentionsIn \cup {NoText}
    /\ \A text \in DOMAIN MentionsIn : IsList(MentionsIn[text])
    /\ \A id \in DOMAIN Answers : \A answer \in Answers[id] : IsList(answer.entities)

VARIABLES
    runs,           \* growth.entity_resolution_runs by request key
    candidateRows,  \* primary key run, candidate id
    comparisonRows, \* primary key run, candidate id
    decisionRows,   \* primary key run, decision id; unique run, lead
    observations,   \* growth.entity_resolution_research_observations
    executor,
    begins,
    repaired,       \* the defects that do not raise in this behaviour
    asked           \* history: the leads the last executor of a run to finish had listed

phase2Vars == <<runs, candidateRows, comparisonRows, decisionRows, observations,
                executor, begins, repaired, asked>>

dbVars == <<runs, candidateRows, comparisonRows, decisionRows, observations>>

RunStatus == {"NONE", "RUNNING", "COMPLETED", "FAILED"}

NewRun(status) == [status |-> status, inputs |-> 0, decisions |-> 0, candidates |-> 0,
                   escalations |-> 0, unavailable |-> 0]

NoTask == [pc |-> "idle", key |-> "none", listed |-> <<>>, next |-> 0, urls |-> <<>>,
           candidates |-> <<>>, unavailable |-> 0]

ResolutionInit ==
    /\ runs = [k \in RequestKeys |-> NewRun("NONE")]
    /\ candidateRows = {} /\ comparisonRows = {} /\ decisionRows = {} /\ observations = {}
    /\ executor = [e \in Executors |-> NoTask]
    /\ begins = 0
    /\ repaired \in RepairSets
    /\ asked = [k \in RequestKeys |-> {}]

-----------------------------------------------------------------------------
(* run: list_handoffs, in a transaction of its own.                        *)
ListHandoffs(e, k) ==
    /\ executor[e].pc = "idle" /\ begins < MaxBegins
    /\ \E order \in Listings(Limit) : executor' = [executor EXCEPT ![e] =
            [NoTask EXCEPT !.pc = "create", !.key = k, !.listed = ListedLeads(order)]]
    /\ begins' = begins + 1
    /\ UNCHANGED <<dbVars, handoffs, asked>>

(* The task after its lead number next - 1.                                *)
NextLead(task, n) ==
    [task EXCEPT !.next = n, !.urls = <<>>, !.candidates = <<>>,
                 !.pc = IF n > Len(task.listed) THEN "complete" ELSE "search"]

(* create_run.  A completed run returns its stored result, a failed one    *)
(* makes the call raise; a running one, also somebody else's, is joined.   *)
CreateRun(e) ==
    LET k      == executor[e].key
        status == IF runs[k].status = "NONE" THEN "RUNNING" ELSE runs[k].status
    IN  /\ executor[e].pc = "create"
        /\ runs' = IF runs[k].status = "NONE" THEN [runs EXCEPT ![k] = NewRun("RUNNING")]
                   ELSE runs
        /\ executor' = [executor EXCEPT ![e] =
                IF status = "RUNNING" THEN NextLead(@, 1) ELSE NoTask]
        /\ UNCHANGED <<candidateRows, comparisonRows, decisionRows, observations,
                       handoffs, begins, asked>>

(* The canonical lead of a handoff as the matching code reads it.          *)
LeadOf(h) ==
    LET Given(v, none) == IF v = Missing THEN none ELSE v
    IN  [id |-> h.id, display |-> Given(h.display, NoName), legal |-> Given(h.legal, NoName),
         domain |-> Given(h.domain, NoDomain), geo |-> h.geo]

CurrentLead(e) == LeadOf(executor[e].listed[executor[e].next])

(* INSERT ... ON CONFLICT DO NOTHING for rows with the columns key.        *)
Missed(table, rows, Key(_)) == {r \in rows : \A x \in table : Key(x) # Key(r)}

(* Faulty variant: the stable id of an observation leaves out the mission.   *)
BugObservationKey(o) == <<o.run, o.kind, o.position, o.url>>

ObservationKey(o) == <<o.run, o.lead, o.kind, o.position, o.url>>

InsertObservations(rows) ==
    observations' = observations \cup Missed(observations, rows, ObservationKey)

Observe(e, kind, urls) ==
    InsertObservations({[run |-> executor[e].key, lead |-> CurrentLead(e).id, kind |-> kind,
                         position |-> i, url |-> urls[i]] : i \in DOMAIN urls})

(* discover, first half.  Without a first-party result there is nothing to *)
(* fetch and the candidate set is empty.                                   *)
Search(e) ==
    LET lead == CurrentLead(e)
    IN  /\ executor[e].pc = "search"
        /\ \E found \in SearchAnswers[lead.id] :
            LET kept == Slice(found, SearchBudget)
                urls == SelectFetchUrls(lead.domain, kept, FetchBudget)
            IN  /\ Observe(e, "SEARCH_RESULT", kept)
                /\ executor' = [executor EXCEPT ![e].urls = urls,
                        ![e].pc = IF urls = <<>> THEN "persist" ELSE "fetch"]
        /\ UNCHANGED <<runs, candidateRows, comparisonRows, decisionRows, handoffs,
                       begins, asked>>

(* discover, second half.  The provider answers for some of the URLs, each *)
(* page with its text and the URL it was redirected to.  A page without    *)
(* text and an extraction without a usable entity make it raise after the  *)
(* observations are stored; without any page the candidate set is empty.   *)
Fetch(e) ==
    LET lead == CurrentLead(e)
    IN  /\ executor[e].pc = "fetch"
        /\ \E answered \in SUBSET DOMAIN executor[e].urls :
            LET urls == At(executor[e].urls, answered)
            IN  /\ Observe(e, "FETCH_RESULT", urls)
                /\ \E page \in [DOMAIN urls -> UNION {PageAnswers[u] : u \in ToSet(urls)}] :
                    LET pages    == [i \in DOMAIN urls |-> [url   |-> urls[i],
                                        final |-> page[i].final, text |-> page[i].text]]
                        evidence == EvidenceInputs(pages)
                    IN  /\ \A i \in DOMAIN urls : page[i] \in PageAnswers[urls[i]]
                        /\ \E answer \in Answers[lead.id] :
                            LET found == Extract(answer, evidence)
                            IN  executor' = [executor EXCEPT ![e] =
                                    IF urls = <<>>
                                    THEN [@ EXCEPT !.pc = "persist", !.candidates = <<>>]
                                    ELSE IF \/ EvidenceRaises(pages)
                                            \/ CandidatesRaise(lead, found, evidence)
                                    THEN [@ EXCEPT !.pc = "fail"]
                                    ELSE [@ EXCEPT !.pc = "persist", !.candidates =
                                            CandidateObjects(lead, found, evidence)]]
        /\ UNCHANGED <<runs, candidateRows, comparisonRows, decisionRows, handoffs,
                       begins, asked>>

(* Faulty variant: the handler goes on with the next lead.                   *)
BugUnavailable(e) ==
    /\ executor[e].pc \in {"search", "fetch"}
    /\ executor' = [executor EXCEPT ![e] =
            NextLead([@ EXCEPT !.unavailable = @ + 1], @.next + 1)]
    /\ UNCHANGED <<dbVars, handoffs, begins, asked>>

(* Phase2ProviderUnavailable, made of a TinyFishError or an exhausted      *)
(* quota: the lead is decided without candidates.                          *)
Unavailable(e) ==
    /\ executor[e].pc \in {"search", "fetch"}
    /\ executor' = [executor EXCEPT ![e].pc = "persist", ![e].candidates = <<>>,
                                    ![e].unavailable = @ + 1]
    /\ UNCHANGED <<dbVars, handoffs, begins, asked>>

(* Any other exception of a call, such as a reset connection or an error   *)
(* of the database.                                                        *)
Raise(e) ==
    /\ executor[e].pc \in {"search", "fetch", "persist"}
    /\ executor' = [executor EXCEPT ![e].pc = "fail"]
    /\ UNCHANGED <<dbVars, handoffs, begins, asked>>

-----------------------------------------------------------------------------
Decision(e) == ResolveEntity(CurrentLead(e), executor[e].candidates, {}, CandidateBudget)

RowKey(r) == <<r.run, r.id>>

(* The first of the candidates with one id is the one that is inserted.    *)
FirstWithId(s) == {s[i] : i \in {j \in DOMAIN s : \A h \in 1..(j - 1) : s[h].id # s[j].id}}

(* psycopg counts the parameters before it asks the database anything.     *)
InsertRaises(candidates) == candidates # <<>> /\ "placeholders" \notin repaired

InsertCandidates(k, lead, candidates) ==
    candidateRows' = candidateRows \cup Missed(candidateRows,
        {[run |-> k, id |-> c.id, lead |-> lead, refs |-> c.refs] :
            c \in FirstWithId(candidates)}, RowKey)

InsertComparisons(k, lead, comparisons) ==
    comparisonRows' = comparisonRows \cup Missed(comparisonRows,
        {[run |-> k, id |-> c.id, lead |-> lead, score |-> c.score] :
            c \in FirstWithId(comparisons)}, RowKey)

(* Faulty variant: the counters move although the decision was not inserted. *)
BugCounted(run, replay, candidates, research) ==
    [run EXCEPT !.inputs = @ + 1, !.decisions = @ + 1, !.candidates = @ + candidates,
                !.escalations = @ + IF research THEN 1 ELSE 0]

Counted(run, replay, candidates, research) ==
    IF replay THEN run
    ELSE [run EXCEPT !.inputs = @ + 1, !.decisions = @ + 1,
                     !.candidates = @ + candidates,
                     !.escalations = @ + IF research THEN 1 ELSE 0]

(* resolve_entity and persist_resolution, one transaction.  As the code    *)
(* stands a lead with candidates raises at the first of them.  A decision  *)
(* with the id of a stored one is a replay, a different one for the same   *)
(* lead violates the unique constraint.  Whatever raises rolls everything  *)
(* back.                                                                   *)
Persist(e) ==
    LET k        == executor[e].key
        decision == Decision(e)
        replay   == \E d \in decisionRows : d.run = k /\ d.decision.id = decision.id
        refused  == \/ ~ValidDecision(decision)
                    \/ InsertRaises(executor[e].candidates)
                    \/ ~replay /\ \E d \in decisionRows :
                                    d.run = k /\ d.decision.lead = decision.lead
    IN  /\ executor[e].pc = "persist"
        /\ IF refused
           THEN /\ executor' = [executor EXCEPT ![e].pc = "fail"]
                /\ UNCHANGED dbVars
           ELSE /\ InsertCandidates(k, decision.lead, executor[e].candidates)
                /\ InsertComparisons(k, decision.lead, decision.comparisons)
                /\ decisionRows' = IF replay THEN decisionRows
                        ELSE decisionRows \cup {[run |-> k, decision |-> decision]}
                /\ runs' = [runs EXCEPT ![k] =
                        Counted(@, replay, Len(executor[e].candidates), decision.research)]
                /\ executor' = [executor EXCEPT ![e] = NextLead(@, @.next + 1)]
                /\ UNCHANGED observations
        /\ UNCHANGED <<handoffs, begins, asked>>

(* complete_run, which asks nothing of the status the run has by then.     *)
Finish(e, pc, status) ==
    LET k == executor[e].key
    IN  /\ executor[e].pc = pc
        /\ runs' = [runs EXCEPT ![k].status = status,
                                ![k].unavailable = executor[e].unavailable]
        /\ asked' = [asked EXCEPT ![k] = ToSet(executor[e].listed)]
        /\ executor' = [executor EXCEPT ![e] = NoTask]
        /\ UNCHANGED <<candidateRows, comparisonRows, decisionRows, observations,
                       handoffs, begins>>

Complete(e) == Finish(e, "complete", "COMPLETED")
Fail(e) == Finish(e, "fail", "FAILED")

Die(e) ==
    /\ executor[e].pc # "idle"
    /\ executor' = [executor EXCEPT ![e] = NoTask]
    /\ UNCHANGED <<dbVars, handoffs, begins, asked>>

ResolutionNext ==
    /\ \E e \in Executors :
        \/ \E k \in RequestKeys : ListHandoffs(e, k)
        \/ CreateRun(e) \/ Search(e) \/ Fetch(e) \/ Unavailable(e) \/ Raise(e)
        \/ Persist(e) \/ Complete(e) \/ Fail(e) \/ Die(e)
    /\ UNCHANGED repaired

-----------------------------------------------------------------------------
DecisionsOf(k) == {d.decision : d \in {r \in decisionRows : r.run = k}}

(* The counters of a run are the number of its stored decisions, of the    *)
(* leads behind them and of those that still need research, also when the  *)
(* run was retried or joined and its leads were decided again.             *)
CountersMatch ==
    \A k \in RequestKeys :
        /\ runs[k].decisions = Cardinality(DecisionsOf(k))
        /\ runs[k].inputs = Cardinality({d.lead : d \in DecisionsOf(k)})
        /\ runs[k].escalations = Cardinality({d \in DecisionsOf(k) : d.research})

(* A run is marked COMPLETED only by an executor all of whose leads have a *)
(* decision, those the provider failed on included.                        *)
CompletedIsComplete ==
    \A k \in RequestKeys :
        runs[k].status = "COMPLETED" =>
            \A lead \in asked[k] : \E d \in DecisionsOf(k) : d.lead = lead.id

(* The URLs a page that is asked for under url may turn out to have.       *)
Reached(url) == {PageUrl([url |-> url, final |-> page.final]) : page \in PageAnswers[url]}

(* What a stored match rests on is stored: its entity as a candidate of    *)
(* the same run, and each of its evidence references as a page that was    *)
(* fetched at its place for this lead in this run, under a URL that leads  *)
(* to it.  The code as it stands stores no match at all; this is what the  *)
(* rest of it guarantees once the candidate insert is repaired.            *)
MatchesAreGrounded ==
    \A r \in decisionRows : Matched(r.decision) =>
        /\ \E c \in candidateRows : c.run = r.run /\ c.id = r.decision.entity
        /\ \A ref \in r.decision.refs : \E o \in observations :
            /\ o.run = r.run /\ o.lead = r.decision.lead /\ o.kind = "FETCH_RESULT"
            /\ o.position = ref[1] /\ ref[2] \in Reached(o.url)
=============================================================================
