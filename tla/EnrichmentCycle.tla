--------------------------- MODULE EnrichmentCycle --------------------------
(***************************************************************************)
(* The enrichment job of a day: the daily slice of new companies, the      *)
(* quality gate, the refresh of stale companies, and the gate again, each  *)
(* slice in a process of its own with its own limiter and cache.  One job  *)
(* runs at a time (the concurrency group of the workflow); an operator may *)
(* import a packet beside it, and contacts are verified.                   *)
(***************************************************************************)
EXTENDS EnrichmentStore, TinyFishClient

CONSTANTS Worlds,          \* the possible contents of public.companies
          DailyLimit, RefreshLimit,
          DailyUrls, RefreshUrls,   \* max_fetch_urls of the two
          Manual,          \* the packets an operator may import
          Verdicts,        \* the statuses a verification may give
          MaxOutside,      \* bound: imports, verifications and deaths
          Barren           \* the domains that never lead to a packet

ASSUME LimitAssumption == {DailyLimit, RefreshLimit, DailyUrls, RefreshUrls} \subseteq Nat \ {0}

ASSUME ManualAssumption == \A packet \in Manual : packet.company \in Companies

VARIABLES job,      \* where the job stands
          outside   \* imports, verifications and deaths so far

vars == <<world, policy, storeVars, clientVars, job, outside>>

NoJob == [pc |-> "idle"]

Init ==
    /\ world \in Worlds
    /\ StoreInit
    /\ ClientInit
    /\ job = NoJob
    /\ outside = 0

-----------------------------------------------------------------------------
(* A slice starts as a new process with the companies it selects.          *)
Start(kind, ids) ==
    /\ job' = [pc |-> "company", kind |-> kind, todo |-> ids, searches |-> <<>>,
               failed |-> FALSE]
    /\ UNCHANGED <<storeVars, clientVars>>

StartDaily == job.pc = "due" /\ Start("daily", NextEnrichmentCompanyIds(DailyLimit))

StartRefresh == job.pc = "refresh" /\ Start("refresh", NextRefreshCompanyIds(RefreshLimit))

Company == Head(job.todo)

AtCompany == job.pc = "company" /\ job.todo # <<>>

Onward(failed) == [job EXCEPT !.todo = Tail(@), !.searches = <<>>, !.failed = @ \/ failed]

(* A ValueError or RuntimeError on the way fails this company only.        *)
CompanyFails ==
    /\ job' = Onward(TRUE)
    /\ call' = NoCall
    /\ UNCHANGED <<storeVars, limiter, cache, received, faults>>

SeedFails == AtCompany /\ world.domain[Company] = NoValue /\ CompanyFails

CallRaises == AtCompany /\ call.pc = "raised" /\ CompanyFails

-----------------------------------------------------------------------------
Query(name, domain, purpose) ==
    [op |-> "search", label |-> IF name = NoValue THEN domain ELSE name, domain |-> domain,
     purpose |-> purpose]

(* The search results of a payload whose shape is right are a list.        *)
ASSUME SearchAssumption ==
    /\ Purposes \in Seq(Range(Purposes))
    /\ \A w \in Worlds : \A c \in Companies : \A i \in DOMAIN Purposes :
          \A payload \in Replies(Query(w.name[c], w.domain[c], Purposes[i])) \ {Malformed} :
              /\ payload \in Seq(Range(payload))
              /\ \A r \in Range(payload) : UrlLength[r.url] \in Nat

SearchRequest(c, i) == Query(world.name[c], world.domain[c], Purposes[i])

FetchRequest(urls) == [op |-> "fetch", urls |-> urls]

AskSearch ==
    /\ AtCompany
    /\ world.domain[Company] # NoValue
    /\ Len(job.searches) < Len(Purposes)
    /\ Ask(SearchRequest(Company, Len(job.searches) + 1))
    /\ UNCHANGED <<storeVars, job>>

TakeResults ==
    /\ AtCompany
    /\ call.pc = "done"
    /\ call.request.op = "search"
    /\ job' = [job EXCEPT !.searches = Append(@, call.payload)]
    /\ call' = NoCall
    /\ UNCHANGED <<storeVars, limiter, cache, received, faults>>

Selected ==
    SelectFetchUrls(job.searches, world.domain[Company],
                    IF job.kind = "daily" THEN DailyUrls ELSE RefreshUrls)

Searched == AtCompany /\ call = NoCall /\ Len(job.searches) = Len(Purposes)

(* fetch refuses an empty list.                                            *)
NothingToFetch == Searched /\ Selected = <<>> /\ CompanyFails

AskFetch ==
    /\ Searched
    /\ \E urls \in {Selected} : urls # <<>> /\ Ask(FetchRequest(urls))
    /\ UNCHANGED <<storeVars, job>>

Fetched == AtCompany /\ call.pc = "done" /\ call.request.op = "fetch"

NoPacket == Fetched /\ ResearchRaises(call.payload, job.searches) /\ CompanyFails

(* The packet is built, its people are resolved, and it is persisted.      *)
Enrich ==
    /\ Fetched
    /\ ~ResearchRaises(call.payload, job.searches)
    /\ \E packet \in {Packet(Company, world.domain[Company], call.payload, job.searches)} :
          PersistPacket(packet)
    /\ job' = Onward(FALSE)
    /\ call' = NoCall
    /\ UNCHANGED <<limiter, cache, received, faults>>

-----------------------------------------------------------------------------
(* The job stops at the first step that fails.                             *)
JobEnds == job' = NoJob /\ ProcessEnds /\ UNCHANGED storeVars

Escapes == AtCompany /\ call.pc = "escaped" /\ JobEnds

(* A slice with a failed company exits with 1.                             *)
EndSlice ==
    /\ job.pc = "company"
    /\ job.todo = <<>>
    /\ IF job.failed THEN JobEnds
       ELSE job' = [job EXCEPT !.pc = "clean"] /\ ProcessEnds /\ UNCHANGED storeVars

CleanBreaks == job.pc \in {"clean", "verify"} /\ GateRaises /\ JobEnds

Clean ==
    /\ job.pc = "clean"
    /\ ~GateRaises
    /\ CleanUp
    /\ job' = [job EXCEPT !.pc = "verify"]
    /\ UNCHANGED clientVars

GateFails == job.pc = "verify" /\ ~GateRaises /\ GateFinds /\ JobEnds

GatePasses ==
    /\ job.pc = "verify"
    /\ ~GateRaises
    /\ ~GateFinds
    /\ job' = IF job.kind = "daily" THEN [job EXCEPT !.pc = "refresh"] ELSE NoJob
    /\ UNCHANGED <<storeVars, clientVars>>

(* No step of a call looks at a table: what comes from outside may as well *)
(* come between two calls.                                                 *)
Outside == call = NoCall /\ outside < MaxOutside /\ outside' = outside + 1

(* The runner goes away, or the database does.                             *)
Die ==
    /\ Outside
    /\ job.pc \notin {"idle", "due"}
    /\ JobEnds
    /\ UNCHANGED <<world, policy>>

(* enrichment import: validated packets of an operator, at any moment.     *)
Import ==
    /\ Outside
    /\ \E packet \in Manual : PersistPacket(packet)
    /\ UNCHANGED <<world, policy, clientVars, job>>

Verify ==
    /\ Outside
    /\ \E c \in Companies : \E r \in people[c] : \E m \in r.methods : \E s \in Verdicts :
           m.status # s /\ UpdateContactVerification(c, r, m, s)
    /\ UNCHANGED <<world, policy, clientVars, job>>

(* Time within a process, while it waits for the limiter or the provider.  *)
Tick ==
    /\ AtCompany
    /\ Waiting
    /\ ClientTick
    /\ UNCHANGED <<world, policy, storeVars, job, outside>>

(* A day passes between two jobs, and the schedule starts the next.        *)
NextDay ==
    /\ job = NoJob
    /\ job' = [pc |-> "due"]
    /\ completed' = [c \in Companies |->
           IF completed[c] \in {NoValue, MinAge} THEN completed[c] ELSE completed[c] + 1]
    /\ UNCHANGED <<world, policy, latest, facts, scores, contacts, people, evidence, signals,
                   clientVars, outside>>

Calls == AtCompany /\ ClientStep /\ UNCHANGED <<storeVars, job>>

JobStep ==
    /\ \/ StartDaily \/ StartRefresh \/ SeedFails \/ CallRaises
       \/ AskSearch \/ TakeResults \/ AskFetch \/ NothingToFetch \/ Escapes
       \/ EndSlice \/ CleanBreaks \/ Clean \/ GateFails \/ GatePasses \/ Calls
    /\ UNCHANGED <<world, policy, outside>>

Research == (NoPacket \/ Enrich) /\ UNCHANGED <<world, policy, outside>>

Next == JobStep \/ Research \/ Die \/ Import \/ Verify \/ Tick \/ NextDay

(* Research is done with the company, with a packet or without; it can be  *)
(* whenever the pages are there.                                           *)
CompanyDone == Fetched /\ call' = NoCall /\ \E failed \in BOOLEAN : job' = Onward(failed)

(* A process that can go on does, time passes, and the schedule comes      *)
(* round every day; nobody has to import or verify.                        *)
Spec == /\ Init /\ [][Next]_vars
        /\ WF_vars(JobStep) /\ WF_<<job, call>>(CompanyDone)
        /\ WF_vars(Tick) /\ WF_vars(NextDay)

-----------------------------------------------------------------------------
(* The URLs that the searches of a company return, and those of the pages  *)
(* that can be fetched of them.                                            *)
Hits(c) ==
    UNION {UNION {{r.url : r \in Range(payload)} :
                  payload \in Replies(SearchRequest(c, i)) \ {Malformed}} : i \in DOMAIN Purposes}

FetchLists(c) ==
    UNION {[1..n -> Hits(c)] : n \in 0..(IF DailyUrls > RefreshUrls THEN DailyUrls ELSE RefreshUrls)}

Offered(c) ==
    Hits(c) \cup UNION {UNION {UNION {{p.url, p.text.final} : p \in Range(payload)} :
                               payload \in Replies(FetchRequest(urls)) \ {Malformed}} :
                        urls \in FetchLists(c)}

(* The URLs an operator's packets cite for a company.                      *)
Imported(c) ==
    UNION {{x.url : x \in packet.contacts \cup packet.signals
                           \cup UNION {dm.evidence : dm \in packet.people}} :
           packet \in {m \in Manual : m.company = c}}

(* What the evidence of a company cites was returned for searches of this  *)
(* company: neither the cache nor a retry hands the answer of one request  *)
(* to another (TINYFISH_MVP_IMPLEMENTATION.md: every cited URL must be one *)
(* fetched or returned by the current research run).                       *)
PacketsAreOwn ==
    \A c \in Companies :
        LET own == Offered(c) \cup Imported(c)
        IN  \A e \in evidence : e.company = c => e.url \in own

(* A verification stands: no research of the same contact puts its method  *)
(* back to unverified, as long as the person is on record                  *)
(* (_upsert_decision_makers leaves verification_status out).               *)
VerificationStands ==
    [][\A c \in Companies : \A r \in people[c] : \A m \in r.methods :
          m.status \in Verdicts =>
              \A q \in people'[c] : ByTitle(q) = ByTitle(r) =>
                  \E n \in q.methods : n.value = m.value /\ n.status \in Verdicts]_vars

(* Whatever fails once, is retried or dies with its process, every company *)
(* that research can do something with is enriched, unless as many as a    *)
(* slice takes fail for ever before it (ORDER BY id).                      *)
Adequate == policy.fetch_minute >= DailyUrls

Eligible(c) ==
    /\ Adequate
    /\ world.domain[c] \notin Barren
    /\ Cardinality({d \in Companies : d < c /\ world.domain[d] \in Barren}) < DailyLimit

EveryCompanyEnriched == <>[](\A c \in Companies : Eligible(c) => completed[c] # NoValue)

(* And where every company has what research and the gate need, each one   *)
(* is enriched again and again: the refresh takes turns.                   *)
RefreshGoesOn ==
    Adequate /\ (\A c \in Companies : world.domain[c] \notin Barren /\ world.name[c] # NoValue)
    => \A c \in Companies : []<>(completed[c] = 0)
=============================================================================
