------------------------ MODULE EnrichmentCycleProofs ------------------------
(***************************************************************************)
(* Proofs about the enrichment job and the TinyFish client it calls, for   *)
(* any companies, limits, answers of the provider and packets of an        *)
(* operator: the types, the budget of the limiter, the origin of the       *)
(* evidence and the verification of contacts; what a packet written twice  *)
(* changes; and what the routing of a company and the status of a decision *)
(* maker guarantee.                                                        *)
(***************************************************************************)
EXTENDS EnrichmentCycle, ListTheorems, SequenceTheorems

(* What a company's calls may ask and what the provider may answer.        *)
Requests(c) ==
    {SearchRequest(c, i) : i \in DOMAIN Purposes} \cup {FetchRequest(urls) : urls \in FetchLists(c)}

Good(r) == Replies(r) \ {Malformed}

CacheEntries ==
    UNION {[key : {r}, payload : Replies(r), age : Nat] : r \in UNION {Requests(c) : c \in Companies}}

LimiterEntries == [age : Nat, units : Nat]

JobType ==
    /\ latest \in Seq(Companies)
    /\ job.pc = "company" =>
          /\ job = [pc |-> job.pc, kind |-> job.kind, todo |-> job.todo,
                    searches |-> job.searches, failed |-> job.failed]
          /\ job.todo \in Seq(Companies)
          /\ job.searches \in Seq(Range(job.searches))
          /\ Len(job.searches) <= Len(Purposes)
          /\ \A i \in DOMAIN job.searches : job.searches[i] \in Good(SearchRequest(Company, i))

(* The request that a company's research makes next.                       *)
Due(r) ==
    IF Len(job.searches) < Len(Purposes)
    THEN r = SearchRequest(Company, Len(job.searches) + 1)
    ELSE \E urls \in FetchLists(Company) : r = FetchRequest(urls)

CallType ==
    /\ call.pc \in {"none", "acquire", "send", "done", "raised", "escaped"}
    /\ call.pc = "none" => call = NoCall
    /\ call.pc \in {"acquire", "send"} =>
          call = [pc |-> call.pc, request |-> call.request, attempt |-> call.attempt]
    /\ call.pc = "done" => call.payload \in Good(call.request)
    /\ call.pc \in {"acquire", "send", "done"} => AtCompany /\ Due(call.request)

ClientType ==
    /\ cache \in [{"search", "fetch"} -> Seq(CacheEntries)]
    /\ limiter \in [Windows -> Seq(LimiterEntries)]
    /\ received \subseteq [op : {"search", "fetch"}, age : Nat, after : Nat]

TypeInv == world \in Worlds /\ policy \in Policies /\ JobType /\ CallType /\ ClientType

(* The units that were admitted to a window in the last age ticks.         *)
UnitsOf(s) == [i \in DOMAIN s |-> s[i].units]

Since(s, age) == SumFunctionOnSet(UnitsOf(s), {i \in DOMAIN s : s[i].age <= age})

(* Those admitted and not yet sent.                                        *)
OnTheWay(op) == IF call.pc = "send" /\ call.request.op = op THEN Units(call.request) ELSE 0

BudgetInv ==
    \A e \in received : \A w \in WindowsOf(e) : e.age < Span[w] =>
        /\ e.after + OnTheWay(e.op) <= Since(limiter[w], e.age)
        /\ e.after + OnTheWay(e.op) <= policy[w]

LEMMA SameWorld ==
  ASSUME world' = world
  PROVE  \A c : /\ Hits(c)' = Hits(c) /\ FetchLists(c)' = FetchLists(c)
                /\ Requests(c)' = Requests(c) /\ Offered(c)' = Offered(c)
                /\ \A i : SearchRequest(c, i)' = SearchRequest(c, i)
BY DEF Hits, FetchLists, Requests, Offered, SearchRequest

LEMMA SameEntries ==
  ASSUME world' = world
  PROVE  CacheEntries' = CacheEntries
BY SameWorld DEF CacheEntries

-----------------------------------------------------------------------------
(* The results that the searches of a company may have.                    *)
Rows(c) == UNION {UNION {Range(payload) : payload \in Good(SearchRequest(c, i))} : i \in DOMAIN Purposes}

(* What the selection takes is a list of URLs of the results.              *)
LEMMA SelectionType ==
  ASSUME NEW X, \A r \in X : UrlLength[r.url] \in Nat, NEW searches \in Seq(Seq(X)),
         NEW domain, NEW limit \in Nat
  PROVE  /\ SelectFetchUrls(searches, domain, limit) \in Seq({r.url : r \in X})
         /\ Len(SelectFetchUrls(searches, domain, limit)) <= limit
<1> DEFINE Url(v) == searches[v[2]][v[5]].url
           Visit(pass, i, j) == <<pass, i, HostScore(searches[i][j].url, domain),
                                  UrlLength[searches[i][j].url], j>>
           Usable(i) == {j \in DOMAIN searches[i] : HostScore(searches[i][j].url, domain) < 3}
           On(pass, i) == {Visit(pass, i, j) : j \in Usable(i)}
           Visits(pass) == UNION {On(pass, i) : i \in DOMAIN searches}
           All == Visits(0) \cup Visits(1)
<1>1. \E T \in SUBSET All : SelectFetchUrls(searches, domain, limit) =
         [order \in Seq(All) |-> Slice([k \in DOMAIN order |-> Url(order[k])], limit)][InTurn(T)]
  BY DEF SelectFetchUrls
<1>2. PICK T \in SUBSET All : SelectFetchUrls(searches, domain, limit) =
         [order \in Seq(All) |-> Slice([k \in DOMAIN order |-> Url(order[k])], limit)][InTurn(T)]
  BY <1>1
<1>3. \A i \in DOMAIN searches : \A j \in Usable(i) : searches[i][j] \in X
  OBVIOUS
<1>4. \A i \in DOMAIN searches : IsFiniteSet(Usable(i)) /\ Usable(i) \subseteq Nat
  <2>1. SUFFICES ASSUME NEW i \in DOMAIN searches
                 PROVE  IsFiniteSet(Usable(i)) /\ Usable(i) \subseteq Nat
    OBVIOUS
  <2>2. PICK n \in Nat : DOMAIN searches[i] = 1..n
    OBVIOUS
  <2>3. IsFiniteSet(1..n) /\ 1..n \subseteq Nat
    BY FS_Interval
  <2>4. Usable(i) \in SUBSET (1..n)
    BY <2>2
  <2> HIDE DEF Usable
  <2> QED
    BY <2>3, <2>4, FS_Subset
<1>5. ASSUME NEW pass \in 0..1 PROVE IsFiniteSet(Visits(pass))
  <2>1. ASSUME NEW i \in DOMAIN searches PROVE IsFiniteSet(On(pass, i))
    <3> DEFINE f == [j \in Usable(i) |-> Visit(pass, i, j)]
    <3>1. f \in Surjection(Usable(i), On(pass, i))
      BY DEF Surjection
    <3> HIDE DEF f, Usable
    <3> QED
      BY <1>4, <3>1, FS_Surjection
  <2> DEFINE family == {On(pass, i) : i \in DOMAIN searches}
             g == [i \in DOMAIN searches |-> On(pass, i)]
  <2>2. IsFiniteSet(DOMAIN searches)
    <3>1. DOMAIN searches = 1..Len(searches) /\ Len(searches) \in Nat
      OBVIOUS
    <3> QED
      BY <3>1, FS_Interval
  <2> HIDE DEF On
  <2>3. g \in Surjection(DOMAIN searches, family)
    BY DEF Surjection
  <2>4. IsFiniteSet(family)
    <3> HIDE DEF g, family
    <3> QED
      BY <2>2, <2>3, FS_Surjection
  <2>5. \A S \in family : IsFiniteSet(S)
    BY <2>1
  <2>6. Visits(pass) = UNION family
    OBVIOUS
  <2> HIDE DEF family
  <2> QED
    BY <2>4, <2>5, <2>6, FS_UNION
<1>6. ASSUME NEW v \in All PROVE v \in [1..5 -> Int] /\ Url(v) \in {r.url : r \in X}
  <2>1. \E pass \in 0..1, i \in DOMAIN searches : \E j \in Usable(i) : v = Visit(pass, i, j)
    <3>1. \A pass, i : \A x \in On(pass, i) : \E j \in Usable(i) : x = Visit(pass, i, j)
      OBVIOUS
    <3> HIDE DEF On
    <3>2. \E pass \in 0..1, i \in DOMAIN searches : v \in On(pass, i)
      OBVIOUS
    <3> HIDE DEF Visit, Usable
    <3> QED
      BY <3>1, <3>2
  <2> PICK pass \in 0..1, i \in DOMAIN searches : \E j \in Usable(i) : v = Visit(pass, i, j)
    BY <2>1
  <2>2. PICK j \in Usable(i) : v = Visit(pass, i, j)
    OBVIOUS
  <2>3. PICK u : u = searches[i][j].url
    OBVIOUS
  <2>4. UrlLength[u] \in Nat /\ HostScore(u, domain) \in Nat /\ i \in Nat /\ j \in Nat
    <3>1. searches[i][j] \in X /\ i \in Nat /\ j \in Nat
      BY <1>3, <1>4
    <3>2. HostScore(u, domain) \in Nat
      BY DEF HostScore
    <3> QED
      BY <2>3, <3>1, <3>2
  <2>5. v = <<pass, i, HostScore(u, domain), UrlLength[u], j>>
    BY <2>3, <2>2
  <2>6. v \in [1..5 -> Int]
    BY <2>4, <2>5
  <2>7. v[2] = i /\ v[5] = j
    BY <2>5
  <2> QED
    BY <1>3, <2>6, <2>7
<1>7. IsFiniteSet(T) /\ T \in SUBSET [1..5 -> Int]
  <2>1. IsFiniteSet(All)
    <3> HIDE DEF Visits
    <3>1. IsFiniteSet(Visits(0)) /\ IsFiniteSet(Visits(1))
      BY <1>5
    <3> QED
      BY <3>1, FS_Union
  <2>2. IsFiniteSet(T)
    BY <2>1, FS_Subset
  <2> QED
    BY <1>6, <2>2
<1> HIDE DEF All, Url
<1>8. PICK order : order = InTurn(T)
  OBVIOUS
<1>9. order \in Seq(All)
  BY <1>7, <1>8, InTurnType, SeqMonotonic
<1>10. [k \in DOMAIN order |-> Url(order[k])] \in Seq({r.url : r \in X})
  <2> DEFINE urls == {r.url : r \in X}
  <2>1. \A v \in All : Url(v) \in urls
    BY <1>6
  <2> HIDE DEF urls
  <2>2. PICK n \in Nat : DOMAIN order = 1..n /\ \A k \in 1..n : order[k] \in All
    BY <1>9
  <2>3. PICK list : list = [k \in DOMAIN order |-> Url(order[k])]
    OBVIOUS
  <2>4. list \in [1..n -> urls]
    BY <2>1, <2>2, <2>3
  <2>5. list \in Seq(urls)
    BY <2>4, ListOf
  <2> QED
    BY <2>3, <2>5 DEF urls
<1>11. SelectFetchUrls(searches, domain, limit) = Slice([k \in DOMAIN order |-> Url(order[k])], limit)
  BY <1>2, <1>9, <1>8
<1> QED
  BY <1>10, <1>11, SliceType

LEMMA Limits ==
  /\ DailyLimit \in Nat /\ RefreshLimit \in Nat
  /\ DailyUrls \in Nat /\ RefreshUrls \in Nat
BY LimitAssumption

LEMMA CompanyType ==
  ASSUME TypeInv, AtCompany
  PROVE  Company \in Companies /\ Tail(job.todo) \in Seq(Companies)
BY HeadTailProperties DEF TypeInv, JobType, AtCompany, Company

LEMMA RowsType ==
  ASSUME TypeInv, NEW c \in Companies
  PROVE  /\ Purposes \in Seq(Range(Purposes))
         /\ \A r \in Rows(c) : UrlLength[r.url] \in Nat
         /\ \A r \in Rows(c) : r.url \in Hits(c)
         /\ \A i \in DOMAIN Purposes : \A payload \in Good(SearchRequest(c, i)) :
               payload \in Seq(Rows(c))
<1>1. ASSUME NEW i \in DOMAIN Purposes, NEW payload \in Good(SearchRequest(c, i))
      PROVE  payload \in Seq(Range(payload)) /\ \A r \in Range(payload) : UrlLength[r.url] \in Nat
  BY SearchAssumption DEF TypeInv, Good, SearchRequest
<1>2. \A i \in DOMAIN Purposes : \A payload \in Good(SearchRequest(c, i)) :
         Range(payload) \subseteq Rows(c)
  BY DEF Rows
<1>3. \A i \in DOMAIN Purposes : \A payload \in Good(SearchRequest(c, i)) : payload \in Seq(Rows(c))
  BY <1>1, <1>2, SeqMonotonic
<1>4. \A r \in Rows(c) : UrlLength[r.url] \in Nat
  BY <1>1 DEF Rows
<1>5. \A r \in Rows(c) : r.url \in Hits(c)
  BY DEF Rows, Hits, Good
<1> QED
  BY <1>3, <1>4, <1>5, SearchAssumption

LEMMA SearchesType ==
  ASSUME TypeInv, AtCompany
  PROVE  job.searches \in Seq(Seq(Rows(Company)))
<1>1. PICK c \in Companies : c = Company
  BY CompanyType
<1>2. PICK list : list = job.searches
  OBVIOUS
<1>3. list \in Seq(Range(list)) /\ Len(list) <= Len(Purposes)
      /\ \A i \in DOMAIN list : list[i] \in Good(SearchRequest(c, i))
  BY <1>1, <1>2 DEF TypeInv, JobType, AtCompany
<1>4. \A i \in DOMAIN list : i \in DOMAIN Purposes
  BY <1>3, RowsType
<1>5. \A i \in DOMAIN list : list[i] \in Seq(Rows(c))
  BY <1>3, <1>4, RowsType
<1> HIDE DEF Company
<1>6. list \in Seq(Seq(Rows(c)))
  BY <1>3, <1>5
<1> QED
  BY <1>1, <1>2, <1>6

LEMMA SelectedType ==
  ASSUME TypeInv, AtCompany
  PROVE  Selected \in FetchLists(Company)
<1>1. PICK c \in Companies : c = Company
  BY CompanyType
<1>2. PICK limit \in Nat : limit = (IF job.kind = "daily" THEN DailyUrls ELSE RefreshUrls)
  BY Limits
<1>3. PICK most \in Nat : most = (IF DailyUrls > RefreshUrls THEN DailyUrls ELSE RefreshUrls)
  BY Limits
<1>4. limit <= most
  BY <1>2, <1>3, Limits
<1> DEFINE X == Rows(c)
           urls == {r.url : r \in X}
<1>5. PICK list : list = Selected
  OBVIOUS
<1>6. list \in Seq(urls) /\ Len(list) <= limit
  <2>1. \A r \in X : UrlLength[r.url] \in Nat
    BY RowsType
  <2>2. job.searches \in Seq(Seq(X))
    BY <1>1, SearchesType
  <2>3. list = SelectFetchUrls(job.searches, world.domain[Company], limit)
    BY <1>2, <1>5 DEF Selected
  <2> HIDE DEF X
  <2> QED
    BY <2>1, <2>2, <2>3, SelectionType
<1>7. urls \subseteq Hits(c)
  BY RowsType
<1>8. list \in Seq(Hits(c))
  <2> HIDE DEF urls
  <2> QED
    BY <1>6, <1>7, SeqMonotonic
<1>9. Len(list) \in 0..most /\ list \in [1..Len(list) -> Hits(c)]
  BY <1>4, <1>6, <1>8, LenProperties
<1>10. list \in UNION {[1..n -> Hits(c)] : n \in 0..most}
  BY <1>9
<1> QED
  BY <1>1, <1>3, <1>5, <1>10 DEF FetchLists

-----------------------------------------------------------------------------
(* The steps, as the client and the job that uses it see them.             *)

(* What a step is to the client and to the job that uses it.               *)
Aside == UNCHANGED <<job, clientVars>>

BetweenSlices ==
    /\ UNCHANGED clientVars
    /\ job.pc # "company"
    /\ StartDaily \/ StartRefresh \/ job'.pc \in {"verify", "refresh", "idle", "due"}

Leaves(failed) ==
    AtCompany /\ job' = Onward(failed) /\ call' = NoCall /\ UNCHANGED <<limiter, cache, received, faults>>

Ends ==
    /\ ProcessEnds
    /\ job' = NoJob \/ (job.pc = "company" /\ job' = [job EXCEPT !.pc = "clean"])

Asks == AtCompany /\ job' = job /\ \E r : Due(r) /\ Ask(r)

LEMMA Constant ==
  ASSUME [Next]_vars
  PROVE  world' = world /\ policy' = policy
<1>1. CASE UNCHANGED vars
  BY <1>1 DEF vars
<1>2. CASE JobStep
  BY <1>2 DEF JobStep
<1>3. CASE Research
  BY <1>3 DEF Research
<1>4. CASE Die
  BY <1>4 DEF Die
<1>5. CASE Import
  BY <1>5 DEF Import
<1>6. CASE Verify
  BY <1>6 DEF Verify
<1>7. CASE Tick
  BY <1>7 DEF Tick
<1>8. CASE NextDay
  BY <1>8 DEF NextDay
<1> QED
  BY <1>1, <1>2, <1>3, <1>4, <1>5, <1>6, <1>7, <1>8 DEF Next

LEMMA JobOver ==
  ASSUME JobEnds PROVE Ends
<1>1. job' = NoJob /\ ProcessEnds
  BY DEF JobEnds
<1> QED
  BY <1>1 DEF Ends

LEMMA StepForms ==
  ASSUME TypeInv, [Next]_vars
  PROVE  \/ Aside \/ BetweenSlices \/ Ends \/ Asks \/ TakeResults \/ Calls \/ Tick
         \/ \E failed \in BOOLEAN : Leaves(failed)
<1>1. CASE UNCHANGED vars
  BY <1>1 DEF vars, Aside
<1>2. CASE JobStep
  <2>1. CASE StartDaily \/ StartRefresh
    BY <2>1 DEF StartDaily, StartRefresh, Start, BetweenSlices
  <2>2. CASE SeedFails \/ CallRaises \/ NothingToFetch
    BY <2>2 DEF SeedFails, CallRaises, NothingToFetch, Searched, CompanyFails, Leaves
  <2>3. CASE AskSearch
    BY <2>3 DEF AskSearch, Asks, Due
  <2>4. CASE AskFetch
    <3>1. AtCompany /\ Len(job.searches) = Len(Purposes) /\ job' = job /\ Ask(FetchRequest(Selected))
      BY <2>4 DEF AskFetch, Searched
    <3>2. Len(Purposes) \in Nat
      BY SearchAssumption, LenProperties
    <3>3. Due(FetchRequest(Selected))
      BY <3>1, <3>2, SelectedType DEF Due
    <3> QED
      BY <3>1, <3>3 DEF Asks
  <2>5. CASE TakeResults
    BY <2>5
  <2>6. CASE Escapes \/ CleanBreaks \/ GateFails
    <3>1. JobEnds
      BY <2>6 DEF Escapes, CleanBreaks, GateFails
    <3> QED
      BY <3>1, JobOver
  <2>7. CASE EndSlice
    <3>1. CASE JobEnds
      BY <3>1, JobOver
    <3>2. CASE ~JobEnds
      BY <2>7, <3>2 DEF EndSlice, Ends
    <3> QED
      BY <3>1, <3>2
  <2>8. CASE Clean
    <3>1. job' = [job EXCEPT !.pc = "verify"] /\ job.pc = "clean" /\ UNCHANGED clientVars
      BY <2>8 DEF Clean
    <3> QED
      BY <3>1 DEF BetweenSlices
  <2>9. CASE GatePasses
    BY <2>9 DEF GatePasses, NoJob, BetweenSlices
  <2>10. CASE Calls
    BY <2>10
  <2> QED
    BY <1>2, <2>1, <2>2, <2>3, <2>4, <2>5, <2>6, <2>8, <2>9, <2>10, <2>7 DEF JobStep
<1>3. CASE Research
  BY <1>3 DEF Research, NoPacket, Enrich, Fetched, CompanyFails, Leaves
<1>4. CASE Die
  BY <1>4, JobOver DEF Die
<1>5. CASE Import
  BY <1>5 DEF Import, Aside
<1>6. CASE Verify
  BY <1>6 DEF Verify, Aside
<1>7. CASE Tick
  BY <1>7
<1>8. CASE NextDay
  BY <1>8 DEF NextDay, NoJob, BetweenSlices
<1> QED
  BY <1>1, <1>2, <1>3, <1>4, <1>5, <1>6, <1>7, <1>8 DEF Next

-----------------------------------------------------------------------------
(* The types, variable by variable.                                        *)

LEMMA PersistedType ==
  ASSUME NEW packet, packet.company \in Companies, latest \in Seq(Companies), PersistPacket(packet)
  PROVE  latest' \in Seq(Companies)
<1>1. PICK kept : kept = At(latest, {i \in DOMAIN latest : latest[i] # packet.company})
  OBVIOUS
<1>2. kept \in Seq(Companies)
  BY <1>1, AtType
<1>3. latest' = Append(kept, packet.company)
  BY <1>1 DEF PersistPacket
<1> QED
  BY <1>2, <1>3

LEMMA LatestStep ==
  ASSUME TypeInv, [Next]_vars
  PROVE  latest' \in Seq(Companies)
<1>1. latest \in Seq(Companies)
  BY DEF TypeInv, JobType
<1>2. CASE UNCHANGED latest
  BY <1>1, <1>2
<1>3. CASE Enrich
  <2>1. PICK packet : packet.company = Company /\ PersistPacket(packet)
    BY <1>3 DEF Enrich, Packet
  <2>2. Company \in Companies
    BY <1>3, CompanyType DEF Enrich, Fetched
  <2> QED
    BY <1>1, <2>1, <2>2, PersistedType
<1>4. CASE Import
  BY <1>1, <1>4, ManualAssumption, PersistedType DEF Import
<1>5. UNCHANGED latest \/ Enrich \/ Import
  <2>1. CASE UNCHANGED vars
    BY <2>1 DEF vars, storeVars
  <2>2. CASE JobStep
    BY <2>2 DEF JobStep, StartDaily, StartRefresh, Start, SeedFails, CallRaises, CompanyFails,
       AskSearch, TakeResults, AskFetch, NothingToFetch, Escapes, EndSlice, CleanBreaks, Clean,
       GateFails, GatePasses, Calls, JobEnds, CleanUp, storeVars
  <2>3. CASE Research
    BY <2>3 DEF Research, NoPacket, CompanyFails, storeVars
  <2>4. CASE Die \/ Verify \/ Tick \/ NextDay
    BY <2>4 DEF Die, JobEnds, Verify, UpdateContactVerification, Tick, NextDay, storeVars
  <2> QED
    BY <2>1, <2>2, <2>3, <2>4 DEF Next
<1> QED
  BY <1>2, <1>3, <1>4, <1>5

(* The part of JobType that is about the job.                              *)
Slicing(j) ==
    /\ j = [pc |-> j.pc, kind |-> j.kind, todo |-> j.todo, searches |-> j.searches, failed |-> j.failed]
    /\ j.todo \in Seq(Companies)
    /\ j.searches \in Seq(Range(j.searches))
    /\ Len(j.searches) <= Len(Purposes)
    /\ \A i \in DOMAIN j.searches : j.searches[i] \in Good(SearchRequest(Head(j.todo), i))

LEMMA StartedType ==
  ASSUME TypeInv, StartDaily \/ StartRefresh
  PROVE  job'.todo \in Seq(Companies) /\ job'.searches = <<>>
         /\ job' = [pc |-> "company", kind |-> job'.kind, todo |-> job'.todo, searches |-> <<>>,
                    failed |-> FALSE]
<1>1. CASE StartDaily
  <2>1. NotCompleted \in SUBSET Companies
    BY DEF NotCompleted
  <2>2. PICK todo : todo = NotCompleted
    OBVIOUS
  <2>3. todo \in SUBSET Int /\ IsFiniteSet(todo) /\ todo \subseteq Companies
    <3>1. todo \in SUBSET Companies
      BY <2>1, <2>2
    <3>2. todo \in SUBSET Int
      BY <3>1, CompaniesAssumption
    <3>3. IsFiniteSet(todo)
      BY <3>1, CompaniesAssumption, FS_Subset
    <3> QED
      BY <3>1, <3>2, <3>3
  <2>4. PICK ids : ids = Ascending(NotCompleted)
    OBVIOUS
  <2>5. ids \in Seq(Companies)
    BY <2>3, <2>4, <2>2, AscendingType, SeqMonotonic
  <2>6. PICK some : some = Slice(ids, DailyLimit)
    OBVIOUS
  <2>7. some \in Seq(Companies)
    BY <2>5, <2>6, Limits, SliceType
  <2>8. some = NextEnrichmentCompanyIds(DailyLimit)
    BY <2>4, <2>6 DEF NextEnrichmentCompanyIds
  <2>9. job' = [pc |-> "company", kind |-> "daily", todo |-> some, searches |-> <<>>, failed |-> FALSE]
    BY <1>1, <2>8 DEF StartDaily, Start
  <2> QED
    BY <2>7, <2>9
<1>2. CASE StartRefresh
  <2>1. PICK ids : ids = At(latest, {i \in DOMAIN latest : latest[i] \in Stale})
    OBVIOUS
  <2>2. ids \in Seq(Companies)
    BY <2>1, AtType DEF TypeInv, JobType
  <2>3. PICK some : some = Slice(ids, RefreshLimit)
    OBVIOUS
  <2>4. some \in Seq(Companies)
    BY <2>2, <2>3, Limits, SliceType
  <2>5. some = NextRefreshCompanyIds(RefreshLimit)
    BY <2>1, <2>3 DEF NextRefreshCompanyIds
  <2>6. job' = [pc |-> "company", kind |-> "refresh", todo |-> some, searches |-> <<>>, failed |-> FALSE]
    BY <1>2, <2>5 DEF StartRefresh, Start
  <2> QED
    BY <2>4, <2>6
<1> QED
  BY <1>1, <1>2

(* The results that are taken are those of the search that is next.        *)
LEMMA TakenType ==
  ASSUME TypeInv, TakeResults
  PROVE  Len(job.searches) < Len(Purposes)
         /\ call.payload \in Good(SearchRequest(Company, Len(job.searches) + 1))
<1>1. call.pc = "done" /\ call.request.op = "search"
  BY DEF TakeResults
<1>2. call.payload \in Good(call.request) /\ Due(call.request)
  BY <1>1 DEF TypeInv, CallType
<1>3. \A urls : call.request # FetchRequest(urls)
  BY <1>1 DEF FetchRequest
<1> QED
  BY <1>2, <1>3 DEF Due

LEMMA JobStepType ==
  ASSUME TypeInv, [Next]_vars
  PROVE  JobType'
<1> USE Constant
<1>1. \A c, i : SearchRequest(c, i)' = SearchRequest(c, i)
  BY SameWorld
<1>2. \A c, i : Good(SearchRequest(c, i))' = Good(SearchRequest(c, i))
  BY <1>1 DEF Good
<1>3. job.pc = "company" => Slicing(job)
  BY DEF TypeInv, JobType, Slicing, Company
<1>4. SUFFICES ASSUME job'.pc = "company" PROVE Slicing(job')
  <2>1. CASE job'.pc = "company"
    BY <1>2, <1>4, <2>1, LatestStep DEF JobType, Slicing, Company
  <2>2. CASE job'.pc # "company"
    BY <2>2, LatestStep DEF JobType
  <2> QED
    BY <2>1, <2>2
<1>5. CASE UNCHANGED job
  BY <1>3, <1>4, <1>5
<1>6. CASE StartDaily \/ StartRefresh
  <2>1. PICK todo, kind : todo \in Seq(Companies) /\
           job' = [pc |-> "company", kind |-> kind, todo |-> todo, searches |-> <<>>, failed |-> FALSE]
    BY <1>6, StartedType
  <2>2. PICK none : none = <<>>
    OBVIOUS
  <2>3. none \in Seq(Range(none)) /\ Len(none) = 0 /\ DOMAIN none = {}
    BY <2>2
  <2>4. Len(Purposes) \in Nat
    BY SearchAssumption, LenProperties
  <2> QED
    BY <2>1, <2>2, <2>3, <2>4 DEF Slicing
<1>7. CASE \E failed \in BOOLEAN : Leaves(failed)
  <2>1. PICK failed \in BOOLEAN : Leaves(failed)
    BY <1>7
  <2>2. PICK todo \in Seq(Companies) : todo = Tail(job.todo)
    BY <2>1, CompanyType DEF Leaves
  <2>3. PICK bad : bad = (job.failed \/ failed)
    OBVIOUS
  <2>4. job = [pc |-> job.pc, kind |-> job.kind, todo |-> job.todo, searches |-> job.searches,
               failed |-> job.failed]
    BY <1>3, <2>1 DEF Slicing, Leaves, AtCompany
  <2>5. job' = [pc |-> job.pc, kind |-> job.kind, todo |-> todo, searches |-> <<>>, failed |-> bad]
    BY <2>1, <2>2, <2>3, <2>4 DEF Leaves, Onward
  <2>6. PICK none : none = <<>>
    OBVIOUS
  <2>7. none \in Seq(Range(none)) /\ Len(none) = 0 /\ DOMAIN none = {}
    BY <2>6
  <2>8. Len(Purposes) \in Nat
    BY SearchAssumption, LenProperties
  <2> QED
    BY <2>5, <2>6, <2>7, <2>8 DEF Slicing
<1>8. CASE TakeResults
  <2>1. Slicing(job)
    BY <1>3, <1>8 DEF TakeResults, AtCompany
  <2>2. PICK list : list = job.searches
    OBVIOUS
  <2>3. PICK payload : payload = call.payload
    OBVIOUS
  <2>4. list \in Seq(Range(list)) /\ Len(list) < Len(Purposes)
    BY <1>8, <2>1, <2>2, TakenType DEF Slicing
  <2>5. PICK more : more = Append(list, payload)
    OBVIOUS
  <2>6. /\ more \in Seq(Range(list) \cup {payload}) /\ Len(more) = Len(list) + 1
        /\ \A i \in DOMAIN list : more[i] = list[i]
        /\ more[Len(list) + 1] = payload
    BY <2>4, <2>5
  <2>7. more \in Seq(Range(more))
    BY <2>6, SeqOfRange
  <2>8. job' = [pc |-> job.pc, kind |-> job.kind, todo |-> job.todo, searches |-> more,
                failed |-> job.failed]
    BY <1>8, <2>1, <2>2, <2>3, <2>5 DEF TakeResults, Slicing
  <2>9. Len(more) <= Len(Purposes)
    <3>1. Len(Purposes) \in Nat /\ Len(list) \in Nat
      BY <2>4, SearchAssumption, LenProperties
    <3> QED
      BY <2>4, <2>6, <3>1
  <2>10. ASSUME NEW i \in DOMAIN more PROVE more[i] \in Good(SearchRequest(Head(job.todo), i))
    <3>1. CASE i \in DOMAIN list
      BY <2>1, <2>2, <2>6, <3>1 DEF Slicing
    <3>2. CASE i = Len(list) + 1
      BY <1>8, <2>2, <2>3, <2>6, <3>2, TakenType DEF Company
    <3>3. i \in DOMAIN list \/ i = Len(list) + 1
      BY <2>4, <2>6
    <3> QED
      BY <3>1, <3>2, <3>3
  <2>11. job.todo \in Seq(Companies)
    BY <2>1 DEF Slicing
  <2> QED
    BY <2>7, <2>8, <2>9, <2>10, <2>11 DEF Slicing
<1>9. CASE Ends
  <2>1. job' # NoJob
    BY <1>4 DEF NoJob
  <2>2. job.pc = "company" /\ job' = [job EXCEPT !.pc = "clean"]
    BY <1>9, <2>1 DEF Ends
  <2>3. job = [pc |-> job.pc, kind |-> job.kind, todo |-> job.todo, searches |-> job.searches,
               failed |-> job.failed]
    BY <1>3, <2>2 DEF Slicing
  <2>4. job'.pc = "clean"
    BY <2>2, <2>3
  <2> QED
    BY <1>4, <2>4
<1>10. CASE BetweenSlices
  BY <1>4, <1>6, <1>10 DEF BetweenSlices
<1> QED
  BY <1>5, <1>7, <1>8, <1>9, <1>10, StepForms DEF Aside, Asks, Calls, Tick

LEMMA SearchesLength ==
  ASSUME TypeInv, job.pc = "company"
  PROVE  Len(job.searches) \in Nat /\ Len(Purposes) \in Nat /\ DOMAIN Purposes = 1..Len(Purposes)
BY SearchAssumption, LenProperties DEF TypeInv, JobType

LEMMA DueType ==
  ASSUME TypeInv, AtCompany, NEW r, Due(r)
  PROVE  /\ r \in Requests(Company)
         /\ r.op \in {"search", "fetch"}
         /\ Units(r) \in Nat
<1>1. CASE Len(job.searches) < Len(Purposes)
  <2>1. r = SearchRequest(Company, Len(job.searches) + 1)
    BY <1>1 DEF Due
  <2>2. Len(job.searches) + 1 \in DOMAIN Purposes
    BY <1>1, SearchesLength DEF AtCompany
  <2>3. r \in Requests(Company)
    BY <2>1, <2>2 DEF Requests
  <2>4. r.op = "search"
    BY <2>1 DEF SearchRequest, Query
  <2> QED
    BY <2>3, <2>4 DEF Units
<1>2. CASE ~(Len(job.searches) < Len(Purposes))
  <2>1. PICK urls \in FetchLists(Company) : r = FetchRequest(urls)
    BY <1>2 DEF Due
  <2>2. r \in Requests(Company)
    BY <2>1 DEF Requests
  <2>3. r.op = "fetch" /\ r.urls = urls
    BY <2>1 DEF FetchRequest
  <2>4. PICK most \in Nat : most = (IF DailyUrls > RefreshUrls THEN DailyUrls ELSE RefreshUrls)
    BY Limits
  <2>5. PICK n \in 0..most : urls \in [1..n -> Hits(Company)]
    BY <2>1, <2>4 DEF FetchLists
  <2>6. Len(urls) = n
    BY <2>5, ListOf
  <2> QED
    BY <2>2, <2>3, <2>5, <2>6 DEF Units
<1> QED
  BY <1>1, <1>2

LEMMA SameDue ==
  ASSUME job' = job, world' = world, NEW r
  PROVE  AtCompany' = AtCompany /\ Due(r)' = Due(r)
<1>1. Company' = Company
  BY DEF Company
<1>2. SearchRequest(Company, Len(job.searches) + 1)' = SearchRequest(Company, Len(job.searches) + 1)
  BY <1>1, SameWorld DEF SearchRequest
<1>3. FetchLists(Company)' = FetchLists(Company)
  BY <1>1, SameWorld DEF FetchLists, Hits, SearchRequest
<1> QED
  BY <1>1, <1>2, <1>3 DEF AtCompany, Due

(* What the caller gets is a reply to its request.                         *)
LEMMA DeliveredType ==
  ASSUME NEW r, NEW payload \in Replies(r)
  PROVE  \/ Delivered(r, payload) = [pc |-> "raised"]
         \/ /\ Delivered(r, payload) = [pc |-> "done", request |-> r, payload |-> payload]
            /\ payload \in Good(r)
BY DEF Delivered, Good

LEMMA CachedReply ==
  ASSUME TypeInv, NEW r, r.op \in {"search", "fetch"}, NEW i \in Places(r)
  PROVE  /\ i \in 1..Len(cache[r.op])
         /\ cache[r.op] \in Seq(CacheEntries)
         /\ cache[r.op][i] \in CacheEntries
         /\ cache[r.op][i].payload \in Replies(r)
<1>1. PICK list : list = cache[r.op]
  OBVIOUS
<1>2. list \in Seq(CacheEntries)
  BY <1>1 DEF TypeInv, ClientType
<1>3. i \in DOMAIN list /\ list[i].key = r
  BY <1>1 DEF Places, Fingerprint
<1>4. i \in 1..Len(list) /\ list[i] \in CacheEntries
  BY <1>2, <1>3
<1>5. PICK k, x : x = list[i] /\ x \in [key : {k}, payload : Replies(k), age : Nat]
  BY <1>4 DEF CacheEntries
<1>6. x.key = k /\ x.payload \in Replies(k)
  BY <1>5
<1> QED
  BY <1>1, <1>2, <1>3, <1>4, <1>5, <1>6

IsCall(c) == c = [pc |-> c.pc, request |-> c.request, attempt |-> c.attempt]

LEMMA InCall ==
  ASSUME TypeInv, call.pc \in {"acquire", "send"}
  PROVE  /\ IsCall(call) /\ AtCompany /\ Due(call.request)
         /\ call.request \in Requests(Company) /\ Company \in Companies
         /\ call.request.op \in {"search", "fetch"} /\ Units(call.request) \in Nat
<1>1. IsCall(call) /\ AtCompany /\ Due(call.request)
  BY DEF TypeInv, CallType, IsCall
<1> QED
  BY <1>1, DueType, CompanyType

LEMMA CallStepType ==
  ASSUME TypeInv, [Next]_vars
  PROVE  CallType'
<1> USE Constant
<1>1. CASE call'.pc \in {"raised", "escaped"}
  BY <1>1 DEF CallType
<1>2. CASE call' = NoCall
  BY <1>2 DEF CallType, NoCall
<1>3. CASE job' = job /\ call' = call
  <2>1. PICK r : r = call.request
    OBVIOUS
  <2>2. AtCompany' = AtCompany /\ Due(r)' = Due(r)
    BY <1>3, SameDue
  <2>3. Due(call.request)' = Due(r)' /\ Good(call.request)' = Good(call.request)
    BY <1>3, <2>1 DEF Due, Good
  <2> QED
    BY <1>3, <2>1, <2>2, <2>3 DEF TypeInv, CallType, NoCall
<1>4. ASSUME NEW r, Due(r), AtCompany, job' = job, IsCall(call'), call'.pc \in {"acquire", "send"},
             call'.request = r
      PROVE  CallType'
  <2>1. AtCompany' /\ Due(r)'
    BY <1>4, SameDue
  <2> QED
    BY <1>4, <2>1 DEF CallType, IsCall
<1>5. ASSUME NEW r, Due(r), AtCompany, job' = job, NEW payload \in Replies(r),
             call' = Delivered(r, payload)
      PROVE  CallType'
  <2>1. CASE call' = [pc |-> "raised"]
    BY <1>1, <2>1
  <2>2. CASE call' = [pc |-> "done", request |-> r, payload |-> payload] /\ payload \in Good(r)
    <3>1. AtCompany' /\ Due(r)'
      BY <1>5, SameDue
    <3>2. call'.pc = "done" /\ call'.request = r /\ call'.payload \in Good(r)
      BY <2>2
    <3> QED
      BY <3>1, <3>2 DEF CallType, Good
  <2> QED
    BY <1>5, <2>1, <2>2, DeliveredType
<1>6. CASE BetweenSlices
  <2>1. call' = call /\ ~AtCompany
    BY <1>6 DEF BetweenSlices, clientVars, AtCompany
  <2> QED
    BY <2>1 DEF TypeInv, CallType, NoCall
<1>7. CASE Asks
  <2>1. PICK r : AtCompany /\ job' = job /\ Due(r) /\ Ask(r)
    BY <1>7 DEF Asks
  <2>2. CASE AskCache(r)
    <3>1. PICK i \in Places(r) : call' = Delivered(r, cache[r.op][i].payload)
      BY <2>2 DEF AskCache
    <3>2. cache[r.op][i].payload \in Replies(r)
      BY <2>1, CachedReply, DueType
    <3> QED
      BY <1>5, <2>1, <3>1, <3>2
  <2>3. CASE AskProvider(r)
    <3>1. call' = [pc |-> "acquire", request |-> r, attempt |-> 1]
      BY <2>3 DEF AskProvider
    <3>2. IsCall(call') /\ call'.pc = "acquire" /\ call'.request = r
      BY <3>1 DEF IsCall
    <3> QED
      BY <1>4, <2>1, <3>2
  <2> QED
    BY <2>1, <2>2, <2>3 DEF Ask
<1>8. CASE Calls
  <2>1. job' = job
    BY <1>8 DEF Calls
  <2>2. CASE Acquire
    <3>1. PICK c : c = call
      OBVIOUS
    <3>2. IsCall(c) /\ Due(c.request) /\ AtCompany
      BY <2>2, <3>1, InCall DEF Acquire
    <3>3. call' = [c EXCEPT !.pc = "send"]
      BY <2>2, <3>1 DEF Acquire
    <3>4. call' = [pc |-> "send", request |-> c.request, attempt |-> c.attempt]
      BY <3>2, <3>3 DEF IsCall
    <3>5. IsCall(call') /\ call'.pc = "send" /\ call'.request = c.request
      BY <3>4 DEF IsCall
    <3> QED
      BY <1>4, <2>1, <3>2, <3>5
  <2>3. CASE QuotaExceeded \/ IndexFails \/ FailForGood \/ BreakOff
    BY <1>1, <2>3 DEF QuotaExceeded, IndexFails, FailForGood, BreakOff
  <2>4. CASE Succeed
    <3>1. PICK payload \in Replies(call.request) : call' = Delivered(call.request, payload)
      BY <2>4 DEF Succeed
    <3>2. Due(call.request) /\ AtCompany
      BY <2>4, InCall DEF Succeed
    <3>3. PICK r : r = call.request
      OBVIOUS
    <3> QED
      BY <1>5, <2>1, <3>1, <3>2, <3>3
  <2>5. CASE FailAndRetry
    <3>1. CASE call' = [pc |-> "raised"]
      BY <1>1, <3>1
    <3>2. CASE call' = [call EXCEPT !.pc = "acquire", !.attempt = @ + 1]
      <4>1. PICK c : c = call
        OBVIOUS
      <4>2. IsCall(c) /\ Due(c.request) /\ AtCompany
        BY <2>5, <4>1, InCall DEF FailAndRetry, Fault
      <4>3. call' = [pc |-> "acquire", request |-> c.request, attempt |-> c.attempt + 1]
        BY <3>2, <4>1, <4>2 DEF IsCall
      <4>4. IsCall(call') /\ call'.pc = "acquire" /\ call'.request = c.request
        BY <4>3 DEF IsCall
      <4> QED
        BY <1>4, <2>1, <4>2, <4>4
    <3> QED
      BY <2>5, <3>1, <3>2 DEF FailAndRetry
  <2> QED
    BY <1>8, <2>2, <2>3, <2>4, <2>5 DEF Calls, ClientStep
<1>9. CASE Ends \/ TakeResults \/ \E failed \in BOOLEAN : Leaves(failed)
  BY <1>2, <1>9 DEF Ends, ProcessEnds, TakeResults, Leaves
<1>10. CASE Aside \/ Tick
  BY <1>3, <1>10 DEF Aside, clientVars, Tick, ClientTick
<1> QED
  BY <1>6, <1>7, <1>8, <1>9, <1>10, StepForms

Ops == {"search", "fetch"}

LEMMA SomeEntry ==
  ASSUME NEW x \in CacheEntries
  PROVE  \E r \in UNION {Requests(c) : c \in Companies} : \E payload \in Replies(r), age \in Nat :
            x = [key |-> r, payload |-> payload, age |-> age]
<1>1. PICK r \in UNION {Requests(c) : c \in Companies} :
         x \in [key : {r}, payload : Replies(r), age : Nat]
  BY DEF CacheEntries
<1> QED
  BY <1>1

LEMMA OlderEntry ==
  ASSUME NEW x \in CacheEntries, NEW top
  PROVE  Older(x, top) \in CacheEntries
<1>1. PICK r \in UNION {Requests(c) : c \in Companies} : \E payload \in Replies(r), age \in Nat :
         x = [key |-> r, payload |-> payload, age |-> age]
  BY SomeEntry
<1>2. PICK payload \in Replies(r), age \in Nat : x = [key |-> r, payload |-> payload, age |-> age]
  BY <1>1
<1>3. PICK older \in Nat : older = (IF age < top THEN age + 1 ELSE age)
  OBVIOUS
<1>4. Older(x, top) = [key |-> r, payload |-> payload, age |-> older]
  BY <1>2, <1>3 DEF Older
<1>5. [key |-> r, payload |-> payload, age |-> older] \in [key : {r}, payload : Replies(r), age : Nat]
  OBVIOUS
<1> QED
  BY <1>4, <1>5 DEF CacheEntries

LEMMA CacheStepType ==
  ASSUME TypeInv, [Next]_vars
  PROVE  cache' \in [Ops -> Seq(CacheEntries)]
<1>1. cache \in [Ops -> Seq(CacheEntries)]
  BY DEF TypeInv, ClientType, Ops
<1>2. CASE UNCHANGED cache
  BY <1>1, <1>2
<1>3. ASSUME NEW op \in Ops, NEW s \in Seq(CacheEntries), cache' = [cache EXCEPT ![op] = s]
      PROVE  cache' \in [Ops -> Seq(CacheEntries)]
  BY <1>1, <1>3
<1>4. ASSUME NEW s \in Seq(CacheEntries), NEW i \in 1..Len(s)
      PROVE  RemoveAt(s, i) \in Seq(CacheEntries)
  <2>1. PICK n \in Nat : Len(s) = n /\ \A k \in 1..n : s[k] \in CacheEntries
    OBVIOUS
  <2>2. SubSeq(s, 1, i - 1) \in Seq(CacheEntries)
    BY <1>4, <2>1, SubSeqProperties
  <2>3. SubSeq(s, i + 1, n) \in Seq(CacheEntries)
    BY <1>4, <2>1, SubSeqProperties
  <2> QED
    BY <2>1, <2>2, <2>3, ConcatProperties DEF RemoveAt
<1>5. CASE Asks
  <2>1. PICK r : AtCompany /\ Due(r) /\ Ask(r)
    BY <1>5 DEF Asks
  <2>2. PICK op \in Ops : op = r.op
    BY <2>1, DueType DEF Ops
  <2>3. PICK s \in Seq(CacheEntries) : s = cache[op]
    BY <1>1
  <2>4. \A i \in Places(r) : i \in 1..Len(s) /\ s[i] \in CacheEntries
    BY <2>1, <2>2, <2>3, DueType, CachedReply
  <2>5. CASE AskCache(r)
    <3>1. PICK i \in Places(r) : cache' = [cache EXCEPT ![op] = Append(RemoveAt(@, i), cache[r.op][i])]
      BY <2>2, <2>5 DEF AskCache
    <3>2. PICK t \in Seq(CacheEntries) : t = RemoveAt(s, i)
      BY <1>4, <2>4
    <3>3. PICK e \in CacheEntries : e = s[i]
      BY <2>4
    <3>4. PICK u \in Seq(CacheEntries) : u = Append(t, e)
      BY AppendProperties
    <3>5. cache' = [cache EXCEPT ![op] = u]
      BY <2>2, <2>3, <3>1, <3>2, <3>3, <3>4
    <3> QED
      BY <1>3, <3>5
  <2>6. CASE AskProvider(r)
    <3>1. CASE UNCHANGED cache
      BY <1>2, <3>1
    <3>2. ASSUME NEW i \in Places(r), cache' = [cache EXCEPT ![r.op] = RemoveAt(@, i)]
          PROVE  cache' \in [Ops -> Seq(CacheEntries)]
      <4>1. PICK t \in Seq(CacheEntries) : t = RemoveAt(s, i)
        BY <1>4, <2>4
      <4>2. cache' = [cache EXCEPT ![op] = t]
        BY <2>2, <2>3, <3>2, <4>1
      <4> QED
        BY <1>3, <4>2
    <3> QED
      BY <2>6, <3>1, <3>2 DEF AskProvider
  <2> QED
    BY <2>1, <2>5, <2>6 DEF Ask
<1>6. CASE Succeed
  <2>1. call.pc = "send"
    BY <1>6 DEF Succeed
  <2>2. PICK r : r = call.request
    OBVIOUS
  <2>3. r.op \in Ops /\ r \in Requests(Company) /\ Company \in Companies
    BY <2>1, <2>2, InCall DEF Ops
  <2>4. PICK op \in Ops : \E c \in Companies : op = r.op /\ r \in Requests(c)
    BY <2>3
  <2>5. PICK payload \in Replies(r) : cache' = Stored(r, payload)
    BY <1>6, <2>2 DEF Succeed
  <2>6. PICK x : x = [key |-> Fingerprint(r), payload |-> payload, age |-> 0]
    OBVIOUS
  <2>7. x \in CacheEntries
    <3>1. x \in [key : {r}, payload : Replies(r), age : Nat]
      BY <2>6 DEF Fingerprint
    <3> QED
      BY <2>4, <3>1 DEF CacheEntries
  <2>8. PICK s \in Seq(CacheEntries) : s = cache[op]
    BY <1>1
  <2>9. PICK kept \in Seq(CacheEntries) : kept = (IF Len(s) >= MaxEntries THEN Tail(s) ELSE s)
    <3>1. Len(s) >= MaxEntries => s # <<>>
      BY CacheAssumption
    <3> QED
      BY <3>1, HeadTailProperties
  <2>10. PICK t \in Seq(CacheEntries) : t = Append(kept, x)
    BY <2>7, AppendProperties
  <2>11. cache' = cache \/ cache' = [cache EXCEPT ![op] = t]
    BY <2>4, <2>5, <2>6, <2>8, <2>9, <2>10 DEF Stored
  <2> QED
    BY <1>2, <1>3, <2>11
<1>7. CASE Calls
  <2>1. CASE Succeed
    BY <1>6, <2>1
  <2>2. CASE ~Succeed
    BY <1>2, <1>7, <2>2 DEF Calls, ClientStep, Acquire, QuotaExceeded, IndexFails, FailAndRetry,
       FailForGood, BreakOff, Fault
  <2> QED
    BY <2>1, <2>2
<1>8. CASE Tick
  <2>1. cache' = [op \in Ops |-> Aged(cache[op], CacheTtl)]
    BY <1>1, <1>8 DEF Tick, ClientTick
  <2>2. ASSUME NEW s \in Seq(CacheEntries) PROVE Aged(s, CacheTtl) \in Seq(CacheEntries)
    <3>1. PICK n \in Nat : DOMAIN s = 1..n /\ \A i \in 1..n : s[i] \in CacheEntries
      OBVIOUS
    <3>2. PICK t : t = Aged(s, CacheTtl)
      OBVIOUS
    <3>3. t \in [1..n -> CacheEntries]
      BY <3>1, <3>2, OlderEntry DEF Aged
    <3> QED
      BY <3>1, <3>2, <3>3, ListOf
  <2> QED
    BY <1>1, <2>1, <2>2
<1>9. CASE Ends
  <2>1. cache' = [search |-> <<>>, fetch |-> <<>>]
    BY <1>9 DEF Ends, ProcessEnds, NewCache
  <2>2. PICK none \in Seq(CacheEntries) : none = <<>>
    BY EmptySeq
  <2>3. [search |-> none, fetch |-> none] \in [Ops -> Seq(CacheEntries)]
    BY DEF Ops
  <2> QED
    BY <2>1, <2>2, <2>3
<1> QED
  BY <1>2, <1>5, <1>7, <1>8, <1>9, StepForms
     DEF Aside, BetweenSlices, clientVars, TakeResults, Leaves

(* What pruning drops are the first entries of a window, all too old.      *)
LEMMA PrunedIs ==
  ASSUME TypeInv, NEW w \in Windows
  PROVE  \E from \in 1..(Len(limiter[w]) + 1) :
            /\ Pruned(w) = SubSeq(limiter[w], from, Len(limiter[w]))
            /\ \A i \in 1..(from - 1) : ~(limiter[w][i].age < Span[w])
<1>1. PICK s \in Seq(LimiterEntries) : s = limiter[w]
  BY DEF TypeInv, ClientType
<1>2. PICK n \in Nat : n = Len(s) /\ DOMAIN s = 1..n
  OBVIOUS
<1>3. PICK young \in SUBSET (1..n) : young = {i \in DOMAIN s : s[i].age < Span[w]}
  BY <1>2
<1>4. Pruned(w) = IF young = {} THEN <<>> ELSE SubSeq(s, Min(young), n)
  BY <1>1, <1>2, <1>3 DEF Pruned
<1>5. CASE young = {}
  <2>1. SubSeq(s, n + 1, n) = <<>>
    BY SubSeqEmpty
  <2>2. \A i \in 1..n : ~(s[i].age < Span[w])
    BY <1>2, <1>3, <1>5
  <2>3. n + 1 \in 1..(n + 1) /\ (n + 1) - 1 = n
    OBVIOUS
  <2> QED
    BY <1>1, <1>2, <1>4, <1>5, <2>1, <2>2, <2>3
<1>6. CASE young # {}
  <2>1. young \in SUBSET Nat
    OBVIOUS
  <2>2. \E m \in young : \A k \in young : m <= k
    BY <1>6, <2>1, LeastNat
  <2>3. PICK from \in young : from = Min(young) /\ \A k \in young : from <= k
    BY <2>2 DEF Min
  <2>4. \A i \in 1..(from - 1) : ~(s[i].age < Span[w])
    BY <1>2, <1>3, <2>3
  <2>5. from \in 1..(n + 1) /\ Pruned(w) = SubSeq(s, from, n)
    <3>1. from \in 1..n
      BY <1>3, <2>3
    <3>2. Pruned(w) = SubSeq(s, Min(young), n)
      BY <1>4, <1>6
    <3> QED
      BY <2>3, <3>1, <3>2
  <2> QED
    BY <1>1, <1>2, <2>4, <2>5
<1> QED
  BY <1>5, <1>6

LEMMA PrunedType ==
  ASSUME TypeInv, NEW w \in Windows
  PROVE  Pruned(w) \in Seq(LimiterEntries)
<1>1. PICK s \in Seq(LimiterEntries) : s = limiter[w]
  BY DEF TypeInv, ClientType
<1>2. PICK from \in 1..(Len(s) + 1) : Pruned(w) = SubSeq(s, from, Len(s))
  BY <1>1, PrunedIs
<1> QED
  BY <1>1, <1>2, SubSeqProperties

LEMMA LimiterStepType ==
  ASSUME TypeInv, [Next]_vars
  PROVE  limiter' \in [Windows -> Seq(LimiterEntries)]
<1>1. limiter \in [Windows -> Seq(LimiterEntries)]
  BY DEF TypeInv, ClientType
<1>2. CASE UNCHANGED limiter
  BY <1>1, <1>2
<1>3. CASE Acquire
  <2>1. PICK units \in Nat : units = Units(call.request)
    BY <1>3, InCall DEF Acquire
  <2>2. PICK new \in LimiterEntries : new = [age |-> 0, units |-> units]
    BY DEF LimiterEntries
  <2>3. \A w \in Windows : limiter'[w] = Pruned(w) \/ limiter'[w] = Append(Pruned(w), new)
    BY <1>3, <2>1, <2>2 DEF Acquire
  <2>4. \A w \in Windows : limiter'[w] \in Seq(LimiterEntries)
    BY <2>3, PrunedType, AppendProperties
  <2>5. limiter' = [w \in Windows |-> limiter'[w]]
    BY <1>3 DEF Acquire
  <2> QED
    BY <2>4, <2>5
<1>4. CASE Calls
  <2>1. CASE ~Acquire
    BY <1>2, <1>4, <2>1 DEF Calls, ClientStep, Succeed, QuotaExceeded, IndexFails, FailAndRetry,
       FailForGood, BreakOff, Fault
  <2> QED
    BY <1>3, <2>1
<1>5. CASE Tick
  <2>1. limiter' = [w \in Windows |-> Aged(limiter[w], Span[w])]
    BY <1>5 DEF Tick, ClientTick
  <2>2. ASSUME NEW s \in Seq(LimiterEntries), NEW top PROVE Aged(s, top) \in Seq(LimiterEntries)
    <3>1. PICK n \in Nat : DOMAIN s = 1..n /\ \A i \in 1..n : s[i] \in LimiterEntries
      OBVIOUS
    <3>2. \A x \in LimiterEntries : Older(x, top) \in LimiterEntries
      BY DEF LimiterEntries, Older
    <3>3. PICK t : t = Aged(s, top)
      OBVIOUS
    <3>4. t \in [1..n -> LimiterEntries]
      BY <3>1, <3>2, <3>3 DEF Aged
    <3> QED
      BY <3>1, <3>3, <3>4, ListOf
  <2> QED
    BY <1>1, <2>1, <2>2
<1>6. CASE Ends
  <2>1. limiter' = [w \in Windows |-> <<>>]
    BY <1>6 DEF Ends, ProcessEnds, NewLimiter
  <2> QED
    BY <2>1, EmptySeq
<1>7. CASE Asks
  BY <1>2, <1>7 DEF Asks, Ask, AskCache, AskProvider
<1> QED
  BY <1>2, <1>4, <1>5, <1>6, <1>7, StepForms DEF Aside, BetweenSlices, clientVars, TakeResults, Leaves

Received == [op : Ops, age : Nat, after : Nat]

LEMMA ArrivedType ==
  ASSUME TypeInv, call.pc = "send"
  PROVE  Arrived \subseteq Received
<1>1. PICK units \in Nat, op \in Ops : units = Units(call.request) /\ op = call.request.op
  BY InCall DEF Ops
<1>2. received \subseteq Received
  BY DEF TypeInv, ClientType, Received, Ops
<1>3. Arrived = {[e EXCEPT !.after = IF e.op = op THEN @ + units ELSE @] : e \in received}
                \cup {[op |-> op, age |-> 0, after |-> 0]}
  BY <1>1 DEF Arrived
<1>4. \A e \in Received : [e EXCEPT !.after = IF e.op = op THEN @ + units ELSE @] \in Received
  BY DEF Received
<1>5. [op |-> op, age |-> 0, after |-> 0] \in Received
  BY DEF Received
<1> QED
  BY <1>2, <1>3, <1>4, <1>5

LEMMA ReceivedStepType ==
  ASSUME TypeInv, [Next]_vars
  PROVE  received' \subseteq Received
<1>1. received \subseteq Received
  BY DEF TypeInv, ClientType, Received, Ops
<1>2. CASE UNCHANGED received
  BY <1>1, <1>2
<1>3. CASE Calls
  <2>1. CASE Succeed \/ Fault
    <3>1. call.pc = "send" /\ received' \in {received, Arrived}
      BY <2>1 DEF Succeed, Fault
    <3> QED
      BY <1>1, <3>1, ArrivedType
  <2>2. CASE ~Succeed /\ ~Fault
    BY <1>2, <1>3, <2>2 DEF Calls, ClientStep, Acquire, QuotaExceeded, IndexFails, FailAndRetry,
       FailForGood, BreakOff
  <2> QED
    BY <2>1, <2>2
<1>4. CASE Tick
  <2>1. received' \subseteq {Older(e, Day) : e \in received}
    BY <1>4 DEF Tick, ClientTick
  <2>2. \A e \in Received : Older(e, Day) \in Received
    BY DEF Received, Older
  <2> QED
    BY <1>1, <2>1, <2>2
<1>5. CASE Ends
  BY <1>5 DEF Ends, ProcessEnds
<1>6. CASE Asks
  BY <1>2, <1>6 DEF Asks, Ask, AskCache, AskProvider
<1> QED
  BY <1>2, <1>3, <1>4, <1>5, <1>6, StepForms DEF Aside, BetweenSlices, clientVars, TakeResults, Leaves

LEMMA TypeStep ==
  ASSUME TypeInv, [Next]_vars
  PROVE  TypeInv'
<1>1. CacheEntries' = CacheEntries
  BY Constant, SameEntries
<1>2. ClientType'
  BY <1>1, CacheStepType, LimiterStepType, ReceivedStepType
     DEF ClientType, Ops, Received, Windows, LimiterEntries
<1> QED
  BY <1>2, Constant, JobStepType, CallStepType DEF TypeInv

(* Type correctness: a call is the one its company is due, an answer in    *)
(* the cache or at hand is one the provider may give to the request it is  *)
(* kept under, and the windows and the job hold what they should.          *)
THEOREM TypeCorrect == Spec => []TypeInv
<1>1. Init => TypeInv
  <2> SUFFICES ASSUME Init PROVE TypeInv
    OBVIOUS
  <2>1. JobType
    BY EmptySeq DEF Init, StoreInit, NoJob, JobType
  <2>2. CallType
    BY DEF Init, ClientInit, NoCall, CallType
  <2>3. limiter \in [Windows -> Seq(LimiterEntries)]
    BY EmptySeq DEF Init, ClientInit, NewLimiter
  <2>4. PICK none \in Seq(CacheEntries) : none = <<>>
    BY EmptySeq
  <2>5. [search |-> none, fetch |-> none] \in [{"search", "fetch"} -> Seq(CacheEntries)]
    OBVIOUS
  <2>6. cache \in [{"search", "fetch"} -> Seq(CacheEntries)]
    BY <2>4, <2>5 DEF Init, ClientInit, NewCache
  <2>7. world \in Worlds /\ policy \in Policies /\ received = {}
    BY DEF Init, ClientInit
  <2> QED
    BY <2>1, <2>2, <2>3, <2>6, <2>7 DEF TypeInv, ClientType
<1>2. TypeInv /\ [Next]_vars => TypeInv'
  BY TypeStep
<1> QED
  BY <1>1, <1>2, PTL DEF Spec

-----------------------------------------------------------------------------
(* The budget: what is sent within a span of a window was admitted in it.  *)

LEMMA UnitsType ==
  ASSUME NEW s \in Seq(LimiterEntries)
  PROVE  \E n \in Nat : /\ Len(s) = n /\ DOMAIN s = 1..n /\ IsFiniteSet(1..n)
                        /\ UnitsOf(s) \in [1..n -> Nat] /\ UnitsOf(s) \in [1..n -> Int]
                        /\ \A i \in 1..n : s[i] \in LimiterEntries /\ UnitsOf(s)[i] = s[i].units
<1>1. PICK n \in Nat : Len(s) = n /\ DOMAIN s = 1..n /\ \A i \in 1..n : s[i] \in LimiterEntries
  OBVIOUS
<1>2. IsFiniteSet(1..n)
  BY FS_Interval
<1>3. \A x \in LimiterEntries : x.units \in Nat
  BY DEF LimiterEntries
<1>4. UnitsOf(s) = [i \in 1..n |-> s[i].units]
  BY <1>1 DEF UnitsOf
<1> QED
  BY <1>1, <1>2, <1>3, <1>4

LEMMA SinceType ==
  ASSUME NEW s \in Seq(LimiterEntries), NEW age
  PROVE  Since(s, age) \in Nat /\ Total(s) \in Nat /\ Since(s, age) <= Total(s)
<1>1. PICK n \in Nat : DOMAIN s = 1..n /\ IsFiniteSet(1..n) /\ UnitsOf(s) \in [1..n -> Nat]
  BY UnitsType
<1>2. PICK T \in SUBSET (1..n) : T = {i \in DOMAIN s : s[i].age <= age}
  BY <1>1
<1>3. Total(s) = SumFunctionOnSet(UnitsOf(s), 1..n)
  <2>1. DOMAIN UnitsOf(s) = 1..n
    BY <1>1
  <2> QED
    BY <2>1 DEF Total, SumFunction, SumFunctionOnSet, FoldFunction, UnitsOf
<1>4. Since(s, age) = SumFunctionOnSet(UnitsOf(s), T)
  BY <1>2 DEF Since
<1> QED
  BY <1>1, <1>3, <1>4, SumNat, SumMore

LEMMA SinceAppend ==
  ASSUME NEW s \in Seq(LimiterEntries), NEW units \in Nat, NEW age \in Nat
  PROVE  Since(Append(s, [age |-> 0, units |-> units]), age) = Since(s, age) + units
<1>1. PICK x \in LimiterEntries : x = [age |-> 0, units |-> units]
  BY DEF LimiterEntries
<1>2. PICK t \in Seq(LimiterEntries) : t = Append(s, x)
  BY AppendProperties
<1>3. PICK n \in Nat : Len(s) = n /\ DOMAIN s = 1..n /\ IsFiniteSet(1..n) /\ UnitsOf(s) \in [1..n -> Int]
                       /\ \A i \in 1..n : UnitsOf(s)[i] = s[i].units
  BY UnitsType
<1>4. Len(t) = n + 1 /\ DOMAIN t = 1..(n + 1) /\ t[n + 1] = x /\ \A i \in 1..n : t[i] = s[i]
  BY <1>2, <1>3, AppendProperties
<1>5. IsFiniteSet(1..(n + 1)) /\ UnitsOf(t) \in [1..(n + 1) -> Int]
      /\ \A i \in 1..(n + 1) : UnitsOf(t)[i] = t[i].units
  BY <1>4, UnitsType
<1> DEFINE T == {i \in DOMAIN s : s[i].age <= age}
           U == {i \in DOMAIN t : t[i].age <= age}
<1>6. U = T \cup {n + 1}
  <2>1. x.age = 0
    BY <1>1
  <2> QED
    BY <1>3, <1>4, <2>1
<1>7. T \in SUBSET (1..n) /\ U \in SUBSET (1..(n + 1)) /\ n + 1 \in U /\ U \ {n + 1} = T
  BY <1>3, <1>4, <1>6
<1>8. Since(t, age) = SumFunctionOnSet(UnitsOf(t), U) /\ Since(s, age) = SumFunctionOnSet(UnitsOf(s), T)
  BY DEF Since
<1> HIDE DEF T, U
<1>9. PICK S, R : S = 1..(n + 1) /\ R = 1..n
  OBVIOUS
<1>10. PICK f : f = UnitsOf(t) /\ f \in [S -> Int] /\ IsFiniteSet(S)
  BY <1>5, <1>9
<1>11. PICK g : g = UnitsOf(s) /\ g \in [R -> Int] /\ IsFiniteSet(R)
  BY <1>3, <1>9
<1>12. SumFunctionOnSet(f, U) = f[n + 1] + SumFunctionOnSet(f, T)
  <2>1. SumFunctionOnSet(f, U) = f[n + 1] + SumFunctionOnSet(f, U \ {n + 1})
    <3>1. U \in SUBSET S /\ n + 1 \in U
      BY <1>7, <1>9
    <3> QED
      BY <1>10, <3>1, SumWithout
  <2> QED
    BY <1>7, <2>1
<1>13. SumFunctionOnSet(f, T) = SumFunctionOnSet(g, T)
  <2>1. \A i \in T : f[i] = g[i]
    BY <1>3, <1>4, <1>5, <1>7, <1>10, <1>11
  <2>2. T \subseteq S /\ T \subseteq R
    BY <1>7, <1>9
  <2>3. Summable(f, S) /\ Summable(g, R)
    BY <1>10, <1>11 DEF Summable
  <2> QED
    BY <2>1, <2>2, <2>3, SumSame
<1>14. UnitsOf(t)[n + 1] = units
  BY <1>1, <1>4, <1>5
<1>15. Since(s, age) \in Nat
  BY SinceType
<1> QED
  BY <1>1, <1>2, <1>8, <1>12, <1>13, <1>14, <1>15, <1>10, <1>11

(* Entries that are too old do not count.                                  *)
LEMMA SinceSuffix ==
  ASSUME NEW s \in Seq(LimiterEntries), NEW from \in 1..(Len(s) + 1), NEW age \in Nat,
         NEW span \in Nat, \A i \in 1..(from - 1) : ~(s[i].age < span), age < span
  PROVE  Since(SubSeq(s, from, Len(s)), age) = Since(s, age)
<1>1. PICK n \in Nat : Len(s) = n /\ DOMAIN s = 1..n /\ IsFiniteSet(1..n) /\ UnitsOf(s) \in [1..n -> Int]
                       /\ \A i \in 1..n : s[i] \in LimiterEntries /\ UnitsOf(s)[i] = s[i].units
  BY UnitsType
<1>2. PICK t : t = SubSeq(s, from, n)
  OBVIOUS
<1>3. PICK k \in Nat : k = n - from + 1
  BY <1>1
<1>4. t \in Seq(LimiterEntries) /\ Len(t) = k /\ \A i \in 1..k : t[i] = s[from + i - 1]
  <2>1. \A i \in from..n : s[i] \in LimiterEntries
    BY <1>1
  <2> QED
    BY <1>1, <1>2, <1>3, <2>1, SubSeqProperties
<1>5. DOMAIN t = 1..k /\ IsFiniteSet(1..k) /\ UnitsOf(t) \in [1..k -> Int]
      /\ \A i \in 1..k : UnitsOf(t)[i] = t[i].units
  BY <1>4, UnitsType
<1> DEFINE h == [i \in 1..k |-> from + i - 1]
           T == {i \in DOMAIN s : s[i].age <= age}
           U == {i \in DOMAIN t : t[i].age <= age}
<1>6. /\ h \in [1..k -> 1..n]
      /\ \A i \in 1..k : UnitsOf(t)[i] = UnitsOf(s)[h[i]]
      /\ \A i, j \in 1..k : h[i] = h[j] => i = j
  <2>1. \A i \in 1..k : from + i - 1 \in 1..n
    BY <1>1, <1>3
  <2>2. h \in [1..k -> 1..n] /\ \A i \in 1..k : h[i] = from + i - 1
    BY <2>1
  <2>3. ASSUME NEW i \in 1..k PROVE UnitsOf(t)[i] = UnitsOf(s)[h[i]]
    <3>1. PICK j \in 1..n : j = h[i] /\ j = from + i - 1
      BY <2>2
    <3>2. UnitsOf(t)[i] = t[i].units /\ t[i] = s[j] /\ UnitsOf(s)[j] = s[j].units
      BY <1>1, <1>4, <1>5, <3>1
    <3> QED
      BY <3>1, <3>2
  <2>4. \A i, j \in 1..k : h[i] = h[j] => i = j
    BY <1>1, <1>3, <2>2
  <2> HIDE DEF h
  <2> QED
    BY <2>2, <2>3, <2>4
<1>7. {h[i] : i \in U} = T
  <2>1. \A x \in LimiterEntries : x.age \in Nat
    BY DEF LimiterEntries
  <2>2. ASSUME NEW j \in T PROVE \E i \in U : j = h[i]
    <3>1. j \in 1..n /\ s[j].age <= age /\ s[j].age \in Nat
      BY <1>1, <2>1
    <3>2. ~(j \in 1..(from - 1))
      BY <3>1
    <3>3. j - from + 1 \in 1..k
      BY <1>1, <1>3, <3>1, <3>2
    <3>4. from + (j - from + 1) - 1 = j
      BY <3>1
    <3>5. t[j - from + 1] = s[j]
      BY <1>4, <3>3, <3>4
    <3>6. j - from + 1 \in U
      BY <1>5, <3>1, <3>3, <3>5
    <3>7. h[j - from + 1] = j
      BY <3>3, <3>4
    <3> QED
      BY <3>6, <3>7
  <2>3. \A i \in U : h[i] \in T
    <3>1. \A i \in U : i \in 1..k /\ t[i].age <= age
      BY <1>5
    <3> QED
      BY <1>1, <1>4, <1>6, <3>1
  <2> HIDE DEF h, T, U
  <2> QED
    BY <2>2, <2>3
<1>8. Since(t, age) = SumFunctionOnSet(UnitsOf(t), U) /\ Since(s, age) = SumFunctionOnSet(UnitsOf(s), T)
  BY DEF Since
<1>9. U \in SUBSET (1..k)
  BY <1>5
<1> HIDE DEF h, T, U
<1>10. PICK S, R, f, g, m : S = 1..k /\ R = 1..n /\ f = UnitsOf(t) /\ g = UnitsOf(s) /\ m = h
  OBVIOUS
<1>11. SumFunctionOnSet(f, U) = SumFunctionOnSet(g, T)
  <2>1. Summable(f, S) /\ Summable(g, R)
    BY <1>1, <1>5, <1>10 DEF Summable
  <2>2. Renames(m, f, S, g, R)
    BY <1>6, <1>10 DEF Renames
  <2>3. U \subseteq S /\ T = {m[i] : i \in U}
    BY <1>7, <1>9, <1>10
  <2> QED
    BY <2>1, <2>2, <2>3, SumRenamed
<1> QED
  BY <1>1, <1>2, <1>8, <1>10, <1>11

LEMMA SinceAged ==
  ASSUME NEW s \in Seq(LimiterEntries), NEW age \in Nat, NEW span \in Nat, age + 1 < span
  PROVE  Since(Aged(s, span), age + 1) = Since(s, age)
<1>1. PICK n \in Nat : DOMAIN s = 1..n /\ \A i \in 1..n : s[i] \in LimiterEntries
  BY UnitsType
<1>2. PICK t : t = Aged(s, span)
  OBVIOUS
<1>3. DOMAIN t = 1..n /\ \A i \in 1..n : t[i] = Older(s[i], span)
  BY <1>1, <1>2 DEF Aged
<1>4. \A x \in LimiterEntries : Older(x, span).units = x.units
                               /\ (Older(x, span).age <= age + 1 <=> x.age <= age)
  BY DEF LimiterEntries, Older
<1>5. UnitsOf(t) = UnitsOf(s)
  BY <1>1, <1>3, <1>4 DEF UnitsOf
<1>6. {i \in DOMAIN t : t[i].age <= age + 1} = {i \in DOMAIN s : s[i].age <= age}
  BY <1>1, <1>3, <1>4
<1> QED
  BY <1>2, <1>5, <1>6 DEF Since

LEMMA WindowType ==
  ASSUME TypeInv, NEW e \in Received, NEW w \in WindowsOf(e)
  PROVE  /\ w \in Windows /\ Span[w] \in Nat /\ policy[w] \in Nat
         /\ limiter[w] \in Seq(LimiterEntries)
         /\ e.age \in Nat /\ e.after \in Nat /\ e.op \in Ops
<1>1. w \in Windows
  BY DEF WindowsOf, Windows
<1>2. Span[w] \in Nat
  BY <1>1, TimeAssumption DEF Span, Windows
<1>3. policy[w] \in Nat
  BY <1>1, PolicyAssumption DEF TypeInv
<1>4. limiter[w] \in Seq(LimiterEntries)
  BY <1>1 DEF TypeInv, ClientType
<1> QED
  BY <1>1, <1>2, <1>3, <1>4 DEF Received

LEMMA OnTheWayType ==
  ASSUME TypeInv, NEW op
  PROVE  OnTheWay(op) \in Nat
BY InCall DEF OnTheWay

(* What BudgetInv says of one request and one window.                      *)
Fits(e, w) ==
    /\ e.after + OnTheWay(e.op) <= Since(limiter[w], e.age)
    /\ e.after + OnTheWay(e.op) <= policy[w]

LEMMA BudgetQuiet ==
  ASSUME TypeInv, BudgetInv, policy' = policy, limiter' = limiter, received' = received,
         call' = call \/ call'.pc # "send"
  PROVE  BudgetInv'
<1>1. SUFFICES ASSUME NEW e \in received, NEW w \in WindowsOf(e), e.age < Span[w]
               PROVE  Fits(e, w)'
  BY DEF BudgetInv, Fits, WindowsOf
<1>2. Fits(e, w)
  BY <1>1 DEF BudgetInv, Fits
<1>3. PICK now \in Nat, then \in Nat : now = OnTheWay(e.op) /\ then = OnTheWay(e.op)' /\ then <= now
  <2>1. OnTheWay(e.op) \in Nat
    BY OnTheWayType
  <2>2. OnTheWay(e.op)' = OnTheWay(e.op) \/ OnTheWay(e.op)' = 0
    BY DEF OnTheWay
  <2> QED
    BY <2>1, <2>2
<1>4. PICK since, most : since = Since(limiter[w], e.age) /\ most = policy[w]
  OBVIOUS
<1>5. since \in Nat /\ most \in Nat /\ e.after \in Nat
  <2>1. e \in Received
    BY <1>1 DEF TypeInv, ClientType, Received, Ops
  <2> QED
    BY <1>1, <1>4, <2>1, WindowType, SinceType
<1>6. e.after + now <= since /\ e.after + now <= most
  BY <1>2, <1>3, <1>4 DEF Fits
<1>7. e.after + then <= since /\ e.after + then <= most
  BY <1>3, <1>5, <1>6
<1>8. Since(limiter[w], e.age)' = since /\ policy'[w] = most
  BY <1>4 DEF Since, UnitsOf
<1> QED
  BY <1>3, <1>7, <1>8 DEF Fits

LEMMA BudgetArrival ==
  ASSUME TypeInv, BudgetInv, policy' = policy, limiter' = limiter, received' = Arrived,
         call.pc = "send", call'.pc # "send"
  PROVE  BudgetInv'
<1>1. PICK op \in Ops, units \in Nat : op = call.request.op /\ units = Units(call.request)
  BY InCall DEF Ops
<1>2. Arrived = {[e EXCEPT !.after = IF e.op = op THEN @ + units ELSE @] : e \in received}
                \cup {[op |-> op, age |-> 0, after |-> 0]}
  BY <1>1 DEF Arrived
<1>3. \A x : OnTheWay(x)' = 0
  BY DEF OnTheWay
<1>4. SUFFICES ASSUME NEW e \in Arrived, NEW w \in WindowsOf(e), e.age < Span[w]
               PROVE  e.after <= Since(limiter[w], e.age) /\ e.after <= policy[w]
  <2>1. \A e \in Arrived : e.after \in Nat
    BY ArrivedType DEF Received
  <2>2. \A e \in Arrived : \A w \in WindowsOf(e) : e.age < Span[w] => Fits(e, w)'
    <3> SUFFICES ASSUME NEW e \in Arrived, NEW w \in WindowsOf(e), e.age < Span[w]
                 PROVE  Fits(e, w)'
      OBVIOUS
    <3>1. e.after <= Since(limiter[w], e.age) /\ e.after <= policy[w]
      BY <1>4
    <3>2. Since(limiter[w], e.age)' = Since(limiter[w], e.age) /\ policy'[w] = policy[w]
      BY DEF Since, UnitsOf
    <3>3. e.after + OnTheWay(e.op)' = e.after
      BY <1>3, <2>1
    <3> QED
      BY <3>1, <3>2, <3>3 DEF Fits
  <2> QED
    BY <2>2 DEF BudgetInv, Fits, WindowsOf
<1>5. e \in Received
  BY ArrivedType
<1>6. CASE e = [op |-> op, age |-> 0, after |-> 0]
  <2>1. e.after = 0 /\ policy[w] \in Nat /\ Since(limiter[w], e.age) \in Nat
    BY <1>5, <1>6, WindowType, SinceType
  <2> QED
    BY <2>1
<1>7. ASSUME NEW d \in received, e = [d EXCEPT !.after = IF d.op = op THEN @ + units ELSE @]
      PROVE  e.after <= Since(limiter[w], e.age) /\ e.after <= policy[w]
  <2>1. d \in Received
    BY DEF TypeInv, ClientType, Received, Ops
  <2>2. e.op = d.op /\ e.age = d.age /\ e.after = d.after + OnTheWay(d.op)
    BY <1>1, <1>7, <2>1 DEF Received, OnTheWay
  <2>3. WindowsOf(d) = WindowsOf(e)
    BY <2>2 DEF WindowsOf
  <2>4. Fits(d, w)
    BY <1>4, <2>2, <2>3 DEF BudgetInv, Fits
  <2> QED
    BY <2>2, <2>4 DEF Fits
<1> QED
  BY <1>2, <1>4, <1>6, <1>7

LEMMA BudgetAcquire ==
  ASSUME TypeInv, BudgetInv, policy' = policy, Acquire
  PROVE  BudgetInv'
<1>1. PICK r : r = call.request /\ r.op \in Ops /\ Units(r) \in Nat
  BY InCall DEF Ops, Acquire
<1>2. PICK op \in Ops, units \in Nat : op = r.op /\ units = Units(r)
  BY <1>1
<1>3. /\ \A x : OnTheWay(x) = 0
      /\ \A x : OnTheWay(x)' = IF x = op THEN units ELSE 0
  <2>1. IsCall(call) /\ call.pc = "acquire" /\ call' = [call EXCEPT !.pc = "send"]
    BY InCall DEF Acquire
  <2>2. call'.pc = "send" /\ call'.request = r
    BY <1>1, <1>2, <2>1 DEF IsCall
  <2> QED
    BY <1>1, <1>2, <2>1, <2>2 DEF OnTheWay, Units
<1>4. SUFFICES ASSUME NEW e \in received, NEW w \in WindowsOf(e), e.age < Span[w]
               PROVE  Fits(e, w)'
  BY DEF Acquire, BudgetInv, Fits, WindowsOf
<1>5. PICK age \in Nat, after \in Nat, span \in Nat, most \in Nat :
         age = e.age /\ after = e.after /\ span = Span[w] /\ most = policy[w]
  <2>1. e \in Received
    BY <1>4 DEF TypeInv, ClientType, Received, Ops
  <2> QED
    BY <2>1, WindowType
<1>6. w \in Windows
  BY <1>4 DEF WindowsOf, Windows
<1>7. PICK s \in Seq(LimiterEntries), t \in Seq(LimiterEntries) :
         s = limiter[w] /\ t = Pruned(w) /\ Since(t, age) = Since(s, age)
  <2>1. PICK s \in Seq(LimiterEntries) : s = limiter[w]
    BY <1>6 DEF TypeInv, ClientType
  <2>2. PICK from \in 1..(Len(s) + 1) :
           /\ Pruned(w) = SubSeq(s, from, Len(s))
           /\ \A i \in 1..(from - 1) : ~(s[i].age < span)
    BY <1>5, <1>6, <2>1, PrunedIs
  <2>3. Pruned(w) \in Seq(LimiterEntries)
    BY <1>6, PrunedType
  <2>4. Since(SubSeq(s, from, Len(s)), age) = Since(s, age)
    BY <1>4, <1>5, <2>2, SinceSuffix
  <2> QED
    BY <2>1, <2>2, <2>3, <2>4
<1>8. after <= Since(s, age) /\ after <= most
  <2>1. Fits(e, w)
    BY <1>4 DEF BudgetInv, Fits
  <2> QED
    BY <1>3, <1>5, <1>7, <2>1 DEF Fits
<1>9. PICK u : u = limiter'[w]
  OBVIOUS
<1>10. Since(limiter[w], age)' = Since(u, age)
  BY <1>9 DEF Since, UnitsOf
<1>11. w \in WindowsOf(r) <=> e.op = op
  BY <1>1, <1>2, <1>4, <1>6 DEF WindowsOf, Windows, Ops, TypeInv, ClientType
<1>12. CASE e.op = op
  <2>1. u = Append(t, [age |-> 0, units |-> units]) /\ Total(t) + units <= most
    BY <1>1, <1>2, <1>5, <1>6, <1>7, <1>9, <1>11, <1>12 DEF Acquire, Admitted, HasRoom
  <2>2. Since(u, age) = Since(t, age) + units
    BY <2>1, SinceAppend
  <2>3. Since(t, age) \in Nat /\ Total(t) \in Nat /\ Since(t, age) <= Total(t)
    BY SinceType
  <2>4. after + units <= Since(u, age) /\ after + units <= most
    BY <1>7, <1>8, <2>1, <2>2, <2>3
  <2>5. OnTheWay(e.op)' = units
    BY <1>3, <1>12
  <2> QED
    BY <1>5, <1>10, <2>4, <2>5 DEF Fits
<1>13. CASE e.op # op
  <2>1. u = t
    BY <1>1, <1>2, <1>6, <1>7, <1>9, <1>11, <1>13 DEF Acquire
  <2>2. OnTheWay(e.op)' = 0
    BY <1>3, <1>13
  <2> QED
    BY <1>5, <1>7, <1>8, <1>10, <2>1, <2>2 DEF Fits
<1> QED
  BY <1>12, <1>13

LEMMA BudgetTick ==
  ASSUME TypeInv, BudgetInv, policy' = policy, ClientTick
  PROVE  BudgetInv'
<1>1. SUFFICES ASSUME NEW e \in received', NEW w \in WindowsOf(e), e.age < Span[w]
               PROVE  Fits(e, w)'
  BY DEF BudgetInv, Fits, WindowsOf
<1>2. PICK d \in received : e = Older(d, Day) /\ e.age < Day
  BY <1>1 DEF ClientTick
<1>3. d \in Received
  BY DEF TypeInv, ClientType, Received, Ops
<1>4. Day \in Nat
  BY TimeAssumption
<1>5. e.op = d.op /\ e.age = d.age + 1 /\ e.after = d.after
  BY <1>2, <1>3, <1>4 DEF Received, Older
<1>6. w \in WindowsOf(d)
  BY <1>1, <1>5 DEF WindowsOf
<1>7. PICK age \in Nat, after \in Nat, span \in Nat, s \in Seq(LimiterEntries) :
         age = d.age /\ after = d.after /\ span = Span[w] /\ s = limiter[w]
  BY <1>3, <1>6, WindowType
<1>8. age + 1 < span
  BY <1>1, <1>5, <1>7
<1>9. Fits(d, w)
  BY <1>6, <1>7, <1>8 DEF BudgetInv, Fits
<1>10. limiter'[w] = Aged(s, span)
  BY <1>3, <1>6, <1>7, WindowType DEF ClientTick
<1>11. Since(limiter[w], age + 1)' = Since(s, age)
  <2>1. Since(Aged(s, span), age + 1) = Since(s, age)
    BY <1>8, SinceAged
  <2> QED
    BY <1>10, <2>1 DEF Since, UnitsOf
<1>12. OnTheWay(e.op)' = OnTheWay(d.op)
  BY <1>5 DEF ClientTick, OnTheWay, Units
<1> QED
  BY <1>5, <1>7, <1>9, <1>11, <1>12 DEF Fits

LEMMA BudgetStep ==
  ASSUME TypeInv, BudgetInv, [Next]_vars
  PROVE  BudgetInv'
<1>1. policy' = policy
  BY Constant
<1>2. CASE Aside \/ BetweenSlices
  BY <1>1, <1>2, BudgetQuiet DEF Aside, BetweenSlices, clientVars
<1>3. CASE TakeResults \/ \E failed \in BOOLEAN : Leaves(failed)
  <2>1. UNCHANGED <<limiter, received>> /\ call' = NoCall
    BY <1>3 DEF TakeResults, Leaves
  <2>2. call'.pc # "send"
    BY <2>1 DEF NoCall
  <2> QED
    BY <1>1, <2>1, <2>2, BudgetQuiet
<1>4. CASE Asks
  <2>1. PICK r : Ask(r)
    BY <1>4 DEF Asks
  <2>2. UNCHANGED <<limiter, received>>
    BY <2>1 DEF Ask, AskCache, AskProvider
  <2>3. call'.pc # "send"
    <3>1. CASE AskProvider(r)
      BY <3>1 DEF AskProvider
    <3>2. CASE AskCache(r)
      <4>1. PICK payload : call' = Delivered(r, payload)
        BY <3>2 DEF AskCache
      <4> QED
        BY <4>1 DEF Delivered
    <3> QED
      BY <2>1, <3>1, <3>2 DEF Ask
  <2> QED
    BY <1>1, <2>2, <2>3, BudgetQuiet
<1>5. CASE Calls
  <2>1. CASE Acquire
    BY <1>1, <2>1, BudgetAcquire
  <2>2. CASE QuotaExceeded \/ IndexFails
    BY <1>1, <2>2, BudgetQuiet DEF QuotaExceeded, IndexFails
  <2>3. CASE Succeed \/ FailAndRetry \/ FailForGood \/ BreakOff
    <3>1. call.pc = "send" /\ UNCHANGED limiter /\ received' \in {received, Arrived}
      BY <2>3 DEF Succeed, FailAndRetry, FailForGood, BreakOff, Fault
    <3>2. call'.pc # "send"
      <4>1. CASE Succeed
        <5>1. PICK r, payload : call' = Delivered(r, payload)
          BY <4>1 DEF Succeed
        <5> QED
          BY <5>1 DEF Delivered
      <4>2. CASE FailAndRetry
        <5>1. IsCall(call)
          BY <3>1, InCall
        <5> QED
          BY <4>2, <5>1 DEF FailAndRetry, IsCall
      <4>3. CASE FailForGood \/ BreakOff
        BY <4>3 DEF FailForGood, BreakOff
      <4> QED
        BY <2>3, <4>1, <4>2, <4>3
    <3> QED
      BY <1>1, <3>1, <3>2, BudgetQuiet, BudgetArrival
  <2> QED
    BY <1>5, <2>1, <2>2, <2>3 DEF Calls, ClientStep
<1>6. CASE Tick
  BY <1>1, <1>6, BudgetTick DEF Tick
<1>7. CASE Ends
  BY <1>7 DEF Ends, ProcessEnds, BudgetInv
<1> QED
  BY <1>2, <1>3, <1>4, <1>5, <1>6, <1>7, StepForms

(* BudgetRespected, for any policies, spans, answers and faults: a request *)
(* on its way, and all that was sent after another within a span of a      *)
(* window, was admitted to it, retries of the client included.             *)
THEOREM BudgetCorrect == Spec => []BudgetRespected
<1>1. Init => BudgetInv
  BY DEF Init, ClientInit, BudgetInv
<1>2. TypeInv /\ BudgetInv /\ [Next]_vars => BudgetInv'
  BY BudgetStep
<1>3. TypeInv /\ BudgetInv => BudgetRespected
  <2> SUFFICES ASSUME TypeInv, BudgetInv, NEW e \in received, NEW w \in WindowsOf(e), e.age < Span[w]
               PROVE  e.after <= policy[w]
    BY DEF BudgetRespected
  <2>1. e \in Received
    BY DEF TypeInv, ClientType, Received, Ops
  <2>2. e.after \in Nat /\ policy[w] \in Nat /\ OnTheWay(e.op) \in Nat
    BY <2>1, WindowType, OnTheWayType
  <2>3. e.after + OnTheWay(e.op) <= policy[w]
    BY DEF BudgetInv
  <2> QED
    BY <2>2, <2>3
<1> QED
  BY <1>1, <1>2, <1>3, TypeCorrect, PTL DEF Spec

-----------------------------------------------------------------------------
(* The evidence: what a packet cites comes from the answers it is made of. *)

(* A decision maker of the research, whose evidence cites these URLs only. *)
Cites(dm, urls) ==
    /\ dm = [name |-> dm.name, title |-> dm.title, family |-> dm.family,
             priority |-> dm.priority, source |-> dm.source, contacts |-> dm.contacts,
             evidence |-> dm.evidence, confidence |-> dm.confidence, status |-> dm.status]
    /\ \A e \in dm.evidence : e.url \in urls

LEMMA TextCites ==
  ASSUME NEW urls, NEW url \in urls, NEW staff, NEW emails, NEW source, NEW i, NEW j,
         NEW x \in PeopleInText(staff, url, emails, source, i, j)
  PROVE  Cites(x.dm, urls)
<1>1. PICK k : x = [turn |-> <<i, j, k>>, dm |-> Found(staff[k], url, emails, source)]
  BY DEF PeopleInText
<1>2. \A name, title : PublicClaim(name, title, url).url = url
  BY DEF PublicClaim
<1>3. \A person : Cites(Found(person, url, emails, source), urls)
  BY <1>2 DEF Cites, Found
<1> QED
  BY <1>1, <1>3

LEMMA PagesCite ==
  ASSUME NEW urls, NEW pages, \A p \in Range(pages) : p.text.final \in urls,
         NEW x \in FoundOnPages(pages)
  PROVE  Cites(x.dm, urls)
<1>1. PICK i \in DOMAIN pages : LET t == pages[i].text
                                IN  x \in PeopleInText(t.people, t.final, t.emails, "tinyfish_fetch", 0, i)
  BY DEF FoundOnPages
<1>2. pages[i].text.final \in urls
  BY DEF Range
<1> QED
  BY <1>1, <1>2, TextCites

LEMMA SearchesCite ==
  ASSUME NEW urls, NEW searches,
         \A i \in DOMAIN searches : \A r \in Range(searches[i]) : r.url \in urls,
         NEW x \in SearchPeople(searches)
  PROVE  Cites(x.dm, urls)
<1>1. PICK i \in DOMAIN searches : \E j \in DOMAIN searches[i] : LET r == searches[i][j]
         IN  x \in PeopleInText(r.people, r.url, r.emails, "tinyfish_search", i, j)
  BY DEF SearchPeople
<1>2. PICK j \in DOMAIN searches[i] : LET r == searches[i][j]
         IN  x \in PeopleInText(r.people, r.url, r.emails, "tinyfish_search", i, j)
  BY <1>1
<1>3. searches[i][j].url \in urls
  BY DEF Range
<1> QED
  BY <1>2, <1>3, TextCites

(* Whoever is kept was found on a page or in a search result.              *)
LEMMA AugmentedIsFound ==
  ASSUME NEW pages, NEW searches, NEW dm \in Augmented(PagePeople(pages), searches)
  PROVE  \E x \in FoundOnPages(pages) \cup SearchPeople(searches) : dm = x.dm
<1>1. \A x \in PagePeople(pages) : \E y \in FoundOnPages(pages) : x.dm = y.dm
  <2> DEFINE Same(x) == {y \in FoundOnPages(pages) : ByTitle(y.dm) = ByTitle(x.dm)}
             Entry(x) == [turn |-> CHOOSE t \in Turns(Same(x)) : \A u \in Turns(Same(x)) : ~Sooner(u, t),
                          dm |-> x.dm]
             last == {y \in FoundOnPages(pages) : \A z \in Same(y) : ~Sooner(y.turn, z.turn)}
  <2>1. Dictionary(FoundOnPages(pages), ByTitle) = {Entry(x) : x \in last}
    BY DEF Dictionary
  <2>2. \A x : Entry(x).dm = x.dm
    OBVIOUS
  <2> HIDE DEF Entry
  <2> QED
    BY <2>1, <2>2 DEF PagePeople
<1>2. PICK found : found = PagePeople(pages)
  OBVIOUS
<1>3. \A x \in Dictionary(found, ByFamily) : \E y \in found : x.dm = y.dm
  <2> DEFINE Same(x) == {y \in found : ByFamily(y.dm) = ByFamily(x.dm)}
             Entry(x) == [turn |-> CHOOSE t \in Turns(Same(x)) : \A u \in Turns(Same(x)) : ~Sooner(u, t),
                          dm |-> x.dm]
             last == {y \in found : \A z \in Same(y) : ~Sooner(y.turn, z.turn)}
  <2>1. Dictionary(found, ByFamily) = {Entry(x) : x \in last}
    BY DEF Dictionary
  <2>2. \A x : Entry(x).dm = x.dm
    OBVIOUS
  <2> HIDE DEF Entry
  <2> QED
    BY <2>1, <2>2
<1>4. \A x \in Firsts(Dictionary(found, ByFamily) \cup SearchPeople(searches), ByFamily) :
         x \in Dictionary(found, ByFamily) \cup SearchPeople(searches)
  BY DEF Firsts
<1>5. \E x \in Firsts(Dictionary(found, ByFamily) \cup SearchPeople(searches), ByFamily) : dm = x.dm
  BY <1>2 DEF Augmented
<1> QED
  BY <1>1, <1>2, <1>3, <1>4, <1>5

LEMMA ResolvedCites ==
  ASSUME NEW dm, NEW urls, Cites(dm, urls), NEW domain
  PROVE  Resolved(dm, domain).evidence = dm.evidence
<1>1. ASSUME NEW a, NEW b, NEW c
      PROVE  [dm EXCEPT !.confidence = a, !.status = b, !.contacts = c].evidence = dm.evidence
  BY DEF Cites
<1> QED
  BY <1>1 DEF Resolved

(* The URLs that a packet cites.                                           *)
Cited(packet) ==
    {x.url : x \in packet.contacts \cup packet.signals \cup UNION {dm.evidence : dm \in packet.people}}

LEMMA PacketCites ==
  ASSUME NEW urls, NEW pages, NEW searches, NEW c, NEW domain,
         \A p \in Range(pages) : p.url \in urls /\ p.text.final \in urls,
         \A i \in DOMAIN searches : \A r \in Range(searches[i]) : r.url \in urls
  PROVE  Cited(Packet(c, domain, pages, searches)) \subseteq urls
<1>1. PICK packet : packet = Packet(c, domain, pages, searches)
  OBVIOUS
<1>2. /\ packet.contacts = CompanyContacts(pages)
      /\ packet.signals = IntentSignals(pages, searches)
      /\ packet.people = {Resolved(dm, domain) : dm \in Augmented(PagePeople(pages), searches)}
  BY <1>1 DEF Packet
<1>3. \A x \in CompanyContacts(pages) : x.url \in urls
  BY DEF CompanyContacts, Range
<1>4. \A x \in IntentSignals(pages, searches) : x.url \in urls
  BY DEF IntentSignals, IntentPages
<1>5. ASSUME NEW dm \in Augmented(PagePeople(pages), searches)
      PROVE  \A e \in Resolved(dm, domain).evidence : e.url \in urls
  <2>1. PICK x \in FoundOnPages(pages) \cup SearchPeople(searches) : dm = x.dm
    BY AugmentedIsFound
  <2>2. CASE x \in FoundOnPages(pages)
    <3>1. Cites(x.dm, urls)
      BY <2>2, PagesCite
    <3> QED
      BY <2>1, <3>1, ResolvedCites DEF Cites
  <2>3. CASE x \in SearchPeople(searches)
    <3>1. Cites(x.dm, urls)
      BY <2>3, SearchesCite
    <3> QED
      BY <2>1, <3>1, ResolvedCites DEF Cites
  <2> QED
    BY <2>2, <2>3
<1> QED
  BY <1>1, <1>2, <1>3, <1>4, <1>5 DEF Cited

(* What a packet adds to the evidence is its company's, and cites what it  *)
(* cites.                                                                  *)
LEMMA InsertedRows ==
  ASSUME NEW old, NEW packet, NEW e \in InsertEvidence(old, packet), e \notin old
  PROVE  e.company = packet.company /\ e.url \in Cited(packet)
<1>1. \/ \E dm \in packet.people : e \in PersonRows(packet, dm) \cup ResolutionRows(packet, dm)
      \/ \E c \in packet.contacts : e = ContactRow(packet, c)
      \/ \E s \in packet.signals : e = SignalRow(packet, s)
  <2>1. e \in ObservedRows(packet) \/ e \in ResolvedRows(packet)
    BY DEF InsertEvidence
  <2>2. CASE e \in ObservedRows(packet)
    BY <2>2 DEF ObservedRows
  <2>3. CASE e \in ResolvedRows(packet)
    BY <2>3 DEF ResolvedRows
  <2> QED
    BY <2>1, <2>2, <2>3
<1>2. \A kind, name, owner, url, claim :
         /\ EvidenceRow(packet, kind, name, owner, url, claim).company = packet.company
         /\ EvidenceRow(packet, kind, name, owner, url, claim).url = url
  BY DEF EvidenceRow
<1>3. CASE \E dm \in packet.people : e \in PersonRows(packet, dm) \cup ResolutionRows(packet, dm)
  <2>1. PICK dm \in packet.people : e \in PersonRows(packet, dm) \cup ResolutionRows(packet, dm)
    BY <1>3
  <2>2. \E x \in dm.evidence : \E kind, claim :
           e = EvidenceRow(packet, kind, dm.name, Owner(packet, dm.name), x.url, claim)
    BY <2>1 DEF PersonRows, ResolutionRows
  <2> QED
    BY <1>2, <2>2 DEF Cited
<1>4. CASE \E c \in packet.contacts : e = ContactRow(packet, c)
  BY <1>2, <1>4 DEF ContactRow, Cited
<1>5. CASE \E s \in packet.signals : e = SignalRow(packet, s)
  BY <1>2, <1>5 DEF SignalRow, Cited
<1> QED
  BY <1>1, <1>3, <1>4, <1>5

(* What a step may do to the evidence.                                     *)
LEMMA EvidenceSteps ==
  ASSUME [Next]_vars
  PROVE  \/ evidence' \subseteq evidence
         \/ \E packet \in Manual : evidence' = InsertEvidence(evidence, packet)
         \/ /\ Fetched
            /\ evidence' = InsertEvidence(evidence,
                   Packet(Company, world.domain[Company], call.payload, job.searches))
<1>1. CASE UNCHANGED vars
  BY <1>1 DEF vars, storeVars
<1>2. CASE JobStep
  BY <1>2 DEF JobStep, StartDaily, StartRefresh, Start, SeedFails, CallRaises, CompanyFails,
     AskSearch, TakeResults, AskFetch, NothingToFetch, Escapes, EndSlice, CleanBreaks, Clean,
     GateFails, GatePasses, Calls, JobEnds, CleanUp, storeVars
<1>3. CASE Research
  BY <1>3 DEF Research, NoPacket, Enrich, CompanyFails, PersistPacket, storeVars
<1>4. CASE Die
  BY <1>4 DEF Die, JobEnds, storeVars
<1>5. CASE Import
  BY <1>5 DEF Import, PersistPacket
<1>6. CASE Verify
  BY <1>6 DEF Verify, UpdateContactVerification
<1>7. CASE Tick
  BY <1>7 DEF Tick, storeVars
<1>8. CASE NextDay
  BY <1>8 DEF NextDay
<1> QED
  BY <1>1, <1>2, <1>3, <1>4, <1>5, <1>6, <1>7, <1>8 DEF Next

(* The pages and the results that a packet is built from are the company's.*)
LEMMA FetchedIsOwn ==
  ASSUME TypeInv, Fetched
  PROVE  /\ \A p \in Range(call.payload) : p.url \in Offered(Company) /\ p.text.final \in Offered(Company)
         /\ \A i \in DOMAIN job.searches : \A r \in Range(job.searches[i]) : r.url \in Offered(Company)
<1>1. PICK c \in Companies : c = Company
  BY CompanyType DEF Fetched
<1>2. PICK pages, r : pages = call.payload /\ r = call.request
  OBVIOUS
<1>3. pages \in Good(r) /\ Due(r) /\ r.op = "fetch"
  BY <1>2 DEF Fetched, TypeInv, CallType
<1>4. PICK urls \in FetchLists(c) : r = FetchRequest(urls)
  <2>1. SearchRequest(Company, Len(job.searches) + 1).op = "search"
    BY DEF SearchRequest, Query
  <2> QED
    BY <1>1, <1>3, <2>1 DEF Due
<1>5. \A p \in Range(pages) : p.url \in Offered(c) /\ p.text.final \in Offered(c)
  BY <1>3, <1>4 DEF Offered, Good
<1>6. ASSUME NEW i \in DOMAIN job.searches
      PROVE  \A x \in Range(job.searches[i]) : x.url \in Offered(c)
  <2>1. job.searches[i] \in Good(SearchRequest(c, i))
    BY <1>1 DEF Fetched, AtCompany, TypeInv, JobType
  <2>2. i \in DOMAIN Purposes
    BY SearchesLength, LenProperties DEF Fetched, AtCompany, TypeInv, JobType
  <2>3. \A x \in Range(job.searches[i]) : x.url \in Hits(c)
    BY <2>1, <2>2 DEF Hits, Good
  <2> QED
    BY <2>3 DEF Offered
<1> QED
  BY <1>1, <1>2, <1>5, <1>6

(* PacketsAreOwn, for any answers of the provider and any imports: no      *)
(* cached answer, retry or change of company hands the pages or results of *)
(* one company to the packet of another.                                   *)
THEOREM OwnCorrect == Spec => []PacketsAreOwn
<1>1. Init => PacketsAreOwn
  BY DEF Init, StoreInit, PacketsAreOwn
<1>2. TypeInv /\ PacketsAreOwn /\ [Next]_vars => PacketsAreOwn'
  <2> SUFFICES ASSUME TypeInv, PacketsAreOwn, [Next]_vars PROVE PacketsAreOwn'
    OBVIOUS
  <2>1. \A c : Offered(c)' = Offered(c)
    BY Constant, SameWorld
  <2>2. SUFFICES ASSUME NEW c \in Companies, NEW e \in evidence', e.company = c, e \notin evidence
                 PROVE  e.url \in Offered(c) \cup Imported(c)
    BY <2>1 DEF PacketsAreOwn, Imported
  <2>3. ASSUME NEW packet \in Manual, evidence' = InsertEvidence(evidence, packet)
        PROVE  e.url \in Imported(c)
    <3>1. packet.company = c /\ e.url \in Cited(packet)
      BY <2>2, <2>3, InsertedRows
    <3> QED
      BY <3>1 DEF Cited, Imported
  <2>4. ASSUME NEW packet, Fetched, evidence' = InsertEvidence(evidence, packet),
               packet = Packet(Company, world.domain[Company], call.payload, job.searches)
        PROVE  e.url \in Offered(c)
    <3>1. packet.company = Company
      BY <2>4 DEF Packet
    <3>2. c = Company /\ e.url \in Cited(packet)
      BY <2>2, <2>4, <3>1, InsertedRows
    <3>3. PICK urls, pages, searches : urls = Offered(Company) /\ pages = call.payload /\ searches = job.searches
      OBVIOUS
    <3>4. /\ \A p \in Range(pages) : p.url \in urls /\ p.text.final \in urls
          /\ \A i \in DOMAIN searches : \A r \in Range(searches[i]) : r.url \in urls
      BY <2>4, <3>3, FetchedIsOwn
    <3>5. Cited(packet) \subseteq urls
      BY <2>4, <3>3, <3>4, PacketCites
    <3> QED
      BY <3>2, <3>3, <3>5
  <2> QED
    BY <2>2, <2>3, <2>4, EvidenceSteps
<1> QED
  BY <1>1, <1>2, TypeCorrect, PTL DEF Spec

-----------------------------------------------------------------------------
(* The contact methods: the keys of the two tables of people.              *)

IsMethod(m) == m = [channel |-> m.channel, value |-> m.value, status |-> m.status]

IsRow(r) == r = [name |-> r.name, title |-> r.title, confidence |-> r.confidence,
                 methods |-> r.methods]

(* A row has each address once, and a table each name and title.           *)
MethodsInv(methods) ==
    /\ \A m \in methods : IsMethod(m)
    /\ \A m, n \in methods : m.channel = n.channel /\ m.value = n.value => m = n

RowsInv(rows) ==
    /\ \A r \in rows : IsRow(r) /\ MethodsInv(r.methods)
    /\ \A r, q \in rows : ByTitle(r) = ByTitle(q) => r = q

PeopleInv ==
    /\ people = [c \in Companies |-> people[c]]
    /\ \A c \in Companies : RowsInv(people[c])

LEMMA MethodsKept ==
  ASSUME NEW old, NEW found, MethodsInv(old)
  PROVE  /\ MethodsInv(ContactMethods(old, found))
         /\ \A m \in old : \E n \in ContactMethods(old, found) :
               n.value = m.value /\ n.status = m.status
<1> DEFINE Row(c) == [channel |-> c.channel, value |-> c.value, status |-> StatusOf(old, c)]
           written == {Row(c) : c \in found}
           kept == {m \in old : \A c \in found : m \notin Known(old, c)}
<1>1. ContactMethods(old, found) = written \cup kept
  BY DEF ContactMethods
<1>2. ASSUME NEW m \in written, NEW n \in written, m.channel = n.channel, m.value = n.value
      PROVE  m = n
  <2>1. PICK c \in found : m = Row(c)
    OBVIOUS
  <2>2. PICK d \in found : n = Row(d)
    OBVIOUS
  <2>3. c.channel = d.channel /\ c.value = d.value
    BY <1>2, <2>1, <2>2
  <2>4. Known(old, c) = Known(old, d) /\ Unverified(c) = Unverified(d)
    BY <2>3 DEF Known, Unverified
  <2>5. StatusOf(old, c) = StatusOf(old, d)
    BY <2>4 DEF StatusOf
  <2> QED
    BY <2>1, <2>2, <2>3, <2>5
<1>3. ASSUME NEW m \in written, NEW n \in kept PROVE ~(m.channel = n.channel /\ m.value = n.value)
  <2>1. PICK c \in found : m = Row(c)
    OBVIOUS
  <2>2. n \in old /\ n \notin Known(old, c)
    OBVIOUS
  <2> QED
    BY <2>1, <2>2 DEF Known
<1>4. MethodsInv(written \cup kept)
  <2>1. \A m \in written : IsMethod(m)
    BY DEF IsMethod
  <2>2. \A m \in kept : m \in old
    OBVIOUS
  <2> HIDE DEF written, kept
  <2> QED
    BY <1>2, <1>3, <2>1, <2>2 DEF MethodsInv
<1>5. ASSUME NEW m \in old
      PROVE  \E n \in written \cup kept : n.value = m.value /\ n.status = m.status
  <2>1. CASE \E c \in found : m \in Known(old, c)
    <3>1. PICK c \in found : m \in Known(old, c)
      BY <2>1
    <3>2. \A n \in Known(old, c) : n = m
      BY <1>5, <3>1 DEF Known, MethodsInv
    <3>3. StatusOf(old, c) = m.status
      BY <3>1, <3>2 DEF StatusOf
    <3>4. Row(c).value = m.value /\ Row(c).status = m.status /\ Row(c) \in written
      BY <3>1, <3>3 DEF Known
    <3> QED
      BY <3>4
  <2>2. CASE ~\E c \in found : m \in Known(old, c)
    <3>1. m \in kept
      BY <2>2
    <3> QED
      BY <3>1
  <2> QED
    BY <2>1, <2>2
<1> QED
  BY <1>1, <1>4, <1>5

(* A method of a row is a method of the row after an upsert.               *)
LEMMA UpsertKept ==
  ASSUME NEW old, NEW dms, RowsInv(old)
  PROVE  /\ RowsInv(UpsertPeople(old, dms))
         /\ \A r \in old : \A m \in r.methods : \A q \in UpsertPeople(old, dms) :
               ByTitle(q) = ByTitle(r) =>
                   \E n \in q.methods : n.value = m.value /\ n.status = m.status
<1> DEFINE Before(dm) == UNION {r.methods : r \in Alike(old, dm)}
           Given(dm) == UNION {Range(d.contacts) : d \in Alike(dms, dm)}
           Row(dm) == [name |-> dm.name, title |-> dm.title,
                       confidence |-> LeastConfident(Alike(dms, dm)).confidence,
                       methods |-> ContactMethods(Before(dm), Given(dm))]
           written == {Row(dm) : dm \in dms}
           kept == {r \in old : Alike(dms, r) = {}}
<1>1. UpsertPeople(old, dms) = written \cup kept
  BY DEF UpsertPeople
<1>2. ASSUME NEW dm, NEW r \in old, ByTitle(r) = ByTitle(dm) PROVE Before(dm) = r.methods
  <2>1. Alike(old, dm) = {r}
    BY <1>2 DEF Alike, RowsInv
  <2> QED
    BY <2>1
<1>3. ASSUME NEW dm PROVE MethodsInv(Before(dm))
  <2>1. CASE \E r \in old : ByTitle(r) = ByTitle(dm)
    <3>1. PICK r \in old : ByTitle(r) = ByTitle(dm)
      BY <2>1
    <3> QED
      BY <1>2, <3>1 DEF RowsInv
  <2>2. CASE ~\E r \in old : ByTitle(r) = ByTitle(dm)
    <3>1. Before(dm) = {}
      BY <2>2 DEF Alike
    <3> QED
      BY <3>1 DEF MethodsInv
  <2> QED
    BY <2>1, <2>2
<1>4. ASSUME NEW dm PROVE MethodsInv(ContactMethods(Before(dm), Given(dm)))
  <2> HIDE DEF Before, Given
  <2> QED
    BY <1>3, MethodsKept
<1>5. \A dm : ByTitle(Row(dm)) = ByTitle(dm)
  BY DEF ByTitle
<1>6. \A dm \in dms : IsRow(Row(dm)) /\ MethodsInv(Row(dm).methods)
  BY <1>4 DEF IsRow
<1>7. ASSUME NEW c \in dms, NEW d \in dms, ByTitle(c) = ByTitle(d) PROVE Row(c) = Row(d)
  <2>1. c.name = d.name /\ c.title = d.title
    BY <1>7 DEF ByTitle
  <2>2. Alike(old, c) = Alike(old, d) /\ Alike(dms, c) = Alike(dms, d)
    BY <1>7 DEF Alike
  <2> QED
    BY <2>1, <2>2
<1>8. \A dm \in dms : \A r \in kept : ByTitle(r) # ByTitle(dm)
  BY DEF Alike
<1>9. RowsInv(written \cup kept)
  <2>1. \A r \in written : \E dm \in dms : r = Row(dm)
    OBVIOUS
  <2>2. \A r \in kept : r \in old
    OBVIOUS
  <2> HIDE DEF written, kept, Row
  <2>3. \A r \in written \cup kept : IsRow(r) /\ MethodsInv(r.methods)
    BY <1>6, <2>1, <2>2 DEF RowsInv
  <2>4. ASSUME NEW r \in written, NEW q \in written, ByTitle(r) = ByTitle(q) PROVE r = q
    BY <1>5, <1>7, <2>1, <2>4
  <2>5. \A r \in written : \A q \in kept : ByTitle(r) # ByTitle(q)
    BY <1>5, <1>8, <2>1
  <2>6. \A r, q \in kept : ByTitle(r) = ByTitle(q) => r = q
    BY <2>2 DEF RowsInv
  <2> QED
    BY <2>3, <2>4, <2>5, <2>6 DEF RowsInv
<1>10. ASSUME NEW r \in old, NEW m \in r.methods, NEW q \in written \cup kept,
              ByTitle(q) = ByTitle(r)
       PROVE  \E n \in q.methods : n.value = m.value /\ n.status = m.status
  <2>1. CASE q \in kept
    <3>1. q = r
      BY <1>10, <2>1 DEF RowsInv
    <3> QED
      BY <3>1
  <2>2. CASE q \in written
    <3>1. PICK dm \in dms : q = Row(dm)
      BY <2>2
    <3>2. ByTitle(r) = ByTitle(dm)
      BY <1>5, <1>10, <3>1
    <3>3. m \in Before(dm)
      BY <1>2, <3>2
    <3>4. q.methods = ContactMethods(Before(dm), Given(dm))
      BY <3>1
    <3> HIDE DEF Before, Given
    <3> QED
      BY <1>3, <3>3, <3>4, MethodsKept
  <2> QED
    BY <2>1, <2>2
<1> QED
  BY <1>1, <1>9, <1>10

(* What a step may do to the people on record.                             *)
Gated == people' = [c \in Companies |-> people[c] \ InvalidPeople(c)]

LEMMA PeopleSteps ==
  ASSUME [Next]_vars
  PROVE  \/ UNCHANGED people
         \/ \E packet : people' = [people EXCEPT ![packet.company] = UpsertPeople(@, packet.people)]
         \/ \E c \in Companies : \E r \in people[c] : \E m \in r.methods : \E s \in Verdicts :
               UpdateContactVerification(c, r, m, s)
         \/ Gated
<1>1. CASE UNCHANGED vars
  BY <1>1 DEF vars, storeVars
<1>2. CASE JobStep
  BY <1>2 DEF JobStep, StartDaily, StartRefresh, Start, SeedFails, CallRaises, CompanyFails,
     AskSearch, TakeResults, AskFetch, NothingToFetch, Escapes, EndSlice, CleanBreaks, Clean,
     GateFails, GatePasses, Calls, JobEnds, CleanUp, storeVars, Gated
<1>3. CASE Research
  BY <1>3 DEF Research, NoPacket, Enrich, CompanyFails, PersistPacket, storeVars
<1>4. CASE Die
  BY <1>4 DEF Die, JobEnds, storeVars
<1>5. CASE Import
  BY <1>5 DEF Import, PersistPacket
<1>6. CASE Verify
  BY <1>6 DEF Verify
<1>7. CASE Tick
  BY <1>7 DEF Tick, storeVars
<1>8. CASE NextDay
  BY <1>8 DEF NextDay
<1> QED
  BY <1>1, <1>2, <1>3, <1>4, <1>5, <1>6, <1>7, <1>8 DEF Next

Rewritten(r, m, s) == [r EXCEPT !.methods = (@ \ {m}) \cup {[m EXCEPT !.status = s]}]

(* The verification of one method leaves the others as they are.           *)
LEMMA VerifyKept ==
  ASSUME NEW rows, RowsInv(rows), NEW r \in rows, NEW m \in r.methods, NEW s \in Verdicts,
         NEW after, after = (rows \ {r}) \cup {Rewritten(r, m, s)}
  PROVE  /\ RowsInv(after)
         /\ \A q \in after : \A o \in rows : \A n \in o.methods :
               ByTitle(q) = ByTitle(o) /\ n.status \in Verdicts =>
                   \E k \in q.methods : k.value = n.value /\ k.status \in Verdicts
<1> DEFINE new == [channel |-> m.channel, value |-> m.value, status |-> s]
           methods == (r.methods \ {m}) \cup {new}
           row == [name |-> r.name, title |-> r.title, confidence |-> r.confidence,
                   methods |-> methods]
<1>1. IsMethod(m) /\ IsRow(r)
  BY DEF RowsInv, MethodsInv
<1>2. [m EXCEPT !.status = s] = new
  BY <1>1 DEF IsMethod
<1>3. [r EXCEPT !.methods = (@ \ {m}) \cup {new}] = row
  <2> HIDE DEF new
  <2>1. ASSUME NEW X PROVE [r EXCEPT !.methods = X] =
            [name |-> r.name, title |-> r.title, confidence |-> r.confidence, methods |-> X]
    BY <1>1 DEF IsRow
  <2> QED
    BY <2>1
<1>4. after = (rows \ {r}) \cup {row}
  BY <1>2, <1>3 DEF Rewritten
<1>5. MethodsInv(methods)
  <2>1. MethodsInv(r.methods)
    BY DEF RowsInv
  <2>2. IsMethod(new)
    BY DEF IsMethod
  <2>3. \A n \in r.methods \ {m} : ~(n.channel = new.channel /\ n.value = new.value)
    BY <2>1 DEF MethodsInv
  <2> HIDE DEF new
  <2> QED
    BY <2>1, <2>2, <2>3 DEF MethodsInv
<1>6. ByTitle(row) = ByTitle(r) /\ row.methods = methods /\ IsRow(row)
  BY DEF ByTitle, IsRow
<1>7. new.value = m.value /\ new.status = s
  OBVIOUS
<1> HIDE DEF row
<1>8. RowsInv(after)
  BY <1>4, <1>5, <1>6 DEF RowsInv
<1>9. ASSUME NEW q \in after, NEW o \in rows, NEW n \in o.methods, ByTitle(q) = ByTitle(o),
             n.status \in Verdicts
      PROVE  \E k \in q.methods : k.value = n.value /\ k.status \in Verdicts
  <2>1. CASE q = row
    <3>1. o = r
      BY <1>6, <1>9, <2>1 DEF RowsInv
    <3>2. CASE n = m
      BY <1>6, <1>7, <2>1, <3>2
    <3>3. CASE n # m
      BY <1>6, <1>9, <2>1, <3>1, <3>3
    <3> QED
      BY <3>2, <3>3
  <2>2. CASE q # row
    <3>1. q = o
      BY <1>4, <1>9, <2>2 DEF RowsInv
    <3> QED
      BY <1>9, <3>1
  <2> QED
    BY <2>1, <2>2
<1> QED
  BY <1>8, <1>9

Stands ==
    \A c \in Companies : \A r \in people[c] : \A m \in r.methods :
        m.status \in Verdicts =>
            \A q \in people'[c] : ByTitle(q) = ByTitle(r) =>
                \E n \in q.methods : n.value = m.value /\ n.status \in Verdicts

LEMMA PeopleStep ==
  ASSUME PeopleInv, [Next]_vars
  PROVE  PeopleInv' /\ Stands
<1> DEFINE Kept(old, new) ==
             /\ RowsInv(new)
             /\ \A r \in old : \A m \in r.methods : m.status \in Verdicts =>
                   \A q \in new : ByTitle(q) = ByTitle(r) =>
                       \E n \in q.methods : n.value = m.value /\ n.status \in Verdicts
<1>1. ASSUME NEW rows, RowsInv(rows), NEW fewer \in SUBSET rows PROVE Kept(rows, fewer)
  BY <1>1 DEF RowsInv
<1>2. SUFFICES ASSUME people' = [c \in Companies |-> people'[c]],
                      \A c \in Companies : Kept(people[c], people'[c])
               PROVE  PeopleInv' /\ Stands
  <2>1. CASE UNCHANGED people
    <3>1. \A c \in Companies : Kept(people[c], people[c])
      BY <1>1 DEF PeopleInv
    <3> HIDE DEF Kept
    <3> QED
      BY <1>2, <2>1, <3>1 DEF PeopleInv
  <2>2. ASSUME NEW packet,
               people' = [people EXCEPT ![packet.company] = UpsertPeople(@, packet.people)]
        PROVE  PeopleInv' /\ Stands
    <3>1. people' = [c \in Companies |-> IF c = packet.company
                        THEN UpsertPeople(people[c], packet.people) ELSE people[c]]
      BY <2>2 DEF PeopleInv
    <3>2. \A c \in Companies : Kept(people[c], people[c])
      BY <1>1 DEF PeopleInv
    <3>3. ASSUME NEW c \in Companies PROVE Kept(people[c], UpsertPeople(people[c], packet.people))
      <4>1. RowsInv(people[c])
        BY DEF PeopleInv
      <4>2. PICK rows : rows = people[c]
        OBVIOUS
      <4>3. Kept(rows, UpsertPeople(rows, packet.people))
        BY <4>1, <4>2, UpsertKept
      <4> QED
        BY <4>2, <4>3
    <3>4. \A c \in Companies : Kept(people[c], people'[c])
      <4> HIDE DEF Kept
      <4> QED
        BY <3>1, <3>2, <3>3
    <3>5. people' = [c \in Companies |-> people'[c]]
      BY <3>1
    <3> HIDE DEF Kept
    <3> QED
      BY <1>2, <3>4, <3>5
  <2>3. ASSUME NEW d \in Companies, NEW r \in people[d], NEW m \in r.methods, NEW s \in Verdicts,
               UpdateContactVerification(d, r, m, s)
        PROVE  PeopleInv' /\ Stands
    <3>1. people' = [people EXCEPT ![d] = (@ \ {r}) \cup {Rewritten(r, m, s)}]
      BY <2>3 DEF UpdateContactVerification, Rewritten
    <3>2. PICK after : after = (people[d] \ {r}) \cup {Rewritten(r, m, s)}
      OBVIOUS
    <3>3. Kept(people[d], after)
      <4>1. RowsInv(people[d])
        BY DEF PeopleInv
      <4>2. PICK rows : rows = people[d]
        OBVIOUS
      <4>3. RowsInv(rows) /\ r \in rows /\ after = (rows \ {r}) \cup {Rewritten(r, m, s)}
        BY <3>2, <4>1, <4>2
      <4>4. RowsInv(after) /\ \A q \in after : \A o \in rows : \A n \in o.methods :
               ByTitle(q) = ByTitle(o) /\ n.status \in Verdicts =>
                   \E k \in q.methods : k.value = n.value /\ k.status \in Verdicts
        <5> HIDE DEF Kept
        <5> QED
          BY <4>3, VerifyKept
      <4> QED
        BY <4>2, <4>4
    <3>4. people' = [c \in Companies |-> IF c = d THEN after ELSE people[c]]
      BY <3>1, <3>2 DEF PeopleInv
    <3>5. \A c \in Companies : Kept(people[c], people[c])
      BY <1>1 DEF PeopleInv
    <3>6. \A c \in Companies : Kept(people[c], people'[c])
      <4> HIDE DEF Kept
      <4> QED
        BY <3>3, <3>4, <3>5
    <3>7. people' = [c \in Companies |-> people'[c]]
      BY <3>4
    <3> HIDE DEF Kept
    <3> QED
      BY <1>2, <3>6, <3>7
  <2>4. CASE Gated
    <3>1. \A c \in Companies : Kept(people[c], people[c] \ InvalidPeople(c))
      <4> HIDE DEF Kept
      <4> QED
        BY <1>1 DEF PeopleInv
    <3> HIDE DEF Kept
    <3> QED
      BY <1>2, <2>4, <3>1 DEF Gated
  <2> QED
    BY <2>1, <2>2, <2>3, <2>4, PeopleSteps
<1>3. PeopleInv'
  BY <1>2 DEF PeopleInv
<1>4. Stands
  BY <1>2 DEF Stands
<1> QED
  BY <1>3, <1>4

(* VerificationStands, for every world, every answer of the provider and   *)
(* any packets an operator imports.                                        *)
THEOREM VerificationCorrect == Spec => VerificationStands
<1>1. Init => PeopleInv
  BY DEF Init, StoreInit, Empty, PeopleInv, RowsInv
<1>2. PeopleInv /\ [Next]_vars => PeopleInv'
  BY PeopleStep
<1>3. PeopleInv /\ [Next]_vars => [Stands]_vars
  BY PeopleStep
<1>4. Spec => [][Stands]_vars
  BY <1>1, <1>2, <1>3, PTL DEF Spec
<1> QED
  BY <1>4 DEF Stands, VerificationStands

(* The addresses of one person, written twice.                             *)
LEMMA MethodsIdempotent ==
  ASSUME NEW old, NEW found
  PROVE  ContactMethods(ContactMethods(old, found), found) = ContactMethods(old, found)
<1> DEFINE Row(c) == [channel |-> c.channel, value |-> c.value, status |-> StatusOf(old, c)]
           written == {Row(c) : c \in found}
           kept == {m \in old : \A c \in found : m \notin Known(old, c)}
<1>1. PICK new : new = ContactMethods(old, found)
  OBVIOUS
<1>2. new = written \cup kept
  BY <1>1 DEF ContactMethods
<1>3. ASSUME NEW c \in found PROVE Known(new, c) = {Row(c)}
  <2>1. Row(c) \in Known(new, c)
    BY <1>2 DEF Known
  <2>2. ASSUME NEW d \in found, Row(d).channel = c.channel, Row(d).value = c.value
        PROVE  Row(d) = Row(c)
    <3>1. d.channel = c.channel /\ d.value = c.value
      BY <2>2
    <3>2. Known(old, d) = Known(old, c) /\ Unverified(d) = Unverified(c)
      BY <3>1 DEF Known, Unverified
    <3>3. StatusOf(old, d) = StatusOf(old, c)
      BY <3>2 DEF StatusOf
    <3>4. QED
      BY <3>1, <3>3
  <2>3. ASSUME NEW m \in kept PROVE ~(m.channel = c.channel /\ m.value = c.value)
    BY DEF Known
  <2>4. ASSUME NEW m \in Known(new, c) PROVE m = Row(c)
    <3>1. m \in new /\ m.channel = c.channel /\ m.value = c.value
      BY DEF Known
    <3>2. m \in written
      BY <1>2, <2>3, <3>1
    <3>3. PICK d \in found : m = Row(d)
      BY <3>2
    <3>4. QED
      BY <2>2, <3>1, <3>3
  <2>5. QED
    BY <2>1, <2>4
<1>4. ASSUME NEW c \in found PROVE StatusOf(new, c) = StatusOf(old, c)
  <2>1. PICK row : row = Row(c)
    OBVIOUS
  <2>2. Known(new, c) # {} /\ (CHOOSE m \in Known(new, c) : TRUE) = row
    BY <1>3, <2>1
  <2>3. StatusOf(new, c) = row.status
    BY <2>2 DEF StatusOf
  <2>4. QED
    BY <2>1, <2>3
<1>5. {[channel |-> c.channel, value |-> c.value, status |-> StatusOf(new, c)] : c \in found} = written
  BY <1>4
<1>6. {m \in new : \A c \in found : m \notin Known(new, c)} = kept
  <2>1. ASSUME NEW m \in written PROVE \E c \in found : m \in Known(new, c)
    BY <1>3
  <2>2. ASSUME NEW m \in kept, NEW c \in found PROVE m \notin Known(new, c)
    BY DEF Known
  <2>3. QED
    BY <1>2, <2>1, <2>2
<1>7. ContactMethods(new, found) = written \cup kept
  BY <1>5, <1>6 DEF ContactMethods
<1>8. QED
  BY <1>1, <1>2, <1>7

(* Written twice, a packet changes nothing the second time: a run that is  *)
(* repeated after it was persisted leaves every person, every address and  *)
(* every status as the first persist_packet left them.                     *)
THEOREM UpsertIsIdempotent ==
  ASSUME NEW old, NEW dms
  PROVE  UpsertPeople(UpsertPeople(old, dms), dms) = UpsertPeople(old, dms)
<1> DEFINE Given(dm) == UNION {Range(d.contacts) : d \in Alike(dms, dm)}
           Methods(rows, dm) == ContactMethods(UNION {r.methods : r \in Alike(rows, dm)}, Given(dm))
           Row(rows, dm) == [name |-> dm.name, title |-> dm.title,
                             confidence |-> LeastConfident(Alike(dms, dm)).confidence,
                             methods |-> Methods(rows, dm)]
           written == {Row(old, dm) : dm \in dms}
           kept == {r \in old : Alike(dms, r) = {}}
<1>1. PICK new : new = UpsertPeople(old, dms)
  OBVIOUS
<1>2. new = written \cup kept
  BY <1>1 DEF UpsertPeople
<1>3. ASSUME NEW dm \in dms PROVE Alike(new, dm) = {Row(old, dm)}
  <2>1. ByTitle(Row(old, dm)) = ByTitle(dm)
    BY DEF ByTitle
  <2>2. Row(old, dm) \in Alike(new, dm)
    BY <1>2, <2>1 DEF Alike
  <2>3. ASSUME NEW d \in dms, ByTitle(Row(old, d)) = ByTitle(dm) PROVE Row(old, d) = Row(old, dm)
    <3>1. d.name = dm.name /\ d.title = dm.title /\ ByTitle(d) = ByTitle(dm)
      BY <2>3 DEF ByTitle
    <3>2. \A rows : Alike(rows, d) = Alike(rows, dm)
      BY <3>1 DEF Alike
    <3>3. QED
      BY <3>1, <3>2
  <2>4. ASSUME NEW r \in kept PROVE ByTitle(r) # ByTitle(dm)
    BY DEF Alike
  <2>5. ASSUME NEW r \in Alike(new, dm) PROVE r = Row(old, dm)
    <3>1. r \in new /\ ByTitle(r) = ByTitle(dm)
      BY DEF Alike
    <3>2. r \in written
      BY <1>2, <2>4, <3>1
    <3>3. PICK d \in dms : r = Row(old, d)
      BY <3>2
    <3>4. QED
      BY <2>3, <3>1, <3>3
  <2>6. QED
    BY <2>2, <2>5
<1>4. ASSUME NEW dm \in dms PROVE Row(new, dm) = Row(old, dm)
  <2>1. UNION {r.methods : r \in Alike(new, dm)} = Methods(old, dm)
    <3>1. PICK row : row = Row(old, dm)
      OBVIOUS
    <3>2. UNION {r.methods : r \in Alike(new, dm)} = row.methods
      BY <1>3, <3>1
    <3>3. QED
      BY <3>1, <3>2
  <2>2. Methods(new, dm) = Methods(old, dm)
    <3> HIDE DEF Given
    <3>1. QED
      BY <2>1, MethodsIdempotent
  <2>3. QED
    BY <2>2
<1>5. {Row(new, dm) : dm \in dms} = written
  BY <1>4
<1>6. {r \in new : Alike(dms, r) = {}} = kept
  <2>1. ASSUME NEW dm \in dms PROVE Alike(dms, Row(old, dm)) # {}
    BY DEF Alike, ByTitle
  <2>2. QED
    BY <1>2, <2>1
<1>7. UpsertPeople(new, dms) = written \cup kept
  BY <1>5, <1>6 DEF UpsertPeople
<1>8. QED
  BY <1>1, <1>2, <1>7

-----------------------------------------------------------------------------
(* The routing of a company, whatever its scores.                          *)

Priorities == {"P1", "P2", "P3", "P4"}

LEMMA BaseType ==
  ASSUME NEW fit \in Int, NEW intent \in Int, NEW stage
  PROVE  BasePriority(fit, intent, stage) \in Priorities
BY DEF BasePriority, Priorities

LEMMA BridgedType ==
  ASSUME NEW priority \in Priorities, NEW india \in BOOLEAN
  PROVE  Bridged(priority, india) \in Priorities
BY DEF Bridged, Priorities

(* The route of a company that may only be approached through its parent   *)
(* (corporate_route_only) is P3 or P4, and under an M&A freeze never P1:   *)
(* no behaviour stage and no India bridge gets past the caps, which        *)
(* route_priority applies last.                                            *)
THEOREM CapsHold ==
  ASSUME NEW fit \in Int, NEW intent \in Int, NEW stage, NEW flags,
         NEW india \in BOOLEAN
  PROVE  /\ RoutePriority(fit, intent, stage, flags, india) \in Priorities
         /\ "corporate_route_only" \in flags =>
              RoutePriority(fit, intent, stage, flags, india) \in {"P3", "P4"}
         /\ "ma_freeze" \in flags =>
              RoutePriority(fit, intent, stage, flags, india) # "P1"
<1> DEFINE bridged == Bridged(BasePriority(fit, intent, stage), india)
<1>1. bridged \in Priorities
  BY BaseType, BridgedType
<1>2. /\ CapCorporate(bridged, flags) \in Priorities
      /\ "corporate_route_only" \in flags => CapCorporate(bridged, flags) \in {"P3", "P4"}
  BY <1>1 DEF CapCorporate, Priorities
<1>3. RoutePriority(fit, intent, stage, flags, india) = CapFreeze(CapCorporate(bridged, flags), flags)
  BY DEF RoutePriority
<1> HIDE DEF bridged
<1>4. QED
  BY <1>2, <1>3 DEF CapFreeze, Priorities

(* The first route is earned: by a stage of behaviour that counts as one,  *)
(* or by a FIT above 5 together with an INTENT above 5 or an India bridge. *)
THEOREM FirstRouteIsEarned ==
  ASSUME NEW fit \in Int, NEW intent \in Int, NEW stage, NEW flags,
         NEW india \in BOOLEAN,
         RoutePriority(fit, intent, stage, flags, india) = "P1"
  PROVE  stage \in P1Stages \/ (fit > 5 /\ (intent > 5 \/ india))
<1> DEFINE base == BasePriority(fit, intent, stage)
<1>1. Bridged(base, india) = "P1"
  BY DEF RoutePriority, CapFreeze, CapCorporate
<1>2. CASE india
  <2>1. base \in {"P1", "P2"}
    BY <1>1, <1>2 DEF Bridged
  <2>2. stage \in P1Stages \/ fit > 5
    BY <2>1 DEF BasePriority
  <2>3. QED
    BY <2>2, <1>2
<1>3. CASE ~india
  <2>1. base = "P1"
    BY <1>1, <1>3 DEF Bridged
  <2>2. QED
    BY <2>1 DEF BasePriority
<1>4. QED
  BY <1>2, <1>3

(* What compute_intent counts, and how urgent a route is.                  *)
Urgency == [P1 |-> 1, P2 |-> 2, P3 |-> 3, P4 |-> 4]

Events(listed) == {<<s.type, s.date>> : s \in {x \in listed : x.type \notin ContextTypes}}

LEMMA IntentGrows ==
  ASSUME NEW more, IsFiniteSet(Events(more)), Events(more) \subseteq DOMAIN SignalValue,
         NEW less \in SUBSET more
  PROVE  /\ ComputeIntent(less) \in Int
         /\ ComputeIntent(more) \in Int
         /\ ComputeIntent(less) <= ComputeIntent(more)
<1>1. \A listed : ComputeIntent(listed) = Capped(SumFunctionOnSet(SignalValue, Events(listed)))
  BY DEF ComputeIntent, Events, SumOver, SumFunctionOnSet, FoldFunctionOnSet, MapThenFoldSet
<1>2. Events(less) \subseteq Events(more)
  BY DEF Events
<1>3. PICK S : S = Events(more)
  OBVIOUS
<1>4. PICK T : T = Events(less) /\ T \in SUBSET S
  BY <1>2, <1>3
<1>5. PICK value : value = [k \in S |-> SignalValue[k]]
  OBVIOUS
<1>6. value \in [S -> Nat] /\ IsFiniteSet(S)
  BY <1>3, <1>5, SignalValueAssumption
<1>7. /\ SumFunctionOnSet(SignalValue, S) = SumFunctionOnSet(value, S)
      /\ SumFunctionOnSet(SignalValue, T) = SumFunctionOnSet(value, T)
  <2>1. \A k \in S : SignalValue[k] = value[k]
    BY <1>5
  <2>2. QED
    BY <1>4, <2>1, SumAgrees
<1>8. PICK m, n : m = SumFunctionOnSet(value, T) /\ n = SumFunctionOnSet(value, S)
  OBVIOUS
<1>9. m \in Nat /\ n \in Nat /\ m <= n
  BY <1>4, <1>6, <1>8, SumMore, SumNat
<1>10. QED
  BY <1>1, <1>3, <1>4, <1>7, <1>8, <1>9 DEF Capped

(* Each step of the routing, on its own.                                   *)
LEMMA UrgencyKept ==
  ASSUME NEW p \in Priorities, NEW q \in Priorities, Urgency[q] <= Urgency[p],
         NEW india \in BOOLEAN, NEW flags
  PROVE  /\ Urgency[Bridged(q, india)] <= Urgency[Bridged(p, india)]
         /\ CapCorporate(p, flags) \in Priorities /\ CapCorporate(q, flags) \in Priorities
         /\ Urgency[CapCorporate(q, flags)] <= Urgency[CapCorporate(p, flags)]
         /\ Urgency[CapFreeze(q, flags)] <= Urgency[CapFreeze(p, flags)]
<1>1. Urgency[Bridged(q, india)] <= Urgency[Bridged(p, india)]
  BY DEF Bridged, Priorities, Urgency
<1>2. CapCorporate(p, flags) \in Priorities /\ CapCorporate(q, flags) \in Priorities
  BY DEF CapCorporate, Priorities
<1>3. Urgency[CapCorporate(q, flags)] <= Urgency[CapCorporate(p, flags)]
  BY DEF CapCorporate, Priorities, Urgency
<1>4. Urgency[CapFreeze(q, flags)] <= Urgency[CapFreeze(p, flags)]
  BY DEF CapFreeze, Priorities, Urgency
<1>5. QED
  BY <1>1, <1>2, <1>3, <1>4

(* What a signal adds is never negative: with more of them the route of a  *)
(* company is at least as urgent, whatever the stage, the flags and the    *)
(* bridge make of it.                                                      *)
THEOREM MoreSignalsNeverDemote ==
  ASSUME NEW about, about.india \in BOOLEAN, NEW notes, NEW stage,
         NEW more, IsFiniteSet(Events(more)), Events(more) \subseteq DOMAIN SignalValue,
         NEW less \in SUBSET more
  PROVE  Urgency[ScoreCompany(about, notes, more, stage).priority]
           <= Urgency[ScoreCompany(about, notes, less, stage).priority]
<1>1. PICK fit : fit = ComputeFit(about, notes)
  OBVIOUS
<1>2. PICK m, n : m = ComputeIntent(less) /\ n = ComputeIntent(more)
  OBVIOUS
<1>3. m \in Int /\ n \in Int /\ m <= n
  BY <1>2, IntentGrows
<1>4. PICK p, q : p = BasePriority(fit, m, stage) /\ q = BasePriority(fit, n, stage)
  OBVIOUS
<1>5. p \in Priorities /\ q \in Priorities /\ Urgency[q] <= Urgency[p]
  BY <1>3, <1>4 DEF BasePriority, Priorities, Urgency
<1>6. PICK india \in BOOLEAN : india = about.india
  OBVIOUS
<1>7. PICK u, v : u = Bridged(p, india) /\ v = Bridged(q, india)
  OBVIOUS
<1>8. u \in Priorities /\ v \in Priorities /\ Urgency[v] <= Urgency[u]
  BY <1>5, <1>7, BridgedType, UrgencyKept
<1>9. PICK y, z : y = CapCorporate(u, notes) /\ z = CapCorporate(v, notes)
  OBVIOUS
<1>10. y \in Priorities /\ z \in Priorities /\ Urgency[z] <= Urgency[y]
  BY <1>8, <1>9, UrgencyKept
<1>11. Urgency[CapFreeze(z, notes)] <= Urgency[CapFreeze(y, notes)]
  BY <1>10, UrgencyKept
<1>12. /\ ScoreCompany(about, notes, less, stage).priority = CapFreeze(y, notes)
       /\ ScoreCompany(about, notes, more, stage).priority = CapFreeze(z, notes)
  BY <1>1, <1>2, <1>4, <1>6, <1>7, <1>9 DEF ScoreCompany, RoutePriority
<1>13. QED
  BY <1>11, <1>12

-----------------------------------------------------------------------------
(* What stands behind the outreach status of a decision maker.             *)

LEMMA ScoreBounds ==
  ASSUME NEW s \in Signs
  PROVE  /\ ScoreIdentity(s) \in 0..100
         /\ EmployerConfidence(s) \in {0, 75, 85, 95}
         /\ LinkedInConfidence(s) \in {0, 80, 95}
<1>1. ScoreIdentity(s) \in 0..100
  BY DEF ScoreIdentity, Clamped, Points, Signs
<1>2. EmployerConfidence(s) \in {0, 75, 85, 95}
  BY DEF EmployerConfidence, Points, Signs
<1>3. LinkedInConfidence(s) \in {0, 80, 95}
  BY DEF LinkedInConfidence, Signs
<1>4. QED
  BY <1>1, <1>2, <1>3

(* What identity, employer and profile have to make up for each other: the *)
(* weights of _overall, on plain numbers.                                  *)
LEMMA Weights ==
  ASSUME NEW i \in Int, NEW e \in Int, NEW l \in Int, NEW o \in Int,
         o <= i * 65 + e * 20 + l * 15, l <= 95,
         (i <= 90 /\ e <= 85) \/ (i <= 80 /\ e <= 95)
  PROVE  ~(o >= 9000)
BY SMT

(* Each part of identity that is missing costs more than the confidence in *)
(* employer and profile can make up for.                                   *)
LEMMA NinetyNeedsEverything ==
  ASSUME NEW s \in Signs, s.linkedin, Overall(s) >= 9000
  PROVE  s.site /\ s.independent /\ s.slug /\ s.name
<1>1. /\ ScoreIdentity(s) \in Int /\ EmployerConfidence(s) \in Int
      /\ LinkedInConfidence(s) \in Int /\ Overall(s) \in Int
  <2>1. /\ ScoreIdentity(s) \in Int /\ EmployerConfidence(s) \in Int
        /\ LinkedInConfidence(s) \in Int
    BY ScoreBounds
  <2>2. QED
    BY <2>1 DEF Overall, Clamped
<1>2. EmployerConfidence(s) <= 95 /\ LinkedInConfidence(s) <= 95
  <2>1. /\ EmployerConfidence(s) \in {0, 75, 85, 95}
        /\ LinkedInConfidence(s) \in {0, 80, 95}
    BY ScoreBounds
  <2>2. QED
    BY <2>1
<1>3. Overall(s) <= ScoreIdentity(s) * 65 + EmployerConfidence(s) * 20
                    + LinkedInConfidence(s) * 15
  <2>1. ScoreIdentity(s) >= 0 /\ EmployerConfidence(s) >= 0 /\ LinkedInConfidence(s) >= 0
    <3>1. /\ ScoreIdentity(s) \in 0..100
          /\ EmployerConfidence(s) \in {0, 75, 85, 95}
          /\ LinkedInConfidence(s) \in {0, 80, 95}
      BY ScoreBounds
    <3>2. QED
      BY <3>1
  <2>2. QED
    BY <1>1, <2>1 DEF Overall, Clamped
<1>4. s.site
  <2>1. SUFFICES ASSUME ~s.site PROVE FALSE
    BY DEF Signs
  <2>2. ScoreIdentity(s) <= 90
    BY <2>1 DEF ScoreIdentity, Clamped, Points, Signs
  <2>3. EmployerConfidence(s) <= 75
    BY <2>1 DEF EmployerConfidence, Points, Signs
  <2>4. QED
    BY <1>1, <1>3, <1>2, <2>2, <2>3, Weights
<1>5. s.independent
  <2>1. SUFFICES ASSUME ~s.independent PROVE FALSE
    BY DEF Signs
  <2>2. ScoreIdentity(s) <= 90
    BY <2>1 DEF ScoreIdentity, Clamped, Points, Signs
  <2>3. EmployerConfidence(s) <= 85
    BY <2>1 DEF EmployerConfidence, Points, Signs
  <2>4. QED
    BY <1>1, <1>3, <1>2, <2>2, <2>3, Weights
<1>6. s.slug
  <2>1. SUFFICES ASSUME ~s.slug PROVE FALSE
    BY DEF Signs
  <2>2. ScoreIdentity(s) <= 80
    BY <2>1 DEF ScoreIdentity, Clamped, Points, Signs
  <2>3. QED
    BY <1>1, <1>3, <1>2, <2>2, Weights
<1>7. s.name
  <2>1. SUFFICES ASSUME ~s.name PROVE FALSE
    BY DEF Signs
  <2>2. ScoreIdentity(s) <= 70
    BY <2>1 DEF ScoreIdentity, Clamped, Points, Signs
  <2>3. QED
    BY <1>1, <1>3, <1>2, <2>2, Weights
<1>8. QED
  BY <1>4, <1>5, <1>6, <1>7

(* outreach_status: nobody is ready for outreach unless the company's own  *)
(* site and a second host speak of the person, a profile carries the name, *)
(* and no evidence says that the employment is over or the title another.  *)
THEOREM OutreachNeedsTwoSources ==
  ASSUME NEW s \in Signs, OutreachStatus(s) = "outreach_ready"
  PROVE  /\ s.site /\ s.independent /\ s.linkedin /\ s.slug /\ s.name /\ s.title
         /\ ~s.former /\ ~s.ended /\ ~s.conflict
<1>1. s.linkedin
  BY DEF OutreachStatus, Signs
<1>2. EmployerConfidence(s) >= 75 /\ TitleConfidence(s) >= 75 /\ Overall(s) >= 9000
  <2>1. EmployerConfidence(s) \in Int /\ TitleConfidence(s) \in Int /\ Overall(s) \in Int
    BY ScoreBounds DEF TitleConfidence, Points, Overall, Clamped
  <2>2. QED
    BY <2>1 DEF OutreachStatus
<1>3. ~s.former /\ ~s.ended
  BY <1>2 DEF EmployerConfidence, Signs
<1>4. s.title /\ ~s.conflict
  BY <1>2 DEF TitleConfidence, Points, Signs
<1>5. QED
  BY <1>1, <1>2, <1>3, <1>4, NinetyNeedsEverything
=============================================================================
