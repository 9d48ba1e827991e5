-------------------------- MODULE CompanyResearch ---------------------------
(***************************************************************************)
(* How TinyFishEnrichmentProvider turns the answers of the provider into a *)
(* packet: the choice of the URLs to fetch, the facts, people, addresses   *)
(* and intent signals read from the pages, and the people named in search  *)
(* results.  What the regular expressions find in a text is a field of the *)
(* page or of the search result.                                           *)
(*                                                                         *)
(* A page has words (the needles it contains), sizes and visits (the       *)
(* numbers given for employees and sessions), people (pairs of name and    *)
(* title), emails, triggers (the research labels of its intent), date (of  *)
(* publication, NoValue, or "invalid") and final (the URL after            *)
(* redirects).  A search result has url, people, emails and labelled       *)
(* (whether its text names the company or the domain).                     *)
(***************************************************************************)
EXTENDS DecisionMakerResolution, BuyingIntent, Lists, SequencesExt

CONSTANTS Purposes,       \* SEARCH_PURPOSES in their order
          UrlLength,
          LinkedInHosts,  \* linkedin.com and the hosts below it
          Personal,       \* the addresses whose local part is not generic
          UrlTopics,      \* URL -> the scoring topics its text contains
          Banned,         \* texts with VERIFIED, INFERRED or NOT_FOUND in them
          MaxPeople       \* ten

PeoplePurposes == {"leadership", "decision_makers", "leadership_external"}

ProfileHosts == {"crunchbase.com", "theorg.com", "forbes.com", "sec.gov"}

(* The first needle in this order decides, see _ROLE_FAMILIES.             *)
RoleFamilies ==
    <<<<"ciso", "security", 1>>, <<"chief information security", "security", 1>>,
      <<"security", "security", 1>>, <<"fraud", "security", 1>>, <<"risk", "security", 1>>,
      <<"cto", "engineering", 2>>, <<"technology", "engineering", 2>>,
      <<"engineering", "engineering", 2>>, <<"product", "product", 3>>,
      <<"growth", "growth", 4>>, <<"marketing", "growth", 4>>, <<"finance", "finance", 5>>,
      <<"procurement", "finance", 5>>, <<"founder", "founder", 2>>,
      <<"chief executive", "founder", 2>>, <<"ceo", "founder", 2>>>>

CONSTANT NeedlesIn  \* title -> the needles above that it contains

RoleFamily(title) ==
    LET hit == SelectSeq(RoleFamilies, LAMBDA r : r[1] \in NeedlesIn[title])
    IN  IF hit = <<>> THEN <<NoValue, NoValue>> ELSE <<hit[1][2], hit[1][3]>>

-----------------------------------------------------------------------------
HostScore(url, domain) ==
    CASE UrlHost[url] = domain           -> 0
      [] UrlHost[url] \in LinkedInHosts  -> 1
      [] UrlHost[url] \in ProfileHosts   -> 2
      [] OTHER                           -> 3

(* The best result of each search that no search before it has picked, and *)
(* then the others, each URL where it first comes up.  A visit is one of a *)
(* usable result in either of the two passes.                              *)
SelectFetchUrls(searches, domain, limit) ==
    LET Url(v) == searches[v[2]][v[5]].url
        Visit(pass, i, j) == LET u == searches[i][j].url
                             IN  <<pass, i, HostScore(u, domain), UrlLength[u], j>>
        Usable(i) == {j \in DOMAIN searches[i] : HostScore(searches[i][j].url, domain) < 3}
        Visits(pass) == UNION {{Visit(pass, i, j) : j \in Usable(i)} : i \in DOMAIN searches}
        picks[i \in DOMAIN searches] ==
            LET Unseen(v) ==
                    v[2] = i /\ \A h \in 1..(i - 1) : \A u \in picks[h] : Url(u) # Url(v)
            IN  {v \in Visits(0) : Unseen(v) /\ \A u \in Visits(0) : Sooner(u, v) => ~Unseen(u)}
        Seen(v) == \/ \E i \in DOMAIN searches : \E u \in picks[i] : Url(u) = Url(v)
                   \/ \E u \in Visits(1) : Sooner(u, v) /\ Url(u) = Url(v)
        urls[order \in Seq(Visits(0) \cup Visits(1))] ==
            Slice([k \in DOMAIN order |-> Url(order[k])], limit)
    IN  urls[InTurn({v \in Visits(0) : v \in picks[v[2]]} \cup {v \in Visits(1) : ~Seen(v)})]

-----------------------------------------------------------------------------
(* _extract_decision_makers_from_text: people with a role the code knows.  *)
SocialContacts(url, emails) ==
    (IF UrlHost[url] \in LinkedInHosts THEN <<[channel |-> "linkedin", value |-> url]>> ELSE <<>>)
    \o [i \in 1..Len(SelectSeq(emails, LAMBDA e : e \in Personal)) |->
           [channel |-> "email", value |-> SelectSeq(emails, LAMBDA e : e \in Personal)[i]]]

CONSTANTS Formerly,  \* titles that say former, ex- or the like
          OnBoard    \* titles of a non-executive director or a former officer

PublicClaim(name, title, url) ==
    [name |-> name, title |-> title, url |-> url, employer |-> NoValue,
     former |-> title \in Formerly, ended |-> FALSE, board |-> title \in OnBoard]

Found(person, url, emails, source) ==
    [name |-> person.name, title |-> person.title,
     family |-> RoleFamily(person.title)[1], priority |-> RoleFamily(person.title)[2],
     source |-> source, contacts |-> SocialContacts(url, emails),
     evidence |-> {PublicClaim(person.name, person.title, url)},
     confidence |-> NoValue, status |-> NoValue]

(* People come in the order in which the loops visit a page or a result i, *)
(* an entry j of it and a person of the text: each has that turn.          *)
PeopleInText(people, url, emails, source, i, j) ==
    {[turn |-> <<i, j, k>>, dm |-> Found(people[k], url, emails, source)] :
        k \in {n \in DOMAIN people : RoleFamily(people[n].title)[1] # NoValue}}

Turns(S) == {x.turn : x \in S}

(* A dictionary: the keys in their order, each with its last entry.        *)
Dictionary(S, Key(_)) ==
    LET Same(x) == {y \in S : Key(y.dm) = Key(x.dm)}
    IN  {[turn |-> CHOOSE t \in Turns(Same(x)) : \A u \in Turns(Same(x)) : ~Sooner(u, t),
          dm |-> x.dm] : x \in {y \in S : \A z \in Same(y) : ~Sooner(y.turn, z.turn)}}

(* The first entry of each key.                                            *)
Firsts(S, Key(_)) ==
    {x \in S : \A y \in S : Key(y.dm) = Key(x.dm) => ~Sooner(y.turn, x.turn)}

ByTitle(dm) == <<dm.name, dm.title>>
ByFamily(dm) == <<dm.name, dm.family>>

FoundOnPages(pages) ==
    LET Of(t, i) == PeopleInText(t.people, t.final, t.emails, "tinyfish_fetch", 0, i)
    IN  UNION {Of(pages[i].text, i) : i \in DOMAIN pages}

PagePeople(pages) == Dictionary(FoundOnPages(pages), ByTitle)

(* The people of the search results that tell of this company.             *)
SearchPeople(searches) ==
    LET Told(i) == {j \in DOMAIN searches[i] :
                       Purposes[i] # "leadership_external" \/ searches[i][j].labelled}
        Of(r, i, j) == PeopleInText(r.people, r.url, r.emails, "tinyfish_search", i, j)
    IN  UNION {UNION {Of(searches[i][j], i, j) : j \in Told(i)} :
               i \in {n \in DOMAIN searches : Purposes[n] \in PeoplePurposes}}

(* Search adds people, it replaces none; the ten most important are kept,  *)
(* among equals those found first (the code: by name).                     *)
Augmented(found, searches) ==
    LET all == Firsts(Dictionary(found, ByFamily) \cup SearchPeople(searches), ByFamily)
        Before(x, y) == \/ x.dm.priority < y.dm.priority
                        \/ x.dm.priority = y.dm.priority /\ Sooner(x.turn, y.turn)
    IN  {x.dm : x \in {y \in all : Cardinality({z \in all : Before(z, y)}) < MaxPeople}}

-----------------------------------------------------------------------------
LoginTerms == {"sign in", "log in", "login", "create an account", "customer account"}

IndiaTerms == {"india office", "india-based", "based in india", "bengaluru", "bangalore",
               "hyderabad", "mumbai", "delhi"}

Verticals ==
    <<<<"cybersecurity", "cybersecurity">>, <<"cyber security", "cybersecurity">>,
      <<"fintech", "fintech">>, <<"financial services", "financial_services">>,
      <<"ecommerce", "ecommerce">>, <<"e-commerce", "ecommerce">>,
      <<"healthcare", "healthcare">>, <<"saas", "saas">>, <<"gaming", "gaming">>,
      <<"media", "media">>, <<"education", "education">>, <<"travel", "travel">>>>

Ownerships ==
    <<<<"publicly traded", "public_company">>, <<"listed on", "public_company">>,
      <<"nasdaq", "public_company">>, <<"nyse", "public_company">>,
      <<"private company", "privately_held">>, <<"privately held", "privately_held">>,
      <<"family-owned", "family_owned">>, <<"family owned", "family_owned">>>>

Sensitivities ==
    <<<<"payment", "financial">>, <<"credit card", "financial">>,
      <<"financial data", "financial">>, <<"health record", "health">>,
      <<"medical record", "health">>, <<"identity verification", "identity">>,
      <<"personal data", "personal">>, <<"customer data", "customer">>>>

FirstLabel(labels, words) ==
    LET hit == SelectSeq(labels, LAMBDA l : l[1] \in words)
    IN  IF hit = <<>> THEN NoValue ELSE hit[1][2]

(* A number on which the sources agree.                                    *)
Agreed(S) == IF Cardinality(S) = 1 THEN CHOOSE x \in S : TRUE ELSE NoValue

CompanyFacts(pages) ==
    LET words == UNION {p.text.words : p \in Range(pages)}
    IN  [employees   |-> Agreed(UNION {p.text.sizes : p \in Range(pages)}),
         sessions    |-> Agreed(UNION {p.text.visits : p \in Range(pages)}),
         login       |-> words \cap LoginTerms # {},
         vertical    |-> FirstLabel(Verticals, words),
         ownership   |-> FirstLabel(Ownerships, words),
         india       |-> words \cap IndiaTerms # {},
         sensitivity |-> FirstLabel(Sensitivities, words)]

(* The addresses of the pages, each of the first page that has it.         *)
CompanyContacts(pages) ==
    LET On(i) == Range(pages[i].text.emails)
    IN  UNION {{[value |-> e, url |-> pages[i].url] :
                    e \in {x \in On(i) : \A h \in 1..(i - 1) : x \notin On(h)}} :
               i \in DOMAIN pages}

(* Only pages that the intent search returned, and only dated ones.        *)
IntentPages(pages, searches) ==
    LET urls == UNION {{r.url : r \in Range(searches[i])} :
                       i \in {j \in DOMAIN searches : Purposes[j] = "intent"}}
    IN  {p \in Range(pages) : p.url \in urls}

IntentSignals(pages, searches) ==
    UNION {{[type |-> Canonical[t], date |-> p.text.date, url |-> p.url] : t \in p.text.triggers} :
           p \in {q \in IntentPages(pages, searches) : q.text.date # NoValue}}

-----------------------------------------------------------------------------
Labels(dm) ==
    {dm.name, dm.title} \cup {c.value : c \in Range(dm.contacts)}
    \cup (IF dm.contacts = <<>> THEN {} ELSE {e.url : e \in dm.evidence})

(* A date that only looks like one, or a label the packet's fields refuse, *)
(* raises a ValueError, and there is no packet.                            *)
ResearchRaises(pages, searches) ==
    \/ \E p \in IntentPages(pages, searches) : p.text.date = "invalid"
    \/ \E x \in FoundOnPages(pages) \cup SearchPeople(searches) : Labels(x.dm) \cap Banned # {}

(* build_packet after its calls, then resolve_decision_makers.             *)
Packet(company, domain, pages, searches) ==
    [company  |-> company,
     facts    |-> CompanyFacts(pages),
     contacts |-> CompanyContacts(pages),
     people   |-> {Resolved(dm, domain) : dm \in Augmented(PagePeople(pages), searches)},
     signals  |-> IntentSignals(pages, searches),
     topics   |-> UNION {UrlTopics[p.url] : p \in Range(pages)},
     stage    |-> NoValue]
=============================================================================
