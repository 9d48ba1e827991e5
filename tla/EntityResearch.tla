--------------------------- MODULE EntityResearch ---------------------------
(***************************************************************************)
(* How Phase 2 turns research about one lead into candidate entities:      *)
(* which search results are fetched, what the fetched pages become as      *)
(* evidence, what the extractors say of them and which of the extracted    *)
(* entities become candidates with which identity flags                    *)
(* (phase2/tinyfish_provider.py, phase2/extraction.py, phase2/research.py).*)
(*                                                                         *)
(* A URL belongs to the host HostOf[url].  A search observation is a URL;  *)
(* a fetched page is [url, final, text].  The regular expressions of the   *)
(* deterministic extraction find the mentions MentionsIn[text], a sequence *)
(* of [name, predicate]; the semantic extractor is a remote model, and its *)
(* answer is an input of these operators.                                  *)
(***************************************************************************)
EXTENDS EntityMatching

CONSTANTS
    HostOf,         \* [url -> host]
    MentionsIn      \* [text -> sequence of mentions]

NoUrl  == "no url"
NoText == ""

(* _select_fetch_urls: first-party results when the lead has a domain, all *)
(* results otherwise, each URL once, no more than maxUrls.                 *)
SelectFetchUrls(domain, urls, maxUrls) ==
    LET Relevant(u) == \/ RegistrableDomain(domain) = <<>>
                       \/ RegistrableDomain(HostOf[u]) = RegistrableDomain(domain)
        places == {i \in DOMAIN urls : /\ Relevant(urls[i])
                                       /\ \A j \in 1..(i - 1) : urls[j] # urls[i]}
    IN  Slice(At(urls, places), maxUrls)

PageUrl(page) == IF page.final # NoUrl THEN page.final ELSE page.url

(* _evidence_inputs.  An evidence id hashes the position and the URL; a    *)
(* page without text is not an EvidenceInput (text has min_length 1) and   *)
(* the constructor raises.                                                 *)
EvidenceInputs(pages) ==
    [i \in DOMAIN pages |->
        [id |-> <<i, PageUrl(pages[i])>>, url |-> PageUrl(pages[i]), text |-> pages[i].text]]

EvidenceRaises(pages) == \E i \in DOMAIN pages : pages[i].text = NoText

-----------------------------------------------------------------------------
(* Extraction.  An extraction is [entities, currentness]: the extracted    *)
(* entities [name, type, domain, related, refs] and the currentness claims *)
(* [name, currentness], in the order they were given.  An extraction names *)
(* its evidence by id; refs are the places of that evidence.               *)

EntityTypeOf(predicate) ==
    IF predicate = "OPERATED_BY" THEN "OPERATING_ENTITY" ELSE "UNKNOWN"

(* The mentions in the evidence, <<place of the page, place in the page>>, *)
(* and the name and type of the entity of one.                             *)
Mentions(evidence) ==
    UNION {{<<i, k>> : k \in DOMAIN MentionsIn[evidence[i].text]} : i \in DOMAIN evidence}

EntityNamed(evidence, t) ==
    LET mention == MentionsIn[evidence[t[1]].text][t[2]]
    IN  <<mention.name, EntityTypeOf(mention.predicate)>>

(* deterministic_extract_evidence with its removal of repeated candidates. *)
DeterministicExtraction(evidence) ==
    LET found == Mentions(evidence)
        kept  == InTurn({t \in found : \A s \in found : Sooner(s, t) =>
                            EntityNamed(evidence, s) # EntityNamed(evidence, t)})
    IN  [entities    |-> [n \in DOMAIN kept |->
                             [name    |-> EntityNamed(evidence, kept[n])[1],
                              type    |-> EntityNamed(evidence, kept[n])[2],
                              domain  |-> NoDomain,
                              related |-> TRUE,
                              refs    |-> {kept[n][1]}]],
         currentness |-> <<>>]

(* No usable answer: it names an evidence id that no page has.             *)
NoAnswer == [entities |-> <<>>, currentness |-> <<>>, refs |-> {0}]

(* extract_with_fallback.  The answer of the semantic extractor counts     *)
(* when all evidence ids it names exist; an unknown id, a refusal and      *)
(* exhausted retries all end in the deterministic extraction.              *)
Extract(answer, evidence) ==
    IF answer.refs \subseteq DOMAIN evidence
    THEN [entities |-> answer.entities, currentness |-> answer.currentness]
    ELSE DeterministicExtraction(evidence)

-----------------------------------------------------------------------------
(* _candidate_objects.                                                     *)

KnownEntityTypes == {"LEGAL_ENTITY", "OPERATING_ENTITY", "BRAND", "BUSINESS_UNIT",
                     "PARENT_COMPANY", "HOLDING_COMPANY", "FRANCHISEE", "LICENSOR",
                     "LICENSEE", "EXTERNAL_PROVIDER"}

Currentnesses == {"CURRENT", "HISTORICAL", "UNKNOWN", "NOT_ESTABLISHED", "CONFLICT"}

CurrentnessForName(name, claims) ==
    LET i == SelectInSeq(claims, LAMBDA c : /\ NormalName(c.name) = NormalName(name)
                                            /\ c.currentness \in Currentnesses)
    IN  IF i = 0 THEN "UNKNOWN" ELSE claims[i].currentness

CandidateId(name, parts, type) == <<NormalName(name), parts, type>>

EvidenceIds(evidence, refs) == {evidence[i].id : i \in refs \cap DOMAIN evidence}

(* The evidence among refs that comes from the lead's own site.            *)
FirstParty(lead, evidence, refs) ==
    {i \in refs \cap DOMAIN evidence :
        /\ RegistrableDomain(HostOf[evidence[i].url]) = RegistrableDomain(lead.domain)
        /\ RegistrableDomain(lead.domain) # <<>>}

IdentityFlags == {"domain_verified", "official_corporate_url_match",
                  "explicit_official_identity_tie"}

(* The candidate made of one extracted entity.                             *)
ResearchCandidate(lead, evidence, claims, e) ==
    LET refs       == EvidenceIds(evidence, e.refs)
        firstParty == FirstParty(lead, evidence, e.refs) # {} /\ ~e.related
        sameName   == /\ NormalName(e.name) # <<>>
                      /\ NormalName(e.name) \in {NormalName(lead.display),
                                                 NormalName(lead.legal)}
        domain     == IF NormalDomain(e.domain) # <<>> THEN e.domain
                      ELSE IF firstParty THEN lead.domain ELSE NoDomain
        parts      == IF NormalDomain(e.domain) # <<>> THEN NormalDomain(e.domain)
                      ELSE PartsOf[domain]
        official   == /\ firstParty
                      /\ NormalDomain(lead.domain) # <<>>
                      /\ parts = NormalDomain(lead.domain)
    IN  [id    |-> CandidateId(e.name, parts, e.type),
         type  |-> e.type, name |-> e.name, aliases |-> {}, domain |-> domain, geo |-> {},
         flags |-> {f \in IdentityFlags :
                      official /\ (f = "explicit_official_identity_tie" => sameName)},
         refs  |-> refs,
         currentness |-> CurrentnessForName(e.name, claims),
         kept  |-> /\ e.type \in KnownEntityTypes
                   /\ refs # {}
                   /\ \/ sameName
                      \/ firstParty
                      \/ /\ NormalDomain(lead.domain) # <<>>
                         /\ NormalDomain(e.domain) = NormalDomain(lead.domain)]

(* The candidate the provider adds when no extracted one carries the       *)
(* identity of the lead's own site: a BRAND with every identity flag.      *)
FirstPartyCandidate(lead, evidence) ==
    LET name == IF lead.display # NoName THEN lead.display
                ELSE IF lead.legal # NoName THEN lead.legal ELSE lead.domain
    IN  [id    |-> CandidateId(name, PartsOf[lead.domain], "BRAND"),
         type  |-> "BRAND", name |-> name, aliases |-> {}, domain |-> lead.domain,
         geo   |-> {}, flags |-> IdentityFlags,
         refs  |-> EvidenceIds(evidence, FirstParty(lead, evidence, DOMAIN evidence)),
         currentness |-> "CURRENT", kept |-> TRUE]

(* The code after the loop over the extracted entities reads a variable    *)
(* the loop assigns past its first two filters: when no entity comes that  *)
(* far and the lead has a domain, it raises UnboundLocalError.             *)
CandidatesRaise(lead, extraction, evidence) ==
    /\ NormalDomain(lead.domain) # <<>>
    /\ \A e \in ToSet(extraction.entities) :
            e.type \notin KnownEntityTypes \/ EvidenceIds(evidence, e.refs) = {}

CandidateObjects(lead, extraction, evidence) ==
    LET made     == [n \in DOMAIN extraction.entities |->
                        ResearchCandidate(lead, evidence, extraction.currentness,
                                          extraction.entities[n])]
        found    == At(made, {n \in DOMAIN made : /\ made[n].kept
                                  /\ \A m \in 1..(n - 1) : made[m].kept => made[m].id # made[n].id})
        identity == \E j \in DOMAIN found :
                        found[j].flags \cap {"domain_verified",
                                             "official_corporate_url_match"} # {}
        own      == FirstPartyCandidate(lead, evidence)
    IN  IF ~identity /\ NormalDomain(lead.domain) # <<>> /\ own.refs # {}
        THEN Append(found, own) ELSE found
=============================================================================
