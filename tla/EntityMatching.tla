--------------------------- MODULE EntityMatching ---------------------------
(***************************************************************************)
(* The deterministic part of Phase 2: how the names and domains of a lead  *)
(* and of the candidate entities are normalised (phase2/normalization.py), *)
(* which candidates are compared at all (phase2/blocking.py), the signals  *)
(* and the score of one comparison (phase2/matching.py) and the decision   *)
(* made of all comparisons of a lead (phase2/resolver.py).                 *)
(*                                                                         *)
(* A raw name is a label whose lower-case words are WordsOf[label]; a raw  *)
(* domain is a host whose dot-separated parts are PartsOf[host].  A lead   *)
(* is [id, display, legal, domain, geo], a candidate                       *)
(*   [id, type, name, aliases, domain, geo, flags, refs, currentness]      *)
(* where flags is the set of the Boolean fields that are true.             *)
(***************************************************************************)
EXTENDS Lists, FiniteSetsExt, SequencesExt

CONSTANTS
    WordsOf,        \* [label -> sequence of its lower-case words]
    CompanyWords,   \* inc, llc, ltd, ...: the words a name is stripped of
    PartsOf,        \* [host -> sequence of its parts]
    TwoLevel,       \* the two-part public suffixes the code knows
    AlikeTokens     \* pairs of token sets whose SequenceMatcher ratio is >= 0.8

NoName   == "no name"
NoDomain == "no domain"

ASSUME NormalFormsAssumption ==
    /\ NoName \in DOMAIN WordsOf /\ WordsOf[NoName] = <<>>
    /\ NoDomain \in DOMAIN PartsOf /\ PartsOf[NoDomain] = <<>>

NormalName(n) == SelectSeq(WordsOf[n], LAMBDA w : w \notin CompanyWords)

NameTokens(n) == ToSet(NormalName(n))

NormalDomain(d) ==
    LET parts == PartsOf[d]
    IN  IF Len(parts) > 1 /\ parts[1] = "www" THEN Tail(parts) ELSE parts

LastParts(parts, n) == SubSeq(parts, Len(parts) - n + 1, Len(parts))

RegistrableDomain(d) ==
    LET parts == NormalDomain(d)
    IN  IF Len(parts) <= 2 THEN parts
        ELSE IF LastParts(parts, 2) \in TwoLevel THEN LastParts(parts, 3)
        ELSE LastParts(parts, 2)

LeadName(lead) == IF lead.legal # NoName THEN lead.legal ELSE lead.display

-----------------------------------------------------------------------------
(* Blocking.  The last clause of the code, geography and a shared word, is *)
(* implied by the clause on words before it and adds no candidate.         *)

BlockMatch(lead, c) ==
    \/ /\ NormalDomain(lead.domain) # <<>>
       /\ NormalDomain(c.domain) # <<>>
       /\ RegistrableDomain(lead.domain) = RegistrableDomain(c.domain)
    \/ NameTokens(LeadName(lead))
         \cap UNION {NameTokens(n) : n \in {c.name} \cup c.aliases} # {}

GenerateCandidates(lead, candidates, budget) ==
    Slice(At(candidates, {i \in DOMAIN candidates : BlockMatch(lead, candidates[i])}), budget)

-----------------------------------------------------------------------------
(* One comparison.                                                         *)

StrongCodes == {"exact_verified_canonical_domain",
                "exact_official_corporate_url",
                "explicit_official_identity_tie"}

NegativeCodes == {"conflicting_authoritative_domain", "conflicting_geography",
                  "clearly_different_legal_entity", "historical_only",
                  "external_provider_relationship"}

Weight ==
    [exact_verified_canonical_domain |-> 100,
     exact_official_corporate_url    |-> 95,
     explicit_official_identity_tie  |-> 90,
     normalized_company_name         |-> 55,
     registered_identity_match       |-> 35,
     corporate_social_match          |-> 25,
     geography_match                 |-> 20,
     parent_relationship_consistent  |-> 15,
     name_similarity                 |-> 10]
    @@ [n \in NegativeCodes |-> -100]

(* The Boolean fields of a candidate that are a signal by themselves.      *)
FlagSignals == [official_corporate_url_match   |-> "exact_official_corporate_url",
                explicit_official_identity_tie |-> "explicit_official_identity_tie",
                registered_identity_match      |-> "registered_identity_match",
                corporate_social_match         |-> "corporate_social_match",
                parent_relationship_consistent |-> "parent_relationship_consistent"]
               @@ [n \in NegativeCodes |-> n]

SameDomain(lead, c) ==
    /\ NormalDomain(lead.domain) # <<>>
    /\ NormalDomain(lead.domain) = NormalDomain(c.domain)

SameName(lead, c) ==
    /\ NormalName(LeadName(lead)) # <<>>
    /\ NormalName(LeadName(lead)) = NormalName(c.name)

Signals(lead, c) ==
    {FlagSignals[f] : f \in c.flags \cap DOMAIN FlagSignals}
    \cup {s \in {"exact_verified_canonical_domain"} :
            SameDomain(lead, c) /\ "domain_verified" \in c.flags}
    \cup {s \in {"normalized_company_name"} : SameName(lead, c)}
    \cup {s \in {"geography_match"} : lead.geo \cap c.geo # {}}
    \cup {s \in {"name_similarity"} :
            /\ NormalName(LeadName(lead)) # NormalName(c.name)
            /\ <<NameTokens(LeadName(lead)), NameTokens(c.name)>> \in AlikeTokens}

CompareCandidate(lead, c) ==
    LET signals == Signals(lead, c)
        negative == signals \cap NegativeCodes # {}
    IN  [id       |-> c.id,
         signals  |-> signals,
         score    |-> MapThenSumSet(LAMBDA s : Weight[s], signals),
         negative |-> negative,
         eligible |-> ~negative /\ signals \cap StrongCodes # {}]

-----------------------------------------------------------------------------
(* The decision.  The order of equal comparisons is that of a hash; it     *)
(* decides nothing: two eligible candidates with different ids are a       *)
(* CONFLICT, and the top is used only when all eligible ones share an id.  *)
(* The confidence, the trace and the wording of questions are left out.    *)

Compare(lead, selected) ==
    [i \in DOMAIN selected |-> CompareCandidate(lead, selected[i])]

Status(comparisons, relationships) ==
    LET eligible  == {c \in ToSet(comparisons) : c.eligible}
        plausible == {c \in ToSet(comparisons) : ~c.negative /\ c.score > 0}
    IN  IF comparisons = <<>> THEN "UNRESOLVED"
        ELSE IF eligible = {} THEN IF plausible # {} THEN "AMBIGUOUS" ELSE "NO_MATCH"
        ELSE IF Cardinality({c.id : c \in eligible}) > 1 THEN "CONFLICT"
        ELSE IF relationships # {} THEN "MATCHED_WITH_RELATIONSHIP"
        ELSE "MATCHED"

MatchedStatuses == {"MATCHED", "MATCHED_WITH_RELATIONSHIP"}

Matched(decision) == decision.status \in MatchedStatuses

(* next(item for item in selected if item.candidate_id == top.candidate_id) *)
(* All eligible comparisons of a match have one id, that of the top.        *)
TopCandidate(selected, comparisons) ==
    LET top    == CHOOSE c \in ToSet(comparisons) : c.eligible
        places == {i \in DOMAIN selected : selected[i].id = top.id}
    IN  selected[CHOOSE i \in places : \A j \in places : i <= j]

NoId == <<>>

NoEntity == [id |-> NoId, type |-> "UNKNOWN", name |-> NoName, domain |-> NoDomain,
             refs |-> {}, currentness |-> "UNKNOWN"]

(* decision_id hashes the lead and the candidate:score pairs; the pairs of *)
(* one lead are distinct, so their set stands for the hashed string.       *)
ResolveEntity(lead, candidates, relationships, budget) ==
    LET selected    == GenerateCandidates(lead, candidates, budget)
        comparisons == Compare(lead, selected)
        status      == Status(comparisons, relationships)
        top         == IF status \in MatchedStatuses
                       THEN TopCandidate(selected, comparisons) ELSE NoEntity
    IN  [id          |-> <<lead.id, {<<c.id, c.score>> : c \in ToSet(comparisons)}>>,
         lead        |-> lead.id,
         status      |-> status,
         entity      |-> top.id,
         type        |-> top.type,
         name        |-> top.name,
         domain      |-> top.domain,
         refs        |-> top.refs,
         currentness |-> top.currentness,
         rejected    |-> {c.id : c \in {d \in ToSet(comparisons) : d.negative}},
         comparisons |-> comparisons,
         relationships |-> IF status \in MatchedStatuses THEN relationships ELSE {},
         research    |-> status \notin MatchedStatuses]

(* EntityResolutionDecision.validate_state_contract: the decisions the     *)
(* model class accepts; for any other one the constructor raises.          *)
ValidDecision(d) ==
    /\ Matched(d) => d.entity # NoId /\ d.type # "UNKNOWN" /\ d.refs # {}
    /\ d.status = "MATCHED_WITH_RELATIONSHIP" => d.relationships # {}
    /\ ~Matched(d) => d.entity = NoId
=============================================================================
