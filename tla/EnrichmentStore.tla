--------------------------- MODULE EnrichmentStore --------------------------
(***************************************************************************)
(* The tables of the enrichment: what EnrichmentRepository.persist_batch   *)
(* leaves in them in its one transaction, the selections of the next       *)
(* companies, the verification of contacts and the clean-up of the quality *)
(* gate.  Rows are elements of sets and functions: rows of a later run     *)
(* with the same content are not counted again.                            *)
(***************************************************************************)
EXTENDS CompanyResearch

CONSTANTS Companies,    \* the ids, a finite set of naturals
          MinAge,       \* how old a completed run must be for a refresh
          WellFormed,   \* the names _NAME_RE accepts
          Executive,    \* the titles with an explicit executive role
          SearchLabels, \* _REJECTED_NAME_TOKENS
          OwnAddresses  \* pairs of an address and a domain it belongs to

ASSUME CompaniesAssumption == IsFiniteSet(Companies) /\ Companies \subseteq Nat

VARIABLES
    world,         \* the rows of public.companies: name and domain of each
    completed,     \* age of each company's latest completed run, NoValue without
    latest,        \* the companies with one, the longest ago first
    facts,         \* intelligence.company_facts
    scores,        \* intelligence.company_scores
    contacts,      \* growth.company_contacts: company -> rows
    people,        \* growth.decision_makers with their contact methods
    evidence,      \* intelligence.evidence
    signals        \* intelligence.intent_signals

storeVars == <<completed, latest, facts, scores, contacts, people, evidence, signals>>

Empty(x) == [c \in Companies |-> x]

StoreInit ==
    /\ completed = Empty(NoValue)
    /\ latest = <<>>
    /\ facts = Empty(NoValue)
    /\ scores = Empty(NoValue)
    /\ contacts = Empty({})
    /\ people = Empty({})
    /\ evidence = {}
    /\ signals = Empty({})

-----------------------------------------------------------------------------
Known(old, c) == {m \in old : m.channel = c.channel /\ m.value = c.value}

(* A profile that the resolution settled on is a candidate; an address on  *)
(* LinkedIn that is no profile is as unknown as an e-mail.                 *)
Unverified(c) ==
    IF c.channel = "linkedin" /\ \E url \in DOMAIN ProfileOf : ProfileOf[url] = c.value
    THEN "candidate" ELSE "unknown"

(* Faulty variant: a conflict takes the incoming status.                     *)
BugStatusOf(old, c) == Unverified(c)

(* A contact method that exists keeps its verification; a new one comes in *)
(* unverified.                                                             *)
StatusOf(old, c) ==
    IF Known(old, c) = {} THEN Unverified(c) ELSE (CHOOSE m \in Known(old, c) : TRUE).status

ContactMethods(old, found) ==
    {[channel |-> c.channel, value |-> c.value, status |-> StatusOf(old, c)] : c \in found}
    \cup {m \in old : \A c \in found : m \notin Known(old, c)}

Alike(rows, dm) == {r \in rows : ByTitle(r) = ByTitle(dm)}

(* What is written last, of the least confident.                           *)
LeastConfident(dms) == CHOOSE dm \in dms : \A d \in dms : dm.confidence <= d.confidence

(* The row of a name and title is updated in place, by each decision maker *)
(* of the packet that has them.                                            *)
UpsertPeople(old, dms) ==
    {[name |-> dm.name, title |-> dm.title, confidence |-> LeastConfident(Alike(dms, dm)).confidence,
      methods |-> ContactMethods(UNION {r.methods : r \in Alike(old, dm)},
                                 UNION {Range(d.contacts) : d \in Alike(dms, dm)})] : dm \in dms}
    \cup {r \in old : Alike(dms, r) = {}}

UpsertContacts(old, found) ==
    found \cup {r \in old : \A c \in found : r.value # c.value}

(* Evidence of research carries the time it was observed, so that its hash *)
(* is new each time.  The result of a resolution has none, and the hash    *)
(* leaves the company and the person out: the first such row stays, of     *)
(* this packet or of any before.  A person's evidence is tied to the row   *)
(* written last under the name, the least confident.                       *)
Owner(packet, name) == LeastConfident({dm \in packet.people : dm.name = name}).title

EvidenceRow(packet, kind, name, owner, url, claim) ==
    [company |-> packet.company, kind |-> kind, name |-> name, owner |-> owner, url |-> url,
     claim |-> claim]

PersonRows(packet, dm) ==
    {EvidenceRow(packet, "public_decision_maker", dm.name, Owner(packet, dm.name), e.url, dm.title) :
        e \in dm.evidence}

ResolutionRows(packet, dm) ==
    {EvidenceRow(packet, "decision_maker_identity_resolution", dm.name, Owner(packet, dm.name),
                 e.url, <<dm.confidence, dm.status>>) : e \in dm.evidence}

ContactRow(packet, c) ==
    EvidenceRow(packet, "public_company_email", c.value, NoValue, c.url, NoValue)

SignalRow(packet, s) ==
    EvidenceRow(packet, "public_intent_signal", s.type, NoValue, s.url, s.date)

SameHash(e, f) == e.kind = f.kind /\ e.url = f.url /\ e.claim = f.claim

ObservedRows(packet) ==
    (UNION {PersonRows(packet, dm) : dm \in packet.people})
    \cup {ContactRow(packet, c) : c \in packet.contacts}
    \cup {SignalRow(packet, s) : s \in packet.signals}

ResolvedRows(packet) == UNION {ResolutionRows(packet, dm) : dm \in packet.people}

InsertEvidence(old, packet) ==
    LET resolved == ResolvedRows(packet)
    IN  old \cup ObservedRows(packet)
        \cup {r \in resolved : /\ r = CHOOSE x \in resolved : SameHash(x, r)
                               /\ \A e \in old : ~SameHash(e, r)}

(* One packet of a batch: its run is started and completed in the same     *)
(* transaction as everything it writes.                                    *)
PersistPacket(packet) ==
    LET c == packet.company
    IN  /\ facts' = [facts EXCEPT ![c] = packet.facts]
        /\ contacts' = [contacts EXCEPT ![c] = UpsertContacts(@, packet.contacts)]
        /\ people' = [people EXCEPT ![c] = UpsertPeople(@, packet.people)]
        /\ evidence' = InsertEvidence(evidence, packet)
        /\ signals' = [signals EXCEPT ![c] = @ \cup {<<s.type, s.date>> : s \in packet.signals}]
        /\ scores' = [scores EXCEPT ![c] = ScoreCompany(packet.facts, packet.topics,
                                                        packet.signals, packet.stage)]
        /\ completed' = [completed EXCEPT ![c] = 0]
        /\ latest' = Append(At(latest, {i \in DOMAIN latest : latest[i] # c}), c)

-----------------------------------------------------------------------------
(* Faulty variant: the runs are not looked at.                               *)
BugNotCompleted == Companies

NotCompleted == {c \in Companies : completed[c] = NoValue}

(* The lowest ids that have no completed run.                              *)
NextEnrichmentCompanyIds(limit) == Slice(Ascending(NotCompleted), limit)

Stale == {c \in Companies : completed[c] = MinAge}

(* Faulty variant: by id, as the daily selection.                            *)
BugNextRefreshCompanyIds(limit) == Slice(Ascending(Stale), limit)

(* The priority of a score is P1 to P4 and never one of the words the      *)
(* query sorts by; what is left is the age of the score, which is that of  *)
(* the run.                                                                *)
NextRefreshCompanyIds(limit) ==
    Slice(At(latest, {i \in DOMAIN latest : latest[i] \in Stale}), limit)

-----------------------------------------------------------------------------
(* The verification of one contact method of one person.                   *)
UpdateContactVerification(c, r, m, status) ==
    /\ people' = [people EXCEPT ![c] =
           (@ \ {r}) \cup {[r EXCEPT !.methods = (@ \ {m}) \cup {[m EXCEPT !.status = status]}]}]
    /\ UNCHANGED <<completed, latest, facts, scores, contacts, evidence, signals>>

(* The checks of the quality gate, in their order.                         *)
ValidDecisionMaker(c, r) ==
    LET name == TokensOf[r.name]
        company == TokensOf[world.name[c]]
    IN  /\ r.name \in WellFormed
        /\ name \cap SearchLabels = {}
        /\ r.title \in Executive
        /\ ~(name # {} /\ company # {} /\ (name \subseteq company \/ company \subseteq name))

InvalidPeople(c) == {r \in people[c] : ~ValidDecisionMaker(c, r)}

InvalidContacts(c) == {r \in contacts[c] : <<r.value, world.domain[c]>> \notin OwnAddresses}

(* A company without a name ends the gate at the first person that gets to *)
(* the comparison of names, and one without a domain at its first address. *)
GateRaises ==
    \E c \in Companies :
        \/ world.domain[c] = NoValue /\ contacts[c] # {}
        \/ world.name[c] = NoValue /\ \E r \in people[c] :
              /\ r.name \in WellFormed /\ r.title \in Executive
              /\ TokensOf[r.name] \cap SearchLabels = {}

GateFinds == \E c \in Companies : InvalidPeople(c) \cup InvalidContacts(c) # {}

(* The clean-up deletes the invalid rows with their evidence, and whatever *)
(* was found about anybody of the same name.                               *)
CleanUp ==
    LET names == {r.name : r \in UNION {InvalidPeople(c) : c \in Companies}}
        Owned(e) == \E r \in InvalidPeople(e.company) : e.name = r.name /\ e.owner = r.title
    IN  /\ people' = [c \in Companies |-> people[c] \ InvalidPeople(c)]
        /\ contacts' = [c \in Companies |-> contacts[c] \ InvalidContacts(c)]
        /\ evidence' = {e \in evidence :
               ~Owned(e) /\ ~(e.kind = "public_decision_maker" /\ e.name \in names)}
        /\ UNCHANGED <<completed, latest, facts, scores, signals>>
=============================================================================
