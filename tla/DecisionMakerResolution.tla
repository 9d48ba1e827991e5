----------------------- MODULE DecisionMakerResolution ----------------------
(***************************************************************************)
(* How far the evidence carries a decision maker: the grades of            *)
(* decision_maker_resolution.py and the reading of a packet's evidence in  *)
(* decision_maker_pipeline.py.  Confidences are whole hundredths, and the  *)
(* overall confidence is in ten-thousandths; the thresholds lie between    *)
(* the values that occur, so that the floats of the code decide alike.     *)
(***************************************************************************)
EXTENDS Integers, FiniteSets, Sequences

CONSTANTS NoValue,     \* None
          UrlHost,     \* URL -> its host without www
          OnSite,      \* URLs and the domains on whose site they lie, as pairs
          ProfileOf,   \* URL -> its canonical LinkedIn profile, NoValue for others
          TokensOf,    \* names and profile slugs -> the set of their tokens
          OperatingTitles  \* the titles _title_conflict looks at

(* What the evidence says of a person, as yes or no.                       *)
Signs == [name : BOOLEAN, current : BOOLEAN, title : BOOLEAN, site : BOOLEAN,
          independent : BOOLEAN, former : BOOLEAN, ended : BOOLEAN,
          linkedin : BOOLEAN, slug : BOOLEAN, conflict : BOOLEAN]

Points(holds, n) == IF holds THEN n ELSE 0

Clamped(n, top) == IF n < 0 THEN 0 ELSE IF n > top THEN top ELSE n

ScoreIdentity(s) ==
    Clamped(Points(s.name, 30) + Points(s.current, 30) + Points(s.title, 20)
            + Points(s.site, 10) + Points(s.independent, 10) - Points(s.former, 25)
            - Points(s.ended /\ ~s.former, 15) - Points(s.linkedin /\ ~s.slug, 20), 100)

EmployerConfidence(s) ==
    IF s.former \/ s.ended THEN 0
    ELSE IF s.site /\ s.independent THEN 95
    ELSE IF s.site THEN 85
    ELSE Points(s.current, 75)

LinkedInConfidence(s) == IF ~s.linkedin THEN 0 ELSE IF s.slug THEN 95 ELSE 80

TitleConfidence(s) == IF s.conflict THEN 0 ELSE Points(s.title, 100)

Overall(s) ==
    Clamped(ScoreIdentity(s) * 65 + EmployerConfidence(s) * 20 + LinkedInConfidence(s) * 15,
            10000)

OutreachStatus(s) ==
    IF ~s.linkedin \/ EmployerConfidence(s) < 75 \/ TitleConfidence(s) < 75 THEN "review"
    ELSE IF Overall(s) >= 9000 THEN "outreach_ready"
    ELSE IF Overall(s) >= 7500 THEN "strong_candidate"
    ELSE "review"

-----------------------------------------------------------------------------
(* A decision maker is a record with its name, title, contacts (a sequence *)
(* of channel and value) and evidence (a set).  A piece of evidence has    *)
(* the claim's name, the facts read from its other values and its URL.     *)

PersonEvidence(dm) == {e \in dm.evidence : e.name = dm.name}

Profile(dm) ==
    LET links == SelectSeq(dm.contacts, LAMBDA c : c.channel = "linkedin")
    IN  IF links = <<>> THEN NoValue ELSE ProfileOf[links[1].value]

SlugMatchesName(profile, name) ==
    /\ profile # NoValue
    /\ Cardinality(TokensOf[name]) >= 2
    /\ TokensOf[name] \subseteq TokensOf[profile]

IndependentHosts(dm) == {UrlHost[e.url] : e \in PersonEvidence(dm)} \ {"linkedin.com"}

SignsOf(dm, domain) ==
    LET person == PersonEvidence(dm)
        site   == \E e \in person : <<e.url, domain>> \in OnSite
        former == \E e \in person : e.former
        ended  == \E e \in person : e.ended
        slug   == SlugMatchesName(Profile(dm), dm.name)
        many   == Cardinality(IndependentHosts(dm)) >= 2
    IN  [name        |-> slug \/ many,
         current     |-> /\ site \/ \E e \in person : e.employer = domain
                         /\ ~former /\ ~ended,
         title       |-> dm.title # NoValue,
         site        |-> site,
         independent |-> many,
         former      |-> former,
         ended       |-> ended,
         linkedin    |-> Profile(dm) # NoValue,
         slug        |-> slug,
         conflict    |-> dm.title \in OperatingTitles /\ \E e \in person : e.board]

(* resolve_decision_makers for one of them: its confidence, the status that*)
(* becomes a piece of evidence of its own, and the profile in place of the *)
(* address it was found under.                                             *)
Resolved(dm, domain) ==
    LET s == SignsOf(dm, domain)
        Settled(c) == IF c.channel = "linkedin" /\ s.linkedin
                      THEN [c EXCEPT !.value = Profile(dm)] ELSE c
    IN  [dm EXCEPT !.confidence = Overall(s), !.status = OutreachStatus(s),
                   !.contacts = [i \in DOMAIN dm.contacts |-> Settled(dm.contacts[i])]]
=============================================================================
