------------------------------ MODULE MCLeads -------------------------------
(***************************************************************************)
(* Two files of two rows.  The first repeats one payload in both rows; the *)
(* second has a row whose domain is an address and another spelling of the *)
(* same company, so that two leads of Phase 2 may share a candidate.       *)
(***************************************************************************)
EXTENDS LeadPipeline

MCFiles == [first  |-> [at |-> 2, rows |-> <<"acme", "acme">>],
            second |-> [at |-> 1, rows |-> <<"bad", "plain">>]]

MCObserved ==
    [acme  |-> [display_name |-> "Acme Inc", domain |-> "https://acme.com/"],
     plain |-> [display_name |-> "Acme", domain |-> "acme.com", country_code |-> "usa"],
     bad   |-> [display_name |-> "Acme", domain |-> "info@acme.com"]]

MCNormalOf ==
    [display_name |-> [n \in {"Acme Inc", "Acme"} |-> n],
     domain |-> ("https://acme.com/" :> "acme.com") @@ ("acme.com" :> "acme.com")
                @@ ("info@acme.com" :> "acme.com"),
     country_code |-> [usa |-> "USA"]]

MCWordsOf == ("Acme Inc" :> <<"acme", "inc">>) @@ ("Acme" :> <<"acme">>)
             @@ ("Roadrunner" :> <<"roadrunner">>) @@ (NoName :> <<>>)
             @@ ("acme.com" :> <<"acme", "com">>)

MCPartsOf == ("acme.com" :> <<"acme", "com">>) @@ ("shop.acme.com" :> <<"shop", "acme", "com">>)
             @@ ("portal.example" :> <<"portal", "example">>)
             @@ (NoDomain :> <<>>)

MCHostOf == [home |-> "acme.com", shop |-> "shop.acme.com", portal |-> "portal.example"]

MCMentionsIn ==
    [plain |-> <<>>, operated |-> <<[name |-> "Roadrunner", predicate |-> "OPERATED_BY"]>>]

MCSearchAnswers == <<{<<"home">>}, {<<>>, <<"home", "shop">>}>>

(* The home page changes; the shop is empty or has moved to a portal.      *)
MCPageAnswers ==
    [home |-> {[final |-> NoUrl, text |-> "operated"], [final |-> NoUrl, text |-> "plain"]},
     shop |-> {[final |-> NoUrl, text |-> NoText], [final |-> "portal", text |-> "plain"]}]

(* The code as it stands, and with the candidate insert repaired.          *)
Repairs == {{}, Defects}

Symmetry == Permutations(Ingesters) \cup Permutations(Executors)

(* The extractor is away, or calls the company a legal entity.             *)
MCAnswers ==
    [id \in 1..2 |->
        {NoAnswer,
         [entities |-> <<[name |-> IF id = 1 THEN "Acme Inc" ELSE "Acme",
                          type |-> "LEGAL_ENTITY", domain |-> "acme.com",
                          related |-> FALSE, refs |-> {1}]>>,
          currentness |-> <<>>, refs |-> {1}]}]
=============================================================================
