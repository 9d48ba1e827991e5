-------------------------- MODULE MCEnrichmentCycle -------------------------
(* Three rows of companies, the first and the third of the same shop.  Ann *)
(* Lee is named by the pages of both shops, at one with a title the        *)
(* quality gate does not accept.                                           *)
EXTENDS EnrichmentCycle

Sound == [name   |-> <<"Acme", "Bolt", "Acme">>,
          domain |-> <<"acme.com", "bolt.com", "acme.com">>]

MCWorlds ==
    {Sound, [Sound EXCEPT !.domain[1] = NoValue, !.domain[3] = "chip.com"],
     [Sound EXCEPT !.name[1] = NoValue, !.domain[2] = NoValue, !.domain[3] = "none.com"]}

MCBarren == {NoValue, "chip.com", "none.com"}

Policy(minute) == [search_minute |-> 2, search_hour |-> 3, fetch_minute |-> minute,
                   fetch_day |-> 3, attempts |-> 2]

MCPolicies == {Policy(2), Policy(1)}

-----------------------------------------------------------------------------
Team == "acme.com/team"
News == "acme.com/news"
Ann  == "linkedin.com/in/ann-lee"
About == "bolt.com/about"
Blog == "agency.com/blog"
Chip == "chip.com/news"
Urls == {Team, News, Ann, About, Blog, Chip}

MCUrlHost == [u \in Urls |-> CASE u \in {Team, News} -> "acme.com" [] u = Ann -> "linkedin.com"
                               [] u = About -> "bolt.com" [] u = Chip -> "chip.com"
                               [] OTHER -> "agency.com"]
MCOnSite == {<<Team, "acme.com">>, <<News, "acme.com">>, <<About, "bolt.com">>}
MCProfileOf == [u \in Urls |-> IF u = Ann THEN "ann-lee" ELSE NoValue]
MCUrlLength == [u \in Urls |-> IF u = Ann THEN 2 ELSE 1]
MCUrlTopics == [u \in Urls |-> IF u = Team THEN {"security_team"} ELSE {}]

MCTokensOf == [x \in {"Ann Lee", "Bo Kim", "ann-lee", "Acme", "Bolt"} |->
                  CASE x \in {"Ann Lee", "ann-lee"} -> {"ann", "lee"}
                    [] x = "Bo Kim" -> {"bo", "kim"}
                    [] x = "Acme" -> {"acme"}
                    [] OTHER -> {"bolt"}]
MCNeedlesIn == [t \in {"CTO", "CISO", "Security Lead"} |->
                   CASE t = "CTO" -> {"cto"} [] t = "CISO" -> {"ciso"} [] OTHER -> {"security"}]

Person(name, title) == [name |-> name, title |-> title]

Text(final, words, staff, emails, triggers, date) ==
    [words |-> words, sizes |-> {100}, visits |-> {}, people |-> staff, emails |-> emails,
     triggers |-> triggers, date |-> date, final |-> final]

TextOf(u) ==
    CASE u = Team  -> Text(Team, {"login"}, <<Person("Ann Lee", "CTO")>>, <<"ann@acme.com">>, {}, NoValue)
      [] u = News  -> Text(Team, {"saas"}, <<>>, <<>>, {"fraud_pain"}, "May")
      [] u = Ann   -> Text(Ann, {}, <<Person("Ann Lee", "CTO")>>, <<>>, {}, NoValue)
      [] u = About -> Text(About, {"india office"},
                           <<Person("Ann Lee", "Security Lead"), Person("Bo Kim", "CISO")>>,
                           <<"press@agency.com">>, {}, NoValue)
      [] u = Chip  -> Text(Chip, {}, <<>>, <<>>, {}, "invalid")
      [] OTHER     -> Text(Blog, {}, <<>>, <<>>, {}, NoValue)

Hit(u, staff) == [url |-> u, people |-> staff, emails |-> <<>>, labelled |-> TRUE]

Results(r) ==
    CASE r.domain = "acme.com" /\ r.purpose = "intent" -> <<Hit(News, <<>>), Hit(Blog, <<>>)>>
      [] r.domain = "acme.com" -> <<Hit(Ann, <<Person("Ann Lee", "CTO")>>), Hit(Team, <<>>)>>
      [] r.domain = "chip.com" /\ r.purpose = "intent" -> <<Hit(Chip, <<>>)>>
      [] r.domain \in {"chip.com", "none.com"} -> <<Hit(Blog, <<>>)>>
      [] r.purpose = "intent" -> <<Hit(About, <<>>)>>
      [] OTHER -> <<Hit(About, <<>>), Hit(Blog, <<Person("Bo Kim", "CISO")>>)>>

MCReplies(r) ==
    {IF r.op = "search" THEN Results(r)
     ELSE [i \in DOMAIN r.urls |-> [url |-> r.urls[i], text |-> TextOf(r.urls[i])]], Malformed}

MCOwnAddresses == {<<"ann@acme.com", "acme.com">>, <<"bo@bolt.com", "bolt.com">>}
MCPurposes == <<"leadership_external", "intent">>
MCAmplifierPoints == [t \in {"security_team"} |-> 6]
MCCanonical == [t \in {"fraud_pain"} |-> "fraud_pain"]
MCSignalValue == [k \in {<<"fraud_pain", "May">>} |-> 6]

(* A packet prepared by hand: a person the quality gate does not accept,   *)
(* and an address, which it cannot judge where Bolt has no domain.         *)
MCManual ==
    {[company  |-> 2,
      facts    |-> [employees |-> 100, sessions |-> NoValue, login |-> FALSE,
                    vertical |-> NoValue, ownership |-> NoValue, india |-> TRUE,
                    sensitivity |-> NoValue],
      contacts |-> {[value |-> "bo@bolt.com", url |-> About]},
      people   |-> {[name |-> "Bo Kim", title |-> "Security Lead", family |-> "security",
                     priority |-> 1, source |-> "manual", confidence |-> 5000,
                     status |-> NoValue, contacts |-> <<>>, evidence |-> {}]},
      signals  |-> {},
      topics   |-> {},
      stage    |-> NoValue]}

=============================================================================
