--------------------------- MODULE MCCampaignSteps ---------------------------
(* CampaignSteps on small instances: one enrollment, two workers.          *)
EXTENDS CampaignSteps

CONSTANTS w1, w2, e1, p1, p2

AsItStands == {{}}
Repairs == {{}, Defects \ {"rows"}, Defects}
Calm == {{}}
CalmAndRough ==
  Calm \cup {{"slow", "replan", "build"}, {"slow", "replan", "end"},
             {"slow", "switch"}}
==============================================================================
