----------------------------- MODULE MCSession -----------------------------
(* Constants of Session for model checking: two users, at most two tabs.     *)
EXTENDS Session

MCFaultSets == { {"net", "expire", "pair"}, {"net", "expire", "often", "more"},
                 {"expire", "lapse", "more", "late"},
                 {"expire", "tabs", "reload"}, {"tabs", "reload", "more"} }
=============================================================================
