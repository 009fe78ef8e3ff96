----------------------------- MODULE MCEdgeCache -----------------------------
(* Instances of EdgeCache for TLC.                                          *)
EXTENDS EdgeCache, TLC

CONSTANTS u1, c1

OneAuthor == [b \in Builds |-> u1]
AllInOne  == [h \in Handlers |-> c1]
=============================================================================
