----------------------------- MODULE MCDashboard -----------------------------
(* Three endpoints and a host whose fallback is one of them; two fields,   *)
(* one of them empty, and so invalid, by default.                          *)
EXTENDS Dashboard

MCFallback == <<"u3", "u1">>
MCField == {"rpcEndpoint", "signerThreshold"}
MCValue == {"empty", "one"}
MCValid == [f \in MCField |-> {"one"}]
MCDefaults == [f \in MCField |-> IF f = "rpcEndpoint" THEN "empty" ELSE "one"]
=============================================================================
