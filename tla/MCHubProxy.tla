----------------------------- MODULE MCHubProxy -----------------------------
(* Documents for small instances of HubProxy. *)
EXTENDS HubProxy, TLC

Counted == ("f" :> "whole") @@ ("v" :> "numbers")
Weighed == (Key :> "whole") @@ ("f" :> "decimal")
Broken == ("f" :> "other")
MCJsonDocs == {<<Counted>>, <<Weighed>>, <<Broken, Counted>>, <<Weighed, Counted>>}

MCHttpSchemas == {("f" :> "LONG") @@ ("v" :> "VECTOR")}
=============================================================================
