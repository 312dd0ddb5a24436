--------------------------- MODULE MCRemoteClient ---------------------------
(* Documents for small instances of RemoteClient. *)
EXTENDS RemoteClient

Whole == <<<<"f", "int">>, <<"v", "floats">>>>
Text == <<<<Key, "int">>, <<"f", "str">>>>
Texts == <<<<Key, "str">>, <<"f", "strs">>>>
Bad == <<<<Key, "int">>, <<"g", "other">>>>
Big == <<<<"f", "big">>>>
MCRemoteDocs == {<<Whole>>, <<Text>>, <<Texts, Text>>, <<Bad, Whole>>, <<Big>>}
=============================================================================
