---------------------------- MODULE RemoteClient ----------------------------
(***************************************************************************)
(* The Python client of the server.  Like the library it learns the fields *)
(* of a table from the documents added to it, or asks the server for them  *)
(* once; unlike the library it tells the server of fields that documents   *)
(* bring later.  It runs one call after the other and stops at its RPCs,   *)
(* where other clients come between; an RPC without an answer raises.      *)
(*                                                                         *)
(* A document is a sequence of pairs: the name of a field and the kind of  *)
(* its value.  A "big" integer is negative or does not fit four bytes.     *)
(***************************************************************************)
EXTENDS TableServer

CONSTANTS
  Remotes,      \* the clients
  RemoteDocs,   \* lists of documents that add comes with
  MaxCalls      \* bound: calls of add and search

\* What Python tells apart of a value; "other" is none of a field's.
PythonKinds == {"int", "big", "float", "str", "strs", "floats", "other"}

\* A document is a dict, so it names a field once.
ASSUME RemoteAssumption ==
  /\ MaxCalls \in Nat
  /\ RemoteDocs \subseteq Seq(Seq(STRING \X PythonKinds))
  /\ \A docs \in RemoteDocs : \A doc \in Range(docs) :
       \A m, n \in DOMAIN doc : doc[m][1] = doc[n][1] => m = n

VARIABLES
  remote,  \* what each client knows and what it is doing
  calls

remoteVars == <<remote, calls>>

\* known is FALSE or TRUE in tables_fields_check for "learning" and "yes".
\* names and lists are the fields for Create and for AddFields after it; later
\* is how many of lists there are still to add.  doc are the fields of the
\* document so far, left those to come, docs the documents after it.
NewRemote ==
  [known |-> "no", fields |-> << >>, names |-> << >>, lists |-> << >>,
   at |-> "idle", call |-> "none", docs |-> << >>, left |-> << >>, doc |-> << >>,
   out |-> {}, later |-> 0, trouble |-> FALSE]

RemoteInit == remote = [c \in Remotes |-> NewRemote] /\ calls = 0

Turn(c, new) == remote' = [remote EXCEPT ![c] = new]
Return(one) == [one EXCEPT !.at = "idle", !.call = "none", !.docs = << >>,
                           !.left = << >>, !.doc = << >>, !.out = {}, !.later = 0]
Troubled(one) == [one EXCEPT !.trouble = TRUE]

\* A document without a key gets a text for one at its end.
WithKey(doc) ==
  IF \E n \in DOMAIN doc : doc[n][1] = Key THEN doc ELSE Append(doc, <<Key, "made">>)

SentUnkeyed(one) == {one.doc}
SentIfKeyed(one) == IF Key \in DOMAIN one.doc THEN {one.doc} ELSE {}

\* What is done is in the request, refused or not, but for the server to take
\* it the key must be there.  The next document follows, or the request goes.
NextDoc(one) ==
  LET done == [one EXCEPT !.doc = << >>, !.later = 0, !.out = @ \cup SentIfKeyed(one)]
  IN  IF one.docs = << >> THEN [done EXCEPT !.at = "send", !.left = << >>]
      ELSE [done EXCEPT !.at = "fields", !.docs = Tail(@), !.left = WithKey(Head(one.docs))]

-----------------------------------------------------------------------------
(* A call begins: the server is asked for a table not met before. *)

Begin(one) ==
  IF one.call = "search" THEN Return(one) ELSE NextDoc(one)

RemoteCall(c, call, docs) ==
  LET one == [remote[c] EXCEPT !.call = call, !.docs = docs]
  IN  /\ remote[c].at = "idle"
      /\ calls < MaxCalls /\ calls' = calls + 1
      /\ Turn(c, IF one.known = "no" THEN [one EXCEPT !.at = "check"] ELSE Begin(one))
      /\ UNCHANGED tableVars

\* A search of a table that is not there raises.
AskTable(c, reply) ==
  LET one == remote[c]
  IN  /\ one.at = "check"
      /\ CheckTableCall(reply)
      /\ Turn(c, CASE reply = "there" ->
                        Begin([one EXCEPT !.known = "yes", !.fields = table.fields])
                   [] reply = "missing" /\ one.call = "add" ->
                        Begin([one EXCEPT !.known = "learning"])
                   [] OTHER -> Return(one))
      /\ UNCHANGED calls

-----------------------------------------------------------------------------
(* The fields of a document. *)

KindType ==
  [kind \in (PythonKinds \ {"other"}) \cup {"made"} |->
     CASE kind \in {"int", "big"} -> "INT"
       [] kind = "float" -> "FLOAT"
       [] kind \in {"str", "made"} -> "STRING"
       [] kind = "strs" -> "MULTI_STRING"
       [] kind = "floats" -> "VECTOR"]

InFields(c) == remote[c].at = "fields" /\ remote[c].left # << >>
FieldName(c) == Head(remote[c].left)[1]
ValueKind(c) == Head(remote[c].left)[2]
IsKnown(c) == FieldName(c) \in DOMAIN remote[c].fields

\* A text may go into a list of texts.
TypeIn(c) ==
  CASE FieldName(c) = Key /\ ValueKind(c) = "int" -> "LONG"
    [] IsKnown(c) /\ KindType[ValueKind(c)] = "STRING"
         /\ remote[c].fields[FieldName(c)] = "MULTI_STRING" -> "MULTI_STRING"
    [] OTHER -> KindType[ValueKind(c)]

NeverClashes(c) == FALSE
\* The type is not that of the field, or it is too late for a vector.
Clashes(c) ==
  IF IsKnown(c) THEN remote[c].fields[FieldName(c)] # TypeIn(c)
  ELSE remote[c].known = "yes" /\ TypeIn(c) = "VECTOR"

Learnt(one, f, type) == [one EXCEPT !.fields = Including(@, f, type)]
Filled(one, f, type) == [one EXCEPT !.doc = Including(@, f, type), !.left = Tail(@)]
\* While the table is not created the field is noted for it, known or not.
NotedOnce(one, f, type) == one
Noted(one, f, type) ==
  IF one.known = "yes" THEN one
  ELSE IF type = "MULTI_STRING" THEN [one EXCEPT !.lists = Append(@, f)]
  ELSE [one EXCEPT !.names = Append(@, f)]

\* __field_check refuses a field and with it the rest of the document.
RefuseField(c) ==
  /\ InFields(c)
  /\ ValueKind(c) = "other" \/ (ValueKind(c) \in DOMAIN KindType \ {"made"} /\ Clashes(c))
  /\ Turn(c, NextDoc(Troubled(remote[c])))
  /\ UNCHANGED <<tableVars, calls>>

\* to_bytes raises when the type is already learnt and the field not noted.
Overflow(c) ==
  /\ InFields(c)
  /\ ValueKind(c) = "big" /\ ~Clashes(c)
  /\ Turn(c, Return(Troubled(Learnt(remote[c], FieldName(c), TypeIn(c)))))
  /\ UNCHANGED <<tableVars, calls>>

\* A text made for a key does not go into a table with numbers for keys, which
\* is not looked at: the id is the text.
MisfitKey(c) ==
  /\ InFields(c)
  /\ ValueKind(c) = "made" /\ Clashes(c)
  /\ Turn(c, Filled(remote[c], Key, "STRING"))
  /\ UNCHANGED <<tableVars, calls>>

Fine(c) == InFields(c) /\ ValueKind(c) \notin {"other", "big"} /\ ~Clashes(c)

FillField(c) ==
  /\ Fine(c)
  /\ IsKnown(c) \/ remote[c].known = "learning"
  /\ LET f == FieldName(c)
         type == TypeIn(c)
     IN  Turn(c, Filled(Noted(Learnt(remote[c], f, type), f, type), f, type))
  /\ UNCHANGED <<tableVars, calls>>

\* A new field of a created table is added there; the document goes on with it
\* whatever the answer.
TellField(c, reply) ==
  /\ Fine(c)
  /\ ~IsKnown(c) /\ remote[c].known = "yes"
  /\ AddFieldsCall(FieldName(c), TypeIn(c), reply)
  /\ LET one == Learnt(remote[c], FieldName(c), TypeIn(c))
         told == IF reply = "OK" /\ FieldName(c) \notin DOMAIN table.fields THEN one
                 ELSE Troubled(one)
     IN  Turn(c, IF Heard(reply) THEN Filled(told, FieldName(c), TypeIn(c)) ELSE Return(told))
  /\ UNCHANGED calls

-----------------------------------------------------------------------------
(* The end of a document: the table is created if it was not. *)

EndDoc(c) ==
  /\ remote[c].at = "fields" /\ remote[c].left = << >>
  /\ Turn(c, IF remote[c].known = "yes" THEN NextDoc(remote[c])
             ELSE [remote[c] EXCEPT !.at = "create"])
  /\ UNCHANGED <<tableVars, calls>>

Twice(names) == \E m, n \in DOMAIN names : m # n /\ names[m] = names[n]
Unanswered(one) == Return(Troubled(one))

\* Whatever else is answered, the document stays in the request.
KnownAnyway(reply) == TRUE
Created(reply) == reply = "OK"

CreateAtServer(c, reply) ==
  LET one == remote[c]
  IN  /\ one.at = "create"
      /\ CreateCall([f \in Range(one.names) |-> one.fields[f]], Twice(one.names), reply)
      /\ Turn(c, IF ~Heard(reply) THEN Unanswered(one)
                 ELSE IF Created(reply)
                      THEN [one EXCEPT !.at = "extras", !.later = Len(one.lists)]
                      ELSE NextDoc(Troubled(one)))
      /\ UNCHANGED calls

\* Lists of texts are added to the new table; then the table is known.
AddList(c, reply) ==
  LET one == remote[c]
      f == one.lists[Len(one.lists) + 1 - one.later]
      told == IF f \in DOMAIN table.fields THEN Troubled(one) ELSE one
  IN  /\ one.at = "extras" /\ one.later > 0
      /\ AddFieldsCall(f, "MULTI_STRING", reply)
      /\ Turn(c, IF ~Heard(reply) THEN Unanswered(one)
                 ELSE IF reply = "OK" THEN [told EXCEPT !.later = @ - 1]
                      ELSE NextDoc(Troubled(one)))
      /\ UNCHANGED calls

StaysLearning(one) == one
BecomesKnown(one) == [one EXCEPT !.known = "yes"]

TableKnown(c) ==
  /\ remote[c].at = "extras" /\ remote[c].later = 0
  /\ Turn(c, NextDoc(BecomesKnown(remote[c])))
  /\ UNCHANGED <<tableVars, calls>>

SendAll(c, reply) ==
  /\ remote[c].at = "send"
  /\ AddOrUpdateCall([types : remote[c].out, by : {c}, clash : {remote[c].trouble}], reply)
  /\ Turn(c, Return(remote[c]))
  /\ UNCHANGED calls

RemoteReplies == {"OK", "TABLE_EXIST", "INTERNAL_ERROR", "missing", "there", "lost"}

RemoteStep(c) ==
  \/ RefuseField(c) \/ Overflow(c) \/ MisfitKey(c) \/ FillField(c)
  \/ EndDoc(c) \/ TableKnown(c)
  \/ \E reply \in RemoteReplies :
       \/ AskTable(c, reply) \/ TellField(c, reply)
       \/ CreateAtServer(c, reply) \/ AddList(c, reply) \/ SendAll(c, reply)

RemoteNext ==
  \E c \in Remotes :
    \/ RemoteStep(c)
    \/ RemoteCall(c, "search", << >>)
    \/ \E docs \in RemoteDocs : RemoteCall(c, "add", docs)

RemoteSpec == ServerInit /\ RemoteInit /\ [][RemoteNext]_<<tableVars, remoteVars>>

-----------------------------------------------------------------------------
(* Properties. *)

RemoteTypeOK ==
  /\ calls \in 0 .. MaxCalls
  /\ \A c \in Remotes :
       /\ remote[c].known \in {"no", "learning", "yes"}
       /\ Range(remote[c].fields) \subseteq Types
       /\ Range(remote[c].names) \cup Range(remote[c].lists) \subseteq DOMAIN remote[c].fields
       /\ \A d \in remote[c].out : Key \in DOMAIN d

\* A table that a client knows is there and works, also after lost answers,
\* races to create it and refused documents: only then does the client send
\* documents without creating it again (client.py:882).
KnownTablesWork == \A c \in Remotes : remote[c].known = "yes" => table.engine = "usable"

\* A client whose documents and calls were all accepted knows the fields of
\* the table as the server does, though both learn them from documents and
\* others add fields at any time.
RemoteKnowsFields ==
  \A c \in Remotes :
    remote[c].known = "yes" /\ ~remote[c].trouble =>
      \A f \in DOMAIN remote[c].fields :
        f \in DOMAIN table.fields /\ table.fields[f] = remote[c].fields[f]

\* Its documents have values of the right types then, which nobody compares
\* after it.
RemoteDocsFit == \A d \in taken : d.by \in Remotes /\ ~d.clash => Fits(d.types)

\* Until then it does not ask for a field twice, which spoils the engine.
FieldsAreAskedOnce ==
  \A c \in Remotes :
    remote[c].at = "create" /\ ~remote[c].trouble => ~Twice(remote[c].names)

\* The clients' side: what each remembers of a table that others change, too.
RemoteInv ==
  /\ RemoteTypeOK
  /\ KnownTablesWork
  /\ RemoteKnowsFields
  /\ RemoteDocsFit
  /\ FieldsAreAskedOnce
=============================================================================
