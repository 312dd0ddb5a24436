------------------------------ MODULE HubProxy ------------------------------
(***************************************************************************)
(* The hub: an HTTP server that turns JSON into calls of the server.  Each *)
(* request is a goroutine.  They share checked_tables_schema, the types of *)
(* the fields of the tables they have met, which is filled from CheckTable *)
(* or, when /add creates the table, from the first document.               *)
(*                                                                         *)
(* A JSON value is of a kind: "whole" or "decimal" numbers, "text",        *)
(* "numbers" or "texts" for lists, or "other".  Nothing locks the map of   *)
(* the schemas; a read and a write of it at the same time may end the      *)
(* process, as anything else may, and are one after the other here.        *)
(***************************************************************************)
EXTENDS TableServer

CONSTANTS
  HubRequests,  \* places for requests that run at the same time
  JsonDocs,     \* lists of documents that /add comes with
  VectorNames,  \* fields that searches name
  FilterFields, \* fields that filters name
  HttpSchemas,  \* the fields that /create comes with
  MaxRequests,  \* bound: requests
  MaxHubEnds    \* bound: ends of the hub

\* A document is an object: a function from names to kinds.
JsonObjects == UNION {Range(docs) : docs \in JsonDocs}

ASSUME HubAssumption ==
  /\ {MaxRequests, MaxHubEnds} \subseteq Nat
  /\ JsonDocs \subseteq Seq(JsonObjects)
  /\ \A doc \in JsonObjects : DOMAIN doc \subseteq STRING
  /\ \A fields \in HttpSchemas : DOMAIN fields \subseteq STRING /\ fields \in [DOMAIN fields -> Types]

VARIABLES
  cache,      \* checked_tables_schema of the table
  hub,        \* the requests
  clash,      \* since the hub runs, a Create of /add was not answered by OK
  searched,   \* the vector fields of searches that were sent, with clash
  filtered,   \* a condition, until the next step: what is asked for and what is sent
  requests, hubEnds

hubVars == <<cache, hub, clash, searched, filtered, requests, hubEnds>>

NoCache == [known |-> FALSE, fields |-> << >>]
Cached(fields) == [known |-> TRUE, fields |-> fields]
NoHubRequest == [at |-> "idle", kind |-> "none", todo |-> << >>, out |-> {},
              existed |-> TRUE, one |-> FALSE, field |-> "none"]
NoCondition == [ids |-> {}, ranges |-> {}, terms |-> {}]
NothingSent == [asked |-> NoCondition, sent |-> NoCondition]

HubInit ==
  /\ cache = NoCache /\ hub = [r \in HubRequests |-> NoHubRequest]
  /\ clash = FALSE /\ searched = {}
  /\ filtered = NothingSent
  /\ requests = 0 /\ hubEnds = 0

Request(r) ==
  /\ hub[r].at = "idle"
  /\ requests < MaxRequests /\ requests' = requests + 1

Become(r, request) == hub' = [hub EXCEPT ![r] = request]
End(r) == Become(r, NoHubRequest)

-----------------------------------------------------------------------------
(* A request comes in and looks for the schema of its table. *)

\* docs is a list; a single document may come outside of one.
HubAdd(r, docs, one) ==
  /\ Request(r)
  /\ one => Len(docs) = 1
  /\ Become(r, [NoHubRequest EXCEPT !.at = "look", !.kind = "add", !.todo = docs,
                                 !.one = one])
  /\ UNCHANGED <<tableVars, cache, clash, searched, hubEnds>>

HubSearch(r, field) ==
  /\ Request(r)
  /\ Become(r, [NoHubRequest EXCEPT !.at = "look", !.kind = "search", !.field = field])
  /\ UNCHANGED <<tableVars, cache, clash, searched, hubEnds>>

HubList(r) ==
  /\ Request(r)
  /\ Become(r, [NoHubRequest EXCEPT !.at = "look", !.kind = "list"])
  /\ UNCHANGED <<tableVars, cache, clash, searched, hubEnds>>

After(request) ==
  CASE request.kind = "add" -> [request EXCEPT !.at = "docs"]
    [] request.kind = "search" -> [request EXCEPT !.at = "query"]
    [] OTHER -> NoHubRequest

Look(r) ==
  /\ hub[r].at = "look"
  /\ Become(r, IF cache.known THEN After(hub[r]) ELSE [hub[r] EXCEPT !.at = "ask"])
  /\ UNCHANGED <<tableVars, cache, clash, searched, requests, hubEnds>>

\* CheckTableFromServer, and what is kept of its answer.
AskServer(r, reply) ==
  /\ hub[r].at = "ask"
  /\ CheckTableCall(reply)
  /\ cache' = IF reply = "there" THEN Cached(table.fields) ELSE cache
  /\ Become(r, CASE reply = "there" -> After(hub[r])
                 [] reply = "missing" /\ hub[r].kind = "add" ->
                      [hub[r] EXCEPT !.at = "docs", !.existed = FALSE]
                 [] OTHER -> NoHubRequest)
  /\ UNCHANGED <<clash, searched, requests, hubEnds>>

-----------------------------------------------------------------------------
(* Documents of /add. *)

KeyType == [kind \in {"whole", "text"} |-> IF kind = "whole" THEN "LONG" ELSE "STRING"]
ValueType ==
  [kind \in {"whole", "decimal", "text", "texts", "numbers"} |->
     CASE kind = "whole" -> "INT"
       [] kind = "decimal" -> "FLOAT"
       [] kind = "text" -> "STRING"
       [] kind = "texts" -> "MULTI_STRING"
       [] kind = "numbers" -> "VECTOR"]
TypesFor(f) == IF f = Key THEN KeyType ELSE ValueType
WellFormed(doc) == {f \in DOMAIN doc : doc[f] \in DOMAIN TypesFor(f)}

NoKeyMade(doc) == [f \in WellFormed(doc) |-> TypesFor(f)[doc[f]]]

\* A document without a key gets a text as its key.
TypesOf(doc) ==
  [f \in WellFormed(doc) \cup ({Key} \ DOMAIN doc) |->
     IF f \in DOMAIN doc THEN TypesFor(f)[doc[f]] ELSE "STRING"]

Longs(type, f) == cache.fields[f] = "LONG" /\ type = "INT"

NoLongs(types) == types
\* A whole number for a long field becomes one.
WithLongs(types) ==
  [f \in DOMAIN types |->
     IF f \in DOMAIN cache.fields /\ Longs(types[f], f) THEN "LONG" ELSE types[f]]

\* AssembleDoc reads the fields in no fixed order.  A malformed field or one of
\* another type refuses the document; one the schema does not have ends the
\* request.  The key is not compared.
NothingRefuses(request, doc) == FALSE
Refuses(request, doc) ==
  \/ WellFormed(doc) # DOMAIN doc
  \/ /\ request.existed
     /\ \E f \in WellFormed(doc) \ {Key} :
          /\ f \in DOMAIN cache.fields
          /\ cache.fields[f] # TypesOf(doc)[f]
          /\ ~Longs(TypesOf(doc)[f], f)
Panics(request, doc) ==
  request.existed /\ \E f \in WellFormed(doc) \ {Key} : f \notin DOMAIN cache.fields

\* The next document of a list is read whatever became of this one.
Assembling(r) == hub[r].at = "docs" /\ hub[r].todo # << >>
Refused(request) ==
  IF request.one THEN NoHubRequest ELSE [request EXCEPT !.todo = Tail(@)]
Taken(request, types) ==
  [request EXCEPT !.todo = Tail(@), !.existed = TRUE, !.out = @ \cup {types}]

RefuseDoc(r) ==
  /\ Assembling(r)
  /\ Refuses(hub[r], Head(hub[r].todo))
  /\ Become(r, Refused(hub[r]))
  /\ UNCHANGED <<tableVars, cache, clash, searched, requests, hubEnds>>

Panic(r) ==
  /\ Assembling(r)
  /\ Panics(hub[r], Head(hub[r].todo))
  /\ End(r)
  /\ UNCHANGED <<tableVars, cache, clash, searched, requests, hubEnds>>

AcceptDoc(r) ==
  LET doc == Head(hub[r].todo)
  IN  /\ Assembling(r)
      /\ hub[r].existed /\ ~Refuses(hub[r], doc) /\ ~Panics(hub[r], doc)
      /\ Become(r, Taken(hub[r], WithLongs(TypesOf(doc))))
      /\ UNCHANGED <<tableVars, cache, clash, searched, requests, hubEnds>>

KeptUnheard(reply) == TRUE
KeptIfHeard(reply) == Heard(reply)

\* The first document creates the table.  Its fields are kept as the schema
\* when there is an answer, whichever; without one the document is dropped.
CreateForDoc(r, reply) ==
  LET types == TypesOf(Head(hub[r].todo))
  IN  /\ Assembling(r)
      /\ ~hub[r].existed /\ ~Refuses(hub[r], Head(hub[r].todo))
      /\ CreateCall(types, FALSE, reply)
      /\ cache' = IF KeptIfHeard(reply) THEN Cached(types) ELSE cache
      /\ clash' = (clash \/ reply \in {"TABLE_EXIST", "INTERNAL_ERROR"})
      /\ Become(r, IF Heard(reply) THEN Taken(hub[r], types) ELSE Refused(hub[r]))
      /\ UNCHANGED <<searched, requests, hubEnds>>

\* What is left of the documents is sent; the code of the answer is not read.
SendDocs(r, reply) ==
  /\ hub[r].at = "docs" /\ hub[r].todo = << >>
  /\ AddOrUpdateCall([types : hub[r].out, by : {"hub"}, clash : {clash}], reply)
  /\ End(r)
  /\ UNCHANGED <<cache, clash, searched, requests, hubEnds>>

-----------------------------------------------------------------------------
(* The rest. *)

KnownField(field) == field \in DOMAIN cache.fields
VectorField(field) == KnownField(field) /\ cache.fields[field] = "VECTOR"

\* AssembleVectorQuery, and Search of the server.
SendSearch(r) ==
  /\ hub[r].at = "query"
  /\ searched' = IF VectorField(hub[r].field)
                 THEN searched \cup {<<hub[r].field, clash>>} ELSE searched
  /\ End(r)
  /\ UNCHANGED <<tableVars, cache, clash, requests, hubEnds>>

\* Filters of a search, a get or a delete.  All range filters point to the
\* variable of the loop and have the name it had last; term filters are added
\* to a copy of the slice.
SentRanges(names) == IF names = {} THEN {{}} ELSE {{name} : name \in names}
SentTerms(names) == {}

\* Ids of /get and /delete are of one kind; decimals among them are skipped.
OneKind(ids) == "other" \notin ids /\ Cardinality(ids \ {"decimal"}) = 1

\* Ids come before filters.
Condition(ids, ranges, terms) ==
  IF ids # {} THEN [NoCondition EXCEPT !.ids = ids \ {"decimal"}]
  ELSE [ids |-> {}, ranges |-> ranges, terms |-> terms]

\* /get, /delete and, without ids, the filters of /search.
SendCondition(r, ids, ranges, terms) ==
  /\ Request(r)
  /\ ids = {} \/ OneKind(ids)
  /\ ids \cup ranges \cup terms # {}
  /\ \E names \in SentRanges(ranges) :
       filtered' = [asked |-> [ids |-> ids, ranges |-> ranges, terms |-> terms],
                    sent |-> Condition(ids, names, SentTerms(terms))]
  /\ UNCHANGED <<tableVars, cache, hub, clash, searched, hubEnds>>

WithTableKey(fields) == IF Key \in DOMAIN fields THEN fields ELSE Including(fields, Key, "STRING")

\* /create; the answer is not kept.
HttpCreate(r, fields, reply) ==
  /\ Request(r)
  /\ "VECTOR" \in Range(fields)
  /\ CreateCall(WithTableKey(fields), FALSE, reply)
  /\ UNCHANGED <<cache, hub, clash, searched, hubEnds>>

\* The gRPC side hands a call on as it is: here AddFields of some client.
HandOnAddFields(field, type, reply) ==
  /\ requests < MaxRequests /\ requests' = requests + 1
  /\ AddFieldsCall(field, type, reply)
  /\ UNCHANGED <<cache, hub, clash, searched, hubEnds>>

EndHub ==
  /\ hubEnds < MaxHubEnds /\ hubEnds' = hubEnds + 1
  /\ cache' = NoCache /\ hub' = [r \in HubRequests |-> NoHubRequest] /\ clash' = FALSE
  /\ UNCHANGED <<tableVars, searched, requests>>

HubReplies == {"OK", "TABLE_EXIST", "INTERNAL_ERROR", "missing", "there", "lost"}

HubStep(r) ==
  /\ filtered' = NothingSent
  /\ \/ Look(r) \/ RefuseDoc(r) \/ Panic(r) \/ AcceptDoc(r) \/ SendSearch(r)
     \/ \E reply \in HubReplies :
          AskServer(r, reply) \/ CreateForDoc(r, reply) \/ SendDocs(r, reply)

Arrival(r) ==
  /\ filtered' = NothingSent
  /\ \/ \E docs \in JsonDocs, one \in BOOLEAN : HubAdd(r, docs, one)
     \/ \E field \in VectorNames : HubSearch(r, field)
     \/ HubList(r)
     \/ \E fields \in HttpSchemas, reply \in HubReplies : HttpCreate(r, fields, reply)

Beside ==
  /\ filtered' = NothingSent
  /\ \/ \E reply \in HubReplies : HandOnAddFields("extra", "INT", reply)
     \/ EndHub

HubNext ==
  \/ \E r \in HubRequests :
       \/ HubStep(r)
       \/ Arrival(r)
       \/ \E ids \in SUBSET {"whole", "decimal", "text"}, ranges, terms \in SUBSET FilterFields :
            SendCondition(r, ids, ranges, terms)
  \/ Beside

HubSpec == ServerInit /\ HubInit /\ [][HubNext]_<<tableVars, hubVars>>

-----------------------------------------------------------------------------
(* Properties. *)

HubTypeOK ==
  /\ cache \in {NoCache, Cached(cache.fields)} /\ Range(cache.fields) \subseteq Types
  /\ \A r \in HubRequests :
       /\ hub[r].at \in {"idle", "look", "ask", "docs", "query"}
       /\ \A types \in hub[r].out : Key \in DOMAIN types /\ Range(types) \subseteq Types
  /\ requests \in 0 .. MaxRequests /\ hubEnds \in 0 .. MaxHubEnds

\* What the hub keeps as the schema of a table is what the server has, though
\* it comes from a document at times, is never asked for again, and others
\* create the table and add fields; unless a Create of /add was refused
\* (hub_local_proxy.go:765), as when two requests create the table.
HubKnowsTheTable ==
  cache.known /\ ~clash =>
    /\ table.engine # "none"
    /\ \A f \in DOMAIN cache.fields :
         f \in DOMAIN table.fields /\ table.fields[f] = cache.fields[f]

\* The server does not compare values with its fields: the hub does it for
\* every document it passes on, also when the schema became known, or the
\* table was created, between two documents of a request.
HubDocsFit == \A d \in taken : d.by = "hub" /\ ~d.clash => Fits(d.types)

\* A search names a field that has vectors.
SearchesNameVectors ==
  \A s \in searched : ~s[2] => s[1] \in DOMAIN table.fields /\ table.fields[s[1]] = "VECTOR"

\* The tutorial of the RESTful interface says of range and of term filters
\* that their names are those of the filtered fields.
FiltersAreSent == filtered.asked.ids = {} => filtered.sent = filtered.asked

\* The hub's side: what it remembers of a table and sends to the server fits.
HubInv ==
  /\ HubTypeOK
  /\ HubKnowsTheTable
  /\ HubDocsFit
  /\ SearchesNameVectors
=============================================================================
