------------------------------ MODULE AwaLocal ------------------------------
(***************************************************************************)
(* The Python library.  A table is created by the first documents added to *)
(* it: the library learns names and types of the fields, creates an engine *)
(* and its table, adds the documents, and writes what it knows of all its  *)
(* tables to tables.meta, which it does not do again for later fields.     *)
(* Nothing below checks types: the engine takes the bytes it is given.     *)
(*                                                                         *)
(* A document is a sequence of pairs: the name of a field and the kind of  *)
(* its value.  A value of kind BIG is an integer that does not fit four    *)
(* bytes.  The dimension of a vector is left out.  What the engine keeps   *)
(* of its documents over a crash, and its list columns, are DocEngine's    *)
(* and ColumnFields'.                                                      *)
(***************************************************************************)
EXTENDS Integers, Sequences, FiniteSets, SequencesExt

CONSTANTS
  Tables,      \* names of tables, of one database
  DocLists,    \* what add is called with for each table: sequences of documents
  FilterLists, \* what search is called with: sequences of filters
  MaxAdds,     \* bound: calls of add
  MaxCrashes   \* bound: ends of the process

ValueKinds == {"INT", "BIG", "FLOAT", "STRING", "LIST", "VECTOR", "ERROR"}

ASSUME LocalAssumption ==
  /\ {MaxAdds, MaxCrashes} \subseteq Nat
  /\ \A t \in Tables : DocLists[t] \subseteq Seq(Seq(STRING \X ValueKinds))

VARIABLES
  check,     \* tables_fields_check, of the tables the library has seen
  types,     \* tables_fields_type
  attr,      \* tables_attr: the fields to create the table with
  extra,     \* tables_extra_new_fields
  handles,   \* tables: "nil", "empty", "spoilt" or "created"
  dbTables,    \* db_tables
  schemas,   \* the fields of each table on disk and their types
  stored,    \* what the engines were given: rows of the tables
  meta,      \* tables.meta
  pending,       \* the add of a first document, past the creation of its table
  alive,     \* the constructor could read tables.meta
  request,   \* a search, until the next call: its filters and what is sent
  adds, crashes,
  returned   \* tables that an add returned True for

localVars == <<check, types, attr, extra, handles, dbTables, schemas, stored,
               meta, pending, alive, request, adds, crashes, returned>>

Id == "_id"
NoMeta == [state |-> "none", check |-> << >>, types |-> << >>, attr |-> << >>]
NothingPending == [step |-> "none", table |-> "none", docs |-> << >>]
NoRequest == [filters |-> << >>, sent |-> {}]

With(f, k, v) == [x \in DOMAIN f \cup {k} |-> IF x = k THEN v ELSE f[x]]
IfHas(f, k, default) == IF k \in DOMAIN f THEN f[k] ELSE default

LocalInit ==
  /\ check = << >> /\ types = << >> /\ attr = << >> /\ extra = << >>
  /\ handles = << >> /\ dbTables = << >> /\ schemas = << >> /\ stored = {}
  /\ meta = NoMeta /\ pending = NothingPending /\ alive = TRUE /\ request = NoRequest
  /\ adds = 0 /\ crashes = 0 /\ returned = {}

-----------------------------------------------------------------------------
(* The fields of the documents, with what is known of the table so far.    *)

TypeOf(f, kind) ==
  IF kind \in {"INT", "BIG"} THEN (IF f = Id THEN "LONG" ELSE "INT") ELSE kind

\* Whether a value of this kind can be put into a field of this type; if not,
\* Python raises.
Converts(kind, type) ==
  \/ kind = type
  \/ type = "LONG" /\ kind \in {"INT", "BIG"}
  \/ type = "LIST" /\ kind = "STRING"

\* Mutant: a field that is known is accepted with any type.
NeverConflicts(type, known) == FALSE
Conflicts(type, known) ==
  type # known /\ ~(type = "STRING" /\ known = "LIST")

\* __field_check: what it returns, and the types it knows then.  The types of
\* one call of add are shared by its documents, and not checked again (2).
FieldCheck(so, f, kind) ==
  LET type == TypeOf(f, kind)
      known == f \in DOMAIN so.types
      refuse == [so EXCEPT !.ret = -1]
      accept(ret, t) == [so EXCEPT !.ret = ret, !.batch = With(@, f, t)]
  IN  IF kind = "ERROR" THEN refuse
      ELSE IF f \in DOMAIN so.batch THEN [so EXCEPT !.ret = 2]
      ELSE IF known
      THEN IF Conflicts(type, so.types[f]) THEN refuse
           ELSE accept(0, IF type = "STRING" THEN so.types[f] ELSE type)
      ELSE IF so.created /\ type = "VECTOR" THEN refuse
      ELSE [accept(1, type) EXCEPT !.types = With(@, f, type)]

\* __add_field and __add_vector_field: until the table is created the fields
\* are collected.  After that a new one raises, as AddNewField is called with
\* the name of the table in place of its engine.
AddField(so, f) ==
  LET type == so.batch[f]
  IN  IF so.ret = 2 THEN so
      ELSE IF so.created
      THEN [so EXCEPT !.raised = (so.ret = 1 /\ type # "VECTOR")]
      ELSE IF type = "LIST"
      THEN IF so.hasExtra THEN [so EXCEPT !.extra = Append(@, f)]
           ELSE [so EXCEPT !.raised = TRUE]
      ELSE [so EXCEPT !.attr = Append(@, <<f, type>>)]

\* Mutant: a key that was refused counts as the key of its document.
KeySeenEarly(so, f) == so.hasKey \/ f = Id
KeySeen(so, f) == so.hasKey \/ (f = Id /\ so.ret >= 0)

\* __check_add_field and what add does with its result.
Take(so, pair) ==
  IF so.raised THEN so
  ELSE LET f == pair[1]
           checked == FieldCheck(so, f, pair[2])
           converts == Converts(pair[2], checked.batch[f])
           keyed == [checked EXCEPT !.hasKey = KeySeen(checked, f)]
           taken == [keyed EXCEPT
                       !.doc.fields = With(@, f, checked.batch[f]),
                       !.doc.keyed = @ \/ f = Id]
       IN  IF checked.ret < 0 THEN keyed
           ELSE IF ~converts THEN [checked EXCEPT !.raised = TRUE]
           ELSE AddField(taken, f)

NewDoc == [fields |-> << >>, keyed |-> FALSE]

\* One document; one without a key is given one, a string, unless a document
\* before it in the list had one: has_primary_key is not set back.
TakeDoc(so, doc) ==
  LET own == FoldLeft(Take, [so EXCEPT !.doc = NewDoc], doc)
      all == IF own.raised \/ own.hasKey THEN own
             ELSE [Take(own, <<Id, "STRING">>) EXCEPT !.hasKey = FALSE]
  IN  IF all.raised THEN all ELSE [all EXCEPT !.docs = Append(@, all.doc)]

Processed(t, docs) ==
  FoldLeft(TakeDoc,
    [created |-> IfHas(check, t, FALSE), types |-> IfHas(types, t, << >>),
     attr |-> IfHas(attr, t, << >>), extra |-> IfHas(extra, t, << >>),
     hasExtra |-> t \in DOMAIN extra \/ t \notin DOMAIN check,
     batch |-> << >>, hasKey |-> FALSE, doc |-> NewDoc, docs |-> << >>,
     ret |-> 0, raised |-> FALSE],
    docs)

\* What the engine stores of a document: the fields of its schema.  A field
\* that is in no schema is dropped with a message.
Rows(t, docs, schema) ==
  {[table |-> t, keyed |-> docs[i].keyed, alone |-> Len(docs) = 1,
    fields |-> [f \in DOMAIN docs[i].fields \cap DOMAIN schema |->
                  docs[i].fields[f]]] : i \in 1 .. Len(docs)}

\* Table::AddField refuses a name it has: the attempt to create the table
\* again collects the fields a second time.
Repeated(fields) ==
  \E i, j \in 1 .. Len(fields) :
    i < j /\ fields[i][1] = fields[j][1] /\ fields[i][2] # "VECTOR"
SchemaOf(fields) ==
  [f \in {fields[i][1] : i \in 1 .. Len(fields)} |->
     fields[CHOOSE i \in 1 .. Len(fields) : fields[i][1] = f][2]]

-----------------------------------------------------------------------------
\* Mutant: the fields to create the table with are not kept.
LearnTypesOnly(t, so) ==
  /\ check' = With(check, t, so.created)
  /\ types' = With(types, t, so.types)
  /\ extra' = IF so.hasExtra THEN With(extra, t, so.extra) ELSE extra
  /\ UNCHANGED attr
\* What the call has learned, whether or not it goes on.
Learn(t, so) ==
  /\ check' = With(check, t, so.created)
  /\ types' = With(types, t, so.types)
  /\ attr' = With(attr, t, so.attr)
  /\ extra' = IF so.hasExtra THEN With(extra, t, so.extra) ELSE extra

\* add ends here: it raised, or it returned False or True.
Raise(t, docs) ==
  /\ Processed(t, docs).raised
  /\ UNCHANGED <<handles, dbTables, schemas, stored, pending, returned>>

\* To a table that was created.
AddToCreated(t, docs) ==
  LET so == Processed(t, docs)
  IN  /\ ~so.raised
      /\ so.created
      /\ handles[t] = "created"
      /\ stored' = stored \cup Rows(t, so.docs, schemas[t])
      /\ returned' = returned \cup {t}
      /\ UNCHANGED <<handles, dbTables, schemas, pending>>

\* Init of an engine, unless there is one, and Create of its table.  Both may
\* fail; when Create has failed past the vectors it never succeeds on this
\* engine, as it does not where the table was created before.  Failures before
\* the vectors, and a folder that an earlier process left with a schema, are
\* not followed.
CreateFirst(t, docs, made, created) ==
  LET so == Processed(t, docs)
      handle == IF t \in DOMAIN handles THEN handles[t]
                ELSE IF made THEN "empty" ELSE "nil"
      succeeds == handle = "empty" /\ created /\ ~Repeated(so.attr)
  IN  /\ ~so.raised
      /\ ~so.created
      /\ handle # "created" => t \notin DOMAIN schemas
      /\ IF succeeds
         THEN /\ handles' = With(handles, t, "created")
              /\ schemas' = With(schemas, t, SchemaOf(so.attr))
              /\ dbTables' = Append(dbTables, t)
              /\ pending' = IF so.hasExtra
                        THEN [step |-> "created", table |-> t, docs |-> so.docs]
                        ELSE NothingPending
         ELSE /\ handles' = With(handles, t,
                              IF handle = "empty" THEN "spoilt" ELSE handle)
              /\ UNCHANGED <<schemas, dbTables, pending>>
      /\ UNCHANGED <<stored, returned>>

Add(t, docs, made, created) ==
  /\ alive /\ pending.step = "none"
  /\ adds < MaxAdds
  /\ IfHas(handles, t, "empty") # "closed"
  /\ adds' = adds + 1
  /\ Learn(t, Processed(t, docs))
  /\ \/ Raise(t, docs)
     \/ AddToCreated(t, docs)
     \/ CreateFirst(t, docs, made, created)
  /\ request' = NoRequest
  /\ UNCHANGED <<meta, alive, crashes>>

\* The first documents are added, ...
AddFirstDocs ==
  /\ pending.step = "created"
  /\ stored' = stored \cup Rows(pending.table, pending.docs, schemas[pending.table])
  /\ check' = [check EXCEPT ![pending.table] = TRUE]
  /\ pending' = [pending EXCEPT !.step = "added"]
  /\ request' = NoRequest
  /\ UNCHANGED <<types, attr, extra, handles, dbTables, schemas, meta, alive,
                 adds, crashes, returned>>

\* ... tables.meta is opened, which empties it, ...
OpenMeta ==
  /\ pending.step = "added"
  /\ meta' = [NoMeta EXCEPT !.state = "partial"]
  /\ pending' = [pending EXCEPT !.step = "writing"]
  /\ request' = NoRequest
  /\ UNCHANGED <<check, types, attr, extra, handles, dbTables, schemas, stored,
                 alive, adds, crashes, returned>>

\* Mutant: the tables that are not being created are left out.
WrittenAlone(f) == [t \in DOMAIN f \cap {pending.table} |-> f[t]]
Written(f) == f

\* ... and written, for all tables.
WriteMeta ==
  /\ pending.step = "writing"
  /\ meta' = [state |-> "whole", check |-> Written(check),
              types |-> Written(types), attr |-> Written(attr)]
  /\ pending' = NothingPending
  /\ returned' = returned \cup {pending.table}
  /\ request' = NoRequest
  /\ UNCHANGED <<check, types, attr, extra, handles, dbTables, schemas, stored,
                 alive, adds, crashes>>

-----------------------------------------------------------------------------
\* load of a table the library has no engine for.  Loading one that has its
\* table again is not followed.
LoadTable(t) ==
  /\ alive /\ pending.step = "none"
  /\ t \notin DOMAIN handles
  /\ handles' = With(handles, t,
                     IF t \in DOMAIN schemas THEN "created" ELSE "empty")
  /\ request' = NoRequest
  /\ UNCHANGED <<check, types, attr, extra, dbTables, schemas, stored, meta, pending,
                 alive, adds, crashes, returned>>

\* close deletes the engine and keeps its handle, so that what is called on it
\* later is undefined and not followed.
Close(t) ==
  /\ alive /\ pending.step = "none"
  /\ t \in DOMAIN handles
  /\ handles[t] \notin {"nil", "closed"}
  /\ handles' = [handles EXCEPT ![t] = "closed"]
  /\ request' = NoRequest
  /\ UNCHANGED <<check, types, attr, extra, dbTables, schemas, stored, meta, pending,
                 alive, adds, crashes, returned>>

\* __add_filter: for each field the filter that comes first is sent, and of a
\* string the last one.  A filter is a field, the kind of its value and whether
\* it is an upper bound, a lower bound or the value itself.
Sent(t, filters) ==
  LET known == SelectSeq(filters, LAMBDA x : x.field \in DOMAIN types[t])
      alike(i, j) == /\ known[i].field = known[j].field
                     /\ known[i].kind = known[j].kind
      first(i) == \A j \in 1 .. i - 1 : ~alike(i, j)
      last(i) == \A j \in i + 1 .. Len(known) : ~alike(i, j)
  IN  {known[i] : i \in {j \in 1 .. Len(known) :
                           \/ known[j].kind = "INT" /\ first(j)
                           \/ known[j].kind = "STRING" /\ last(j)}}

Search(t, filters) ==
  /\ alive /\ pending.step = "none"
  /\ IfHas(handles, t, "nil") = "created"
  /\ t \in DOMAIN types
  /\ request' = [filters |-> SelectSeq(filters, LAMBDA x :
                                          x.field \in DOMAIN types[t]),
                 sent |-> Sent(t, filters)]
  /\ UNCHANGED <<check, types, attr, extra, handles, dbTables, schemas, stored,
                 meta, pending, alive, adds, crashes, returned>>

\* __read makes no LONG of a LONG: the type of such a field is not set.
ReadAttr(fields) ==
  [i \in 1 .. Len(fields) |->
     IF fields[i][2] = "LONG" THEN <<fields[i][1], "UNSET">> ELSE fields[i]]

\* Mutant: nor does it of the types.
ReadTypesUnset(tt) ==
  [t \in DOMAIN tt |->
     [f \in DOMAIN tt[t] |-> IF tt[t][f] = "LONG" THEN "UNSET" ELSE tt[t][f]]]
ReadTypes(tt) == tt

\* The process ends, at any time, and the library is made again.  A file that
\* is not whole makes the constructor raise.
Reopen ==
  /\ alive
  /\ crashes < MaxCrashes
  /\ crashes' = crashes + 1
  /\ alive' = (meta.state # "partial")
  /\ check' = meta.check
  /\ types' = ReadTypes(meta.types)
  /\ attr' = [t \in DOMAIN meta.attr |-> ReadAttr(meta.attr[t])]
  /\ extra' = << >>
  /\ handles' = [t \in DOMAIN meta.types |->
                   IF t \in DOMAIN schemas THEN "created" ELSE "empty"]
  /\ dbTables' = << >>
  /\ pending' = NothingPending
  /\ request' = NoRequest
  /\ UNCHANGED <<schemas, stored, meta, adds, returned>>

LocalNext ==
  \/ \E t \in Tables, made, created \in BOOLEAN :
       \E docs \in DocLists[t] : Add(t, docs, made, created)
  \/ AddFirstDocs
  \/ OpenMeta
  \/ WriteMeta
  \/ \E t \in Tables : LoadTable(t) \/ Close(t)
  \/ \E t \in Tables, filters \in FilterLists : Search(t, filters)
  \/ Reopen

LocalSpec == LocalInit /\ [][LocalNext]_localVars

-----------------------------------------------------------------------------
LocalTypeOK ==
  /\ DOMAIN check = DOMAIN types /\ DOMAIN attr = DOMAIN types
  /\ DOMAIN extra \subseteq DOMAIN check
  /\ \A t \in DOMAIN check : check[t] \in BOOLEAN
  /\ \A t \in DOMAIN handles :
       handles[t] \in {"nil", "empty", "spoilt", "created", "closed"}
  /\ DOMAIN schemas \subseteq Tables
  /\ meta.state \in {"none", "partial", "whole"}
  /\ alive => (meta.state = "partial") = (pending.step = "writing")

\* Every value that an engine was given has the type of its field in the
\* schema: the engine copies its bytes without a look at the type
\* (Table::BatchAdd), so it is up to __field_check, over all calls and starts.
ValuesFitTheSchema ==
  \A row \in stored : \A f \in DOMAIN row.fields :
    row.fields[f] = schemas[row.table][f]

\* Whatever a search returns has a type: once a table counts as created, the
\* library knows the fields of its schema, also after a start (search and get
\* look each name up in tables_fields_type).
EngineFieldsAreKnown ==
  alive => \A t \in DOMAIN check : check[t] =>
    /\ t \in DOMAIN handles /\ handles[t] \in {"created", "closed"}
    /\ \A f \in DOMAIN schemas[t] :
         f \in DOMAIN types[t] /\ types[t][f] = schemas[t][f]

\* A table that took documents is there after every start, whatever happened to
\* the creation of others, unless the process ended while tables.meta was being
\* written.
ReturnedTablesStay ==
  alive => \A t \in returned :
    t \in DOMAIN check /\ check[t] /\ t \in DOMAIN handles

\* A document that was added alone to a table with keys of strings has a key:
\* its own, or one that add made for it.
LoneDocsHaveKeys ==
  \A row \in stored :
    row.alone /\ IfHas(schemas[row.table], Id, "none") = "STRING" => row.keyed

\* What the docstring of search says of a pair of bounds: both hold.
BothBoundsAreSent ==
  \A i \in 1 .. Len(request.filters) :
    request.filters[i].kind = "INT" => request.filters[i] \in request.sent

\* The library's side: its tables, their fields and the engines agree.
LocalInv ==
  /\ LocalTypeOK
  /\ ValuesFitTheSchema
  /\ EngineFieldsAreKnown
  /\ ReturnedTablesStay
  /\ LoneDocsHaveKeys
=============================================================================
