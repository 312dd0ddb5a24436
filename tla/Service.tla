------------------------------ MODULE Service ------------------------------
(***************************************************************************)
(* The gRPC server: one thread takes events from a completion queue and    *)
(* lets the call an event belongs to proceed.  A call registers with the   *)
(* runtime for one request of its kind; when a request arrives it first    *)
(* makes the call for the next one, then answers, and its last event frees *)
(* it.  The tables are engines under their path in the data folder, which  *)
(* is db/table, and each db has a list of the names of its tables.         *)
(*                                                                         *)
(* A name is a sequence of letters, as names are appended to each other.   *)
(* What a request does inside an engine is DocEngine's; here it has some   *)
(* outcome.  An engine whose table could not be created may give any       *)
(* outcome, or end the process.                                            *)
(***************************************************************************)
EXTENDS Integers, Sequences, FiniteSets, SequencesExt

CONSTANTS
  Clients,      \* each has one request at a time
  Dbs,          \* names of databases
  TableNames,   \* names of tables: sequences of letters
  CreateLists,  \* the lists of names that Create and AddFields come with
  MaxCreates,   \* bound: requests to create tables
  MaxQuestions, \* bound: other requests
  MaxRestarts   \* bound: restarts

EmptyName == << >>
NoDb == "none"

ASSUME ServiceAssumption ==
  /\ NoDb \notin Dbs
  /\ \A name \in TableNames : name # EmptyName /\ name \in Seq(ToSet(name))
  /\ CreateLists \subseteq Seq(TableNames \cup {EmptyName})
  /\ {MaxCreates, MaxQuestions, MaxRestarts} \subseteq Nat

TableKinds == {"Create", "AddFields"}
DataKinds == {"QueryTableDetail", "AddOrUpdate", "Get", "Search", "Delete"}
Kinds == TableKinds \cup DataKinds \cup {"CheckTable"}

VARIABLES
  disk,        \* the folders: "folder" or, once its schema is written, "schema"
  engines,     \* table2engine_: "empty" until the table is created in it
  listed,      \* db2tables_
  registered,  \* the kinds a call is registered for
  rpcs,        \* the request of each client and how far it is
  job,         \* the Create request that is being processed
  creates,     \* how many requests to create tables there were
  questions,   \* how many others
  restarts,    \* how often the server was started again
  promised,    \* tables whose Create was answered with OK
  several      \* since the start a request named several tables

serviceVars == <<disk, engines, listed, registered, rpcs, job, creates, questions,
                 restarts, promised, several>>

NoRpc == [stage |-> "idle", kind |-> "none", db |-> NoDb, tables |-> << >>,
          due |-> FALSE, reply |-> "none"]
NoJob == [step |-> "none", client |-> "none", at |-> 0, path |-> EmptyName,
          status |-> TRUE]

Put(f, k, v) == [j \in DOMAIN f \cup {k} |-> IF j = k THEN v ELSE f[j]]
Paths(db) == {p \in DOMAIN engines : p[1] = db}
Served(db, name) == <<db, name>> \in DOMAIN engines

ServiceInit ==
  /\ disk = << >>
  /\ engines = << >>
  /\ listed = << >>
  /\ registered = Kinds
  /\ rpcs = [c \in Clients |-> NoRpc]
  /\ job = NoJob
  /\ creates = 0 /\ questions = 0
  /\ restarts = 0
  /\ promised = {}
  /\ several = FALSE

-----------------------------------------------------------------------------
\* A client sends a request; Create and AddFields come with a list of tables.
Send(c, kind, db, tables) ==
  /\ rpcs[c].stage = "idle"
  /\ IF kind = "Create"
     THEN creates < MaxCreates /\ creates' = creates + 1 /\ UNCHANGED questions
     ELSE questions < MaxQuestions /\ questions' = questions + 1 /\ UNCHANGED creates
  /\ rpcs' = [rpcs EXCEPT ![c] =
       [NoRpc EXCEPT !.stage = "sent", !.kind = kind, !.db = db,
          !.tables = tables,
          !.due = Len(tables) = 1 /\ <<db, tables[1]>> \in promised]]
  /\ UNCHANGED <<disk, engines, listed, registered, job, restarts, promised,
                 several>>

\* The runtime hands the request to the call that is registered for its kind.
Accept(c) ==
  /\ rpcs[c].stage = "sent"
  /\ rpcs[c].kind \in registered
  /\ registered' = registered \ {rpcs[c].kind}
  /\ rpcs' = [rpcs EXCEPT ![c].stage = "accepted"]
  /\ UNCHANGED <<disk, engines, listed, job, creates, questions, restarts, promised,
                 several>>

-----------------------------------------------------------------------------
\* Finish was called: what is left is the reply.
Answered(rpc, reply) ==
  [NoRpc EXCEPT !.stage = "finishing", !.kind = rpc.kind, !.due = rpc.due,
                !.reply = reply]

\* Mutant: no call is made for the next request.
NotRegisteredAgain(kind) == registered
\* The constructor of the next call registers it.
RegisteredAgain(kind) == registered \cup {kind}

\* CheckTable without a database asks whether there is any, without a table
\* whether the database has some, else whether the table has an engine.
CheckTableReplies(db, name) ==
  IF \/ db = NoDb /\ listed # << >>
     \/ db # NoDb /\ name = EmptyName /\ db \in DOMAIN listed
     \/ db # NoDb /\ name # EmptyName /\ Served(db, name)
  THEN {"yes"} ELSE {"no"}

QueryTableDetailReplies(db, name) ==
  IF db # NoDb /\ name # EmptyName /\ Served(db, name) THEN {"yes"} ELSE {"no"}

\* The names are appended to each other here too; the first path without an
\* engine ends the request, and without a table there is nothing to refuse.
AddFieldsReplies(db, tables) ==
  LET path(n) == FlattenSeq(SubSeq(tables, 1, n))
  IN  IF db = NoDb THEN {"no"}
      ELSE IF \E n \in 1 .. Len(tables) :
                tables[n] # EmptyName /\ ~Served(db, path(n))
           THEN {"no"}
      ELSE IF \A n \in 1 .. Len(tables) : tables[n] = EmptyName THEN {"yes"}
      ELSE {"yes", "no"}

AddOrUpdateReplies(db, name) ==
  IF db # NoDb /\ name # EmptyName /\ Served(db, name) THEN {"yes", "no"}
  ELSE {"no"}

\* An answer of Get or Search repeats the names if the table has an engine; it
\* has no code for a table that is not there.
GetReplies(db, name) ==
  IF db # NoDb /\ name # EmptyName /\ Served(db, name) THEN {"yes"} ELSE {"empty"}
SearchReplies(db, name) ==
  IF db # NoDb /\ name # EmptyName /\ Served(db, name) THEN {"yes", "no"}
  ELSE {"empty"}

DeleteReplies(db, name) ==
  IF db # NoDb /\ name # EmptyName /\ Served(db, name) THEN {"yes", "no"}
  ELSE {"no"}

Replies(rpc) ==
  CASE rpc.kind = "CheckTable" -> CheckTableReplies(rpc.db, rpc.tables[1])
    [] rpc.kind = "QueryTableDetail" ->
         QueryTableDetailReplies(rpc.db, rpc.tables[1])
    [] rpc.kind = "AddFields" -> AddFieldsReplies(rpc.db, rpc.tables)
    [] rpc.kind = "AddOrUpdate" -> AddOrUpdateReplies(rpc.db, rpc.tables[1])
    [] rpc.kind = "Get" -> GetReplies(rpc.db, rpc.tables[1])
    [] rpc.kind = "Search" -> SearchReplies(rpc.db, rpc.tables[1])
    [] rpc.kind = "Delete" -> DeleteReplies(rpc.db, rpc.tables[1])

\* Proceed of a request that is not Create: all are answered, whether the table
\* is there or not.
Answer(c) ==
  /\ job.step = "none"
  /\ rpcs[c].stage = "accepted"
  /\ rpcs[c].kind # "Create"
  /\ registered' = RegisteredAgain(rpcs[c].kind)
  /\ \E reply \in Replies(rpcs[c]) :
       rpcs' = [rpcs EXCEPT ![c] = Answered(rpcs[c], reply)]
  /\ UNCHANGED <<disk, engines, listed, job, creates, questions, restarts, promised,
                 several>>

\* Proceed of Create: without a database or a table it is answered at once.
BeginCreate(c) ==
  LET rpc == rpcs[c]
      refused == rpc.db = NoDb \/ rpc.tables = << >>
      named == {n \in DOMAIN rpc.tables : rpc.tables[n] # EmptyName}
  IN  /\ job.step = "none"
      /\ rpc.stage = "accepted"
      /\ rpc.kind = "Create"
      /\ registered' = RegisteredAgain("Create")
      /\ rpcs' = [rpcs EXCEPT ![c] = IF refused THEN Answered(@, "no")
                                     ELSE [@ EXCEPT !.stage = "processing"]]
      /\ job' = IF refused THEN NoJob
                ELSE [NoJob EXCEPT !.step = "lookup", !.client = c, !.at = 1]
      /\ several' = (several \/ (~refused /\ \E n, m \in named : n # m))
      /\ UNCHANGED <<disk, engines, listed, creates, questions, restarts, promised>>

Job == rpcs[job.client]
Name == Job.tables[job.at]

\* db_table_name is not set back between the tables of a request.
Path == job.path \o Name

\* Mutant: the request is not put away.
JobKept == [job EXCEPT !.step = "kept"]
JobDone == NoJob

\* A Create is answered; OK is the outcome of its last table.
Finish(client, status, paths) ==
  /\ rpcs' = [rpcs EXCEPT ![client] =
                 Answered(@, IF status THEN "yes" ELSE "no")]
  /\ job' = JobDone
  /\ promised' = IF status THEN promised \cup paths ELSE promised

\* On to the next table of the request, or to the answer.
NextTable(path, status, paths) ==
  IF job.at = Len(Job.tables) THEN Finish(job.client, status, paths)
  ELSE /\ job' = [job EXCEPT !.step = "lookup", !.at = @ + 1, !.path = path,
                             !.status = status]
       /\ UNCHANGED <<rpcs, promised>>

\* Mutant: a known table is no reason to stop.
NeverKnown(db, path) == FALSE
Known(db, path) == Served(db, path)

\* Mutant: the folder is not made.
FolderMissing(path) == disk
FolderMade(path) == IF path \in DOMAIN disk THEN disk ELSE Put(disk, path, "folder")

\* The lookup of a table, and Init of an engine for one that is not known.  A
\* known table ends the request.
LookupTable(made) ==
  LET db == Job.db
  IN  /\ job.step = "lookup"
      /\ \/ /\ Name = EmptyName
            /\ NextTable(job.path, job.status, {})
            /\ UNCHANGED disk
         \/ /\ Name # EmptyName
            /\ Known(db, Path)
            /\ Finish(job.client, FALSE, {})
            /\ UNCHANGED disk
         \/ /\ Name # EmptyName
            /\ ~Known(db, Path)
            /\ ~made
            /\ NextTable(Path, FALSE, {})
            /\ UNCHANGED disk
         \/ /\ Name # EmptyName
            /\ ~Known(db, Path)
            /\ made
            /\ disk' = FolderMade(<<db, Path>>)
            /\ job' = [job EXCEPT !.step = "create", !.path = Path]
            /\ UNCHANGED <<rpcs, promised>>
      /\ UNCHANGED <<engines, listed, registered, creates, questions, restarts, several>>

\* Mutant: the name is listed without those before.
ListedAlone(db, name) == Put(listed, db, <<name>>)
ListedWith(db, name) ==
  Put(listed, db, (IF db \in DOMAIN listed THEN listed[db] ELSE << >>)
                    \o <<name>>)

\* Mutant: the schema is not written.
SchemaForgotten(path) == disk
SchemaWritten(path) == Put(disk, path, "schema")

\* Create in the engine, which writes the schema; the engine is registered
\* whether or not that succeeds, and its name is listed.
CreateTable(created) ==
  LET path == <<Job.db, job.path>>
      alone == Len(Job.tables) = 1
  IN  /\ job.step = "create"
      /\ disk' = IF created THEN SchemaWritten(path) ELSE disk
      /\ engines' = Put(engines, path, IF created THEN "created" ELSE "empty")
      /\ listed' = ListedWith(Job.db, Name)
      /\ NextTable(job.path, created, IF alone THEN {path} ELSE {})
      /\ UNCHANGED <<registered, creates, questions, restarts, several>>

\* The last event of a call frees it.  When the client is gone the event is not
\* ok, the loop skips it and the call is never freed, which is not counted here.
Finished(c) ==
  /\ job.step = "none"
  /\ rpcs[c].stage = "finishing"
  /\ rpcs' = [rpcs EXCEPT ![c] = NoRpc]
  /\ UNCHANGED <<disk, engines, listed, registered, job, creates, questions, restarts,
                 promised, several>>

\* Mutant: only one folder is taken.
FirstPath ==
  LET loadable == {p \in DOMAIN disk : disk[p] = "schema"}
  IN  IF loadable = {} THEN {} ELSE {CHOOSE p \in loadable : TRUE}
\* InitTableEngines: every folder with a schema becomes an engine, under its
\* path, and is listed in the order of the directory.
LoadedPaths == {p \in DOMAIN disk : disk[p] = "schema"}

Restart ==
  /\ restarts < MaxRestarts
  /\ restarts' = restarts + 1
  /\ engines' = [p \in LoadedPaths |-> "created"]
  /\ listed' = [db \in {p[1] : p \in LoadedPaths} |->
                  SetToSeq({p[2] : p \in {q \in LoadedPaths : q[1] = db}})]
  /\ registered' = Kinds
  /\ rpcs' = [c \in Clients |-> NoRpc]
  /\ job' = NoJob
  /\ several' = FALSE
  /\ UNCHANGED <<disk, creates, questions, promised>>

Requests ==
  (TableKinds \X Dbs \X CreateLists)
    \cup (TableKinds \X {NoDb} \X {<<name>> : name \in TableNames})
    \cup ((Kinds \ TableKinds) \X Dbs
            \X {<<name>> : name \in TableNames \cup {EmptyName}})
    \cup ((Kinds \ TableKinds) \X {NoDb} \X {<<EmptyName>>})

Progress ==
  \/ \E c \in Clients : Answer(c) \/ BeginCreate(c) \/ Finished(c)
  \/ \E ok \in BOOLEAN : LookupTable(ok) \/ CreateTable(ok)

ServiceNext ==
  \/ \E c \in Clients, r \in Requests : Send(c, r[1], r[2], r[3])
  \/ \E c \in Clients : Accept(c)
  \/ Progress
  \/ Restart

\* The loop never ends, and every event of the queue is taken some time; the
\* runtime hands on what it can.
ServiceFairness ==
  /\ WF_serviceVars(\E ok \in BOOLEAN : LookupTable(ok) \/ CreateTable(ok))
  /\ \A c \in Clients :
       SF_serviceVars(Accept(c) \/ Answer(c) \/ BeginCreate(c) \/ Finished(c))

-----------------------------------------------------------------------------
ServiceTypeOK ==
  /\ \A p \in DOMAIN engines :
       engines[p] \in {"empty", "created"} /\ p \in DOMAIN disk
  /\ DOMAIN listed \subseteq Dbs
  /\ \A db \in DOMAIN listed : listed[db] # << >>
  /\ registered \subseteq Kinds
  /\ \A c \in Clients :
       rpcs[c].stage \in {"idle", "sent", "accepted", "processing", "finishing"}
  /\ job.step = "none" \/ (/\ job.step \in {"lookup", "create"}
                           /\ Job.stage = "processing"
                           /\ job.at \in 1 .. Len(Job.tables))

\* There is exactly one call for the next request of each kind, or it has its
\* request already: Proceed makes the next call before it answers.
EveryKindIsServed ==
  \A kind \in Kinds :
    Cardinality({c \in Clients : rpcs[c].kind = kind
                                 /\ rpcs[c].stage = "accepted"})
      + (IF kind \in registered THEN 1 ELSE 0) = 1

\* A table whose Create was answered with OK is there from then on, also after
\* a crash: ProcessCreateRequest leaves a known table alone, and a later start
\* finds the schema in its folder.
PromisedTablesAreServed ==
  \A p \in promised : p \in DOMAIN engines /\ engines[p] = "created"

\* A request for a table that was promised before it was sent finds the table,
\* whatever other clients created meanwhile.
PromisedTablesAnswer ==
  \A c \in Clients :
    rpcs[c].stage = "finishing" /\ rpcs[c].due =>
      /\ rpcs[c].reply # "empty"
      /\ rpcs[c].kind \in {"CheckTable", "QueryTableDetail"} =>
           rpcs[c].reply = "yes"

\* A database lists one name for each of its engines, and they are the names
\* under which the engines are found unless a request named several tables,
\* whose paths are not their names (awadb_async_call.cc:38).
ListingMatchesEngines ==
  \A db \in Dbs :
    LET names == IF db \in DOMAIN listed THEN listed[db] ELSE << >>
    IN  /\ Len(names) = Cardinality(Paths(db))
        /\ ~several => ToSet(names) = {p[2] : p \in Paths(db)}

\* A start serves every table that was created before the server went down,
\* in whatever step it was: Create writes the schema before it answers, and
\* InitTableEngines takes every folder.
RestartKeepsTables ==
  [][restarts' # restarts =>
       \A p \in DOMAIN engines : engines[p] = "created" =>
         p \in DOMAIN engines']_serviceVars

\* Every request is answered unless the server goes down: each event of the
\* queue lets a call proceed, and there is a call for the next request.
RequestsGetAnswered ==
  \A c \in Clients : rpcs[c].stage = "sent" ~> rpcs[c].stage = "idle"

ServiceSpec == ServiceInit /\ [][ServiceNext]_serviceVars /\ ServiceFairness

\* The server's side: calls of every kind find a server, and a table that was
\* promised is served, answers and is listed.
ServiceInv ==
  /\ ServiceTypeOK
  /\ EveryKindIsServed
  /\ PromisedTablesAreServed
  /\ PromisedTablesAnswer
  /\ ListingMatchesEngines
=============================================================================
