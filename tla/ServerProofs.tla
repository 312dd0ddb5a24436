---------------------------- MODULE ServerProofs ----------------------------
(***************************************************************************)
(* Proofs about Service, for every set of clients, databases, names and    *)
(* lists of names, and every bound; and about those who call the server:   *)
(* RemoteClient, for all clients and documents, and HubProxy, for all      *)
(* requests, documents and schemas.  And about AwaLocal, the library that  *)
(* does without a server, for all tables, documents and crashes.           *)
(***************************************************************************)
EXTENDS Service, HubProxy, RemoteClient, AwaLocal, FiniteSetTheorems, SequenceTheorems,
        WellFoundedInduction, TLAPS

Letters == UNION {ToSet(name) : name \in TableNames}
Names == TableNames \cup {EmptyName}

Rpcs ==
  [stage : {"idle", "sent", "accepted", "processing", "finishing"},
   kind : Kinds \cup {"none"}, db : Dbs \cup {NoDb}, tables : Seq(Names),
   due : BOOLEAN, reply : {"none", "yes", "no", "empty"}]

Jobs ==
  [step : {"none", "lookup", "create"}, client : Clients \cup {"none"}, at : Nat,
   path : Seq(Letters), status : BOOLEAN]

-----------------------------------------------------------------------------
(* The inductive invariant. *)

Typed ==
  /\ rpcs \in [Clients -> Rpcs]
  /\ job \in Jobs
  /\ several \in BOOLEAN
  /\ registered \subseteq Kinds
  /\ DOMAIN listed \subseteq Dbs

\* A folder is named for a table of a database.
FoldersAreNamed ==
  /\ IsFiniteSet(DOMAIN disk)
  /\ \A p \in DOMAIN disk : p \in Dbs \X Seq(Letters) /\ p[2] # EmptyName

\* An engine has a folder, and the schema is in the folders of engines whose
\* table was created and of no others.
EnginesHaveFolders ==
  /\ \A p \in DOMAIN engines : engines[p] \in {"empty", "created"} /\ p \in DOMAIN disk
  /\ \A p \in DOMAIN disk :
       disk[p] = "schema" <=> p \in DOMAIN engines /\ engines[p] = "created"

\* One request of a kind waits to be answered, or a call for the next.
OneCallForEach ==
  /\ \A c \in Clients : rpcs[c].stage = "accepted" => rpcs[c].kind \in Kinds \ registered
  /\ \A c, d \in Clients :
       rpcs[c].stage = "accepted" /\ rpcs[d].stage = "accepted"
         /\ rpcs[c].kind = rpcs[d].kind => c = d
  /\ \A kind \in Kinds \ registered :
       \E c \in Clients : rpcs[c].stage = "accepted" /\ rpcs[c].kind = kind

\* A request comes with what its kind needs; one that is due finds its table.
RequestsAreWhole ==
  \A c \in Clients :
    rpcs[c].stage \in {"sent", "accepted"} =>
      /\ rpcs[c].kind \in Kinds
      /\ rpcs[c].kind \notin TableKinds => Len(rpcs[c].tables) = 1
      /\ rpcs[c].due => /\ Len(rpcs[c].tables) = 1
                        /\ <<rpcs[c].db, rpcs[c].tables[1]>> \in promised

\* The job works for a Create; the path it creates is nobody's yet.
JobIsReal ==
  job.step # "none" =>
    /\ job.client \in Clients
    /\ Job.stage = "processing" /\ Job.kind = "Create" /\ Job.db \in Dbs
    /\ job.at \in 1 .. Len(Job.tables)
    /\ job.step = "create" => /\ Name # EmptyName
                              /\ <<Job.db, job.path>> \in DOMAIN disk \ DOMAIN engines

\* While requests name one table each, its path is its name.
PathsAreNames ==
  ~several /\ job.step # "none" =>
    /\ \A n, m \in DOMAIN Job.tables :
         Job.tables[n] # EmptyName /\ Job.tables[m] # EmptyName => n = m
    /\ job.step = "lookup" =>
         job.path = EmptyName \/ \E n \in 1 .. job.at - 1 : Job.tables[n] # EmptyName
    /\ job.step = "create" => job.path = Name

ListsAreSequences ==
  \A db \in DOMAIN listed : listed[db] \in Seq(Seq(Letters)) /\ listed[db] # << >>

IInv ==
  /\ Typed
  /\ FoldersAreNamed
  /\ EnginesHaveFolders
  /\ OneCallForEach
  /\ RequestsAreWhole
  /\ PromisedTablesAnswer
  /\ PromisedTablesAreServed
  /\ JobIsReal
  /\ PathsAreNames
  /\ ListsAreSequences
  /\ ListingMatchesEngines
-----------------------------------------------------------------------------
(* Names. *)

\* What is assumed of the constants.
LEMMA Bounds ==
  /\ NoDb \notin Dbs
  /\ CreateLists \subseteq Seq(Names)
  /\ MaxCreates \in Nat /\ MaxQuestions \in Nat /\ MaxRestarts \in Nat
  BY ServiceAssumption DEF Names

\* A sequence over some letters is one over more letters.
LEMMA SeqGrows ==
  ASSUME NEW S, NEW T, S \subseteq T, NEW s \in Seq(S)
  PROVE  s \in Seq(T)
<1>1. /\ Len(s) \in Nat /\ s = [i \in 1 .. Len(s) |-> s[i]]
      /\ \A i \in 1 .. Len(s) : s[i] \in S
  OBVIOUS
<1>2. s \in [1 .. Len(s) -> T]
  BY <1>1
<1>. QED
  BY <1>1, <1>2, SeqDef

\* Names are sequences of letters, and only that of no table is empty.
LEMMA NamesAreSequences ==
  ASSUME NEW name \in Names
  PROVE  name \in Seq(Letters) /\ (name # EmptyName => Len(name) > 0)
<1>1. CASE name \in TableNames
  <2>1. name \in Seq(ToSet(name))
    BY <1>1, ServiceAssumption
  <2>2. ToSet(name) \subseteq Letters
    BY <1>1 DEF Letters
  <2>3. name \in Seq(Letters)
    BY <2>1, <2>2, SeqGrows
  <2>. QED
    BY <2>3 DEF EmptyName
<1>2. CASE name = EmptyName
  BY <1>2 DEF EmptyName
<1>. QED
  BY <1>1, <1>2 DEF Names

\* A request is of a known kind and names what its kind needs.
LEMMA RequestsFit ==
  ASSUME NEW r \in Requests
  PROVE  /\ r[1] \in Kinds /\ r[2] \in Dbs \cup {NoDb} /\ r[3] \in Seq(Names)
         /\ r[1] \notin TableKinds => Len(r[3]) = 1
<1>1. CASE r \in TableKinds \X Dbs \X CreateLists
  BY <1>1, Bounds DEF Kinds
<1>. DEFINE One == \E name \in Names : r[3] = <<name>>
<1>5. ASSUME One PROVE r[3] \in Seq(Names) /\ Len(r[3]) = 1
  BY <1>5
<1>2. CASE r \in TableKinds \X {NoDb} \X {<<name>> : name \in TableNames}
  <2>1. r[1] \in Kinds /\ r[2] = NoDb /\ r[3] \in {<<name>> : name \in TableNames}
    BY <1>2 DEF Kinds
  <2>2. One
    BY <2>1 DEF Names
  <2>. QED
    BY <2>1, <2>2, <1>5
<1>3. CASE r \in (Kinds \ TableKinds) \X Dbs \X {<<name>> : name \in TableNames \cup {EmptyName}}
  <2>1. r[1] \in Kinds /\ r[2] \in Dbs /\ r[3] \in {<<name>> : name \in TableNames \cup {EmptyName}}
    BY <1>3
  <2>2. One
    BY <2>1 DEF Names
  <2>. QED
    BY <2>1, <2>2, <1>5
<1>4. CASE r \in (Kinds \ TableKinds) \X {NoDb} \X {<<EmptyName>>}
  <2>1. r[1] \in Kinds /\ r[2] = NoDb /\ r[3] = <<EmptyName>>
    BY <1>4
  <2>2. One
    BY <2>1 DEF Names
  <2>. QED
    BY <2>1, <2>2, <1>5
<1>. QED
  BY <1>1, <1>2, <1>3, <1>4 DEF Requests

-----------------------------------------------------------------------------
(* The steps. *)

\* A server without tables satisfies the invariant.
LEMMA InitHolds == ServiceInit => IInv
<1>. SUFFICES ASSUME ServiceInit PROVE IInv
  OBVIOUS
<1>. USE DEF ServiceInit
<1>1. DOMAIN disk = {} /\ DOMAIN engines = {} /\ DOMAIN listed = {}
  OBVIOUS
<1>2. NoRpc \in Rpcs /\ NoJob \in Jobs
  BY DEF NoRpc, Rpcs, NoJob, Jobs, EmptyName
<1>3. Typed
  BY <1>1, <1>2 DEF Typed
<1>4. FoldersAreNamed /\ EnginesHaveFolders
  BY <1>1, FS_EmptySet DEF FoldersAreNamed, EnginesHaveFolders
<1>5. OneCallForEach /\ RequestsAreWhole /\ PromisedTablesAnswer
  BY DEF OneCallForEach, RequestsAreWhole, PromisedTablesAnswer, NoRpc
<1>6. PromisedTablesAreServed /\ JobIsReal /\ PathsAreNames /\ ListsAreSequences
  BY <1>1 DEF PromisedTablesAreServed, JobIsReal, PathsAreNames, ListsAreSequences, NoJob
<1>7. ListingMatchesEngines
  <2>1. \A db \in Dbs : Paths(db) = {}
    BY <1>1 DEF Paths
  <2>2. ToSet(<< >>) = {}
    BY DEF ToSet
  <2>. QED
    BY <1>1, <2>1, <2>2, FS_EmptySet DEF ListingMatchesEngines
<1>. QED
  BY <1>3, <1>4, <1>5, <1>6, <1>7 DEF IInv

\* The folders, engines and lists stay.
TablesStay == UNCHANGED <<disk, engines, listed, promised>>

\* What is about them only stays, too.
LEMMA TablesKeep ==
  ASSUME IInv, TablesStay, several => several', several' \in BOOLEAN
  PROVE  /\ FoldersAreNamed' /\ EnginesHaveFolders' /\ PromisedTablesAreServed'
         /\ ListsAreSequences' /\ ListingMatchesEngines'
<1>1. FoldersAreNamed' /\ EnginesHaveFolders' /\ PromisedTablesAreServed' /\ ListsAreSequences'
  BY DEF IInv, TablesStay, FoldersAreNamed, EnginesHaveFolders, PromisedTablesAreServed, ListsAreSequences
<1>2. ListingMatchesEngines'
  BY DEF IInv, TablesStay, ListingMatchesEngines, Paths
<1>. QED
  BY <1>1, <1>2

\* The request of another client than the job's changes.
LEMMA JobKeeps ==
  ASSUME IInv, TablesStay, UNCHANGED <<job, several>>,
         NEW c \in Clients, NEW new, rpcs' = [rpcs EXCEPT ![c] = new],
         rpcs[c].stage # "processing" \/ job.step = "none"
  PROVE  JobIsReal' /\ PathsAreNames'
<1>1. CASE job.step = "none"
  BY <1>1 DEF JobIsReal, PathsAreNames
<1>2. CASE job.step # "none"
  <2>1. job.client \in Clients /\ job.client # c
    BY <1>2 DEF IInv, JobIsReal, Job
  <2>2. rpcs'[job'.client] = rpcs[job.client]
    BY <2>1 DEF IInv, Typed
  <2>. QED
    BY <1>2, <2>2 DEF IInv, JobIsReal, PathsAreNames, Job, Name, TablesStay
<1>. QED
  BY <1>1, <1>2

\* A request is sent.
LEMMA SendKeeps ==
  ASSUME IInv, NEW c \in Clients, NEW r \in Requests, Send(c, r[1], r[2], r[3])
  PROVE  IInv'
<1>. DEFINE due == Len(r[3]) = 1 /\ <<r[2], r[3][1]>> \in promised
            new == [NoRpc EXCEPT !.stage = "sent", !.kind = r[1], !.db = r[2],
                                 !.tables = r[3], !.due = due]
<1>1. /\ rpcs[c].stage = "idle" /\ rpcs' = [rpcs EXCEPT ![c] = new]
      /\ UNCHANGED <<disk, engines, listed, registered, job, promised, several>>
  BY DEF Send
<1>2. due \in BOOLEAN
  OBVIOUS
<1>3. /\ new.stage = "sent" /\ new.kind = r[1] /\ new.db = r[2] /\ new.tables = r[3]
      /\ new.due = due /\ new.reply = "none"
  BY Zenon DEF NoRpc
<1>4. new \in Rpcs
  <2>. HIDE DEF due
  <2>1. NoRpc \in Rpcs
    BY DEF NoRpc, Rpcs
  <2>2. [NoRpc EXCEPT !.stage = "sent", !.kind = r[1], !.db = r[2], !.tables = r[3]] \in Rpcs
    BY <2>1, RequestsFit DEF Rpcs
  <2>. QED
    BY <2>1, <1>2, RequestsFit DEF Rpcs
<1>5. TablesStay /\ (several => several') /\ several' \in BOOLEAN
  BY <1>1 DEF TablesStay, IInv, Typed
<1>. HIDE DEF new
<1>6. Typed'
  BY <1>1, <1>4 DEF IInv, Typed
<1>7. \A e \in Clients : rpcs'[e] = IF e = c THEN new ELSE rpcs[e]
  BY <1>1 DEF IInv, Typed
<1>8. OneCallForEach'
  BY <1>1, <1>3, <1>7 DEF IInv, OneCallForEach
<1>9. RequestsAreWhole'
  <2>1. new.due => Len(r[3]) = 1 /\ <<r[2], r[3][1]>> \in promised
    BY <1>3, Zenon
  <2>. HIDE DEF due
  <2>. QED
    <3>1. ASSUME NEW e \in Clients, rpcs'[e].stage \in {"sent", "accepted"}
          PROVE  /\ rpcs'[e].kind \in Kinds
                 /\ rpcs'[e].kind \notin TableKinds => Len(rpcs'[e].tables) = 1
                 /\ rpcs'[e].due => /\ Len(rpcs'[e].tables) = 1
                                    /\ <<rpcs'[e].db, rpcs'[e].tables[1]>> \in promised'
      <4>1. CASE e = c
        <5>1. rpcs'[e] = new /\ promised' = promised
          BY <1>1, <1>7, <4>1
        <5>2. r[1] \in Kinds /\ (r[1] \notin TableKinds => Len(r[3]) = 1)
          BY RequestsFit
        <5>. QED
          BY <1>3, <2>1, <5>1, <5>2
      <4>2. CASE e # c
        <5>1. rpcs'[e] = rpcs[e] /\ promised' = promised
          BY <1>1, <1>7, <4>2
        <5>. QED
          BY <3>1, <5>1 DEF IInv, RequestsAreWhole
      <4>. QED
        BY <4>1, <4>2
    <3>. QED
      BY <3>1 DEF RequestsAreWhole
<1>10. PromisedTablesAnswer'
  BY <1>1, <1>3, <1>7 DEF IInv, PromisedTablesAnswer
<1>11. JobIsReal' /\ PathsAreNames'
  BY <1>1, <1>5, JobKeeps
<1>. QED
  BY <1>5, <1>6, <1>8, <1>9, <1>10, <1>11, TablesKeep DEF IInv

\* A request is taken by the call for its kind.
LEMMA AcceptKeeps ==
  ASSUME IInv, NEW c \in Clients, Accept(c)
  PROVE  IInv'
<1>. DEFINE new == [rpcs[c] EXCEPT !.stage = "accepted"]
<1>1. /\ rpcs[c].stage = "sent" /\ rpcs' = [rpcs EXCEPT ![c] = new]
      /\ rpcs[c].kind \in registered /\ registered' = registered \ {rpcs[c].kind}
      /\ UNCHANGED <<disk, engines, listed, job, promised, several>>
  BY DEF Accept
<1>2. rpcs[c] \in Rpcs /\ registered \subseteq Kinds
  BY DEF IInv, Typed
<1>3. /\ new.stage = "accepted" /\ new.kind = rpcs[c].kind /\ new.db = rpcs[c].db
      /\ new.tables = rpcs[c].tables /\ new.due = rpcs[c].due /\ new \in Rpcs
  BY <1>2 DEF Rpcs
<1>5. TablesStay /\ (several => several') /\ several' \in BOOLEAN
  BY <1>1 DEF TablesStay, IInv, Typed
<1>. HIDE DEF new
<1>6. Typed'
  BY <1>1, <1>2, <1>3 DEF IInv, Typed
<1>7. \A e \in Clients : rpcs'[e] = IF e = c THEN new ELSE rpcs[e]
  BY <1>1 DEF IInv, Typed
<1>8. OneCallForEach'
  BY <1>1, <1>2, <1>3, <1>7 DEF IInv, OneCallForEach
<1>9. RequestsAreWhole'
  BY <1>1, <1>3, <1>7 DEF IInv, RequestsAreWhole
<1>10. PromisedTablesAnswer'
  BY <1>1, <1>3, <1>7 DEF IInv, PromisedTablesAnswer
<1>11. JobIsReal' /\ PathsAreNames'
  BY <1>1, <1>5, JobKeeps
<1>. QED
  BY <1>5, <1>6, <1>8, <1>9, <1>10, <1>11, TablesKeep DEF IInv

\* What an answer leaves of a request.
LEMMA AnswerFits ==
  ASSUME NEW rpc \in Rpcs, NEW reply \in {"yes", "no", "empty"}
  PROVE  /\ Answered(rpc, reply) \in Rpcs
         /\ Answered(rpc, reply).stage = "finishing"
         /\ Answered(rpc, reply).kind = rpc.kind
         /\ Answered(rpc, reply).due = rpc.due
         /\ Answered(rpc, reply).reply = reply
<1>1. NoRpc \in Rpcs
  BY DEF NoRpc, Rpcs
<1>2. rpc.kind \in Kinds \cup {"none"} /\ rpc.due \in BOOLEAN
  BY DEF Rpcs
<1>3. [NoRpc EXCEPT !.stage = "finishing", !.kind = rpc.kind] \in Rpcs
  BY <1>1, <1>2 DEF Rpcs
<1>4. Answered(rpc, reply) \in Rpcs
  <2>1. PICK base \in Rpcs : base = NoRpc
    BY <1>1
  <2>2. Answered(rpc, reply)
          = [base EXCEPT !.stage = "finishing", !.kind = rpc.kind, !.due = rpc.due, !.reply = reply]
    BY <2>1 DEF Answered
  <2>. QED
    BY <1>2, <2>2 DEF Rpcs
<1>. QED
  BY <1>4, Zenon DEF Answered, NoRpc

\* A request for a table that is there is answered with what the table says.
LEMMA RepliesFit ==
  ASSUME NEW rpc \in Rpcs, rpc.kind \in Kinds \ {"Create"}
  PROVE  /\ Replies(rpc) \subseteq {"yes", "no", "empty"}
         /\ rpc.db # NoDb /\ rpc.tables[1] # EmptyName /\ Served(rpc.db, rpc.tables[1]) =>
              /\ "empty" \notin Replies(rpc)
              /\ rpc.kind \in {"CheckTable", "QueryTableDetail"} => Replies(rpc) = {"yes"}
<1>. USE DEF Replies
<1>1. CASE rpc.kind = "CheckTable"
  BY <1>1 DEF CheckTableReplies
<1>2. CASE rpc.kind = "QueryTableDetail"
  BY <1>2 DEF QueryTableDetailReplies
<1>3. CASE rpc.kind = "AddFields"
  BY <1>3 DEF AddFieldsReplies
<1>4. CASE rpc.kind = "AddOrUpdate"
  BY <1>4 DEF AddOrUpdateReplies
<1>5. CASE rpc.kind = "Get"
  BY <1>5 DEF GetReplies
<1>6. CASE rpc.kind = "Search"
  BY <1>6 DEF SearchReplies
<1>7. CASE rpc.kind = "Delete"
  BY <1>7 DEF DeleteReplies
<1>. QED
  BY <1>1, <1>2, <1>3, <1>4, <1>5, <1>6, <1>7 DEF Kinds, TableKinds, DataKinds

\* A promised table has a database and a name.
LEMMA PromisedAreNamed ==
  ASSUME IInv, NEW p \in promised
  PROVE  /\ p \in DOMAIN engines /\ p \in DOMAIN disk
         /\ p[1] \in Dbs /\ p[1] # NoDb /\ p[2] # EmptyName
  BY Bounds DEF IInv, PromisedTablesAreServed, EnginesHaveFolders, FoldersAreNamed

\* A request that does not create tables is answered.
LEMMA AnswerKeeps ==
  ASSUME IInv, NEW c \in Clients, Answer(c)
  PROVE  IInv'
<1>1. PICK reply \in Replies(rpcs[c]) : rpcs' = [rpcs EXCEPT ![c] = Answered(rpcs[c], reply)]
  BY DEF Answer
<1>. DEFINE new == Answered(rpcs[c], reply)
<1>2. /\ job.step = "none" /\ rpcs[c].stage = "accepted" /\ rpcs[c].kind # "Create"
      /\ registered' = registered \cup {rpcs[c].kind}
      /\ UNCHANGED <<disk, engines, listed, job, promised, several>>
  BY DEF Answer, RegisteredAgain
<1>3. rpcs[c] \in Rpcs /\ rpcs[c].kind \in Kinds \ {"Create"}
  BY <1>2 DEF IInv, Typed, RequestsAreWhole
<1>4. reply \in {"yes", "no", "empty"}
  BY <1>1, <1>3, RepliesFit
<1>5. /\ new \in Rpcs /\ new.stage = "finishing" /\ new.kind = rpcs[c].kind
      /\ new.due = rpcs[c].due /\ new.reply = reply
  BY <1>3, <1>4, AnswerFits
<1>6. rpcs[c].due =>
        /\ reply # "empty"
        /\ rpcs[c].kind \in {"CheckTable", "QueryTableDetail"} => reply = "yes"
  <2>. SUFFICES ASSUME rpcs[c].due
                PROVE  /\ reply # "empty"
                       /\ rpcs[c].kind \in {"CheckTable", "QueryTableDetail"} => reply = "yes"
    OBVIOUS
  <2>1. <<rpcs[c].db, rpcs[c].tables[1]>> \in promised
    BY <1>2 DEF IInv, RequestsAreWhole
  <2>2. /\ rpcs[c].db # NoDb /\ rpcs[c].tables[1] # EmptyName
        /\ Served(rpcs[c].db, rpcs[c].tables[1])
    BY <2>1, PromisedAreNamed DEF Served
  <2>. QED
    BY <1>1, <1>3, <2>2, RepliesFit
<1>7. TablesStay /\ (several => several') /\ several' \in BOOLEAN
  BY <1>2 DEF TablesStay, IInv, Typed
<1>. HIDE DEF new
<1>8. rpcs' = [rpcs EXCEPT ![c] = new]
  BY <1>1 DEF new
<1>9. Typed'
  BY <1>2, <1>3, <1>5, <1>8 DEF IInv, Typed
<1>10. \A e \in Clients : rpcs'[e] = IF e = c THEN new ELSE rpcs[e]
  BY <1>8 DEF IInv, Typed
<1>11. OneCallForEach'
  BY <1>2, <1>3, <1>5, <1>10 DEF IInv, OneCallForEach
<1>12. RequestsAreWhole'
  BY <1>2, <1>5, <1>10 DEF IInv, RequestsAreWhole
<1>13. PromisedTablesAnswer'
  BY <1>5, <1>6, <1>10 DEF IInv, PromisedTablesAnswer
<1>14. JobIsReal' /\ PathsAreNames'
  BY <1>2, <1>7, <1>8, JobKeeps
<1>. QED
  BY <1>7, <1>9, <1>11, <1>12, <1>13, <1>14, TablesKeep DEF IInv

\* A call is freed.
LEMMA FinishedKeeps ==
  ASSUME IInv, NEW c \in Clients, Finished(c)
  PROVE  IInv'
<1>1. /\ job.step = "none" /\ rpcs[c].stage = "finishing" /\ rpcs' = [rpcs EXCEPT ![c] = NoRpc]
      /\ UNCHANGED <<disk, engines, listed, registered, job, promised, several>>
  BY DEF Finished
<1>2. NoRpc \in Rpcs /\ NoRpc.stage = "idle"
  BY DEF NoRpc, Rpcs
<1>3. TablesStay /\ (several => several') /\ several' \in BOOLEAN
  BY <1>1 DEF TablesStay, IInv, Typed
<1>4. Typed'
  BY <1>1, <1>2 DEF IInv, Typed
<1>5. \A e \in Clients : rpcs'[e] = IF e = c THEN NoRpc ELSE rpcs[e]
  BY <1>1 DEF IInv, Typed
<1>6. OneCallForEach'
  BY <1>1, <1>2, <1>5 DEF IInv, OneCallForEach
<1>7. RequestsAreWhole' /\ PromisedTablesAnswer'
  BY <1>1, <1>2, <1>5 DEF IInv, RequestsAreWhole, PromisedTablesAnswer
<1>8. JobIsReal' /\ PathsAreNames'
  BY <1>1, <1>3, JobKeeps
<1>. QED
  BY <1>3, <1>4, <1>6, <1>7, <1>8, TablesKeep DEF IInv

\* A Create is refused or becomes the job.
LEMMA BeginCreateKeeps ==
  ASSUME IInv, NEW c \in Clients, BeginCreate(c)
  PROVE  IInv'
<1>. DEFINE refused == rpcs[c].db = NoDb \/ rpcs[c].tables = << >>
            new == IF refused THEN Answered(rpcs[c], "no")
                   ELSE [rpcs[c] EXCEPT !.stage = "processing"]
<1>1. /\ job.step = "none" /\ rpcs[c].stage = "accepted" /\ rpcs[c].kind = "Create"
      /\ registered' = registered \cup {"Create"}
      /\ rpcs' = [rpcs EXCEPT ![c] = new]
      /\ UNCHANGED <<disk, engines, listed, promised>>
  BY DEF BeginCreate, RegisteredAgain
<1>2. rpcs[c] \in Rpcs /\ several \in BOOLEAN /\ registered \subseteq Kinds
  BY DEF IInv, Typed
<1>3. job' = IF refused THEN NoJob ELSE [NoJob EXCEPT !.step = "lookup", !.client = c, !.at = 1]
  BY DEF BeginCreate
<1>4. /\ several => several'
      /\ several' \in BOOLEAN
      /\ ~refused /\ ~several' =>
           \A n, m \in DOMAIN rpcs[c].tables :
             rpcs[c].tables[n] # EmptyName /\ rpcs[c].tables[m] # EmptyName => n = m
  <2>1. several' = (several \/ (~refused /\ \E n, m \in {n \in DOMAIN rpcs[c].tables :
                                                 rpcs[c].tables[n] # EmptyName} : n # m))
    BY DEF BeginCreate
  <2>. QED
    BY <2>1, <1>2
<1>5. /\ new \in Rpcs /\ new.due = rpcs[c].due /\ new.kind = "Create"
      /\ new.db = rpcs[c].db \/ refused
      /\ new.tables = rpcs[c].tables \/ refused
      /\ new.stage = (IF refused THEN "finishing" ELSE "processing")
      /\ refused => new.reply = "no"
  <2>1. CASE refused
    BY <2>1, <1>1, <1>2, AnswerFits
  <2>2. CASE ~refused
    BY <2>2, <1>1, <1>2 DEF Rpcs
  <2>. QED
    BY <2>1, <2>2
<1>6. TablesStay
  BY <1>1 DEF TablesStay
<1>7. job' \in Jobs
  <2>1. NoJob \in Jobs
    BY DEF NoJob, Jobs, EmptyName
  <2>2. [NoJob EXCEPT !.step = "lookup", !.client = c, !.at = 1] \in Jobs
    BY <2>1 DEF Jobs
  <2>. QED
    BY <1>3, <2>1, <2>2
<1>8. /\ refused => job'.step = "none"
      /\ ~refused => /\ job'.step = "lookup" /\ job'.client = c /\ job'.at = 1
                     /\ job'.path = EmptyName
  BY <1>3 DEF NoJob
<1>9. ~refused => rpcs[c].db \in Dbs /\ 1 \in 1 .. Len(rpcs[c].tables)
  BY <1>2 DEF Rpcs
<1>. HIDE DEF new, refused
<1>10. Typed'
  BY <1>1, <1>2, <1>4, <1>5, <1>7 DEF IInv, Typed, Kinds, TableKinds
<1>11. \A e \in Clients : rpcs'[e] = IF e = c THEN new ELSE rpcs[e]
  BY <1>1 DEF IInv, Typed
<1>12. OneCallForEach'
  BY <1>1, <1>2, <1>5, <1>11 DEF IInv, OneCallForEach
<1>13. RequestsAreWhole'
  BY <1>1, <1>5, <1>11 DEF IInv, RequestsAreWhole
<1>14. PromisedTablesAnswer'
  BY <1>5, <1>11 DEF IInv, PromisedTablesAnswer
<1>15. JobIsReal'
  BY <1>5, <1>8, <1>9, <1>11 DEF JobIsReal, Job
<1>16. PathsAreNames'
  BY <1>4, <1>5, <1>8, <1>11 DEF PathsAreNames, Job
<1>. QED
  BY <1>4, <1>6, <1>10, <1>12, <1>13, <1>14, <1>15, <1>16, TablesKeep DEF IInv

\* The request of the job is one of its client.
LEMMA JobFits ==
  ASSUME IInv, job.step # "none"
  PROVE  /\ job \in Jobs /\ job.client \in Clients /\ Job \in Rpcs /\ Job = rpcs[job.client]
         /\ Job.stage = "processing" /\ Job.kind = "Create" /\ Job.db \in Dbs
         /\ Job.tables \in Seq(Names) /\ job.at \in 1 .. Len(Job.tables)
         /\ Name \in Names /\ Name \in Seq(Letters)
         /\ job.path \in Seq(Letters) /\ Path \in Seq(Letters)
         /\ Name # EmptyName => Path # EmptyName
<1>1. /\ job \in Jobs /\ job.client \in Clients /\ Job \in Rpcs /\ Job = rpcs[job.client]
      /\ Job.stage = "processing" /\ Job.kind = "Create" /\ Job.db \in Dbs
      /\ job.at \in 1 .. Len(Job.tables)
  BY DEF IInv, Typed, JobIsReal, Job
<1>2. Job.tables \in Seq(Names) /\ job.path \in Seq(Letters)
  BY <1>1 DEF Rpcs, Jobs
<1>3. Name \in Names
  BY <1>1, <1>2 DEF Name
<1>4. Name \in Seq(Letters) /\ (Name # EmptyName => Len(Name) > 0)
  BY <1>3, NamesAreSequences
<1>5. Path \in Seq(Letters) /\ Len(Path) = Len(job.path) + Len(Name)
  BY <1>2, <1>4 DEF Path
<1>6. Len(job.path) \in Nat /\ Len(Name) \in Nat
  BY <1>2, <1>4
<1>7. Name # EmptyName => Path # EmptyName
  BY <1>4, <1>5, <1>6 DEF EmptyName
<1>. QED
  BY <1>1, <1>2, <1>3, <1>4, <1>5, <1>7

\* What is about the requests when the job's is answered.
LEMMA FinishKeeps ==
  ASSUME IInv, job.step # "none", NEW status \in BOOLEAN, NEW paths,
         Finish(job.client, status, paths), UNCHANGED registered
  PROVE  /\ rpcs' \in [Clients -> Rpcs] /\ job' = NoJob
         /\ OneCallForEach' /\ RequestsAreWhole' /\ PromisedTablesAnswer'
<1>. DEFINE c == job.client
            new == Answered(rpcs[c], IF status THEN "yes" ELSE "no")
<1>1. rpcs' = [rpcs EXCEPT ![c] = new] /\ job' = NoJob /\ promised \subseteq promised'
  BY DEF Finish, JobDone
<1>2. /\ c \in Clients /\ rpcs[c] \in Rpcs /\ rpcs[c].kind = "Create"
      /\ rpcs[c].stage = "processing"
  BY JobFits
<1>3. /\ new \in Rpcs /\ new.stage = "finishing" /\ new.kind = "Create"
      /\ new.reply \in {"yes", "no"}
  BY <1>2, AnswerFits
<1>. HIDE DEF new
<1>4. \A e \in Clients : rpcs'[e] = IF e = c THEN new ELSE rpcs[e]
  BY <1>1 DEF IInv, Typed
<1>5. rpcs' \in [Clients -> Rpcs]
  BY <1>1, <1>3 DEF IInv, Typed
<1>6. OneCallForEach'
  BY <1>2, <1>3, <1>4 DEF IInv, OneCallForEach
<1>7. RequestsAreWhole'
  BY <1>1, <1>3, <1>4 DEF IInv, RequestsAreWhole
<1>8. PromisedTablesAnswer'
  BY <1>3, <1>4 DEF IInv, PromisedTablesAnswer
<1>. QED
  BY <1>1, <1>5, <1>6, <1>7, <1>8

\* What is about the requests and the job when it goes on to the next table.
LEMMA NextTableKeeps ==
  ASSUME IInv, job.step # "none", NEW path \in Seq(Letters), NEW status \in BOOLEAN,
         NEW paths, NextTable(path, status, paths), UNCHANGED <<registered, several>>,
         ~several => path = EmptyName \/ \E n \in 1 .. job.at : Job.tables[n] # EmptyName
  PROVE  /\ rpcs' \in [Clients -> Rpcs] /\ job' \in Jobs
         /\ OneCallForEach' /\ RequestsAreWhole' /\ PromisedTablesAnswer'
         /\ JobIsReal' /\ PathsAreNames'
         /\ promised' = promised \/ (status /\ promised' = promised \cup paths)
<1>1. CASE job.at = Len(Job.tables)
  <2>1. Finish(job.client, status, paths)
    BY <1>1 DEF NextTable
  <2>2. /\ rpcs' \in [Clients -> Rpcs] /\ job' = NoJob
        /\ OneCallForEach' /\ RequestsAreWhole' /\ PromisedTablesAnswer'
    BY <2>1, FinishKeeps
  <2>3. NoJob \in Jobs /\ NoJob.step = "none"
    BY DEF NoJob, Jobs, EmptyName
  <2>4. promised' = promised \/ (status /\ promised' = promised \cup paths)
    BY <2>1 DEF Finish
  <2>. QED
    BY <2>2, <2>3, <2>4 DEF JobIsReal, PathsAreNames
<1>2. CASE job.at # Len(Job.tables)
  <2>1. /\ job' = [job EXCEPT !.step = "lookup", !.at = @ + 1, !.path = path, !.status = status]
        /\ UNCHANGED <<rpcs, promised>>
    BY <1>2 DEF NextTable
  <2>2. /\ job \in Jobs /\ job.client \in Clients /\ Job = rpcs[job.client]
        /\ Job.stage = "processing" /\ Job.kind = "Create" /\ Job.db \in Dbs
        /\ Job.tables \in Seq(Names) /\ job.at \in 1 .. Len(Job.tables)
    BY JobFits
  <2>3. /\ job'.step = "lookup" /\ job'.at = job.at + 1 /\ job'.path = path
        /\ job'.client = job.client /\ job' \in Jobs
    <3>1. job.at + 1 \in Nat
      BY <2>2 DEF Jobs
    <3>2. job' = [job EXCEPT !.step = "lookup", !.at = job.at + 1, !.path = path,
                             !.status = status]
      BY <2>1
    <3>. QED
      BY <2>2, <3>1, <3>2 DEF Jobs
  <2>4. Job' = Job
    BY <2>1, <2>3 DEF Job
  <2>5. OneCallForEach' /\ RequestsAreWhole' /\ PromisedTablesAnswer' /\ rpcs' \in [Clients -> Rpcs]
    BY <2>1 DEF IInv, Typed, OneCallForEach, RequestsAreWhole, PromisedTablesAnswer
  <2>6. JobIsReal'
    BY <1>2, <2>2, <2>3, <2>4 DEF JobIsReal
  <2>7. PathsAreNames'
    BY <2>2, <2>3, <2>4 DEF PathsAreNames, IInv
  <2>. QED
    BY <2>1, <2>3, <2>5, <2>6, <2>7
<1>. QED
  BY <1>1, <1>2

\* The lookup of a table of the job.
LEMMA LookupTableKeeps ==
  ASSUME IInv, NEW made \in BOOLEAN, LookupTable(made)
  PROVE  IInv'
<1>1. /\ job.step = "lookup"
      /\ UNCHANGED <<engines, listed, registered, several>>
  BY DEF LookupTable
<1>2. /\ job \in Jobs /\ job.client \in Clients /\ Job = rpcs[job.client]
      /\ Job.stage = "processing" /\ Job.kind = "Create" /\ Job.db \in Dbs
      /\ Job.tables \in Seq(Names) /\ job.at \in 1 .. Len(Job.tables)
      /\ job.path \in Seq(Letters) /\ Path \in Seq(Letters)
      /\ Name \in Seq(Letters) /\ (Name # EmptyName => Path # EmptyName)
  BY <1>1, JobFits
<1>3. job.status \in BOOLEAN
  BY <1>2 DEF Jobs
<1>4. /\ registered \subseteq Kinds /\ several \in BOOLEAN /\ DOMAIN listed \subseteq Dbs
  BY DEF IInv, Typed
<1>5. ASSUME NEW path \in Seq(Letters), NEW status \in BOOLEAN, NextTable(path, status, {}),
             UNCHANGED disk,
             ~several => path = EmptyName \/ \E n \in 1 .. job.at : Job.tables[n] # EmptyName
      PROVE  IInv'
  <2>1. /\ rpcs' \in [Clients -> Rpcs] /\ job' \in Jobs
        /\ OneCallForEach' /\ RequestsAreWhole' /\ PromisedTablesAnswer'
        /\ JobIsReal' /\ PathsAreNames'
        /\ promised' = promised \/ promised' = promised \cup {}
    BY <1>1, <1>5, NextTableKeeps
  <2>2. TablesStay
    BY <1>1, <1>5, <2>1 DEF TablesStay
  <2>. QED
    BY <1>1, <1>4, <2>1, <2>2, TablesKeep DEF IInv, Typed
<1>6. CASE Name = EmptyName /\ NextTable(job.path, job.status, {}) /\ UNCHANGED disk
  <2>1. ~several => job.path = EmptyName \/ \E n \in 1 .. job.at : Job.tables[n] # EmptyName
    BY <1>1, <1>2 DEF IInv, PathsAreNames
  <2>. QED
    BY <1>2, <1>3, <1>5, <1>6, <2>1
<1>7. CASE Finish(job.client, FALSE, {}) /\ UNCHANGED disk
  <2>1. /\ rpcs' \in [Clients -> Rpcs] /\ job' = NoJob
        /\ OneCallForEach' /\ RequestsAreWhole' /\ PromisedTablesAnswer'
    BY <1>1, <1>7, FinishKeeps
  <2>2. TablesStay
    BY <1>1, <1>7 DEF TablesStay, Finish
  <2>3. NoJob \in Jobs /\ NoJob.step = "none"
    BY DEF NoJob, Jobs, EmptyName
  <2>4. JobIsReal' /\ PathsAreNames'
    BY <2>1, <2>3 DEF JobIsReal, PathsAreNames
  <2>. QED
    BY <1>1, <1>4, <2>1, <2>2, <2>3, <2>4, TablesKeep DEF IInv, Typed
<1>8. CASE Name # EmptyName /\ NextTable(Path, FALSE, {}) /\ UNCHANGED disk
  <2>1. job.at \in 1 .. job.at /\ Job.tables[job.at] # EmptyName
    BY <1>2, <1>8 DEF Name
  <2>. QED
    BY <1>2, <1>5, <1>8, <2>1
<1>9. CASE /\ Name # EmptyName /\ ~Known(Job.db, Path)
           /\ disk' = FolderMade(<<Job.db, Path>>)
           /\ job' = [job EXCEPT !.step = "create", !.path = Path]
           /\ UNCHANGED <<rpcs, promised>>
  <2>. DEFINE p == <<Job.db, Path>>
  <2>1. p \notin DOMAIN engines
    BY <1>9 DEF Known, Served
  <2>2. /\ DOMAIN disk' = DOMAIN disk \cup {p}
        /\ \A q \in DOMAIN disk : disk'[q] = disk[q]
        /\ p \notin DOMAIN disk => disk'[p] = "folder"
    BY <1>9 DEF FolderMade, Put
  <2>3. p \in Dbs \X Seq(Letters) /\ p[1] = Job.db /\ p[2] = Path /\ p[2] # EmptyName
    BY <1>2, <1>9
  <2>4. /\ job'.step = "create" /\ job'.at = job.at /\ job'.path = Path
        /\ job'.client = job.client /\ job' \in Jobs
    BY <1>2, <1>9 DEF Jobs
  <2>5. Job' = Job /\ Name' = Name
    BY <1>9, <2>4 DEF Job, Name
  <2>. HIDE DEF p
  <2>6. Typed'
    BY <1>1, <1>4, <1>9, <2>4 DEF IInv, Typed
  <2>7. FoldersAreNamed'
    BY <2>2, <2>3, FS_AddElement DEF IInv, FoldersAreNamed
  <2>8. EnginesHaveFolders'
    BY <1>1, <2>1, <2>2 DEF IInv, EnginesHaveFolders
  <2>9. OneCallForEach' /\ RequestsAreWhole' /\ PromisedTablesAnswer' /\ PromisedTablesAreServed'
    BY <1>1, <1>9 DEF IInv, OneCallForEach, RequestsAreWhole, PromisedTablesAnswer,
                      PromisedTablesAreServed
  <2>10. JobIsReal'
    <3>1. <<Job', job'.path>> = <<Job, Path>> /\ p \in DOMAIN disk' \ DOMAIN engines'
      BY <1>1, <2>1, <2>2, <2>4, <2>5
    <3>. QED
      BY <1>2, <1>9, <2>4, <2>5, <3>1 DEF JobIsReal, p
  <2>11. PathsAreNames'
    <3>. SUFFICES ASSUME ~several PROVE PathsAreNames'
      BY <1>1 DEF PathsAreNames
    <3>1. \A n, m \in DOMAIN Job.tables :
            Job.tables[n] # EmptyName /\ Job.tables[m] # EmptyName => n = m
      BY <1>1 DEF IInv, PathsAreNames
    <3>2. job.path = EmptyName
      <4>. SUFFICES ASSUME NEW n \in 1 .. job.at - 1, Job.tables[n] # EmptyName PROVE FALSE
        BY <1>1 DEF IInv, PathsAreNames
      <4>. QED
        <5>1. job.at \in DOMAIN Job.tables /\ n \in DOMAIN Job.tables /\ n # job.at
          BY <1>2
        <5>2. Job.tables[job.at] # EmptyName
          BY <1>9 DEF Name
        <5>. QED
          BY <3>1, <5>1, <5>2
    <3>3. Path = Name
      BY <1>2, <3>2 DEF Path, EmptyName
    <3>. QED
      BY <2>4, <2>5, <3>1, <3>3 DEF PathsAreNames
  <2>12. ListsAreSequences' /\ ListingMatchesEngines'
    BY <1>1 DEF IInv, ListsAreSequences, ListingMatchesEngines, Paths
  <2>. QED
    BY <2>6, <2>7, <2>8, <2>9, <2>10, <2>11, <2>12 DEF IInv
<1>. QED
  BY <1>6, <1>7, <1>8, <1>9 DEF LookupTable

\* The names of a list, with one more.
LEMMA OneMore ==
  ASSUME NEW S, NEW s \in Seq(S), NEW x \in S
  PROVE  /\ s \o <<x>> \in Seq(S) /\ s \o <<x>> # << >>
         /\ Len(s \o <<x>>) = Len(s) + 1
         /\ ToSet(s \o <<x>>) = ToSet(s) \cup {x}
<1>1. /\ s \o <<x>> \in Seq(S) /\ Len(s \o <<x>>) = Len(s) + 1 /\ Len(s) \in Nat
      /\ \A i \in 1 .. Len(s) : (s \o <<x>>)[i] = s[i]
      /\ (s \o <<x>>)[Len(s) + 1] = x
  OBVIOUS
<1>. DEFINE t == s \o <<x>>
<1>. HIDE DEF t
<1>2. /\ t \in Seq(S) /\ Len(t) = Len(s) + 1 /\ Len(s) \in Nat
      /\ \A i \in 1 .. Len(s) : t[i] = s[i]
      /\ t[Len(s) + 1] = x
  BY <1>1 DEF t
<1>3. DOMAIN t = 1 .. Len(s) + 1 /\ DOMAIN s = 1 .. Len(s)
  BY <1>2
<1>4. \A y \in ToSet(t) : y \in ToSet(s) \cup {x}
  BY <1>2, <1>3 DEF ToSet
<1>5. \A y \in ToSet(s) \cup {x} : y \in ToSet(t)
  BY <1>2, <1>3 DEF ToSet
<1>6. t # << >>
  BY <1>2
<1>. QED
  BY <1>2, <1>4, <1>5, <1>6 DEF t

\* The engine of the job's table is registered, created or not.
LEMMA CreateTableKeeps ==
  ASSUME IInv, NEW created \in BOOLEAN, CreateTable(created)
  PROVE  IInv'
<1>0. PICK db \in Dbs : db = Job.db
  BY JobFits DEF CreateTable
<1>. DEFINE p == <<db, job.path>>
            old == IF db \in DOMAIN listed THEN listed[db] ELSE << >>
<1>1. /\ job.step = "create"
      /\ disk' = IF created THEN SchemaWritten(p) ELSE disk
      /\ engines' = Put(engines, p, IF created THEN "created" ELSE "empty")
      /\ listed' = Put(listed, db, old \o <<Name>>)
      /\ NextTable(job.path, created, IF Len(Job.tables) = 1 THEN {p} ELSE {})
      /\ UNCHANGED <<registered, several>>
  BY <1>0 DEF CreateTable, ListedWith
<1>2. /\ job \in Jobs /\ job.client \in Clients /\ Job = rpcs[job.client]
      /\ db \in Dbs /\ Job.tables \in Seq(Names) /\ job.at \in 1 .. Len(Job.tables)
      /\ job.path \in Seq(Letters) /\ Name \in Seq(Letters)
  BY <1>0, <1>1, JobFits
<1>3. Name # EmptyName /\ p \in DOMAIN disk /\ p \notin DOMAIN engines
  BY <1>0, <1>1 DEF IInv, JobIsReal
<1>4. /\ registered \subseteq Kinds /\ several \in BOOLEAN /\ DOMAIN listed \subseteq Dbs
  BY DEF IInv, Typed
<1>5. /\ rpcs' \in [Clients -> Rpcs] /\ job' \in Jobs
      /\ OneCallForEach' /\ RequestsAreWhole' /\ PromisedTablesAnswer'
      /\ JobIsReal' /\ PathsAreNames'
      /\ promised' = promised \/ (created /\ promised' \subseteq promised \cup {p})
  <2>1. job.at \in 1 .. job.at /\ Job.tables[job.at] # EmptyName
    BY <1>2, <1>3 DEF Name
  <2>2. /\ rpcs' \in [Clients -> Rpcs] /\ job' \in Jobs
        /\ OneCallForEach' /\ RequestsAreWhole' /\ PromisedTablesAnswer'
        /\ JobIsReal' /\ PathsAreNames'
        /\ \/ promised' = promised
           \/ created /\ promised' = promised \cup (IF Len(Job.tables) = 1 THEN {p} ELSE {})
    BY <1>1, <1>2, <2>1, NextTableKeeps
  <2>. QED
    BY <2>2
<1>6. /\ DOMAIN disk' = DOMAIN disk
      /\ \A q \in DOMAIN disk : q # p => disk'[q] = disk[q]
      /\ disk'[p] = IF created THEN "schema" ELSE disk[p]
  BY <1>1, <1>3 DEF SchemaWritten, Put
<1>7. /\ DOMAIN engines' = DOMAIN engines \cup {p}
      /\ \A q \in DOMAIN engines : engines'[q] = engines[q]
      /\ engines'[p] = IF created THEN "created" ELSE "empty"
  BY <1>1, <1>3 DEF Put
<1>8. /\ DOMAIN listed' = DOMAIN listed \cup {db}
      /\ \A e \in DOMAIN listed : e # db => listed'[e] = listed[e]
      /\ listed'[db] = old \o <<Name>>
  BY <1>1 DEF Put
<1>9. p[1] = db /\ p[2] = job.path
  OBVIOUS
<1>10. old \in Seq(Seq(Letters))
  BY DEF IInv, ListsAreSequences
<1>11. ~several => p[2] = Name
  BY <1>1, <1>9 DEF IInv, PathsAreNames
<1>12. \A e \in Dbs : e # db => ((IF e \in DOMAIN listed' THEN listed'[e] ELSE << >>)
                                  = (IF e \in DOMAIN listed THEN listed[e] ELSE << >>))
  BY <1>8
<1>14. /\ Len(old) = Cardinality(Paths(db))
       /\ ~several => ToSet(old) = {q[2] : q \in Paths(db)}
  BY <1>2 DEF IInv, ListingMatchesEngines
<1>. HIDE DEF p, old
<1>13. /\ listed'[db] \in Seq(Seq(Letters)) /\ listed'[db] # << >>
       /\ Len(listed'[db]) = Len(old) + 1 /\ ToSet(listed'[db]) = ToSet(old) \cup {Name}
  BY <1>2, <1>8, <1>10, OneMore
<1>15. Typed'
  BY <1>1, <1>2, <1>4, <1>5, <1>8 DEF Typed
<1>16. FoldersAreNamed'
  BY <1>6 DEF IInv, FoldersAreNamed
<1>17. EnginesHaveFolders'
  BY <1>3, <1>6, <1>7 DEF IInv, EnginesHaveFolders
<1>18. PromisedTablesAreServed'
  BY <1>5, <1>7 DEF IInv, PromisedTablesAreServed
<1>19. ListsAreSequences'
  BY <1>8, <1>13 DEF IInv, ListsAreSequences
<1>20. ListingMatchesEngines'
  <2>1. \A e \in Dbs : e # db => Paths(e)' = Paths(e)
    BY <1>7, <1>9 DEF Paths
  <2>2. Paths(db)' = Paths(db) \cup {p} /\ p \notin Paths(db)
    <3>1. p \notin Paths(db)
      BY <1>3 DEF Paths
    <3>2. \A q \in DOMAIN engines \cup {p} : q[1] = db <=> (q \in DOMAIN engines /\ q[1] = db) \/ q = p
      BY <1>9
    <3>3. Paths(db)' = {q \in DOMAIN engines \cup {p} : q[1] = db}
      BY <1>7 DEF Paths
    <3>. QED
      BY <3>1, <3>2, <3>3 DEF Paths
  <2>3. IsFiniteSet(Paths(db))
    <3>1. Paths(db) \in SUBSET DOMAIN disk
      BY DEF Paths, IInv, EnginesHaveFolders
    <3>. QED
      BY <3>1, FS_Subset DEF IInv, FoldersAreNamed
  <2>4. Cardinality(Paths(db)') = Cardinality(Paths(db)) + 1
    BY <2>2, <2>3, FS_AddElement
  <2>5. Len(listed'[db]) = Cardinality(Paths(db)')
    BY <1>13, <1>14, <2>4
  <2>6. ~several => ToSet(listed'[db]) = {q[2] : q \in Paths(db)'}
    <3>. SUFFICES ASSUME ~several PROVE ToSet(old) \cup {Name} = {q[2] : q \in Paths(db)'}
      BY <1>13
    <3>1. {q[2] : q \in Paths(db)'} = {q[2] : q \in Paths(db)} \cup {p[2]}
      BY <2>2
    <3>. QED
      BY <1>11, <1>14, <3>1
  <2>7. ASSUME NEW e \in Dbs
        PROVE  LET names == IF e \in DOMAIN listed' THEN listed'[e] ELSE << >>
               IN  /\ Len(names) = Cardinality(Paths(e)')
                   /\ ~several' => ToSet(names) = {q[2] : q \in Paths(e)'}
    <3>1. CASE e = db
      <4>1. db \in DOMAIN listed'
        BY <1>8
      <4>2. ~several' => ToSet(listed'[db]) = {q[2] : q \in Paths(db)'}
        BY <1>1, <2>6
      <4>. QED
        BY <2>5, <3>1, <4>1, <4>2, Zenon
    <3>2. CASE e # db
      BY <1>1, <1>12, <2>1, <3>2 DEF IInv, ListingMatchesEngines
    <3>. QED
      BY <3>1, <3>2
  <2>. QED
    BY <2>7 DEF ListingMatchesEngines
<1>. QED
  BY <1>5, <1>15, <1>16, <1>17, <1>18, <1>19, <1>20 DEF IInv

\* A finite set, listed.
LEMMA ListsTheSet ==
  ASSUME NEW T, IsFiniteSet(T)
  PROVE  /\ SetToSeq(T) \in Seq(T) /\ Len(SetToSeq(T)) = Cardinality(T)
         /\ ToSet(SetToSeq(T)) = T
<1>. DEFINE n == Cardinality(T)
<1>1. n \in Nat /\ ExistsBijection(1 .. n, T)
  BY FS_CardinalityType
<1>2. PICK f \in [1 .. n -> T] : IsInjective(f)
  BY <1>1 DEF ExistsBijection, Bijection, Injection
<1>. DEFINE s == SetToSeq(T)
<1>3. s \in [1 .. n -> T] /\ IsInjective(s)
  BY <1>2 DEF SetToSeq
<1>. HIDE DEF s, n
<1>4. s \in Injection(1 .. n, T)
  BY <1>3 DEF Injection
<1>5. IsFiniteSet(1 .. n) /\ Cardinality(1 .. n) = n
  BY <1>1, FS_Interval
<1>6. s \in Surjection(1 .. n, T)
  BY <1>4, <1>5, FS_Injection DEF n
<1>7. \A t \in T : \E i \in 1 .. n : s[i] = t
  BY <1>6 DEF Surjection
<1>8. s \in Seq(T) /\ Len(s) = n /\ DOMAIN s = 1 .. n
  BY <1>1, <1>3
<1>9. ToSet(s) = T
  BY <1>3, <1>7, <1>8 DEF ToSet
<1>. QED
  BY <1>8, <1>9 DEF s, n

\* The paths of a database are as many as their tables.
LEMMA PathsAndTables ==
  ASSUME NEW P, IsFiniteSet(P), NEW db, \A p \in P : p = <<db, p[2]>>
  PROVE  /\ IsFiniteSet({p[2] : p \in P})
         /\ Cardinality({p[2] : p \in P}) = Cardinality(P)
<1>. DEFINE T == {p[2] : p \in P}
            f == [p \in P |-> p[2]]
<1>1. f \in [P -> T] /\ \A p, q \in P : f[p] = f[q] => p = q
  OBVIOUS
<1>2. \A t \in T : \E p \in P : f[p] = t
  OBVIOUS
<1>3. f \in Bijection(P, T)
  BY <1>1, <1>2 DEF Bijection, Injection, Surjection, IsInjective
<1>4. ExistsBijection(P, T)
  BY <1>3 DEF ExistsBijection
<1>. QED
  BY <1>4, FS_Bijection

\* The server is started again.
LEMMA RestartKeeps ==
  ASSUME IInv, Restart
  PROVE  IInv'
<1>1. /\ engines' = [p \in LoadedPaths |-> "created"]
      /\ listed' = [db \in {p[1] : p \in LoadedPaths} |->
                      SetToSeq({p[2] : p \in {q \in LoadedPaths : q[1] = db}})]
      /\ registered' = Kinds
      /\ rpcs' = [c \in Clients |-> NoRpc]
      /\ job' = NoJob /\ several' = FALSE
      /\ UNCHANGED <<disk, promised>>
  BY DEF Restart
<1>2. NoRpc \in Rpcs /\ NoRpc.stage = "idle" /\ NoJob \in Jobs /\ NoJob.step = "none"
  BY DEF NoRpc, Rpcs, NoJob, Jobs, EmptyName
<1>3. /\ LoadedPaths \subseteq DOMAIN disk /\ IsFiniteSet(DOMAIN disk)
      /\ \A p \in LoadedPaths : /\ p[1] \in Dbs /\ p[2] \in Seq(Letters) /\ p = <<p[1], p[2]>>
                                /\ disk[p] = "schema"
      /\ \A p \in DOMAIN disk : disk[p] = "schema" => p \in LoadedPaths
  BY DEF IInv, FoldersAreNamed, LoadedPaths
<1>4. /\ DOMAIN engines' = LoadedPaths
      /\ \A p \in LoadedPaths : engines'[p] = "created"
      /\ DOMAIN listed' = {p[1] : p \in LoadedPaths}
  BY <1>1
<1>5. Typed'
  BY <1>1, <1>2, <1>3, <1>4 DEF Typed
<1>6. FoldersAreNamed'
  BY <1>1 DEF IInv, FoldersAreNamed
<1>7. EnginesHaveFolders'
  BY <1>1, <1>3, <1>4 DEF EnginesHaveFolders
<1>8. OneCallForEach' /\ RequestsAreWhole' /\ PromisedTablesAnswer'
  BY <1>1, <1>2 DEF OneCallForEach, RequestsAreWhole, PromisedTablesAnswer
<1>9. JobIsReal' /\ PathsAreNames'
  BY <1>1, <1>2 DEF JobIsReal, PathsAreNames
<1>10. PromisedTablesAreServed'
  <2>1. \A p \in promised : p \in LoadedPaths
    BY <1>3 DEF IInv, PromisedTablesAreServed, EnginesHaveFolders
  <2>. QED
    BY <1>1, <1>4, <2>1 DEF PromisedTablesAreServed
<1>11. ASSUME NEW db
       PROVE  /\ Paths(db)' = {q \in LoadedPaths : q[1] = db}
              /\ IsFiniteSet(Paths(db)')
              /\ IsFiniteSet({p[2] : p \in Paths(db)'})
              /\ Cardinality({p[2] : p \in Paths(db)'}) = Cardinality(Paths(db)')
              /\ {p[2] : p \in Paths(db)'} \subseteq Seq(Letters)
  <2>1. Paths(db)' = {q \in LoadedPaths : q[1] = db}
    BY <1>4 DEF Paths
  <2>2. Paths(db)' \in SUBSET DOMAIN disk
    BY <1>3, <2>1
  <2>3. IsFiniteSet(Paths(db)')
    BY <1>3, <2>2, FS_Subset
  <2>4. \A p \in Paths(db)' : p = <<db, p[2]>> /\ p[2] \in Seq(Letters)
    BY <1>3, <2>1
  <2>. HIDE DEF Paths
  <2>. DEFINE P == Paths(db)'
  <2>5. IsFiniteSet(P) /\ \A p \in P : p = <<db, p[2]>>
    BY <2>3, <2>4
  <2>. HIDE DEF P
  <2>6. IsFiniteSet({p[2] : p \in P}) /\ Cardinality({p[2] : p \in P}) = Cardinality(P)
    BY <2>5, PathsAndTables
  <2>. QED
    BY <2>1, <2>3, <2>4, <2>6 DEF P
<1>12. ASSUME NEW db \in DOMAIN listed'
       PROVE  /\ listed'[db] \in Seq(Seq(Letters)) /\ listed'[db] # << >>
              /\ Len(listed'[db]) = Cardinality(Paths(db)')
              /\ ToSet(listed'[db]) = {p[2] : p \in Paths(db)'}
  <2>. DEFINE T == {p[2] : p \in {q \in LoadedPaths : q[1] = db}}
  <2>1. listed'[db] = SetToSeq(T)
    BY <1>1, <1>4, <1>12
  <2>2. T = {p[2] : p \in Paths(db)'}
    BY <1>11
  <2>3. IsFiniteSet(T) /\ Cardinality(T) = Cardinality(Paths(db)') /\ T \subseteq Seq(Letters)
    BY <1>11, <2>2
  <2>4. T # {}
    BY <1>4, <1>12
  <2>. HIDE DEF T
  <2>5. /\ listed'[db] \in Seq(T) /\ Len(listed'[db]) = Cardinality(T)
        /\ ToSet(listed'[db]) = T
    BY <2>1, <2>3, ListsTheSet
  <2>6. listed'[db] \in Seq(Seq(Letters))
    BY <2>3, <2>5, SeqGrows
  <2>7. listed'[db] # << >>
    BY <2>4, <2>5 DEF ToSet
  <2>. QED
    BY <2>2, <2>3, <2>5, <2>6, <2>7
<1>13. ListsAreSequences'
  BY <1>12 DEF ListsAreSequences
<1>14. ListingMatchesEngines'
  <2>1. ASSUME NEW db \in Dbs, db \notin DOMAIN listed'
        PROVE  Paths(db)' = {}
    <3>1. Paths(db)' = {q \in LoadedPaths : q[1] = db}
      BY <1>11
    <3>2. \A q \in LoadedPaths : q[1] # db
      BY <1>4, <2>1
    <3>. QED
      BY <3>1, <3>2
  <2>2. ASSUME NEW db \in Dbs
        PROVE  LET names == IF db \in DOMAIN listed' THEN listed'[db] ELSE << >>
               IN  /\ Len(names) = Cardinality(Paths(db)')
                   /\ ToSet(names) = {q[2] : q \in Paths(db)'}
    <3>1. CASE db \in DOMAIN listed'
      BY <1>12, <3>1, Zenon
    <3>2. CASE db \notin DOMAIN listed'
      <4>1. Len(<< >>) = 0 /\ ToSet(<< >>) = {}
        BY DEF ToSet
      <4>. QED
        BY <2>1, <3>2, <4>1, FS_EmptySet
    <3>. QED
      BY <3>1, <3>2
  <2>. QED
    BY <2>2 DEF ListingMatchesEngines
<1>. QED
  BY <1>5, <1>6, <1>7, <1>8, <1>9, <1>10, <1>13, <1>14 DEF IInv

\* Nothing happens.
LEMMA StutterKeeps ==
  ASSUME IInv, UNCHANGED serviceVars
  PROVE  IInv'
<1>. USE DEF serviceVars
<1>1. Typed' /\ OneCallForEach' /\ RequestsAreWhole' /\ PromisedTablesAnswer'
  BY DEF IInv, Typed, OneCallForEach, RequestsAreWhole, PromisedTablesAnswer
<1>2. JobIsReal' /\ PathsAreNames'
  BY DEF IInv, JobIsReal, PathsAreNames, Job, Name
<1>3. TablesStay /\ (several => several') /\ several' \in BOOLEAN
  BY DEF TablesStay, IInv, Typed
<1>. QED
  BY <1>1, <1>2, <1>3, TablesKeep DEF IInv

\* Every step of the clients, the runtime and the server keeps the invariant.
LEMMA StepHolds ==
  ASSUME IInv, [ServiceNext]_serviceVars
  PROVE  IInv'
<1>1. ASSUME NEW c \in Clients, NEW r \in Requests, Send(c, r[1], r[2], r[3]) PROVE IInv'
  BY <1>1, SendKeeps
<1>2. ASSUME NEW c \in Clients, Accept(c) PROVE IInv'
  BY <1>2, AcceptKeeps
<1>3. ASSUME NEW c \in Clients, Answer(c) PROVE IInv'
  BY <1>3, AnswerKeeps
<1>4. ASSUME NEW c \in Clients, BeginCreate(c) PROVE IInv'
  BY <1>4, BeginCreateKeeps
<1>5. ASSUME NEW c \in Clients, Finished(c) PROVE IInv'
  BY <1>5, FinishedKeeps
<1>6. ASSUME NEW ok \in BOOLEAN, LookupTable(ok) PROVE IInv'
  BY <1>6, LookupTableKeeps
<1>7. ASSUME NEW ok \in BOOLEAN, CreateTable(ok) PROVE IInv'
  BY <1>7, CreateTableKeeps
<1>8. CASE Restart
  BY <1>8, RestartKeeps
<1>9. CASE UNCHANGED serviceVars
  BY <1>9, StutterKeeps
<1>. QED
  BY <1>1, <1>2, <1>3, <1>4, <1>5, <1>6, <1>7, <1>8, <1>9 DEF ServiceNext, Progress

-----------------------------------------------------------------------------
(* The results. *)

\* Folders, engines, lists, requests and the job agree at every step of the
\* server, in whatever step it goes down.
THEOREM InvariantHolds == ServiceSpec => []IInv
<1>1. IInv /\ [ServiceNext]_serviceVars => IInv'
  BY StepHolds
<1>. QED
  BY <1>1, InitHolds, PTL DEF ServiceSpec

\* One request of a kind is in hand, or one call waits for the next.
LEMMA CallsAreCounted == IInv => EveryKindIsServed
<1>. SUFFICES ASSUME IInv, NEW kind \in Kinds
              PROVE  Cardinality({c \in Clients : rpcs[c].kind = kind
                                                  /\ rpcs[c].stage = "accepted"})
                       + (IF kind \in registered THEN 1 ELSE 0) = 1
  BY DEF EveryKindIsServed
<1>. DEFINE A == {c \in Clients : rpcs[c].kind = kind /\ rpcs[c].stage = "accepted"}
<1>1. CASE kind \in registered
  <2>1. A = {}
    BY <1>1 DEF IInv, OneCallForEach
  <2>. HIDE DEF A
  <2>2. Cardinality(A) = 0
    BY <2>1, FS_EmptySet
  <2>. QED
    BY <1>1, <2>2 DEF A
<1>2. CASE kind \notin registered
  <2>1. PICK c \in Clients : rpcs[c].stage = "accepted" /\ rpcs[c].kind = kind
    BY <1>2 DEF IInv, OneCallForEach
  <2>2. A = {c}
    BY <2>1 DEF IInv, OneCallForEach
  <2>. HIDE DEF A
  <2>3. Cardinality(A) = 1
    BY <2>2, FS_Singleton
  <2>. QED
    BY <1>2, <2>3 DEF A
<1>. QED
  BY <1>1, <1>2

\* The server has one call per kind of request, a table whose Create was
\* answered with OK is served ever after, also after a crash, requests that
\* were sent since are answered with it, and a database lists its engines.
THEOREM ServesItsTables == ServiceSpec => []ServiceInv
<1>1. IInv => ServiceInv
  <2>1. IInv => ServiceTypeOK
    <3>1. ASSUME IInv PROVE job.step = "none" \/ job.step \in {"lookup", "create"}
      BY <3>1 DEF IInv, Typed, Jobs
    <3>2. ASSUME IInv, NEW c \in Clients
          PROVE  rpcs[c].stage \in {"idle", "sent", "accepted", "processing", "finishing"}
      BY <3>2 DEF IInv, Typed, Rpcs
    <3>. QED
      BY <3>1, <3>2 DEF ServiceTypeOK, IInv, Typed, EnginesHaveFolders, ListsAreSequences,
                        JobIsReal
  <2>. QED
    BY <2>1, CallsAreCounted DEF ServiceInv, IInv
<1>. QED
  BY <1>1, InvariantHolds, PTL

\* A start serves every table that was created before: the schema is written
\* before the engine counts as created, and every folder with one is taken.
THEOREM RestartsKeepTables == ServiceSpec => RestartKeepsTables
<1>1. IInv /\ [ServiceNext]_serviceVars =>
        [restarts' # restarts =>
           \A p \in DOMAIN engines : engines[p] = "created" => p \in DOMAIN engines']_serviceVars
  <2>. SUFFICES ASSUME IInv, ServiceNext, restarts' # restarts,
                       NEW p \in DOMAIN engines, engines[p] = "created"
                PROVE  p \in DOMAIN engines'
    BY DEF serviceVars
  <2>1. Restart
    BY DEF ServiceNext, Progress, Send, Accept, Answer, BeginCreate, Finished, LookupTable,
           CreateTable
  <2>2. DOMAIN engines' = LoadedPaths
    BY <2>1 DEF Restart
  <2>. QED
    BY <2>2 DEF IInv, EnginesHaveFolders, LoadedPaths
<1>. QED
  BY <1>1, InvariantHolds, PTL DEF ServiceSpec, RestartKeepsTables

-----------------------------------------------------------------------------
(* The server as its callers see it.                                        *)

\* All strings: the provers do not know that a literal is one.
FieldNames == STRING \cup {Key, "extra"}

\* The fields of a table or a document, by their types.
FieldTypes == UNION {[names -> Types] : names \in SUBSET FieldNames}

\* A table has fields once it works.
TableTyped ==
  /\ table \in [engine : {"none", "unusable", "usable"}, fields : FieldTypes]
  /\ table.engine # "usable" => table.fields = << >>

\* The second has the fields of the first, and of the same types.
Within(some, all) == \A f \in DOMAIN some : f \in DOMAIN all /\ all[f] = some[f]
WithinButKey(some, all) ==
  \A f \in DOMAIN some \ {Key} : f \in DOMAIN all /\ all[f] = some[f]

\* Whoever calls, a table that works goes on to, with the fields it had.
Grows(before, after) ==
  /\ Within(before.fields, after.fields)
  /\ before.engine = "usable" => after.engine = "usable"
  /\ before.engine # "none" => after.engine # "none"

\* What a record of fields is.
LEMMA FieldTypesAre ==
  /\ << >> \in FieldTypes
  /\ \A t \in FieldTypes : /\ DOMAIN t \subseteq FieldNames
                           /\ \A f \in DOMAIN t : t[f] \in Types
                           /\ Range(t) \subseteq Types
  /\ \A names \in SUBSET FieldNames : [names -> Types] \subseteq FieldTypes
<1>1. << >> \in FieldTypes
  <2>1. << >> \in [{} -> Types] /\ {} \in SUBSET FieldNames
    OBVIOUS
  <2>. QED
    BY <2>1 DEF FieldTypes
<1>2. ASSUME NEW t \in FieldTypes
      PROVE  DOMAIN t \subseteq FieldNames /\ \A f \in DOMAIN t : t[f] \in Types
  <2>1. PICK names \in SUBSET FieldNames : t \in [names -> Types]
    BY DEF FieldTypes
  <2>. QED
    BY <2>1
<1>3. \A t \in FieldTypes : Range(t) \subseteq Types
  BY <1>2 DEF Range
<1>4. \A names \in SUBSET FieldNames : [names -> Types] \subseteq FieldTypes
  BY DEF FieldTypes
<1>. QED
  BY <1>1, <1>2, <1>3, <1>4

\* One field more.
LEMMA IncludingIs ==
  ASSUME NEW t \in FieldTypes, NEW f \in FieldNames, NEW type \in Types
  PROVE  /\ Including(t, f, type) \in FieldTypes
         /\ DOMAIN Including(t, f, type) = DOMAIN t \cup {f}
         /\ Including(t, f, type)[f] = type
         /\ \A g \in DOMAIN t : g # f => Including(t, f, type)[g] = t[g]
<1>1. DOMAIN t \subseteq FieldNames /\ \A g \in DOMAIN t : t[g] \in Types
  BY FieldTypesAre
<1>2. PICK names : names = DOMAIN t \cup {f}
  OBVIOUS
<1>3. Including(t, f, type) = [g \in names |-> IF g = f THEN type ELSE t[g]]
  BY <1>2 DEF Including
<1>4. Including(t, f, type) \in [names -> Types]
  BY <1>1, <1>2, <1>3
<1>5. names \in SUBSET FieldNames
  BY <1>1, <1>2
<1>. QED
  BY <1>2, <1>3, <1>4, <1>5, FieldTypesAre

\* What the record has then.
LEMMA IncludingHas ==
  ASSUME NEW t \in FieldTypes, NEW f \in FieldNames, NEW type \in Types
  PROVE  /\ DOMAIN Including(t, f, type) = DOMAIN t \cup {f}
         /\ Including(t, f, type)[f] = type
         /\ \A g \in DOMAIN t : g # f => Including(t, f, type)[g] = t[g]
  BY IncludingIs

\* Create makes a table where there is none.
LEMMA CreateGrows ==
  ASSUME TableTyped, NEW fields \in FieldTypes, NEW twice, NEW reply,
         CreateCall(fields, twice, reply)
  PROVE  /\ TableTyped' /\ Grows(table, table') /\ taken' = taken
         /\ reply \in {"OK", "TABLE_EXIST", "INTERNAL_ERROR", "lost"}
         /\ reply = "OK" => table' = Usable(fields)
<1>. USE DEF TableTyped, CreateCall, Grows, Within, Usable, NoTable, Unusable
<1>1. << >> \in FieldTypes /\ DOMAIN << >> = {}
  BY FieldTypesAre
<1>2. CASE UNCHANGED table /\ reply \in {"TABLE_EXIST", "lost"}
  BY <1>2
<1>3. CASE table.engine = "none" /\ table' = Usable(fields) /\ reply \in {"OK", "lost"}
  BY <1>1, <1>3
<1>4. CASE table.engine = "none" /\ table' \in {NoTable, Unusable} /\ reply \in {"INTERNAL_ERROR", "lost"}
  BY <1>1, <1>4
<1>. QED
  BY <1>2, <1>3, <1>4

\* AddFields adds one field at most.
LEMMA AddFieldsGrows ==
  ASSUME TableTyped, NEW f \in FieldNames, NEW type \in Types, NEW reply,
         AddFieldsCall(f, type, reply)
  PROVE  /\ TableTyped' /\ Grows(table, table') /\ taken' = taken
         /\ reply = "OK" => /\ table.engine = "usable"
                            /\ f \in DOMAIN table'.fields
                            /\ f \notin DOMAIN table.fields => table'.fields[f] = type
<1>0. ASSUME NEW t \in FieldTypes
      PROVE  /\ Including(t, f, type) \in FieldTypes
             /\ DOMAIN Including(t, f, type) = DOMAIN t \cup {f}
             /\ Including(t, f, type)[f] = type
             /\ \A g \in DOMAIN t : g # f => Including(t, f, type)[g] = t[g]
  BY IncludingIs
<1>. USE DEF TableTyped, AddFieldsCall, Grows, Within, Usable
<1>1. CASE UNCHANGED table /\ reply \in {"INTERNAL_ERROR", "lost"}
  BY <1>1
<1>2. CASE /\ table.engine = "usable"
           /\ table' = IF f \in DOMAIN table.fields THEN table ELSE Usable(Including(table.fields, f, type))
  <2>1. table.fields \in FieldTypes
    OBVIOUS
  <2>. QED
    BY <1>0, <1>2, <2>1
<1>. QED
  BY <1>1, <1>2

\* CheckTable changes nothing and finds a table that works.
LEMMA CheckFinds ==
  ASSUME TableTyped, NEW reply, CheckTableCall(reply)
  PROVE  /\ TableTyped' /\ Grows(table, table') /\ taken' = taken /\ table' = table
         /\ reply = "there" => table.engine = "usable"
         /\ reply \in {"there", "missing", "lost"}
  BY DEF TableTyped, CheckTableCall, Grows, Within

\* AddOrUpdate takes documents or not.
LEMMA AddTakes ==
  ASSUME TableTyped, NEW docs, NEW reply, AddOrUpdateCall(docs, reply)
  PROVE  /\ TableTyped' /\ Grows(table, table')
         /\ taken' = taken \/ taken' = taken \cup docs
  BY DEF TableTyped, AddOrUpdateCall, Grows, Within

\* What fits goes on to.
LEMMA WithinGrows ==
  ASSUME NEW t, NEW before, NEW after, Grows(before, after)
  PROVE  /\ Within(t, before.fields) => Within(t, after.fields)
         /\ WithinButKey(t, before.fields) => WithinButKey(t, after.fields)
  BY DEF Grows, Within, WithinButKey

-----------------------------------------------------------------------------
(* The remote clients: what each knows and what it is doing.                *)

\* Documents name a field once; those in work may have a key that was made.
NamesOnce(doc) == \A m, n \in DOMAIN doc : doc[m][1] = doc[n][1] => m = n
GivenDocs == {doc \in Seq(FieldNames \X PythonKinds) : NamesOnce(doc)}
KeyedDocs == {doc \in Seq(FieldNames \X (PythonKinds \cup {"made"})) : NamesOnce(doc)}

RemoteStates ==
  [known : {"no", "learning", "yes"}, fields : FieldTypes, names : Seq(FieldNames),
   lists : Seq(FieldNames), at : {"idle", "check", "fields", "create", "extras", "send"},
   call : {"none", "add", "search"}, docs : Seq(GivenDocs), left : KeyedDocs,
   doc : FieldTypes, out : SUBSET FieldTypes, later : Nat, trouble : BOOLEAN]

\* What a client is at goes with what it knows.
Standing(one) ==
  /\ one.known = "no" => /\ one.at \in {"idle", "check"}
                         /\ one.fields = << >> /\ one.names = << >> /\ one.lists = << >>
  /\ one.at = "check" => one.known = "no"
  /\ one.at \in {"idle", "check"} => one.doc = << >> /\ one.out = {}
  /\ one.at \in {"create", "extras"} => one.known = "learning"
  /\ Range(one.names) \cup Range(one.lists) \subseteq DOMAIN one.fields
  /\ \A docTypes \in one.out : Key \in DOMAIN docTypes
  /\ one.later <= Len(one.lists)

\* It knows a table, or adds fields to the one it created, if that works.
Works(one, tab) == one.known = "yes" \/ one.at = "extras" => tab.engine = "usable"

\* While it learns a table without trouble it is at its first document: the
\* fields are those noted, each once, and the rest of the document is new.
Learning(one) ==
  one.known = "learning" =>
    /\ one.out = {}
    /\ DOMAIN one.fields = Range(one.names) \cup Range(one.lists)
    /\ ~Twice(one.names)
    /\ \A f \in Range(one.lists) : one.fields[f] = "MULTI_STRING"
    /\ one.at = "fields" => \A n \in DOMAIN one.left : one.left[n][1] \notin DOMAIN one.fields
    /\ one.at \in {"idle", "send"} => one.names = << >> /\ one.lists = << >> /\ one.doc = << >>

\* Without trouble what it knows is what the server has, but for the lists that
\* it has still to add, and the documents fit what it knows.
Agreed(one, tab) ==
  /\ one.known = "yes" => Within(one.fields, tab.fields)
  /\ \A docTypes \in one.out : WithinButKey(docTypes, one.fields)
  /\ WithinButKey(one.doc, one.fields)
  /\ one.at = "extras" =>
       /\ \A f \in Range(one.names) : f \in DOMAIN tab.fields /\ tab.fields[f] = one.fields[f]
       /\ \A n \in 1 .. Len(one.lists) - one.later :
            one.lists[n] \in DOMAIN tab.fields /\ tab.fields[one.lists[n]] = "MULTI_STRING"

Informed(one, tab) ==
  /\ Standing(one)
  /\ Works(one, tab)
  /\ ~one.trouble => Learning(one) /\ Agreed(one, tab)

DocsFit(docs, tab) ==
  \A d \in docs : d.by \in Remotes /\ ~d.clash => WithinButKey(d.types, tab.fields)

RemoteIInv ==
  /\ TableTyped
  /\ remote \in [Remotes -> RemoteStates]
  /\ \A c \in Remotes : Informed(remote[c], table)
  /\ DocsFit(taken, table)
  /\ calls \in 0 .. MaxCalls

-----------------------------------------------------------------------------

\* What is assumed of the documents.
LEMMA RemoteBounds == MaxCalls \in Nat /\ RemoteDocs \subseteq Seq(GivenDocs)
<1>1. ASSUME NEW docs \in RemoteDocs PROVE docs \in Seq(GivenDocs)
  <2>1. docs \in Seq(Seq(FieldNames \X PythonKinds))
    <3>1. /\ docs \in Seq(Seq(STRING \X PythonKinds))
          /\ STRING \X PythonKinds \subseteq FieldNames \X PythonKinds
      BY RemoteAssumption DEF FieldNames
    <3>2. Seq(STRING \X PythonKinds) \subseteq Seq(FieldNames \X PythonKinds)
      BY <3>1, SeqGrows
    <3>. QED
      BY <3>1, <3>2, SeqGrows
  <2>2. /\ Len(docs) \in Nat /\ docs = [n \in 1 .. Len(docs) |-> docs[n]]
        /\ DOMAIN docs = 1 .. Len(docs)
        /\ \A n \in 1 .. Len(docs) : docs[n] \in Seq(FieldNames \X PythonKinds)
    BY <2>1
  <2>3. ASSUME NEW n \in 1 .. Len(docs) PROVE docs[n] \in GivenDocs
    <3>1. docs[n] \in Range(docs)
      BY <2>2 DEF Range
    <3>2. NamesOnce(docs[n])
      BY <3>1, RemoteAssumption DEF NamesOnce
    <3>. QED
      BY <2>2, <3>2 DEF GivenDocs
  <2>4. docs \in [1 .. Len(docs) -> GivenDocs]
    BY <2>2, <2>3
  <2>. QED
    BY <2>2, <2>4, SeqDef
<1>. QED
  BY <1>1, RemoteAssumption

\* The rest of a document.
LEMMA RestOfDoc ==
  ASSUME NEW doc \in KeyedDocs, doc # << >>
  PROVE  /\ Tail(doc) \in KeyedDocs
         /\ Head(doc)[1] \in FieldNames /\ Head(doc)[2] \in PythonKinds \cup {"made"}
         /\ \A n \in DOMAIN Tail(doc) : /\ Tail(doc)[n][1] # Head(doc)[1]
                                        /\ \E m \in DOMAIN doc : Tail(doc)[n] = doc[m]
         /\ 1 \in DOMAIN doc /\ Head(doc) = doc[1]
<1>1. doc \in Seq(FieldNames \X (PythonKinds \cup {"made"})) /\ NamesOnce(doc)
  BY DEF KeyedDocs
<1>2. PICK S : S = FieldNames \X (PythonKinds \cup {"made"})
  OBVIOUS
<1>3. doc \in Seq(S)
  BY <1>1, <1>2
<1>4. /\ Tail(doc) \in Seq(S) /\ Len(doc) \in Nat \ {0} /\ Len(Tail(doc)) = Len(doc) - 1
      /\ DOMAIN doc = 1 .. Len(doc) /\ DOMAIN Tail(doc) = 1 .. Len(doc) - 1
      /\ Head(doc) = doc[1] /\ Head(doc) \in S
      /\ \A n \in 1 .. Len(doc) - 1 : Tail(doc)[n] = doc[n + 1]
  BY <1>3
<1>5. \A n \in DOMAIN Tail(doc) : n + 1 \in DOMAIN doc /\ 1 \in DOMAIN doc /\ n + 1 # 1
  BY <1>4
<1>6. \A n \in DOMAIN Tail(doc) : Tail(doc)[n][1] # Head(doc)[1]
  BY <1>1, <1>4, <1>5 DEF NamesOnce
<1>7. NamesOnce(Tail(doc))
  BY <1>1, <1>4 DEF NamesOnce
<1>8. Tail(doc) \in KeyedDocs
  BY <1>2, <1>4, <1>7 DEF KeyedDocs
<1>9. Head(doc)[1] \in FieldNames /\ Head(doc)[2] \in PythonKinds \cup {"made"}
  BY <1>2, <1>4
<1>. QED
  BY <1>4, <1>5, <1>6, <1>8, <1>9

\* A document with its key, or one made for it.
LEMMA KeyedDocIs ==
  ASSUME NEW doc \in GivenDocs
  PROVE  WithKey(doc) \in KeyedDocs
<1>1. doc \in Seq(FieldNames \X PythonKinds) /\ NamesOnce(doc)
  BY DEF GivenDocs
<1>2. PICK S : S = FieldNames \X (PythonKinds \cup {"made"})
  OBVIOUS
<1>3. /\ Len(doc) \in Nat /\ DOMAIN doc = 1 .. Len(doc)
      /\ doc = [n \in 1 .. Len(doc) |-> doc[n]]
      /\ \A n \in 1 .. Len(doc) : doc[n] \in S
  BY <1>1, <1>2
<1>4. doc \in [1 .. Len(doc) -> S]
  BY <1>3
<1>5. doc \in Seq(S)
  BY <1>3, <1>4, SeqDef
<1>6. CASE \E n \in DOMAIN doc : doc[n][1] = Key
  BY <1>1, <1>2, <1>5, <1>6 DEF WithKey, KeyedDocs
<1>7. CASE ~\E n \in DOMAIN doc : doc[n][1] = Key
  <2>1. PICK e : e = <<Key, "made">>
    OBVIOUS
  <2>2. e \in S /\ e[1] = Key
    <3>1. Key \in FieldNames
      BY DEF FieldNames
    <3>. QED
      BY <1>2, <2>1, <3>1
  <2>3. /\ Append(doc, e) \in Seq(S) /\ DOMAIN Append(doc, e) = 1 .. Len(doc) + 1
        /\ Append(doc, e)[Len(doc) + 1] = e
        /\ \A n \in 1 .. Len(doc) : Append(doc, e)[n] = doc[n]
    BY <1>5, <2>2
  <2>4. ASSUME NEW n \in 1 .. Len(doc) PROVE Append(doc, e)[n][1] # Key
    BY <1>3, <1>7, <2>3
  <2>5. \A n \in DOMAIN Append(doc, e) : n \in 1 .. Len(doc) \/ n = Len(doc) + 1
    BY <1>3, <2>3
  <2>6. NamesOnce(Append(doc, e))
    <3>1. \A m, n \in 1 .. Len(doc) : doc[m][1] = doc[n][1] => m = n
      BY <1>1, <1>3 DEF NamesOnce
    <3>. QED
      BY <2>2, <2>3, <2>4, <2>5, <3>1 DEF NamesOnce
  <2>. QED
    BY <1>2, <1>7, <2>1, <2>3, <2>6 DEF WithKey, KeyedDocs
<1>. QED
  BY <1>6, <1>7

\* One name more.
LEMMA OneNameMore ==
  ASSUME NEW s \in Seq(FieldNames), NEW f \in FieldNames
  PROVE  /\ Append(s, f) \in Seq(FieldNames)
         /\ Range(Append(s, f)) = Range(s) \cup {f}
         /\ ~Twice(s) /\ f \notin Range(s) => ~Twice(Append(s, f))
<1>1. /\ Append(s, f) \in Seq(FieldNames) /\ Len(s) \in Nat /\ DOMAIN s = 1 .. Len(s)
      /\ DOMAIN Append(s, f) = 1 .. Len(s) + 1
      /\ Append(s, f)[Len(s) + 1] = f
      /\ \A n \in 1 .. Len(s) : Append(s, f)[n] = s[n]
  OBVIOUS
<1>2. \A n : n \in 1 .. Len(s) + 1 <=> n \in 1 .. Len(s) \/ n = Len(s) + 1
  BY <1>1
<1>3. Range(Append(s, f)) = Range(s) \cup {f}
  BY <1>1, <1>2 DEF Range
<1>4. ASSUME ~Twice(s), f \notin Range(s) PROVE ~Twice(Append(s, f))
  BY <1>1, <1>2, <1>4 DEF Twice, Range
<1>. QED
  BY <1>1, <1>3, <1>4

\* A table without fields.
LEMMA NoFields ==
  ASSUME NEW t \in FieldTypes, DOMAIN t = {}
  PROVE  t = << >>
<1>1. PICK names \in SUBSET FieldNames : t \in [names -> Types]
  BY DEF FieldTypes
<1>2. t = [f \in {} |-> t[f]]
  BY <1>1
<1>. QED
  BY <1>2

\* The first state.
LEMMA RemoteBegins == ServerInit /\ RemoteInit => RemoteIInv
<1> SUFFICES ASSUME ServerInit, RemoteInit PROVE RemoteIInv
  OBVIOUS
<1>1. TableTyped
  BY FieldTypesAre DEF ServerInit, NoTable, TableTyped
<1>2. << >> \in FieldTypes /\ << >> \in Seq(FieldNames) /\ << >> \in Seq(GivenDocs)
  BY FieldTypesAre
<1>3. << >> \in KeyedDocs
  <2>1. << >> \in Seq(FieldNames \X (PythonKinds \cup {"made"})) /\ NamesOnce(<< >>)
    BY DEF NamesOnce
  <2>. QED
    BY <2>1 DEF KeyedDocs
<1>4. NewRemote \in RemoteStates
  BY <1>2, <1>3 DEF NewRemote, RemoteStates
<1>5. Range(<< >>) = {} /\ DOMAIN << >> = {} /\ Len(<< >>) = 0
  BY DEF Range
<1>6. Informed(NewRemote, table)
  BY <1>5 DEF Informed, Standing, Works, Learning, Agreed, NewRemote, WithinButKey
<1>. QED
  BY <1>1, <1>4, <1>6, RemoteBounds DEF RemoteInit, ServerInit, RemoteIInv, DocsFit

-----------------------------------------------------------------------------
(* The next document, the end and the beginning of a call.                  *)

\* A client that begins, or has done with a document.
Ready(one, tab) ==
  /\ one.known \in {"learning", "yes"}
  /\ Range(one.names) \cup Range(one.lists) \subseteq DOMAIN one.fields
  /\ \A docTypes \in one.out : Key \in DOMAIN docTypes
  /\ one.known = "yes" => tab.engine = "usable"
  /\ ~one.trouble =>
       /\ one.known = "yes" => Within(one.fields, tab.fields)
       /\ \A docTypes \in one.out : WithinButKey(docTypes, one.fields)
       /\ WithinButKey(one.doc, one.fields)
       /\ one.known = "learning" =>
            /\ one.out = {} /\ one.fields = << >> /\ one.names = << >> /\ one.lists = << >>
            /\ one.doc = << >>

\* The next document begins, or the documents are sent.
LEMMA NextDocKeeps ==
  ASSUME NEW one \in RemoteStates, NEW tab, Ready(one, tab)
  PROVE  NextDoc(one) \in RemoteStates /\ Informed(NextDoc(one), tab)
<1>1. PICK out : out = one.out \cup SentIfKeyed(one)
  OBVIOUS
<1>2. /\ out \in SUBSET FieldTypes /\ \A docTypes \in out : Key \in DOMAIN docTypes
      /\ DOMAIN one.doc = {} => out = one.out
      /\ \A docTypes \in out : docTypes \in one.out \/ docTypes = one.doc
  BY <1>1 DEF SentIfKeyed, Ready, RemoteStates
<1>3. PICK done : done = [one EXCEPT !.doc = << >>, !.later = 0, !.out = out]
  OBVIOUS
<1>4. << >> \in FieldTypes /\ << >> \in KeyedDocs /\ DOMAIN << >> = {} /\ Range(<< >>) = {}
  <2>1. << >> \in Seq(FieldNames \X (PythonKinds \cup {"made"})) /\ NamesOnce(<< >>)
    BY DEF NamesOnce
  <2>. QED
    BY <2>1, FieldTypesAre DEF KeyedDocs, Range
<1>5. /\ done \in RemoteStates
      /\ done.doc = << >> /\ done.later = 0 /\ done.out = out
      /\ done.known = one.known /\ done.fields = one.fields /\ done.names = one.names
      /\ done.lists = one.lists /\ done.docs = one.docs /\ done.trouble = one.trouble
  BY <1>2, <1>3, <1>4 DEF RemoteStates
<1>6. ASSUME ~one.trouble
      PROVE  /\ \A docTypes \in out : WithinButKey(docTypes, one.fields)
             /\ one.known = "learning" => out = {}
  BY <1>2, <1>4, <1>6 DEF Ready
<1>7. Len(one.lists) \in Nat
  BY DEF RemoteStates
<1>8. CASE one.docs = << >>
  <2>1. PICK new : new = [done EXCEPT !.at = "send", !.left = << >>]
    OBVIOUS
  <2>2. NextDoc(one) = new
    BY <1>1, <1>3, <1>8, <2>1 DEF NextDoc
  <2>3. /\ new \in RemoteStates /\ new.at = "send" /\ new.doc = << >> /\ new.later = 0
        /\ new.out = out /\ new.known = one.known /\ new.fields = one.fields
        /\ new.names = one.names /\ new.lists = one.lists /\ new.trouble = one.trouble
    BY <1>4, <1>5, <2>1 DEF RemoteStates
  <2>4. Standing(new) /\ Works(new, tab)
    BY <1>2, <1>7, <2>3 DEF Standing, Works, Ready
  <2>5. ASSUME ~one.trouble PROVE Learning(new) /\ Agreed(new, tab)
    BY <1>4, <1>6, <2>3, <2>5 DEF Learning, Agreed, Ready, Twice, WithinButKey
  <2>. QED
    BY <2>2, <2>3, <2>4, <2>5 DEF Informed
<1>9. CASE one.docs # << >>
  <2>1. /\ Tail(one.docs) \in Seq(GivenDocs) /\ Head(one.docs) \in GivenDocs
    BY <1>9 DEF RemoteStates
  <2>2. WithKey(Head(one.docs)) \in KeyedDocs
    BY <2>1, KeyedDocIs
  <2>3. PICK new : new = [done EXCEPT !.at = "fields", !.docs = Tail(done.docs),
                                      !.left = WithKey(Head(one.docs))]
    OBVIOUS
  <2>4. NextDoc(one) = new
    BY <1>1, <1>3, <1>9, <2>3 DEF NextDoc
  <2>5. /\ new \in RemoteStates /\ new.at = "fields" /\ new.doc = << >> /\ new.later = 0
        /\ new.out = out /\ new.known = one.known /\ new.fields = one.fields
        /\ new.names = one.names /\ new.lists = one.lists /\ new.trouble = one.trouble
    BY <1>5, <2>1, <2>2, <2>3 DEF RemoteStates
  <2>6. Standing(new) /\ Works(new, tab)
    BY <1>2, <1>7, <2>5 DEF Standing, Works, Ready
  <2>7. ASSUME ~one.trouble PROVE Learning(new) /\ Agreed(new, tab)
    BY <1>4, <1>6, <2>5, <2>7 DEF Learning, Agreed, Ready, Twice, WithinButKey
  <2>. QED
    BY <2>4, <2>5, <2>6, <2>7 DEF Informed
<1>. QED
  BY <1>8, <1>9

\* A call returns with trouble, or before it has learnt anything.
LEMMA ReturnKeeps ==
  ASSUME NEW one \in RemoteStates, NEW tab,
         one.known = "no" => one.fields = << >> /\ one.names = << >> /\ one.lists = << >>,
         Range(one.names) \cup Range(one.lists) \subseteq DOMAIN one.fields,
         one.known = "yes" => tab.engine = "usable",
         ~one.trouble =>
           /\ one.known = "yes" => Within(one.fields, tab.fields)
           /\ one.known = "learning" => one.fields = << >> /\ one.names = << >> /\ one.lists = << >>
  PROVE  Return(one) \in RemoteStates /\ Informed(Return(one), tab)
<1>1. PICK new : new = Return(one)
  OBVIOUS
<1>2. << >> \in FieldTypes /\ << >> \in KeyedDocs /\ DOMAIN << >> = {} /\ Range(<< >>) = {}
  <2>1. << >> \in Seq(FieldNames \X (PythonKinds \cup {"made"})) /\ NamesOnce(<< >>)
    BY DEF NamesOnce
  <2>. QED
    BY <2>1, FieldTypesAre DEF KeyedDocs, Range
<1>3. << >> \in Seq(GivenDocs)
  OBVIOUS
<1>4. /\ new \in RemoteStates /\ new.at = "idle" /\ new.doc = << >> /\ new.later = 0
      /\ new.out = {} /\ new.known = one.known /\ new.fields = one.fields
      /\ new.names = one.names /\ new.lists = one.lists /\ new.trouble = one.trouble
  BY <1>1, <1>2, <1>3 DEF Return, RemoteStates
<1>5. Len(one.lists) \in Nat
  BY DEF RemoteStates
<1>6. Standing(new) /\ Works(new, tab)
  BY <1>4, <1>5 DEF Standing, Works
<1>7. ASSUME ~one.trouble PROVE Learning(new) /\ Agreed(new, tab)
  BY <1>2, <1>4, <1>7 DEF Learning, Agreed, Twice, WithinButKey
<1>. QED
  BY <1>1, <1>4, <1>6, <1>7 DEF Informed

\* A call begins on a table that is known or to be learnt.
LEMMA BeginKeeps ==
  ASSUME NEW one \in RemoteStates, NEW tab, Ready(one, tab)
  PROVE  Begin(one) \in RemoteStates /\ Informed(Begin(one), tab)
<1>1. CASE one.call = "search"
  <2>1. Return(one) \in RemoteStates /\ Informed(Return(one), tab)
    BY ReturnKeeps DEF Ready
  <2>. QED
    BY <1>1, <2>1 DEF Begin
<1>2. CASE one.call # "search"
  BY <1>2, NextDocKeeps DEF Begin
<1>. QED
  BY <1>1, <1>2

\* A step of one client goes with what the others know, and with what was sent.
LEMMA OneMoves ==
  ASSUME RemoteIInv, NEW c \in Remotes, NEW new \in RemoteStates,
         remote' = [remote EXCEPT ![c] = new], Informed(new, table'),
         TableTyped', Grows(table, table'),
         DocsFit(taken, table') => DocsFit(taken', table'), calls' \in 0 .. MaxCalls
  PROVE  RemoteIInv'
<1>1. /\ remote' \in [Remotes -> RemoteStates] /\ remote'[c] = new
      /\ \A d \in Remotes : d # c => remote'[d] = remote[d]
  BY DEF RemoteIInv
<1>2. ASSUME NEW d \in Remotes, d # c PROVE Informed(remote[d], table')
  <2>1. Informed(remote[d], table)
    BY DEF RemoteIInv
  <2>2. PICK one : one = remote[d]
    OBVIOUS
  <2>3. Works(one, table')
    BY <2>1, <2>2 DEF Informed, Works, Grows
  <2>4. Agreed(one, table) => Agreed(one, table')
    <3>1. Within(one.fields, table.fields) => Within(one.fields, table'.fields)
      BY WithinGrows
    <3>. QED
      BY <3>1, Zenon DEF Agreed, Grows, Within
  <2>. QED
    BY <2>1, <2>2, <2>3, <2>4 DEF Informed
<1>3. DocsFit(taken, table')
  BY WithinGrows DEF RemoteIInv, DocsFit
<1>. QED
  BY <1>1, <1>2, <1>3 DEF RemoteIInv

-----------------------------------------------------------------------------
(* The steps of a client. *)

\* What a client has.
LEMMA RemoteHas ==
  ASSUME RemoteIInv, NEW c \in Remotes
  PROVE  /\ remote[c] \in RemoteStates /\ Informed(remote[c], table) /\ TableTyped
         /\ DOMAIN << >> = {} /\ Range(<< >>) = {}
  BY DEF RemoteIInv, Range

\* A call comes in.
LEMMA RemoteCallKeeps ==
  ASSUME RemoteIInv, NEW c \in Remotes, NEW call \in {"search", "add"},
         NEW docs \in Seq(GivenDocs), RemoteCall(c, call, docs)
  PROVE  RemoteIInv'
<1>1. PICK one : one = [remote[c] EXCEPT !.call = call, !.docs = docs]
  OBVIOUS
<1>2. PICK old : old = remote[c]
  OBVIOUS
<1>3. /\ old \in RemoteStates /\ Informed(old, table) /\ TableTyped
      /\ DOMAIN << >> = {} /\ Range(<< >>) = {}
  BY <1>2, RemoteHas
<1>4. /\ one \in RemoteStates /\ one.at = old.at /\ one.doc = old.doc /\ one.later = old.later
      /\ one.out = old.out /\ one.known = old.known /\ one.fields = old.fields
      /\ one.names = old.names /\ one.lists = old.lists /\ one.trouble = old.trouble
  BY <1>1, <1>2, <1>3 DEF RemoteStates
<1>5. old.at = "idle" /\ UNCHANGED <<table, taken, losses>> /\ calls' \in 0 .. MaxCalls
  BY <1>2, RemoteBounds DEF RemoteCall, RemoteIInv, tableVars
<1>6. TableTyped' /\ Grows(table, table')
  BY <1>3, <1>5 DEF TableTyped, Grows, Within
<1>7. PICK new : new = IF one.known = "no" THEN [one EXCEPT !.at = "check"] ELSE Begin(one)
  OBVIOUS
<1>8. remote' = [remote EXCEPT ![c] = new]
  BY <1>1, <1>2, <1>4, <1>7 DEF RemoteCall, Turn
<1>9. new \in RemoteStates /\ Informed(new, table)
  <2>1. CASE one.known = "no"
    <3>1. /\ new \in RemoteStates /\ new.at = "check" /\ new.doc = old.doc /\ new.later = old.later
          /\ new.out = old.out /\ new.known = "no" /\ new.fields = old.fields
          /\ new.names = old.names /\ new.lists = old.lists /\ new.trouble = old.trouble
      BY <1>4, <1>7, <2>1 DEF RemoteStates
    <3>2. Standing(new) /\ Works(new, table)
      BY <1>3, <1>4, <1>5, <2>1, <3>1 DEF Informed, Standing, Works
    <3>3. Learning(new)
      BY <3>1 DEF Learning
    <3>4. ~old.trouble => Agreed(new, table)
      BY <1>3, <3>1 DEF Informed, Agreed
    <3>. QED
      BY <3>1, <3>2, <3>3, <3>4 DEF Informed
  <2>2. CASE one.known # "no"
    <3>1. one.known \in {"learning", "yes"}
      BY <1>4, <2>2 DEF RemoteStates
    <3>2. /\ old.doc = << >> /\ old.out = {}
          /\ Range(old.names) \cup Range(old.lists) \subseteq DOMAIN old.fields
          /\ one.known = "yes" => table.engine = "usable"
      BY <1>3, <1>4, <1>5 DEF Informed, Standing, Works
    <3>3. ASSUME ~old.trouble
          PROVE  /\ old.known = "yes" => Within(old.fields, table.fields)
                 /\ old.known = "learning" => old.names = << >> /\ old.lists = << >>
                                              /\ old.fields = << >>
      <4>1. Learning(old) /\ Agreed(old, table)
        BY <1>3, <3>3 DEF Informed
      <4>2. old.known = "learning" => old.names = << >> /\ old.lists = << >> /\ DOMAIN old.fields = {}
        BY <1>3, <1>5, <4>1 DEF Learning
      <4>3. old.fields \in FieldTypes
        BY <1>3 DEF RemoteStates
      <4>. QED
        BY <4>1, <4>2, <4>3, NoFields DEF Agreed
    <3>4. Ready(one, table)
      BY <1>3, <1>4, <3>1, <3>2, <3>3 DEF Ready, WithinButKey
    <3>5. Begin(one) \in RemoteStates /\ Informed(Begin(one), table)
      BY <1>4, <3>4, BeginKeeps
    <3>. QED
      BY <1>7, <2>2, <3>5
  <2>. QED
    BY <2>1, <2>2
<1>10. Informed(new, table')
  BY <1>5, <1>9
<1>. QED
  BY <1>5, <1>6, <1>8, <1>9, <1>10, OneMoves

\* The server is asked for the table.
LEMMA AskTableKeeps ==
  ASSUME RemoteIInv, NEW c \in Remotes, NEW reply, AskTable(c, reply)
  PROVE  RemoteIInv'
<1>1. PICK old : old = remote[c]
  OBVIOUS
<1>2. /\ old \in RemoteStates /\ Informed(old, table) /\ TableTyped
      /\ DOMAIN << >> = {} /\ Range(<< >>) = {}
  BY <1>1, RemoteHas
<1>3. old.at = "check" /\ CheckTableCall(reply) /\ calls' \in 0 .. MaxCalls
  BY <1>1 DEF AskTable, RemoteIInv
<1>4. /\ TableTyped' /\ Grows(table, table') /\ taken' = taken /\ table' = table
      /\ reply = "there" => table.engine = "usable"
      /\ reply \in {"there", "missing", "lost"}
  BY <1>2, <1>3, CheckFinds
<1>5. /\ old.known = "no" /\ old.fields = << >> /\ old.names = << >> /\ old.lists = << >>
      /\ old.doc = << >> /\ old.out = {}
  BY <1>2, <1>3 DEF Informed, Standing
<1>6. SUFFICES ASSUME NEW new, remote' = [remote EXCEPT ![c] = new],
                      \/ /\ reply = "there"
                         /\ new = Begin([old EXCEPT !.known = "yes", !.fields = table.fields])
                      \/ reply = "missing" /\ new = Begin([old EXCEPT !.known = "learning"])
                      \/ new = Return(old)
               PROVE  new \in RemoteStates /\ Informed(new, table)
  <2>1. PICK new : new = CASE reply = "there" ->
                        Begin([old EXCEPT !.known = "yes", !.fields = table.fields])
                   [] reply = "missing" /\ old.call = "add" ->
                        Begin([old EXCEPT !.known = "learning"])
                   [] OTHER -> Return(old)
    OBVIOUS
  <2>2. remote' = [remote EXCEPT ![c] = new]
    BY <1>1, <2>1 DEF AskTable, Turn
  <2>3. new \in RemoteStates /\ Informed(new, table)
    BY <1>6, <2>1, <2>2
  <2>. QED
    BY <1>3, <1>4, <2>2, <2>3, OneMoves
<1>7. CASE reply = "there" /\ new = Begin([old EXCEPT !.known = "yes", !.fields = table.fields])
  <2>1. PICK one : one = [old EXCEPT !.known = "yes", !.fields = table.fields]
    OBVIOUS
  <2>2. /\ one \in RemoteStates /\ one.known = "yes" /\ one.fields = table.fields
        /\ one.names = old.names /\ one.lists = old.lists /\ one.out = old.out /\ one.doc = old.doc
    BY <1>2, <2>1 DEF RemoteStates, TableTyped
  <2>3. Ready(one, table)
    BY <1>2, <1>4, <1>5, <1>7, <2>2 DEF Ready, Within, WithinButKey
  <2>. QED
    BY <1>7, <2>1, <2>2, <2>3, BeginKeeps
<1>8. CASE reply = "missing" /\ new = Begin([old EXCEPT !.known = "learning"])
  <2>1. PICK one : one = [old EXCEPT !.known = "learning"]
    OBVIOUS
  <2>2. /\ one \in RemoteStates /\ one.known = "learning" /\ one.fields = old.fields
        /\ one.names = old.names /\ one.lists = old.lists /\ one.out = old.out /\ one.doc = old.doc
    BY <1>2, <2>1 DEF RemoteStates
  <2>3. Ready(one, table)
    BY <1>2, <1>5, <2>2 DEF Ready, Within, WithinButKey
  <2>. QED
    BY <1>8, <2>1, <2>2, <2>3, BeginKeeps
<1>9. CASE new = Return(old)
  BY <1>2, <1>5, <1>9, ReturnKeeps
<1>. QED
  BY <1>6, <1>7, <1>8, <1>9

\* A step of a client that the server does not see.
LEMMA AloneMoves ==
  ASSUME RemoteIInv, NEW c \in Remotes, NEW new, new \in RemoteStates, Informed(new, table),
         remote' = [remote EXCEPT ![c] = new], UNCHANGED <<tableVars, calls>>
  PROVE  RemoteIInv'
<1>1. UNCHANGED <<table, taken>> /\ calls' = calls
  BY DEF tableVars
<1>2. TableTyped' /\ Grows(table, table') /\ calls' \in 0 .. MaxCalls
  BY <1>1 DEF RemoteIInv, TableTyped, Grows, Within
<1>. QED
  BY <1>1, <1>2, OneMoves

\* A field of a document is in work.
LEMMA InWork ==
  ASSUME NEW one \in RemoteStates, one.at = "fields", one.left # << >>
  PROVE  /\ Tail(one.left) \in KeyedDocs
         /\ Head(one.left)[1] \in FieldNames
         /\ Head(one.left)[2] \in PythonKinds \cup {"made"}
         /\ \A n \in DOMAIN Tail(one.left) :
              /\ Tail(one.left)[n][1] # Head(one.left)[1]
              /\ \E m \in DOMAIN one.left : Tail(one.left)[n] = one.left[m]
         /\ 1 \in DOMAIN one.left /\ Head(one.left) = one.left[1]
<1>1. one.left \in KeyedDocs
  BY DEF RemoteStates
<1>. QED
  BY <1>1, RestOfDoc

\* Types are types.
LEMMA TypeInIs ==
  ASSUME NEW c \in Remotes, ValueKind(c) \in (PythonKinds \ {"other"}) \cup {"made"}
  PROVE  TypeIn(c) \in Types
<1>1. KindType[ValueKind(c)] \in Types
  BY DEF KindType, Types, PythonKinds
<1>2. {"LONG", "MULTI_STRING"} \subseteq Types
  BY DEF Types
<1>. QED
  BY <1>1, <1>2 DEF TypeIn

\* After a document that was refused there is trouble.
LEMMA TroubledIsReady ==
  ASSUME NEW one \in RemoteStates, NEW tab, one.known # "no", Standing(one), Works(one, tab)
  PROVE  Troubled(one) \in RemoteStates /\ Ready(Troubled(one), tab)
<1>1. PICK new : new = Troubled(one)
  OBVIOUS
<1>2. /\ new \in RemoteStates /\ new.trouble = TRUE /\ new.known = one.known
      /\ new.fields = one.fields /\ new.names = one.names /\ new.lists = one.lists
      /\ new.out = one.out
  BY <1>1 DEF Troubled, RemoteStates
<1>3. new.known \in {"learning", "yes"}
  BY <1>2 DEF RemoteStates
<1>. QED
  BY <1>1, <1>2, <1>3 DEF Ready, Standing, Works

\* A field is refused, and with it the rest of the document.
LEMMA RefuseFieldKeeps ==
  ASSUME RemoteIInv, NEW c \in Remotes, RefuseField(c)
  PROVE  RemoteIInv'
<1>1. PICK old : old = remote[c]
  OBVIOUS
<1>2. /\ old \in RemoteStates /\ Informed(old, table)
  BY <1>1, RemoteHas
<1>3. old.at = "fields"
  BY <1>1 DEF RefuseField, InFields
<1>4. old.known # "no" /\ Standing(old) /\ Works(old, table)
  BY <1>2, <1>3 DEF Informed, Standing
<1>5. PICK new : new = NextDoc(Troubled(old))
  OBVIOUS
<1>6. new \in RemoteStates /\ Informed(new, table)
  <2>1. Troubled(old) \in RemoteStates /\ Ready(Troubled(old), table)
    BY <1>2, <1>4, TroubledIsReady
  <2>. QED
    BY <1>5, <2>1, NextDocKeeps
<1>7. remote' = [remote EXCEPT ![c] = new] /\ UNCHANGED <<tableVars, calls>>
  BY <1>1, <1>5 DEF RefuseField, Turn
<1>. QED
  BY <1>6, <1>7, AloneMoves

\* A field more is learnt.
LEMMA LearntIs ==
  ASSUME NEW one \in RemoteStates, NEW f \in FieldNames, NEW type \in Types
  PROVE  /\ Learnt(one, f, type) \in RemoteStates
         /\ Learnt(one, f, type) = [one EXCEPT !.fields = Including(one.fields, f, type)]
         /\ Learnt(one, f, type).fields = Including(one.fields, f, type)
         /\ DOMAIN one.fields \subseteq DOMAIN Including(one.fields, f, type)
<1>1. one.fields \in FieldTypes
  BY DEF RemoteStates
<1>2. /\ Including(one.fields, f, type) \in FieldTypes
      /\ DOMAIN Including(one.fields, f, type) = DOMAIN one.fields \cup {f}
  BY <1>1, IncludingIs
<1>3. Learnt(one, f, type) = [one EXCEPT !.fields = Including(one.fields, f, type)]
  BY DEF Learnt, RemoteStates
<1>. QED
  BY <1>2, <1>3 DEF RemoteStates

\* An integer that does not fit raises.
LEMMA OverflowKeeps ==
  ASSUME RemoteIInv, NEW c \in Remotes, Overflow(c)
  PROVE  RemoteIInv'
<1>1. PICK old : old = remote[c]
  OBVIOUS
<1>2. /\ old \in RemoteStates /\ Informed(old, table)
  BY <1>1, RemoteHas
<1>3. old.at = "fields" /\ old.left # << >>
  BY <1>1 DEF Overflow, InFields
<1>4. old.known # "no" /\ Standing(old) /\ Works(old, table)
  BY <1>2, <1>3 DEF Informed, Standing
<1>5. FieldName(c) \in FieldNames /\ TypeIn(c) \in Types
  <2>1. ValueKind(c) \in (PythonKinds \ {"other"}) \cup {"made"}
    BY DEF Overflow, PythonKinds
  <2>2. Head(old.left)[1] \in FieldNames
    BY <1>2, <1>3, InWork
  <2>. QED
    BY <1>1, <2>1, <2>2, TypeInIs DEF FieldName
<1>6. PICK more : more = Learnt(old, FieldName(c), TypeIn(c))
  OBVIOUS
<1>7. /\ more \in RemoteStates /\ more.known = old.known /\ more.names = old.names
      /\ more.lists = old.lists /\ DOMAIN old.fields \subseteq DOMAIN more.fields
  <2>1. PICK f \in FieldNames, type \in Types : f = FieldName(c) /\ type = TypeIn(c)
    BY <1>5
  <2>2. /\ more \in RemoteStates
        /\ more = [old EXCEPT !.fields = Including(old.fields, f, type)]
        /\ DOMAIN old.fields \subseteq DOMAIN Including(old.fields, f, type)
    BY <1>2, <1>6, <2>1, LearntIs
  <2>. QED
    BY <1>2, <2>2 DEF RemoteStates
<1>8. PICK one : one = Troubled(more)
  OBVIOUS
<1>9. /\ one \in RemoteStates /\ one.trouble = TRUE /\ one.known = old.known
      /\ one.names = old.names /\ one.lists = old.lists /\ one.fields = more.fields
  BY <1>7, <1>8 DEF Troubled, RemoteStates
<1>10. Return(one) \in RemoteStates /\ Informed(Return(one), table)
  BY <1>4, <1>7, <1>9, ReturnKeeps DEF Standing, Works
<1>11. remote' = [remote EXCEPT ![c] = Return(one)] /\ UNCHANGED <<tableVars, calls>>
  BY <1>1, <1>6, <1>8 DEF Overflow, Turn
<1>. QED
  BY <1>10, <1>11, AloneMoves

\* The document in work has the field, and the rest of it is left.
LEMMA FilledIs ==
  ASSUME NEW one \in RemoteStates, one.at = "fields", one.left # << >>,
         NEW f \in FieldNames, NEW type \in Types
  PROVE  /\ Filled(one, f, type) \in RemoteStates
         /\ Filled(one, f, type).at = "fields" /\ Filled(one, f, type).known = one.known
         /\ Filled(one, f, type).fields = one.fields /\ Filled(one, f, type).names = one.names
         /\ Filled(one, f, type).lists = one.lists /\ Filled(one, f, type).out = one.out
         /\ Filled(one, f, type).later = one.later /\ Filled(one, f, type).trouble = one.trouble
         /\ Filled(one, f, type).doc = Including(one.doc, f, type)
         /\ Filled(one, f, type).left = Tail(one.left)
<1>1. one.doc \in FieldTypes /\ Tail(one.left) \in KeyedDocs
  BY InWork DEF RemoteStates
<1>2. Including(one.doc, f, type) \in FieldTypes
  BY <1>1, IncludingIs
<1>3. Filled(one, f, type)
        = [one EXCEPT !.doc = Including(one.doc, f, type), !.left = Tail(one.left)]
  BY DEF Filled, RemoteStates
<1>. QED
  BY <1>1, <1>2, <1>3 DEF RemoteStates

\* Keys are not compared.
LEMMA KeyFits ==
  ASSUME NEW doc \in FieldTypes, NEW fields, NEW type \in Types, WithinButKey(doc, fields)
  PROVE  WithinButKey(Including(doc, Key, type), fields)
<1>1. PICK key \in FieldNames : key = Key
  BY DEF FieldNames
<1>2. PICK have : have = Including(doc, key, type)
  OBVIOUS
<1>3. /\ DOMAIN have = DOMAIN doc \cup {key}
      /\ \A g \in DOMAIN doc : g # key => have[g] = doc[g]
  BY <1>2, IncludingHas
<1>. QED
  BY <1>1, <1>2, <1>3 DEF WithinButKey

\* The key that was made is in the document, not among the fields.
LEMMA MisfitKeyKeeps ==
  ASSUME RemoteIInv, NEW c \in Remotes, MisfitKey(c)
  PROVE  RemoteIInv'
<1>1. PICK old : old = remote[c]
  OBVIOUS
<1>2. /\ old \in RemoteStates /\ Informed(old, table)
  BY <1>1, RemoteHas
<1>3. old.at = "fields" /\ old.left # << >>
  BY <1>1 DEF MisfitKey, InFields
<1>4. PICK new : new = Filled(old, Key, "STRING")
  OBVIOUS
<1>5. Key \in FieldNames /\ "STRING" \in Types
  BY DEF FieldNames, Types
<1>6. /\ new \in RemoteStates /\ new.at = "fields" /\ new.known = old.known
      /\ new.fields = old.fields /\ new.names = old.names /\ new.lists = old.lists
      /\ new.out = old.out /\ new.later = old.later /\ new.trouble = old.trouble
      /\ new.doc = Including(old.doc, Key, "STRING") /\ new.left = Tail(old.left)
  BY <1>2, <1>3, <1>4, <1>5, FilledIs
<1>7. Standing(new) /\ Works(new, table)
  BY <1>2, <1>3, <1>6 DEF Informed, Standing, Works
<1>8. ASSUME ~old.trouble PROVE Learning(new) /\ Agreed(new, table)
  <2>1. Learning(old) /\ Agreed(old, table)
    BY <1>2, <1>8 DEF Informed
  <2>2. \A n \in DOMAIN new.left : \E m \in DOMAIN old.left : new.left[n] = old.left[m]
    BY <1>2, <1>3, <1>6, InWork
  <2>3. Learning(new)
    BY <1>3, <1>6, <2>1, <2>2 DEF Learning
  <2>4. WithinButKey(new.doc, new.fields)
    <3>1. old.doc \in FieldTypes
      BY <1>2 DEF RemoteStates
    <3>2. WithinButKey(old.doc, old.fields)
      BY <2>1 DEF Agreed
    <3>. QED
      BY <1>5, <1>6, <3>1, <3>2, KeyFits
  <2>. QED
    BY <1>3, <1>6, <2>1, <2>3, <2>4 DEF Agreed
<1>9. remote' = [remote EXCEPT ![c] = new] /\ UNCHANGED <<tableVars, calls>>
  BY <1>1, <1>4 DEF MisfitKey, Turn
<1>10. Informed(new, table)
  BY <1>6, <1>7, <1>8 DEF Informed
<1>. QED
  BY <1>6, <1>9, <1>10, AloneMoves

\* What fits goes on to when a field is added, or stays as it was.
LEMMA IncludingFits ==
  ASSUME NEW t, NEW fields \in FieldTypes, NEW f \in FieldNames, NEW type \in Types,
         f \notin DOMAIN fields \/ fields[f] = type, WithinButKey(t, fields)
  PROVE  WithinButKey(t, Including(fields, f, type))
<1>1. PICK more : more = Including(fields, f, type)
  OBVIOUS
<1>2. /\ DOMAIN more = DOMAIN fields \cup {f} /\ more[f] = type
      /\ \A g \in DOMAIN fields : g # f => more[g] = fields[g]
  BY <1>1, IncludingHas
<1>. QED
  BY <1>1, <1>2 DEF WithinButKey

\* The document in work goes on to fit with the field in both.
LEMMA BothFit ==
  ASSUME NEW doc \in FieldTypes, NEW fields \in FieldTypes, NEW f \in FieldNames, NEW type \in Types,
         WithinButKey(doc, fields)
  PROVE  WithinButKey(Including(doc, f, type), Including(fields, f, type))
<1>1. PICK more, have : more = Including(fields, f, type) /\ have = Including(doc, f, type)
  OBVIOUS
<1>2. /\ DOMAIN more = DOMAIN fields \cup {f} /\ more[f] = type
      /\ \A g \in DOMAIN fields : g # f => more[g] = fields[g]
  <2>1. /\ DOMAIN Including(fields, f, type) = DOMAIN fields \cup {f}
        /\ Including(fields, f, type)[f] = type
        /\ \A g \in DOMAIN fields : g # f => Including(fields, f, type)[g] = fields[g]
    BY IncludingHas, ZenonT(60)
  <2>. QED
    BY <1>1, <2>1
<1>3. /\ DOMAIN have = DOMAIN doc \cup {f} /\ have[f] = type
      /\ \A g \in DOMAIN doc : g # f => have[g] = doc[g]
  <2>1. /\ DOMAIN Including(doc, f, type) = DOMAIN doc \cup {f}
        /\ Including(doc, f, type)[f] = type
        /\ \A g \in DOMAIN doc : g # f => Including(doc, f, type)[g] = doc[g]
    BY IncludingHas, ZenonT(60)
  <2>. QED
    BY <1>1, <2>1
<1>. QED
  BY <1>1, <1>2, <1>3 DEF WithinButKey

\* A field that is known, or of a table to be created, goes into the document.
LEMMA FillFieldKeeps ==
  ASSUME RemoteIInv, NEW c \in Remotes, FillField(c)
  PROVE  RemoteIInv'
<1>1. PICK old : old = remote[c]
  OBVIOUS
<1>2. /\ old \in RemoteStates /\ Informed(old, table)
  BY <1>1, RemoteHas
<1>3. old.at = "fields" /\ old.left # << >> /\ (IsKnown(c) \/ old.known = "learning") /\ ~Clashes(c)
  BY <1>1 DEF FillField, Fine, InFields
<1>4. FieldName(c) \in FieldNames /\ TypeIn(c) \in Types
  <2>1. /\ Head(old.left)[1] \in FieldNames
        /\ Head(old.left)[2] \in PythonKinds \cup {"made"}
    BY <1>2, <1>3, InWork
  <2>2. ValueKind(c) \in (PythonKinds \ {"other"}) \cup {"made"}
    BY <1>1, <2>1 DEF FillField, Fine, ValueKind
  <2>. QED
    BY <1>1, <2>1, <2>2, TypeInIs DEF FieldName
<1>5. PICK f \in FieldNames, type \in Types : f = FieldName(c) /\ type = TypeIn(c)
  BY <1>4
<1>6. /\ f \in DOMAIN old.fields => old.fields[f] = type
      /\ f = Head(old.left)[1] /\ (f \in DOMAIN old.fields \/ old.known = "learning")
  BY <1>1, <1>3, <1>5 DEF Clashes, IsKnown, FieldName
<1>7. PICK fields : fields = Including(old.fields, f, type)
  OBVIOUS
<1>8. old.fields \in FieldTypes /\ old.doc \in FieldTypes /\ old.names \in Seq(FieldNames)
      /\ old.lists \in Seq(FieldNames)
  BY <1>2 DEF RemoteStates
<1>9. /\ fields \in FieldTypes /\ DOMAIN fields = DOMAIN old.fields \cup {f} /\ fields[f] = type
      /\ \A g \in DOMAIN old.fields : g # f => fields[g] = old.fields[g]
  <2>1. Including(old.fields, f, type) \in FieldTypes
    BY <1>8, IncludingIs
  <2>2. /\ DOMAIN Including(old.fields, f, type) = DOMAIN old.fields \cup {f}
        /\ Including(old.fields, f, type)[f] = type
        /\ \A g \in DOMAIN old.fields : g # f => Including(old.fields, f, type)[g] = old.fields[g]
    BY <1>8, IncludingHas, ZenonT(60)
  <2>. QED
    BY <1>7, <2>1, <2>2
<1>10. PICK noted : noted = Noted(Learnt(old, f, type), f, type)
  OBVIOUS
<1>11. /\ noted \in RemoteStates /\ noted.at = "fields" /\ noted.known = old.known
       /\ noted.fields = fields /\ noted.left = old.left /\ noted.doc = old.doc
       /\ noted.out = old.out /\ noted.later = old.later /\ noted.trouble = old.trouble
       /\ \/ /\ old.known = "yes" /\ noted.names = old.names /\ noted.lists = old.lists
          \/ /\ old.known # "yes" /\ type = "MULTI_STRING"
             /\ noted.names = old.names /\ noted.lists = Append(old.lists, f)
          \/ /\ old.known # "yes" /\ type # "MULTI_STRING"
             /\ noted.names = Append(old.names, f) /\ noted.lists = old.lists
  <2>1. PICK more : more = Learnt(old, f, type)
    OBVIOUS
  <2>2. more = [old EXCEPT !.fields = fields] /\ more \in RemoteStates
    BY <1>2, <1>7, <2>1, LearntIs
  <2>3. Append(old.lists, f) \in Seq(FieldNames) /\ Append(old.names, f) \in Seq(FieldNames)
    BY <1>8
  <2>4. /\ more.known = old.known /\ more.names = old.names /\ more.lists = old.lists
        /\ more.at = "fields" /\ more.fields = fields /\ more.left = old.left
        /\ more.doc = old.doc /\ more.out = old.out /\ more.later = old.later
        /\ more.trouble = old.trouble
    BY <1>2, <1>3, <2>2 DEF RemoteStates
  <2>5. CASE old.known = "yes"
    BY <1>10, <2>1, <2>2, <2>4, <2>5 DEF Noted
  <2>6. CASE old.known # "yes" /\ type = "MULTI_STRING"
    <3>1. noted = [more EXCEPT !.lists = Append(old.lists, f)]
      BY <1>10, <2>1, <2>4, <2>6 DEF Noted
    <3>. QED
      BY <2>2, <2>3, <2>4, <2>6, <3>1 DEF RemoteStates
  <2>7. CASE old.known # "yes" /\ type # "MULTI_STRING"
    <3>1. noted = [more EXCEPT !.names = Append(old.names, f)]
      BY <1>10, <2>1, <2>4, <2>7 DEF Noted
    <3>. QED
      BY <2>2, <2>3, <2>4, <2>7, <3>1 DEF RemoteStates
  <2>. QED
    BY <2>5, <2>6, <2>7
<1>12. PICK new : new = Filled(noted, f, type)
  OBVIOUS
<1>13. old.left = noted.left /\ noted.left # << >>
  BY <1>3, <1>11
<1>14. /\ new \in RemoteStates /\ new.at = "fields" /\ new.known = old.known
       /\ new.fields = fields /\ new.names = noted.names /\ new.lists = noted.lists
       /\ new.out = old.out /\ new.later = old.later /\ new.trouble = old.trouble
       /\ new.doc = Including(old.doc, f, type) /\ new.left = Tail(old.left)
  BY <1>11, <1>12, <1>13, FilledIs
<1>15. /\ Range(Append(old.names, f)) = Range(old.names) \cup {f}
       /\ Range(Append(old.lists, f)) = Range(old.lists) \cup {f}
       /\ ~Twice(old.names) /\ f \notin Range(old.names) => ~Twice(Append(old.names, f))
       /\ Len(Append(old.lists, f)) = Len(old.lists) + 1 /\ Len(old.lists) \in Nat
  BY <1>8, OneNameMore
<1>16. old.known # "no" /\ old.known \in {"learning", "yes"} /\ Standing(old)
  BY <1>2, <1>3 DEF Informed, Standing, RemoteStates
<1>17. old.later \in Nat
  BY <1>2 DEF RemoteStates
<1>18. Standing(new)
  <2>1. Range(new.names) \cup Range(new.lists) \subseteq DOMAIN new.fields
    BY <1>9, <1>11, <1>14, <1>15, <1>16 DEF Standing
  <2>2. new.later <= Len(new.lists)
    BY <1>11, <1>14, <1>15, <1>16, <1>17 DEF Standing
  <2>. QED
    BY <1>14, <1>16, <2>1, <2>2 DEF Standing
<1>19. Works(new, table)
  BY <1>2, <1>14 DEF Informed, Works
<1>20. ASSUME ~old.trouble PROVE Learning(new) /\ Agreed(new, table)
  <2>1. Learning(old) /\ Agreed(old, table)
    BY <1>2, <1>20 DEF Informed
  <2>2. ASSUME old.known = "learning"
        PROVE  /\ f \notin DOMAIN old.fields
               /\ \A n \in DOMAIN new.left : new.left[n][1] \notin DOMAIN new.fields
    <3>1. \A n \in DOMAIN old.left : old.left[n][1] \notin DOMAIN old.fields
      BY <1>3, <2>1, <2>2 DEF Learning
    <3>2. /\ 1 \in DOMAIN old.left /\ f = old.left[1][1]
          /\ \A n \in DOMAIN Tail(old.left) :
               /\ Tail(old.left)[n][1] # f
               /\ \E m \in DOMAIN old.left : Tail(old.left)[n] = old.left[m]
      BY <1>2, <1>3, <1>6, InWork
    <3>. QED
      BY <1>9, <1>14, <3>1, <3>2
  <2>3. Learning(new)
    <3>1. SUFFICES ASSUME old.known = "learning" PROVE Learning(new)
      BY <1>14 DEF Learning
    <3>2. DOMAIN new.fields = Range(new.names) \cup Range(new.lists)
      <4>1. DOMAIN old.fields = Range(old.names) \cup Range(old.lists)
        BY <2>1, <3>1 DEF Learning
      <4>2. DOMAIN new.fields = DOMAIN old.fields \cup {f}
        BY <1>9, <1>14
      <4>3. \/ new.names = old.names /\ new.lists = Append(old.lists, f)
            \/ new.names = Append(old.names, f) /\ new.lists = old.lists
        BY <1>11, <1>14, <3>1
      <4>4. Range(new.names) \cup Range(new.lists) = Range(old.names) \cup Range(old.lists) \cup {f}
        BY <1>15, <4>3
      <4>. QED
        BY <4>1, <4>2, <4>4
    <3>3. ~Twice(new.names)
      BY <1>11, <1>14, <1>15, <2>1, <2>2, <3>1 DEF Learning
    <3>4. \A g \in Range(new.lists) : new.fields[g] = "MULTI_STRING"
      <4>1. \A g \in Range(old.lists) :
              g \in DOMAIN old.fields /\ old.fields[g] = "MULTI_STRING"
        BY <2>1, <3>1 DEF Learning
      <4>2. f \notin DOMAIN old.fields
        BY <2>2, <3>1
      <4>3. \A g \in Range(old.lists) : new.fields[g] = "MULTI_STRING"
        BY <1>9, <1>14, <4>1, <4>2
      <4>4. CASE type = "MULTI_STRING"
        <5>1. new.fields[f] = "MULTI_STRING"
          BY <1>9, <1>14, <4>4
        <5>2. \A g \in Range(new.lists) : g \in Range(old.lists) \/ g = f
          BY <1>11, <1>14, <1>15
        <5>. QED
          BY <4>3, <5>1, <5>2
      <4>5. CASE type # "MULTI_STRING"
        <5>1. new.lists = old.lists
          BY <1>11, <1>14, <4>5
        <5>. QED
          BY <4>3, <5>1
      <4>. QED
        BY <4>4, <4>5
    <3>. QED
      BY <1>14, <2>1, <2>2, <3>1, <3>2, <3>3, <3>4 DEF Learning
  <2>4. old.known = "yes" => Within(new.fields, table.fields)
    BY <1>6, <1>9, <1>14, <2>1 DEF Agreed, Within
  <2>5. \A docTypes \in new.out : WithinButKey(docTypes, new.fields)
    BY <1>6, <1>7, <1>8, <1>14, <2>1, IncludingFits DEF Agreed
  <2>6. WithinButKey(new.doc, new.fields)
    BY <1>7, <1>8, <1>14, <2>1, BothFit DEF Agreed
  <2>. QED
    BY <1>14, <2>3, <2>4, <2>5, <2>6 DEF Agreed
<1>21. Informed(new, table)
  BY <1>14, <1>18, <1>19, <1>20 DEF Informed
<1>22. remote' = [remote EXCEPT ![c] = new] /\ UNCHANGED <<tableVars, calls>>
  BY <1>1, <1>5, <1>10, <1>12 DEF FillField, Turn
<1>. QED
  BY <1>14, <1>21, <1>22, AloneMoves

\* A field of a table that works is added at the server.
LEMMA TellFieldKeeps ==
  ASSUME RemoteIInv, NEW c \in Remotes, NEW reply, TellField(c, reply)
  PROVE  RemoteIInv'
<1>1. PICK old : old = remote[c]
  OBVIOUS
<1>2. /\ old \in RemoteStates /\ Informed(old, table) /\ TableTyped
  BY <1>1, RemoteHas
<1>3. /\ old.at = "fields" /\ old.left # << >> /\ ~IsKnown(c) /\ old.known = "yes"
      /\ calls' \in 0 .. MaxCalls
  BY <1>1 DEF TellField, Fine, InFields, RemoteIInv
<1>4. FieldName(c) \in FieldNames /\ TypeIn(c) \in Types
  <2>1. /\ Head(old.left)[1] \in FieldNames
        /\ Head(old.left)[2] \in PythonKinds \cup {"made"}
    BY <1>2, <1>3, InWork
  <2>2. ValueKind(c) \in (PythonKinds \ {"other"}) \cup {"made"}
    BY <1>1, <2>1 DEF TellField, Fine, ValueKind
  <2>. QED
    BY <1>1, <2>1, <2>2, TypeInIs DEF FieldName
<1>5. PICK f \in FieldNames, type \in Types : f = FieldName(c) /\ type = TypeIn(c)
  BY <1>4
<1>6. /\ TableTyped' /\ Grows(table, table') /\ taken' = taken
      /\ reply = "OK" => /\ f \in DOMAIN table'.fields
                         /\ f \notin DOMAIN table.fields => table'.fields[f] = type
  BY <1>2, <1>5, AddFieldsGrows DEF TellField
<1>7. f \notin DOMAIN old.fields
  BY <1>1, <1>3, <1>5 DEF IsKnown
<1>8. PICK fields : fields = Including(old.fields, f, type)
  OBVIOUS
<1>9. old.fields \in FieldTypes /\ old.doc \in FieldTypes
  BY <1>2 DEF RemoteStates
<1>10. /\ fields \in FieldTypes /\ DOMAIN fields = DOMAIN old.fields \cup {f} /\ fields[f] = type
       /\ \A g \in DOMAIN old.fields : g # f => fields[g] = old.fields[g]
  <2>1. Including(old.fields, f, type) \in FieldTypes
    BY <1>9, IncludingIs
  <2>2. /\ DOMAIN Including(old.fields, f, type) = DOMAIN old.fields \cup {f}
        /\ Including(old.fields, f, type)[f] = type
        /\ \A g \in DOMAIN old.fields : g # f => Including(old.fields, f, type)[g] = old.fields[g]
    BY <1>9, IncludingHas, ZenonT(60)
  <2>. QED
    BY <1>8, <2>1, <2>2
<1>11. PICK one : one = Learnt(old, f, type)
  OBVIOUS
<1>12. PICK told : told = IF reply = "OK" /\ f \notin DOMAIN table.fields THEN one ELSE Troubled(one)
  OBVIOUS
<1>13. /\ told \in RemoteStates /\ told.known = "yes" /\ told.names = old.names
       /\ told.lists = old.lists /\ told.at = "fields" /\ told.fields = fields
       /\ told.left = old.left /\ told.doc = old.doc /\ told.out = old.out
       /\ told.later = old.later
       /\ ~told.trouble => ~old.trouble /\ reply = "OK" /\ f \notin DOMAIN table.fields
  <2>1. one = [old EXCEPT !.fields = fields] /\ one \in RemoteStates
    BY <1>2, <1>8, <1>11, LearntIs
  <2>2. /\ one.known = old.known /\ one.names = old.names /\ one.lists = old.lists
        /\ one.at = "fields" /\ one.fields = fields /\ one.left = old.left
        /\ one.doc = old.doc /\ one.out = old.out /\ one.later = old.later
        /\ one.trouble = old.trouble
    BY <1>2, <1>3, <2>1 DEF RemoteStates
  <2>3. CASE reply = "OK" /\ f \notin DOMAIN table.fields
    BY <1>3, <1>12, <2>1, <2>2, <2>3
  <2>4. CASE ~(reply = "OK" /\ f \notin DOMAIN table.fields)
    BY <1>3, <1>12, <2>1, <2>2, <2>4 DEF Troubled, RemoteStates
  <2>. QED
    BY <2>3, <2>4
<1>14. Standing(old) /\ table'.engine = "usable"
  BY <1>2, <1>3, <1>6 DEF Informed, Works, Grows
<1>15. ASSUME ~told.trouble
       PROVE  /\ Within(fields, table'.fields)
              /\ \A docTypes \in old.out : WithinButKey(docTypes, fields)
              /\ WithinButKey(Including(old.doc, f, type), fields)
  <2>1. Agreed(old, table) /\ f \notin DOMAIN table.fields /\ reply = "OK"
    BY <1>2, <1>13, <1>15 DEF Informed
  <2>2. Within(old.fields, table'.fields)
    BY <1>3, <1>6, <2>1, WithinGrows DEF Agreed
  <2>3. Within(fields, table'.fields)
    BY <1>6, <1>10, <2>1, <2>2 DEF Within
  <2>4. \A docTypes \in old.out : WithinButKey(docTypes, fields)
    BY <1>7, <1>8, <1>9, <2>1, IncludingFits DEF Agreed
  <2>5. WithinButKey(Including(old.doc, f, type), fields)
    BY <1>8, <1>9, <2>1, BothFit DEF Agreed
  <2>. QED
    BY <2>3, <2>4, <2>5
<1>16. CASE Heard(reply)
  <2>1. PICK new : new = Filled(told, f, type)
    OBVIOUS
  <2>2. /\ new \in RemoteStates /\ new.at = "fields" /\ new.known = told.known
        /\ new.fields = told.fields /\ new.names = told.names /\ new.lists = told.lists
        /\ new.out = told.out /\ new.later = told.later /\ new.trouble = told.trouble
        /\ new.doc = Including(told.doc, f, type) /\ new.left = Tail(told.left)
    <3>1. told.left # << >>
      BY <1>3, <1>13
    <3>. QED
      BY <1>13, <2>1, <3>1, FilledIs
  <2>3. Standing(new) /\ Works(new, table')
    BY <1>10, <1>13, <1>14, <2>2 DEF Standing, Works
  <2>4. ~told.trouble => Learning(new) /\ Agreed(new, table')
    BY <1>13, <1>15, <2>2 DEF Learning, Agreed
  <2>5. Informed(new, table')
    BY <2>2, <2>3, <2>4 DEF Informed
  <2>6. remote' = [remote EXCEPT ![c] = new]
    BY <1>1, <1>5, <1>11, <1>12, <1>16, <2>1 DEF TellField, Turn
  <2>. QED
    BY <1>3, <1>6, <2>2, <2>5, <2>6, OneMoves
<1>17. CASE ~Heard(reply)
  <2>1. PICK new : new = Return(told)
    OBVIOUS
  <2>2. new \in RemoteStates /\ Informed(new, table')
    BY <1>10, <1>13, <1>14, <1>15, <2>1, ReturnKeeps DEF Standing
  <2>3. remote' = [remote EXCEPT ![c] = new]
    BY <1>1, <1>5, <1>11, <1>12, <1>17, <2>1 DEF TellField, Turn
  <2>. QED
    BY <1>3, <1>6, <2>2, <2>3, OneMoves
<1>. QED
  BY <1>16, <1>17

\* A document ends.
LEMMA EndDocKeeps ==
  ASSUME RemoteIInv, NEW c \in Remotes, EndDoc(c)
  PROVE  RemoteIInv'
<1>1. PICK old : old = remote[c]
  OBVIOUS
<1>2. /\ old \in RemoteStates /\ Informed(old, table)
  BY <1>1, RemoteHas
<1>3. old.at = "fields" /\ UNCHANGED <<tableVars, calls>>
  BY <1>1 DEF EndDoc
<1>4. old.known \in {"learning", "yes"} /\ Standing(old)
  BY <1>2, <1>3 DEF Informed, Standing, RemoteStates
<1>5. CASE old.known = "yes"
  <2>1. Ready(old, table)
    BY <1>2, <1>4, <1>5 DEF Informed, Standing, Works, Agreed, Ready
  <2>2. remote' = [remote EXCEPT ![c] = NextDoc(old)]
    BY <1>1, <1>5 DEF EndDoc, Turn
  <2>. QED
    BY <1>2, <1>3, <2>1, <2>2, NextDocKeeps, AloneMoves
<1>6. CASE old.known # "yes"
  <2>1. PICK new : new = [old EXCEPT !.at = "create"]
    OBVIOUS
  <2>2. /\ new \in RemoteStates /\ new.at = "create" /\ new.known = old.known
        /\ new.fields = old.fields /\ new.names = old.names /\ new.lists = old.lists
        /\ new.out = old.out /\ new.later = old.later /\ new.trouble = old.trouble
        /\ new.doc = old.doc
    BY <1>2, <2>1 DEF RemoteStates
  <2>3. Standing(new) /\ Works(new, table)
    BY <1>4, <1>6, <2>2 DEF Standing, Works
  <2>4. ~old.trouble => Learning(new) /\ Agreed(new, table)
    BY <1>2, <1>3, <1>6, <2>2 DEF Informed, Learning, Agreed
  <2>5. remote' = [remote EXCEPT ![c] = new]
    BY <1>1, <1>6, <2>1 DEF EndDoc, Turn
  <2>6. Informed(new, table)
    BY <2>2, <2>3, <2>4 DEF Informed
  <2>. QED
    BY <1>3, <2>2, <2>5, <2>6, AloneMoves
<1>. QED
  BY <1>5, <1>6

\* The table is created for the first document.
LEMMA CreateAtServerKeeps ==
  ASSUME RemoteIInv, NEW c \in Remotes, NEW reply, CreateAtServer(c, reply)
  PROVE  RemoteIInv'
<1>1. PICK old : old = remote[c]
  OBVIOUS
<1>2. /\ old \in RemoteStates /\ Informed(old, table) /\ TableTyped
  BY <1>1, RemoteHas
<1>3. old.at = "create" /\ calls' \in 0 .. MaxCalls
  BY <1>1 DEF CreateAtServer, RemoteIInv
<1>4. old.known = "learning" /\ Standing(old)
  BY <1>2, <1>3 DEF Informed, Standing
<1>5. PICK fields : fields = [f \in Range(old.names) |-> old.fields[f]]
  OBVIOUS
<1>6. fields \in FieldTypes
  <2>1. PICK names : names = Range(old.names)
    OBVIOUS
  <2>2. /\ old.fields \in FieldTypes /\ names \subseteq DOMAIN old.fields
    BY <1>2, <1>4, <2>1 DEF RemoteStates, Standing
  <2>3. names \in SUBSET FieldNames /\ \A f \in names : old.fields[f] \in Types
    BY <2>2, FieldTypesAre
  <2>4. fields \in [names -> Types]
    BY <1>5, <2>1, <2>3
  <2>. QED
    BY <2>3, <2>4, FieldTypesAre
<1>7. /\ TableTyped' /\ Grows(table, table') /\ taken' = taken
      /\ reply = "OK" => table' = Usable(fields)
  <2>1. CreateCall(fields, Twice(old.names), reply)
    BY <1>1, <1>5 DEF CreateAtServer
  <2>. QED
    BY <1>2, <1>6, <2>1, CreateGrows
<1>8. SUFFICES ASSUME NEW new, remote' = [remote EXCEPT ![c] = new],
                      \/ new = Unanswered(old)
                      \/ /\ reply = "OK"
                         /\ new = [old EXCEPT !.at = "extras", !.later = Len(old.lists)]
                      \/ new = NextDoc(Troubled(old))
               PROVE  new \in RemoteStates /\ Informed(new, table')
  <2>1. PICK new : new = IF ~Heard(reply) THEN Unanswered(old)
                 ELSE IF Created(reply)
                      THEN [old EXCEPT !.at = "extras", !.later = Len(old.lists)]
                      ELSE NextDoc(Troubled(old))
    OBVIOUS
  <2>2. remote' = [remote EXCEPT ![c] = new]
    BY <1>1, <2>1 DEF CreateAtServer, Turn
  <2>3. new \in RemoteStates /\ Informed(new, table')
    BY <1>8, <2>1, <2>2 DEF Created
  <2>. QED
    BY <1>3, <1>7, <2>2, <2>3, OneMoves
<1>9. Works(old, table')
  BY <1>3, <1>4 DEF Works
<1>10. Troubled(old) \in RemoteStates /\ Ready(Troubled(old), table')
  BY <1>2, <1>4, <1>9, TroubledIsReady
<1>11. Troubled(old).trouble = TRUE
  BY <1>2 DEF Troubled, RemoteStates
<1>12. CASE new = Unanswered(old)
  BY <1>10, <1>11, <1>12, ReturnKeeps DEF Unanswered, Ready
<1>13. CASE new = NextDoc(Troubled(old))
  BY <1>10, <1>13, NextDocKeeps
<1>14. CASE reply = "OK" /\ new = [old EXCEPT !.at = "extras", !.later = Len(old.lists)]
  <2>1. Len(old.lists) \in Nat
    BY <1>2 DEF RemoteStates
  <2>2. /\ new \in RemoteStates /\ new.at = "extras" /\ new.known = old.known
        /\ new.fields = old.fields /\ new.names = old.names /\ new.lists = old.lists
        /\ new.out = old.out /\ new.later = Len(old.lists) /\ new.trouble = old.trouble
        /\ new.doc = old.doc
    BY <1>2, <1>14, <2>1 DEF RemoteStates
  <2>3. table'.engine = "usable" /\ table'.fields = fields
    BY <1>7, <1>14 DEF Usable
  <2>4. Standing(new) /\ Works(new, table')
    BY <1>4, <2>1, <2>2, <2>3 DEF Standing, Works
  <2>5. ASSUME ~old.trouble PROVE Learning(new) /\ Agreed(new, table')
    <3>1. Learning(old) /\ Agreed(old, table)
      BY <1>2, <2>5 DEF Informed
    <3>2. Learning(new)
      BY <1>3, <2>2, <3>1 DEF Learning
    <3>3. \A f \in Range(new.names) : f \in DOMAIN table'.fields /\ table'.fields[f] = new.fields[f]
      BY <1>5, <2>2, <2>3
    <3>4. 1 .. Len(new.lists) - new.later = {}
      BY <2>1, <2>2
    <3>. QED
      BY <1>4, <2>2, <3>1, <3>2, <3>3, <3>4 DEF Agreed
  <2>. QED
    BY <2>2, <2>4, <2>5 DEF Informed
<1>. QED
  BY <1>8, <1>12, <1>13, <1>14

\* A list is added to the new table.
LEMMA AddListKeeps ==
  ASSUME RemoteIInv, NEW c \in Remotes, NEW reply, AddList(c, reply)
  PROVE  RemoteIInv'
<1>1. PICK old : old = remote[c]
  OBVIOUS
<1>2. /\ old \in RemoteStates /\ Informed(old, table) /\ TableTyped
  BY <1>1, RemoteHas
<1>3. old.at = "extras" /\ old.later > 0 /\ calls' \in 0 .. MaxCalls
  BY <1>1 DEF AddList, RemoteIInv
<1>4. old.known = "learning" /\ Standing(old) /\ table.engine = "usable"
  BY <1>2, <1>3 DEF Informed, Standing, Works
<1>5. PICK at : at = Len(old.lists) + 1 - old.later
  OBVIOUS
<1>6. /\ Len(old.lists) \in Nat /\ old.later \in Nat \ {0} /\ old.later <= Len(old.lists)
      /\ at \in 1 .. Len(old.lists) /\ old.lists[at] \in FieldNames
  BY <1>2, <1>3, <1>4, <1>5 DEF RemoteStates, Standing
<1>7. PICK f \in FieldNames : f = old.lists[at]
  BY <1>6
<1>8. "MULTI_STRING" \in Types
  BY DEF Types
<1>9. PICK type \in Types : type = "MULTI_STRING"
  BY <1>8
<1>10. /\ TableTyped' /\ Grows(table, table') /\ taken' = taken
       /\ reply = "OK" => /\ f \in DOMAIN table'.fields
                          /\ f \notin DOMAIN table.fields => table'.fields[f] = type
  <2>1. AddFieldsCall(f, type, reply)
    BY <1>1, <1>5, <1>7, <1>9 DEF AddList
  <2>. QED
    BY <1>2, <2>1, AddFieldsGrows
<1>11. PICK told : told = IF f \in DOMAIN table.fields THEN Troubled(old) ELSE old
  OBVIOUS
<1>12. SUFFICES ASSUME NEW new, remote' = [remote EXCEPT ![c] = new],
                       \/ new = Unanswered(old)
                       \/ reply = "OK" /\ new = [told EXCEPT !.later = told.later - 1]
                       \/ new = NextDoc(Troubled(old))
                PROVE  new \in RemoteStates /\ Informed(new, table')
  <2>1. PICK new : new = IF ~Heard(reply) THEN Unanswered(old)
                 ELSE IF reply = "OK" THEN [told EXCEPT !.later = told.later - 1]
                      ELSE NextDoc(Troubled(old))
    OBVIOUS
  <2>2. remote' = [remote EXCEPT ![c] = new]
    BY <1>1, <1>5, <1>7, <1>11, <2>1 DEF AddList, Turn
  <2>3. new \in RemoteStates /\ Informed(new, table')
    BY <1>12, <2>1, <2>2
  <2>. QED
    BY <1>3, <1>10, <2>2, <2>3, OneMoves
<1>13. Works(old, table') /\ table'.engine = "usable"
  BY <1>4, <1>10 DEF Works, Grows
<1>14. Troubled(old) \in RemoteStates /\ Ready(Troubled(old), table')
  BY <1>2, <1>4, <1>13, TroubledIsReady
<1>15. Troubled(old).trouble = TRUE
  BY <1>2 DEF Troubled, RemoteStates
<1>16. CASE new = Unanswered(old)
  BY <1>14, <1>15, <1>16, ReturnKeeps DEF Unanswered, Ready
<1>17. CASE new = NextDoc(Troubled(old))
  BY <1>14, <1>17, NextDocKeeps
<1>18. CASE reply = "OK" /\ new = [told EXCEPT !.later = told.later - 1]
  <2>1. /\ told \in RemoteStates /\ told.at = "extras" /\ told.known = old.known
        /\ told.fields = old.fields /\ told.names = old.names /\ told.lists = old.lists
        /\ told.out = old.out /\ told.later = old.later /\ told.doc = old.doc
        /\ ~told.trouble => ~old.trouble /\ f \notin DOMAIN table.fields
    <3>1. CASE f \in DOMAIN table.fields
      BY <1>2, <1>3, <1>11, <3>1 DEF Troubled, RemoteStates
    <3>2. CASE f \notin DOMAIN table.fields
      BY <1>2, <1>3, <1>11, <3>2
    <3>. QED
      BY <3>1, <3>2
  <2>2. old.later - 1 \in Nat
    BY <1>6
  <2>3. /\ new \in RemoteStates /\ new.at = "extras" /\ new.known = old.known
        /\ new.fields = old.fields /\ new.names = old.names /\ new.lists = old.lists
        /\ new.out = old.out /\ new.later = old.later - 1 /\ new.trouble = told.trouble
        /\ new.doc = old.doc
    BY <1>18, <2>1, <2>2 DEF RemoteStates
  <2>4. Standing(new) /\ Works(new, table')
    BY <1>4, <1>6, <1>13, <2>3 DEF Standing, Works
  <2>5. ASSUME ~told.trouble PROVE Learning(new) /\ Agreed(new, table')
    <3>1. Learning(old) /\ Agreed(old, table) /\ f \notin DOMAIN table.fields
      BY <1>2, <2>1, <2>5 DEF Informed
    <3>2. Learning(new)
      BY <1>3, <2>3, <3>1 DEF Learning
    <3>3. \A g \in Range(new.names) : g \in DOMAIN table'.fields /\ table'.fields[g] = new.fields[g]
      BY <1>3, <1>10, <2>3, <3>1 DEF Agreed, Grows, Within
    <3>4. ASSUME NEW n \in 1 .. Len(new.lists) - new.later
          PROVE  /\ new.lists[n] \in DOMAIN table'.fields
                 /\ table'.fields[new.lists[n]] = "MULTI_STRING"
      <4>1. n \in 1 .. Len(old.lists) - old.later \/ n = at
        BY <1>5, <1>6, <2>3
      <4>2. CASE n = at
        BY <1>7, <1>9, <1>10, <1>18, <2>3, <3>1, <4>2
      <4>3. CASE n \in 1 .. Len(old.lists) - old.later
        BY <1>3, <1>10, <2>3, <3>1, <4>3 DEF Agreed, Grows, Within
      <4>. QED
        BY <4>1, <4>2, <4>3
    <3>. QED
      BY <1>4, <2>3, <3>1, <3>2, <3>3, <3>4 DEF Agreed
  <2>. QED
    BY <2>3, <2>4, <2>5 DEF Informed
<1>. QED
  BY <1>12, <1>16, <1>17, <1>18

\* The table that was created is known.
LEMMA TableKnownKeeps ==
  ASSUME RemoteIInv, NEW c \in Remotes, TableKnown(c)
  PROVE  RemoteIInv'
<1>1. PICK old : old = remote[c]
  OBVIOUS
<1>2. /\ old \in RemoteStates /\ Informed(old, table)
  BY <1>1, RemoteHas
<1>3. old.at = "extras" /\ old.later = 0 /\ UNCHANGED <<tableVars, calls>>
  BY <1>1 DEF TableKnown
<1>4. old.known = "learning" /\ Standing(old) /\ table.engine = "usable"
  BY <1>2, <1>3 DEF Informed, Standing, Works
<1>5. PICK one : one = BecomesKnown(old)
  OBVIOUS
<1>6. /\ one \in RemoteStates /\ one.known = "yes" /\ one.fields = old.fields
      /\ one.names = old.names /\ one.lists = old.lists /\ one.out = old.out
      /\ one.doc = old.doc /\ one.trouble = old.trouble
  BY <1>2, <1>5 DEF BecomesKnown, RemoteStates
<1>7. ASSUME ~old.trouble PROVE Within(old.fields, table.fields)
  <2>1. Learning(old) /\ Agreed(old, table)
    BY <1>2, <1>7 DEF Informed
  <2>2. ASSUME NEW f \in Range(old.lists)
        PROVE  f \in DOMAIN table.fields /\ table.fields[f] = old.fields[f]
    <3>1. PICK n \in DOMAIN old.lists : f = old.lists[n]
      BY DEF Range
    <3>2. n \in 1 .. Len(old.lists) - old.later
      BY <1>2, <1>3 DEF RemoteStates
    <3>. QED
      BY <1>3, <1>4, <2>1, <3>1, <3>2 DEF Agreed, Learning
  <2>. QED
    BY <1>3, <1>4, <2>1, <2>2 DEF Agreed, Learning, Within
<1>8. Ready(one, table)
  <2>1. ~old.trouble => Agreed(old, table)
    BY <1>2 DEF Informed
  <2>. QED
    BY <1>4, <1>6, <1>7, <2>1 DEF Ready, Standing, Agreed
<1>9. remote' = [remote EXCEPT ![c] = NextDoc(one)]
  BY <1>1, <1>5 DEF TableKnown, Turn
<1>10. NextDoc(one) \in RemoteStates /\ Informed(NextDoc(one), table)
  BY <1>6, <1>8, NextDocKeeps
<1>. QED
  BY <1>3, <1>9, <1>10, AloneMoves

\* The documents are sent.
LEMMA SendAllKeeps ==
  ASSUME RemoteIInv, NEW c \in Remotes, NEW reply, SendAll(c, reply)
  PROVE  RemoteIInv'
<1>1. PICK old : old = remote[c]
  OBVIOUS
<1>2. /\ old \in RemoteStates /\ Informed(old, table) /\ TableTyped
  BY <1>1, RemoteHas
<1>3. old.at = "send" /\ calls' \in 0 .. MaxCalls
  BY <1>1 DEF SendAll, RemoteIInv
<1>4. PICK docs : docs = [types : old.out, by : {c}, clash : {old.trouble}]
  OBVIOUS
<1>5. TableTyped' /\ Grows(table, table') /\ (taken' = taken \/ taken' = taken \cup docs)
  <2>1. AddOrUpdateCall(docs, reply)
    BY <1>1, <1>4 DEF SendAll
  <2>. QED
    BY <1>2, <2>1, AddTakes
<1>6. Standing(old) /\ old.known \in {"learning", "yes"}
  BY <1>2, <1>3 DEF Informed, Standing, RemoteStates
<1>7. ASSUME ~old.trouble
      PROVE  /\ \A docTypes \in old.out : WithinButKey(docTypes, table'.fields)
             /\ old.known = "yes" => Within(old.fields, table'.fields)
             /\ old.known = "learning" => old.names = << >> /\ old.lists = << >> /\ old.fields = << >>
  <2>1. Learning(old) /\ Agreed(old, table)
    BY <1>2, <1>7 DEF Informed
  <2>2. old.known = "yes" => Within(old.fields, table'.fields)
    BY <1>5, <2>1, WithinGrows DEF Agreed
  <2>3. \A docTypes \in old.out : WithinButKey(docTypes, table'.fields)
    <3>1. old.known = "learning" => old.out = {}
      BY <2>1 DEF Learning
    <3>2. \A docTypes \in old.out : WithinButKey(docTypes, old.fields)
      BY <2>1 DEF Agreed
    <3>. QED
      BY <1>6, <2>2, <3>1, <3>2 DEF Within, WithinButKey
  <2>4. old.known = "learning" => old.names = << >> /\ old.lists = << >> /\ DOMAIN old.fields = {}
    BY <1>3, <2>1, RemoteHas DEF Learning
  <2>5. old.fields \in FieldTypes
    BY <1>2 DEF RemoteStates
  <2>. QED
    BY <2>2, <2>3, <2>4, <2>5, NoFields
<1>8. DocsFit(taken, table') => DocsFit(taken', table')
  <2>1. DocsFit(docs, table')
    <3>1. \A d \in docs : d.types \in old.out /\ d.clash = old.trouble
      BY <1>4
    <3>. QED
      BY <1>7, <3>1 DEF DocsFit
  <2>. QED
    BY <1>5, <2>1 DEF DocsFit
<1>9. old.known = "yes" => table'.engine = "usable"
  BY <1>2, <1>5 DEF Informed, Works, Grows
<1>10. Return(old) \in RemoteStates /\ Informed(Return(old), table')
  BY <1>2, <1>6, <1>7, <1>9, ReturnKeeps DEF Standing
<1>11. remote' = [remote EXCEPT ![c] = Return(old)]
  BY <1>1 DEF SendAll, Turn
<1>. QED
  BY <1>3, <1>5, <1>8, <1>10, <1>11, OneMoves

\* Every step of the clients keeps it.
LEMMA RemoteSteps == RemoteIInv /\ [RemoteNext]_<<tableVars, remoteVars>> => RemoteIInv'
<1> SUFFICES ASSUME RemoteIInv, [RemoteNext]_<<tableVars, remoteVars>> PROVE RemoteIInv'
  OBVIOUS
<1>1. ASSUME NEW c \in Remotes, RemoteStep(c) PROVE RemoteIInv'
  BY <1>1, RefuseFieldKeeps, OverflowKeeps, MisfitKeyKeeps, FillFieldKeeps, EndDocKeeps,
     TableKnownKeeps, AskTableKeeps, TellFieldKeeps, CreateAtServerKeeps, AddListKeeps,
     SendAllKeeps, Zenon
  DEF RemoteStep
<1>2. ASSUME NEW c \in Remotes, RemoteCall(c, "search", << >>) PROVE RemoteIInv'
  <2>1. << >> \in Seq(GivenDocs) /\ "search" \in {"search", "add"}
    OBVIOUS
  <2>. QED
    BY <1>2, <2>1, RemoteCallKeeps
<1>3. ASSUME NEW c \in Remotes, NEW docs \in RemoteDocs, RemoteCall(c, "add", docs) PROVE RemoteIInv'
  <2>1. docs \in Seq(GivenDocs) /\ "add" \in {"search", "add"}
    BY RemoteBounds
  <2>. QED
    BY <1>3, <2>1, RemoteCallKeeps
<1>4. CASE UNCHANGED <<tableVars, remoteVars>>
  BY <1>4 DEF tableVars, remoteVars, RemoteIInv, TableTyped, DocsFit, Informed, Works
<1>. QED
  BY <1>1, <1>2, <1>3, <1>4 DEF RemoteNext

\* What the clients know, what they are doing and what the server has agree at
\* every step of any number of clients.
THEOREM RemoteInvariant == RemoteSpec => []RemoteIInv
  BY RemoteBegins, RemoteSteps, PTL DEF RemoteSpec

\* For any number of clients and all documents: a table that one knows works, a
\* client without trouble knows the server's fields, its documents fit them,
\* and it asks for no field twice.
THEOREM RemoteClientsAgree == RemoteSpec => []RemoteInv
<1>1. RemoteIInv => RemoteInv
  <2> SUFFICES ASSUME RemoteIInv PROVE RemoteInv
    OBVIOUS
  <2>1. RemoteTypeOK
    <3>1. ASSUME NEW c \in Remotes
          PROVE  /\ remote[c].known \in {"no", "learning", "yes"}
                 /\ Range(remote[c].fields) \subseteq Types
                 /\ Range(remote[c].names) \cup Range(remote[c].lists) \subseteq DOMAIN remote[c].fields
                 /\ \A d \in remote[c].out : Key \in DOMAIN d
      <4>1. remote[c] \in RemoteStates /\ Standing(remote[c])
        BY RemoteHas DEF Informed
      <4>. QED
        BY <4>1, FieldTypesAre DEF RemoteStates, Standing
    <3>. QED
      BY <3>1 DEF RemoteTypeOK, RemoteIInv
  <2>2. KnownTablesWork
    BY DEF RemoteIInv, Informed, Works, KnownTablesWork
  <2>3. RemoteKnowsFields
    BY DEF RemoteIInv, Informed, Agreed, Within, RemoteKnowsFields
  <2>4. RemoteDocsFit
    BY DEF RemoteIInv, DocsFit, WithinButKey, RemoteDocsFit, Fits
  <2>5. FieldsAreAskedOnce
    BY DEF RemoteIInv, Informed, Standing, Learning, FieldsAreAskedOnce
  <2>. QED
    BY <2>1, <2>2, <2>3, <2>4, <2>5 DEF RemoteInv
<1>. QED
  BY <1>1, RemoteInvariant, PTL

-----------------------------------------------------------------------------
(* The hub.                                                                 *)

Places ==
  [at : {"idle", "look", "ask", "docs", "query"}, kind : {"none", "add", "search", "list"},
   todo : Seq(JsonObjects), out : SUBSET FieldTypes, existed : BOOLEAN, one : BOOLEAN,
   field : VectorNames \cup {"none"}]

CacheTyped ==
  /\ cache \in [known : BOOLEAN, fields : FieldTypes]
  /\ ~cache.known => cache.fields = << >>

\* What is kept is what the server has, while no Create was refused.
CacheFits ==
  cache.known /\ ~clash => table.engine # "none" /\ Within(cache.fields, table.fields)

\* A request that goes by the schema finds it; what it has assembled fits.
InPlace(one, known, fields, refused) ==
  /\ one.at = "docs" /\ one.existed => known
  /\ \A docTypes \in one.out : Key \in DOMAIN docTypes
  /\ ~refused => \A docTypes \in one.out : WithinButKey(docTypes, fields)

HubDocsWithin(docs, tab) ==
  \A d \in docs : d.by = "hub" /\ ~d.clash => WithinButKey(d.types, tab.fields)
FoundVectors(names, tab) ==
  \A s \in names : ~s[2] => s[1] \in DOMAIN tab.fields /\ tab.fields[s[1]] = "VECTOR"

HubIInv ==
  /\ TableTyped
  /\ CacheTyped
  /\ clash \in BOOLEAN
  /\ CacheFits
  /\ hub \in [HubRequests -> Places]
  /\ \A r \in HubRequests : InPlace(hub[r], cache.known, table.fields, clash)
  /\ HubDocsWithin(taken, table)
  /\ FoundVectors(searched, table)
  /\ requests \in 0 .. MaxRequests /\ hubEnds \in 0 .. MaxHubEnds

-----------------------------------------------------------------------------

\* What is assumed of the documents.
LEMMA HubBounds ==
  /\ MaxRequests \in Nat /\ MaxHubEnds \in Nat /\ JsonDocs \subseteq Seq(JsonObjects)
  /\ \A doc \in JsonObjects : DOMAIN doc \subseteq FieldNames
  /\ HttpSchemas \subseteq FieldTypes
<1>1. ASSUME NEW fields \in HttpSchemas PROVE fields \in FieldTypes
  <2>1. fields \in [DOMAIN fields -> Types] /\ DOMAIN fields \in SUBSET FieldNames
    BY HubAssumption DEF FieldNames
  <2>. QED
    BY <2>1, FieldTypesAre
<1>. QED
  BY <1>1, HubAssumption DEF FieldNames

\* The types of a document's values.
LEMMA TypesOfIs ==
  ASSUME NEW doc \in JsonObjects
  PROVE  /\ TypesOf(doc) \in FieldTypes
         /\ DOMAIN TypesOf(doc) = WellFormed(doc) \cup ({Key} \ DOMAIN doc)
         /\ WellFormed(doc) = DOMAIN doc => Key \in DOMAIN TypesOf(doc)
<1>1. PICK names : names = WellFormed(doc) \cup ({Key} \ DOMAIN doc)
  OBVIOUS
<1>2. names \in SUBSET FieldNames
  <2>1. Key \in FieldNames
    BY DEF FieldNames
  <2>2. WellFormed(doc) \subseteq DOMAIN doc
    BY DEF WellFormed
  <2>. QED
    BY <1>1, <2>1, <2>2, HubBounds
<1>3. ASSUME NEW f \in WellFormed(doc) PROVE TypesFor(f)[doc[f]] \in Types
  <2>1. doc[f] \in DOMAIN TypesFor(f)
    BY DEF WellFormed
  <2>2. \A kind \in DOMAIN KeyType : KeyType[kind] \in Types
    BY DEF KeyType, Types
  <2>3. \A kind \in DOMAIN ValueType : ValueType[kind] \in Types
    BY DEF ValueType, Types
  <2>. QED
    BY <2>1, <2>2, <2>3 DEF TypesFor
<1>4. "STRING" \in Types
  BY DEF Types
<1>5. TypesOf(doc) = [f \in names |-> IF f \in DOMAIN doc THEN TypesFor(f)[doc[f]] ELSE "STRING"]
  BY <1>1 DEF TypesOf
<1>6. ASSUME NEW f \in names
      PROVE  (IF f \in DOMAIN doc THEN TypesFor(f)[doc[f]] ELSE "STRING") \in Types
  <2>1. f \in DOMAIN doc => f \in WellFormed(doc)
    BY <1>1
  <2>. QED
    BY <1>3, <1>4, <2>1
<1>7. TypesOf(doc) \in [names -> Types]
  BY <1>5, <1>6
<1>8. WellFormed(doc) = DOMAIN doc => Key \in names
  BY <1>1
<1>. QED
  BY <1>1, <1>2, <1>5, <1>7, <1>8, FieldTypesAre

\* Whole numbers for long fields.
LEMMA WithLongsIs ==
  ASSUME NEW docTypes \in FieldTypes
  PROVE  /\ WithLongs(docTypes) \in FieldTypes /\ DOMAIN WithLongs(docTypes) = DOMAIN docTypes
         /\ \A f \in DOMAIN docTypes :
              WithLongs(docTypes)[f]
                = IF f \in DOMAIN cache.fields /\ Longs(docTypes[f], f) THEN "LONG" ELSE docTypes[f]
<1>1. PICK names : names = DOMAIN docTypes
  OBVIOUS
<1>2. names \in SUBSET FieldNames /\ \A f \in names : docTypes[f] \in Types
  BY <1>1, FieldTypesAre
<1>3. "LONG" \in Types
  BY DEF Types
<1>4. WithLongs(docTypes) = [f \in names |-> IF f \in DOMAIN cache.fields /\ Longs(docTypes[f], f)
                                          THEN "LONG" ELSE docTypes[f]]
  BY <1>1 DEF WithLongs
<1>5. WithLongs(docTypes) \in [names -> Types]
  BY <1>2, <1>3, <1>4
<1>. QED
  BY <1>1, <1>2, <1>4, <1>5, FieldTypesAre

\* A document that is neither refused nor ends the request fits what is kept.
LEMMA AcceptedFits ==
  ASSUME NEW doc \in JsonObjects, NEW one, one.existed = TRUE,
         ~Refuses(one, doc), ~Panics(one, doc)
  PROVE  /\ WithLongs(TypesOf(doc)) \in FieldTypes
         /\ Key \in DOMAIN WithLongs(TypesOf(doc))
         /\ WithinButKey(WithLongs(TypesOf(doc)), cache.fields)
<1>1. PICK docTypes : docTypes = TypesOf(doc)
  OBVIOUS
<1>2. WellFormed(doc) = DOMAIN doc
  BY DEF Refuses
<1>3. docTypes \in FieldTypes /\ Key \in DOMAIN docTypes /\ DOMAIN docTypes = DOMAIN doc \cup ({Key} \ DOMAIN doc)
  BY <1>1, <1>2, TypesOfIs
<1>4. PICK longs : longs = WithLongs(docTypes)
  OBVIOUS
<1>5. /\ longs \in FieldTypes /\ DOMAIN longs = DOMAIN docTypes
      /\ \A f \in DOMAIN docTypes :
           longs[f] = IF f \in DOMAIN cache.fields /\ Longs(docTypes[f], f) THEN "LONG" ELSE docTypes[f]
  BY <1>3, <1>4, WithLongsIs
<1>6. ASSUME NEW f \in DOMAIN doc \ {Key}
      PROVE  f \in DOMAIN cache.fields /\ (cache.fields[f] = docTypes[f] \/ Longs(docTypes[f], f))
  BY <1>1, <1>2 DEF Refuses, Panics
<1>7. WithinButKey(longs, cache.fields)
  BY <1>3, <1>5, <1>6 DEF WithinButKey, Longs
<1>. QED
  BY <1>1, <1>3, <1>4, <1>5, <1>7

\* What is in place stays so while the table grows.
LEMMA StaysInPlace ==
  ASSUME NEW one, NEW known \in BOOLEAN, NEW known2 \in BOOLEAN, NEW before, NEW after,
         NEW refused \in BOOLEAN, NEW refused2 \in BOOLEAN,
         InPlace(one, known, before.fields, refused), Grows(before, after),
         known => known2, refused => refused2
  PROVE  InPlace(one, known2, after.fields, refused2)
<1>1. \A docTypes \in one.out : WithinButKey(docTypes, before.fields) => WithinButKey(docTypes, after.fields)
  BY WithinGrows
<1>. QED
  BY <1>1 DEF InPlace

\* What was sent and searched goes on to fit, and so does what is kept.
LEMMA SentStaysWithin ==
  ASSUME HubIInv, Grows(table, table')
  PROVE  /\ HubDocsWithin(taken, table') /\ FoundVectors(searched, table')
         /\ UNCHANGED cache /\ clash' \in BOOLEAN /\ (clash => clash') => CacheTyped' /\ CacheFits'
<1>1. HubDocsWithin(taken, table')
  <2>1. \A d \in taken : WithinButKey(d.types, table.fields) => WithinButKey(d.types, table'.fields)
    BY WithinGrows
  <2>. QED
    BY <2>1 DEF HubIInv, HubDocsWithin
<1>2. FoundVectors(searched, table')
  BY DEF HubIInv, FoundVectors, Grows, Within
<1>3. ASSUME UNCHANGED cache, clash' \in BOOLEAN, clash => clash' PROVE CacheTyped' /\ CacheFits'
  <2>1. CacheTyped'
    BY <1>3 DEF HubIInv, CacheTyped
  <2>2. Within(cache.fields, table.fields) => Within(cache.fields, table'.fields)
    BY WithinGrows
  <2>3. clash \in BOOLEAN /\ CacheFits
    BY DEF HubIInv
  <2>. QED
    BY <1>3, <2>1, <2>2, <2>3 DEF CacheFits, Grows
<1>. QED
  BY <1>1, <1>2, <1>3

\* One request moves.
LEMMA HubMoves ==
  ASSUME HubIInv, NEW r \in HubRequests, NEW new \in Places, Become(r, new),
         TableTyped', Grows(table, table'), CacheTyped', CacheFits',
         cache.known => cache'.known, clash' \in BOOLEAN, clash => clash',
         InPlace(new, cache'.known, table'.fields, clash'),
         HubDocsWithin(taken', table'), FoundVectors(searched', table'),
         requests' \in 0 .. MaxRequests, hubEnds' \in 0 .. MaxHubEnds
  PROVE  HubIInv'
<1>1. hub' \in [HubRequests -> Places]
  BY DEF HubIInv, Become
<1>2. ASSUME NEW s \in HubRequests PROVE InPlace(hub'[s], cache'.known, table'.fields, clash')
  <2>1. CASE s = r
    BY <2>1 DEF HubIInv, Become
  <2>2. CASE s # r
    <3>1. hub'[s] = hub[s]
      BY <2>2 DEF HubIInv, Become
    <3>2. /\ cache.known \in BOOLEAN /\ cache'.known \in BOOLEAN /\ clash \in BOOLEAN
          /\ InPlace(hub[s], cache.known, table.fields, clash)
      BY DEF HubIInv, CacheTyped
    <3>. QED
      BY <3>1, <3>2, StaysInPlace
  <2>. QED
    BY <2>1, <2>2
<1>. QED
  BY <1>1, <1>2 DEF HubIInv

\* A request moves, and nothing else but the counters.
LEMMA HubMovesAlone ==
  ASSUME HubIInv, NEW r \in HubRequests, NEW new \in Places, Become(r, new),
         UNCHANGED <<tableVars, cache, clash, searched, hubEnds>>,
         requests' \in 0 .. MaxRequests,
         InPlace(new, cache.known, table.fields, clash)
  PROVE  HubIInv'
<1>1. /\ UNCHANGED <<table, taken, cache, clash, searched, hubEnds>>
      /\ TableTyped /\ CacheTyped /\ CacheFits /\ clash \in BOOLEAN
      /\ hubEnds' \in 0 .. MaxHubEnds
  BY DEF tableVars, HubIInv
<1>2. TableTyped' /\ Grows(table, table')
  BY <1>1 DEF TableTyped, Grows, Within
<1>3. /\ HubDocsWithin(taken', table') /\ FoundVectors(searched', table')
      /\ CacheTyped' /\ CacheFits'
  BY <1>1, <1>2, SentStaysWithin
<1>4. InPlace(new, cache'.known, table'.fields, clash')
  BY <1>1
<1>. QED
  BY <1>1, <1>2, <1>3, <1>4, HubMoves

\* What a request is.
LEMMA HubHas ==
  ASSUME HubIInv, NEW r \in HubRequests
  PROVE  /\ hub[r] \in Places /\ InPlace(hub[r], cache.known, table.fields, clash)
         /\ requests \in 0 .. MaxRequests /\ hubEnds \in 0 .. MaxHubEnds
         /\ TableTyped /\ CacheTyped /\ CacheFits /\ clash \in BOOLEAN
         /\ cache.known \in BOOLEAN
  BY DEF HubIInv, CacheTyped

\* A place without a request.
LEMMA IdlePlace ==
  /\ NoHubRequest \in Places
  /\ \A known, fields, refused : InPlace(NoHubRequest, known, fields, refused)
<1>1. << >> \in Seq(JsonObjects)
  OBVIOUS
<1>. QED
  BY <1>1 DEF NoHubRequest, Places, InPlace

\* The first state, and that after an end of the hub.
LEMMA HubBegins == ServerInit /\ HubInit => HubIInv
<1> SUFFICES ASSUME ServerInit, HubInit PROVE HubIInv
  OBVIOUS
<1>1. TableTyped
  BY FieldTypesAre DEF ServerInit, NoTable, TableTyped
<1>2. CacheTyped /\ CacheFits
  BY FieldTypesAre DEF HubInit, NoCache, CacheTyped, CacheFits
<1>3. hub \in [HubRequests -> Places] /\ \A r \in HubRequests : hub[r] = NoHubRequest
  BY IdlePlace DEF HubInit
<1>4. HubDocsWithin(taken, table) /\ FoundVectors(searched, table)
  BY DEF ServerInit, HubInit, HubDocsWithin, FoundVectors
<1>5. requests \in 0 .. MaxRequests /\ hubEnds \in 0 .. MaxHubEnds /\ clash \in BOOLEAN
  <2>1. requests = 0 /\ hubEnds = 0 /\ clash = FALSE
    BY DEF HubInit
  <2>2. 0 \in 0 .. MaxRequests /\ 0 \in 0 .. MaxHubEnds
    BY HubBounds
  <2>. QED
    BY <2>1, <2>2, Zenon
<1>. QED
  BY <1>1, <1>2, <1>3, <1>4, <1>5, IdlePlace DEF HubIInv

\* Documents come in.
LEMMA HubAddKeeps ==
  ASSUME HubIInv, NEW r \in HubRequests, NEW docs \in JsonDocs, NEW one \in BOOLEAN,
         HubAdd(r, docs, one)
  PROVE  HubIInv'
<1>1. PICK new : new = [NoHubRequest EXCEPT !.at = "look", !.kind = "add", !.todo = docs, !.one = one]
  OBVIOUS
<1>2. docs \in Seq(JsonObjects)
  BY HubBounds
<1>3. new \in Places /\ new.at = "look" /\ new.out = {}
  BY <1>1, <1>2 DEF NoHubRequest, Places
<1>4. InPlace(new, cache.known, table.fields, clash)
  BY <1>3 DEF InPlace
<1>5. Become(r, new) /\ UNCHANGED <<tableVars, cache, clash, searched, hubEnds>>
  BY <1>1 DEF HubAdd
<1>6. requests' \in 0 .. MaxRequests
  BY HubBounds DEF HubIInv, HubAdd, Request
<1>. QED
  BY <1>3, <1>4, <1>5, <1>6, HubMovesAlone

\* A search comes in.
LEMMA HubSearchKeeps ==
  ASSUME HubIInv, NEW r \in HubRequests, NEW field \in VectorNames, HubSearch(r, field)
  PROVE  HubIInv'
<1>1. PICK new : new = [NoHubRequest EXCEPT !.at = "look", !.kind = "search", !.field = field]
  OBVIOUS
<1>2. new \in Places /\ new.at = "look" /\ new.out = {}
  BY <1>1, IdlePlace DEF NoHubRequest, Places
<1>3. InPlace(new, cache.known, table.fields, clash)
  BY <1>2 DEF InPlace
<1>4. Become(r, new) /\ UNCHANGED <<tableVars, cache, clash, searched, hubEnds>>
  BY <1>1 DEF HubSearch
<1>5. requests' \in 0 .. MaxRequests
  BY HubBounds DEF HubIInv, HubSearch, Request
<1>. QED
  BY <1>2, <1>3, <1>4, <1>5, HubMovesAlone

\* A list of fields is asked for.
LEMMA HubListKeeps ==
  ASSUME HubIInv, NEW r \in HubRequests, HubList(r)
  PROVE  HubIInv'
<1>1. PICK new : new = [NoHubRequest EXCEPT !.at = "look", !.kind = "list"]
  OBVIOUS
<1>2. new \in Places /\ new.at = "look" /\ new.out = {}
  BY <1>1, IdlePlace DEF NoHubRequest, Places
<1>3. InPlace(new, cache.known, table.fields, clash)
  BY <1>2 DEF InPlace
<1>4. Become(r, new) /\ UNCHANGED <<tableVars, cache, clash, searched, hubEnds>>
  BY <1>1 DEF HubList
<1>5. requests' \in 0 .. MaxRequests
  BY HubBounds DEF HubIInv, HubList, Request
<1>. QED
  BY <1>2, <1>3, <1>4, <1>5, HubMovesAlone

\* A request that has found the schema.
LEMMA AfterIs ==
  ASSUME NEW one \in Places, NEW known, NEW fields, NEW refused,
         InPlace(one, known, fields, refused), known
  PROVE  After(one) \in Places /\ InPlace(After(one), known, fields, refused)
<1>1. CASE one.kind = "add"
  <2>1. PICK new : new = [one EXCEPT !.at = "docs"]
    OBVIOUS
  <2>2. new \in Places /\ new.out = one.out
    BY <2>1 DEF Places
  <2>. QED
    BY <1>1, <2>1, <2>2 DEF After, InPlace
<1>2. CASE one.kind = "search"
  <2>1. PICK new : new = [one EXCEPT !.at = "query"]
    OBVIOUS
  <2>2. new \in Places /\ new.out = one.out
    BY <2>1 DEF Places
  <2>. QED
    BY <1>2, <2>1, <2>2 DEF After, InPlace
<1>3. CASE one.kind \notin {"add", "search"}
  <2>1. After(one) = NoHubRequest
    BY <1>3 DEF After
  <2>. QED
    BY <2>1, IdlePlace
<1>. QED
  BY <1>1, <1>2, <1>3

\* It looks for the schema.
LEMMA LookKeeps ==
  ASSUME HubIInv, NEW r \in HubRequests, Look(r)
  PROVE  HubIInv'
<1>1. PICK old : old = hub[r]
  OBVIOUS
<1>2. old \in Places /\ InPlace(old, cache.known, table.fields, clash)
  BY <1>1, HubHas
<1>3. UNCHANGED <<tableVars, cache, clash, searched, hubEnds>> /\ requests' \in 0 .. MaxRequests
  BY DEF Look, HubIInv
<1>4. CASE cache.known
  <2>1. Become(r, After(old))
    BY <1>1, <1>4 DEF Look
  <2>2. After(old) \in Places /\ InPlace(After(old), cache.known, table.fields, clash)
    BY <1>2, <1>4, AfterIs
  <2>. QED
    BY <1>3, <2>1, <2>2, HubMovesAlone
<1>5. CASE ~cache.known
  <2>1. PICK new : new = [old EXCEPT !.at = "ask"]
    OBVIOUS
  <2>2. new \in Places /\ new.at = "ask" /\ new.out = old.out
    BY <1>2, <2>1 DEF Places
  <2>3. InPlace(new, cache.known, table.fields, clash)
    BY <1>2, <2>2 DEF InPlace
  <2>4. Become(r, new)
    BY <1>1, <1>5, <2>1 DEF Look
  <2>. QED
    BY <1>3, <2>2, <2>3, <2>4, HubMovesAlone
<1>. QED
  BY <1>4, <1>5

\* It asks the server for the schema.
LEMMA AskServerKeeps ==
  ASSUME HubIInv, NEW r \in HubRequests, NEW reply, AskServer(r, reply)
  PROVE  HubIInv'
<1>1. PICK old : old = hub[r]
  OBVIOUS
<1>2. /\ old \in Places /\ InPlace(old, cache.known, table.fields, clash) /\ TableTyped
      /\ CacheTyped /\ CacheFits /\ clash \in BOOLEAN /\ cache.known \in BOOLEAN
      /\ requests' \in 0 .. MaxRequests /\ hubEnds' \in 0 .. MaxHubEnds
      /\ UNCHANGED <<clash, searched>>
  BY <1>1, HubHas DEF AskServer
<1>3. /\ TableTyped' /\ Grows(table, table') /\ taken' = taken /\ table' = table
      /\ reply = "there" => table.engine = "usable"
      /\ reply \in {"there", "missing", "lost"}
  BY <1>2, CheckFinds DEF AskServer
<1>4. HubDocsWithin(taken', table') /\ FoundVectors(searched', table')
  BY <1>2, <1>3, SentStaysWithin
<1>5. CASE reply = "there"
  <2>1. cache' = Cached(table.fields) /\ Become(r, After(old))
    BY <1>1, <1>5 DEF AskServer
  <2>2. cache'.known = TRUE /\ cache'.fields = table.fields
    BY <2>1 DEF Cached
  <2>3. CacheTyped'
    BY <1>2, <2>1 DEF CacheTyped, TableTyped, Cached
  <2>4. CacheFits'
    BY <1>3, <1>5, <2>2 DEF CacheFits, Within
  <2>5. InPlace(old, TRUE, table.fields, clash)
    BY <1>2 DEF InPlace
  <2>6. After(old) \in Places /\ InPlace(After(old), TRUE, table.fields, clash)
    BY <1>2, <2>5, AfterIs
  <2>7. InPlace(After(old), cache'.known, table'.fields, clash')
    BY <1>2, <1>3, <2>2, <2>6
  <2>. QED
    BY <1>2, <1>3, <1>4, <2>1, <2>2, <2>3, <2>4, <2>6, <2>7, HubMoves
<1>6. CASE reply # "there"
  <2>1. cache' = cache /\ CacheTyped' /\ CacheFits'
    BY <1>2, <1>3, <1>6, SentStaysWithin DEF AskServer
  <2>2. \E new \in Places : Become(r, new) /\ InPlace(new, cache.known, table.fields, clash)
    <3>1. CASE reply = "missing" /\ old.kind = "add"
      <4>1. PICK new : new = [old EXCEPT !.at = "docs", !.existed = FALSE]
        OBVIOUS
      <4>2. new \in Places /\ new.existed = FALSE /\ new.out = old.out
        BY <1>2, <4>1 DEF Places
      <4>3. Become(r, new)
        BY <1>1, <3>1, <4>1 DEF AskServer
      <4>4. InPlace(new, cache.known, table.fields, clash)
        BY <1>2, <4>2 DEF InPlace
      <4>. QED
        BY <4>2, <4>3, <4>4
    <3>2. CASE ~(reply = "missing" /\ old.kind = "add")
      <4>1. Become(r, NoHubRequest)
        BY <1>1, <1>6, <3>2 DEF AskServer
      <4>. QED
        BY <4>1, IdlePlace
    <3>. QED
      BY <3>1, <3>2
  <2>3. PICK new \in Places : Become(r, new) /\ InPlace(new, cache.known, table.fields, clash)
    BY <2>2
  <2>4. InPlace(new, cache'.known, table'.fields, clash')
    BY <1>2, <1>3, <2>1, <2>3
  <2>. QED
    BY <1>2, <1>3, <1>4, <2>1, <2>3, <2>4, HubMoves
<1>. QED
  BY <1>5, <1>6

\* The rest of the documents, and the first of them.
LEMMA TodoIs ==
  ASSUME NEW one \in Places, one.todo # << >>
  PROVE  Head(one.todo) \in JsonObjects /\ Tail(one.todo) \in Seq(JsonObjects)
<1>1. one.todo \in Seq(JsonObjects)
  BY DEF Places
<1>. QED
  BY <1>1

\* A request that leaves a document out.
LEMMA RefusedIs ==
  ASSUME NEW one \in Places, one.todo # << >>, NEW known, NEW fields, NEW refused,
         InPlace(one, known, fields, refused)
  PROVE  Refused(one) \in Places /\ InPlace(Refused(one), known, fields, refused)
<1>1. CASE one.one
  BY <1>1, IdlePlace DEF Refused
<1>2. CASE ~one.one
  <2>1. PICK todo \in Seq(JsonObjects) : todo = Tail(one.todo)
    BY TodoIs
  <2>2. PICK new : new = [one EXCEPT !.todo = todo]
    OBVIOUS
  <2>3. new \in Places /\ new.at = one.at /\ new.existed = one.existed /\ new.out = one.out
    BY <2>2 DEF Places
  <2>4. Refused(one) = new
    BY <1>2, <2>1, <2>2 DEF Refused
  <2>5. InPlace(new, known, fields, refused)
    BY <2>3 DEF InPlace
  <2>. QED
    BY <2>3, <2>4, <2>5
<1>. QED
  BY <1>1, <1>2

\* A request that has assembled a document.
LEMMA TakenIs ==
  ASSUME NEW one \in Places, one.todo # << >>, NEW fields, NEW refused, NEW known,
         InPlace(one, known, fields, refused),
         NEW docTypes \in FieldTypes, Key \in DOMAIN docTypes,
         ~refused => WithinButKey(docTypes, fields)
  PROVE  Taken(one, docTypes) \in Places /\ InPlace(Taken(one, docTypes), TRUE, fields, refused)
<1>1. PICK todo \in Seq(JsonObjects) : todo = Tail(one.todo)
  BY TodoIs
<1>2. PICK out \in SUBSET FieldTypes : out = one.out \cup {docTypes}
  BY DEF Places
<1>3. PICK new : new = [one EXCEPT !.todo = todo, !.existed = TRUE, !.out = out]
  OBVIOUS
<1>4. new \in Places /\ new.out = out
  BY <1>3 DEF Places
<1>5. Taken(one, docTypes) = new
  BY <1>1, <1>2, <1>3 DEF Taken
<1>6. InPlace(new, TRUE, fields, refused)
  BY <1>2, <1>4 DEF InPlace
<1>. QED
  BY <1>4, <1>5, <1>6

\* A document is refused.
LEMMA RefuseDocKeeps ==
  ASSUME HubIInv, NEW r \in HubRequests, RefuseDoc(r)
  PROVE  HubIInv'
<1>1. PICK old : old = hub[r]
  OBVIOUS
<1>2. old \in Places /\ InPlace(old, cache.known, table.fields, clash) /\ old.todo # << >>
  BY <1>1, HubHas DEF RefuseDoc, Assembling
<1>3. Refused(old) \in Places /\ InPlace(Refused(old), cache.known, table.fields, clash)
  BY <1>2, RefusedIs
<1>4. /\ Become(r, Refused(old)) /\ UNCHANGED <<tableVars, cache, clash, searched, hubEnds>>
      /\ requests' \in 0 .. MaxRequests
  BY <1>1 DEF RefuseDoc, HubIInv
<1>. QED
  BY <1>3, <1>4, HubMovesAlone

\* A field that the schema does not have ends the request.
LEMMA PanicKeeps ==
  ASSUME HubIInv, NEW r \in HubRequests, Panic(r)
  PROVE  HubIInv'
<1>1. /\ Become(r, NoHubRequest) /\ UNCHANGED <<tableVars, cache, clash, searched, hubEnds>>
      /\ requests' \in 0 .. MaxRequests
  BY DEF Panic, End, HubIInv
<1>. QED
  BY <1>1, IdlePlace, HubMovesAlone

\* A document is assembled with the fields that are kept.
LEMMA AcceptDocKeeps ==
  ASSUME HubIInv, NEW r \in HubRequests, AcceptDoc(r)
  PROVE  HubIInv'
<1>1. PICK old : old = hub[r]
  OBVIOUS
<1>2. /\ old \in Places /\ InPlace(old, cache.known, table.fields, clash) /\ CacheFits
      /\ cache.known \in BOOLEAN /\ clash \in BOOLEAN
  BY <1>1, HubHas
<1>3. PICK doc : doc = Head(old.todo)
  OBVIOUS
<1>4. /\ old.at = "docs" /\ old.todo # << >> /\ old.existed = TRUE
      /\ ~Refuses(old, doc) /\ ~Panics(old, doc)
      /\ Become(r, Taken(old, WithLongs(TypesOf(doc))))
  BY <1>1, <1>2, <1>3 DEF AcceptDoc, Assembling, Places
<1>5. doc \in JsonObjects
  BY <1>2, <1>3, <1>4, TodoIs
<1>6. PICK docTypes : docTypes = WithLongs(TypesOf(doc))
  OBVIOUS
<1>7. docTypes \in FieldTypes /\ Key \in DOMAIN docTypes /\ WithinButKey(docTypes, cache.fields)
  BY <1>4, <1>5, <1>6, AcceptedFits
<1>8. cache.known
  BY <1>2, <1>4 DEF InPlace
<1>9. ~clash => WithinButKey(docTypes, table.fields)
  BY <1>2, <1>7, <1>8 DEF CacheFits, Within, WithinButKey
<1>10. Taken(old, docTypes) \in Places /\ InPlace(Taken(old, docTypes), TRUE, table.fields, clash)
  BY <1>2, <1>4, <1>7, <1>9, TakenIs
<1>11. InPlace(Taken(old, docTypes), cache.known, table.fields, clash)
  BY <1>2, <1>8, <1>10
<1>12. UNCHANGED <<tableVars, cache, clash, searched, hubEnds>> /\ requests' \in 0 .. MaxRequests
  BY DEF AcceptDoc, HubIInv
<1>. QED
  BY <1>4, <1>6, <1>10, <1>11, <1>12, HubMovesAlone

\* The first document creates the table.
LEMMA CreateForDocKeeps ==
  ASSUME HubIInv, NEW r \in HubRequests, NEW reply, CreateForDoc(r, reply)
  PROVE  HubIInv'
<1>1. PICK old : old = hub[r]
  OBVIOUS
<1>2. /\ old \in Places /\ InPlace(old, cache.known, table.fields, clash)
      /\ TableTyped /\ CacheTyped /\ CacheFits
      /\ cache.known \in BOOLEAN /\ clash \in BOOLEAN
      /\ requests' \in 0 .. MaxRequests /\ hubEnds' \in 0 .. MaxHubEnds
  BY <1>1, HubHas DEF CreateForDoc
<1>3. PICK doc : doc = Head(old.todo)
  OBVIOUS
<1>4. PICK docTypes : docTypes = TypesOf(doc)
  OBVIOUS
<1>5. /\ old.at = "docs" /\ old.todo # << >> /\ ~Refuses(old, doc)
      /\ CreateCall(docTypes, FALSE, reply)
      /\ cache' = (IF KeptIfHeard(reply) THEN Cached(docTypes) ELSE cache)
      /\ clash' = (clash \/ reply \in {"TABLE_EXIST", "INTERNAL_ERROR"})
      /\ Become(r, IF Heard(reply) THEN Taken(old, docTypes) ELSE Refused(old))
      /\ UNCHANGED searched
  BY <1>1, <1>3, <1>4 DEF CreateForDoc, Assembling
<1>6. doc \in JsonObjects
  BY <1>2, <1>3, <1>5, TodoIs
<1>7. docTypes \in FieldTypes /\ Key \in DOMAIN docTypes
  BY <1>4, <1>5, <1>6, TypesOfIs DEF Refuses
<1>8. /\ TableTyped' /\ Grows(table, table') /\ taken' = taken
      /\ reply \in {"OK", "TABLE_EXIST", "INTERNAL_ERROR", "lost"}
      /\ reply = "OK" => table' = Usable(docTypes)
  BY <1>2, <1>5, <1>7, CreateGrows
<1>9. HubDocsWithin(taken', table') /\ FoundVectors(searched', table')
  BY <1>5, <1>8, SentStaysWithin
<1>10. clash' \in BOOLEAN /\ (clash => clash')
  BY <1>2, <1>5
<1>11. InPlace(old, cache.known, table'.fields, clash')
  BY <1>2, <1>8, <1>10, StaysInPlace
<1>12. CASE reply = "lost"
  <2>1. cache' = cache /\ Become(r, Refused(old))
    BY <1>5, <1>12 DEF KeptIfHeard, Heard
  <2>2. CacheTyped' /\ CacheFits'
    BY <1>8, <1>10, <2>1, SentStaysWithin
  <2>3. Refused(old) \in Places /\ InPlace(Refused(old), cache.known, table'.fields, clash')
    BY <1>2, <1>5, <1>11, RefusedIs
  <2>4. InPlace(Refused(old), cache'.known, table'.fields, clash')
    BY <2>1, <2>3
  <2>. QED
    BY <1>2, <1>8, <1>9, <1>10, <2>1, <2>2, <2>3, <2>4, HubMoves
<1>13. CASE reply # "lost"
  <2>1. cache' = Cached(docTypes) /\ Become(r, Taken(old, docTypes))
    BY <1>5, <1>13 DEF KeptIfHeard, Heard
  <2>2. cache'.known = TRUE /\ cache'.fields = docTypes
    BY <2>1 DEF Cached
  <2>3. CacheTyped'
    BY <1>7, <2>1 DEF CacheTyped, Cached
  <2>4. ~clash' => table'.engine = "usable" /\ table'.fields = docTypes
    <3>1. ~clash' => reply = "OK"
      BY <1>5, <1>8, <1>13, Zenon
    <3>2. table' = Usable(docTypes) => table'.engine = "usable" /\ table'.fields = docTypes
      BY DEF Usable
    <3>. QED
      BY <1>8, <3>1, <3>2
  <2>5. CacheFits'
    BY <2>2, <2>4 DEF CacheFits, Within
  <2>6. ~clash' => WithinButKey(docTypes, table'.fields)
    BY <2>4 DEF WithinButKey
  <2>7. Taken(old, docTypes) \in Places /\ InPlace(Taken(old, docTypes), TRUE, table'.fields, clash')
    BY <1>2, <1>5, <1>7, <1>11, <2>6, TakenIs
  <2>8. InPlace(Taken(old, docTypes), cache'.known, table'.fields, clash')
    BY <2>2, <2>7
  <2>. QED
    BY <1>2, <1>8, <1>9, <1>10, <2>1, <2>2, <2>3, <2>5, <2>7, <2>8, HubMoves
<1>. QED
  BY <1>12, <1>13

\* The assembled documents are sent.
LEMMA SendDocsKeeps ==
  ASSUME HubIInv, NEW r \in HubRequests, NEW reply, SendDocs(r, reply)
  PROVE  HubIInv'
<1>1. PICK old : old = hub[r]
  OBVIOUS
<1>2. /\ old \in Places /\ InPlace(old, cache.known, table.fields, clash)
      /\ TableTyped /\ CacheTyped /\ CacheFits
      /\ cache.known \in BOOLEAN /\ clash \in BOOLEAN
      /\ requests' \in 0 .. MaxRequests /\ hubEnds' \in 0 .. MaxHubEnds
      /\ UNCHANGED <<cache, clash, searched>> /\ Become(r, NoHubRequest)
  BY <1>1, HubHas DEF SendDocs, End
<1>3. PICK docs : docs = [types : old.out, by : {"hub"}, clash : {clash}]
  OBVIOUS
<1>4. TableTyped' /\ Grows(table, table') /\ (taken' = taken \/ taken' = taken \cup docs)
  <2>1. AddOrUpdateCall(docs, reply)
    BY <1>1, <1>3 DEF SendDocs
  <2>. QED
    BY <1>2, <2>1, AddTakes
<1>5. HubDocsWithin(taken, table') /\ FoundVectors(searched', table') /\ CacheTyped' /\ CacheFits'
  BY <1>2, <1>4, SentStaysWithin
<1>6. HubDocsWithin(docs, table')
  <2>1. \A d \in docs : d.types \in old.out /\ d.clash = clash
    BY <1>3
  <2>2. \A docTypes : WithinButKey(docTypes, table.fields) => WithinButKey(docTypes, table'.fields)
    BY <1>4, WithinGrows
  <2>. QED
    BY <1>2, <2>1, <2>2 DEF HubDocsWithin, InPlace
<1>7. HubDocsWithin(taken', table')
  BY <1>4, <1>5, <1>6 DEF HubDocsWithin
<1>8. InPlace(NoHubRequest, cache'.known, table'.fields, clash')
  BY IdlePlace
<1>9. cache'.known = cache.known /\ clash' = clash /\ clash' \in BOOLEAN
  BY <1>2
<1>. QED
  BY <1>2, <1>4, <1>5, <1>7, <1>8, <1>9, IdlePlace, HubMoves

\* A search is sent with the field that it names, if that has vectors.
LEMMA SendSearchKeeps ==
  ASSUME HubIInv, NEW r \in HubRequests, SendSearch(r)
  PROVE  HubIInv'
<1>1. PICK old : old = hub[r]
  OBVIOUS
<1>2. /\ TableTyped /\ CacheTyped /\ CacheFits
      /\ cache.known \in BOOLEAN /\ clash \in BOOLEAN
      /\ requests' \in 0 .. MaxRequests /\ hubEnds' \in 0 .. MaxHubEnds
      /\ UNCHANGED <<table, taken, cache, clash>> /\ Become(r, NoHubRequest)
  BY HubHas DEF SendSearch, End, tableVars
<1>3. TableTyped' /\ Grows(table, table')
  BY <1>2 DEF TableTyped, Grows, Within
<1>4. /\ HubDocsWithin(taken', table') /\ FoundVectors(searched, table')
      /\ CacheTyped' /\ CacheFits'
  BY <1>2, <1>3, SentStaysWithin
<1>5. ASSUME VectorField(old.field), ~clash
      PROVE  old.field \in DOMAIN table'.fields /\ table'.fields[old.field] = "VECTOR"
  <2>1. old.field \in DOMAIN cache.fields /\ cache.fields[old.field] = "VECTOR"
    BY <1>5 DEF VectorField, KnownField
  <2>2. cache.known
    <3>1. DOMAIN << >> = {}
      OBVIOUS
    <3>. QED
      BY <1>2, <2>1, <3>1 DEF CacheTyped
  <2>. QED
    BY <1>2, <1>5, <2>1, <2>2 DEF CacheFits, Within
<1>6. FoundVectors(searched', table')
  <2>1. \/ searched' = searched
        \/ VectorField(old.field) /\ searched' = searched \cup {<<old.field, clash>>}
    BY <1>1 DEF SendSearch
  <2>. QED
    BY <1>4, <1>5, <2>1 DEF FoundVectors
<1>7. InPlace(NoHubRequest, cache'.known, table'.fields, clash')
  BY IdlePlace
<1>8. cache'.known = cache.known /\ clash' = clash /\ clash' \in BOOLEAN
  BY <1>2
<1>. QED
  BY <1>2, <1>3, <1>4, <1>6, <1>7, <1>8, IdlePlace, HubMoves

\* What others do with the table: no request moves.
LEMMA HubStands ==
  ASSUME HubIInv, TableTyped', Grows(table, table'), taken' = taken,
         UNCHANGED <<cache, hub, clash, searched>>,
         requests' \in 0 .. MaxRequests, hubEnds' \in 0 .. MaxHubEnds
  PROVE  HubIInv'
<1>1. clash \in BOOLEAN /\ cache.known \in BOOLEAN
  BY DEF HubIInv, CacheTyped
<1>2. /\ HubDocsWithin(taken', table') /\ FoundVectors(searched', table')
      /\ CacheTyped' /\ CacheFits'
  BY <1>1, SentStaysWithin
<1>3. ASSUME NEW r \in HubRequests PROVE InPlace(hub'[r], cache'.known, table'.fields, clash')
  <2>1. InPlace(hub[r], cache.known, table.fields, clash)
    BY HubHas
  <2>2. InPlace(hub[r], cache.known, table'.fields, clash)
    BY <1>1, <2>1, StaysInPlace
  <2>. QED
    BY <2>2
<1>4. hub' \in [HubRequests -> Places] /\ clash' \in BOOLEAN
  BY DEF HubIInv
<1>. QED
  BY <1>2, <1>3, <1>4 DEF HubIInv

\* A table is created over HTTP.
LEMMA HttpCreateKeeps ==
  ASSUME HubIInv, NEW r \in HubRequests, NEW fields \in HttpSchemas, NEW reply,
         HttpCreate(r, fields, reply)
  PROVE  HubIInv'
<1>1. PICK keyed : keyed = WithTableKey(fields)
  OBVIOUS
<1>2. keyed \in FieldTypes
  <2>1. fields \in FieldTypes
    BY HubBounds
  <2>2. PICK f : f = Key
    OBVIOUS
  <2>3. PICK type : type = "STRING"
    OBVIOUS
  <2>4. f \in FieldNames /\ type \in Types
    BY <2>2, <2>3 DEF FieldNames, Types
  <2>5. Including(fields, f, type) \in FieldTypes
    BY <2>1, <2>4, IncludingIs
  <2>. QED
    BY <1>1, <2>1, <2>2, <2>3, <2>5 DEF WithTableKey
<1>3. CreateCall(keyed, FALSE, reply) /\ UNCHANGED <<cache, hub, clash, searched, hubEnds>>
  BY <1>1 DEF HttpCreate
<1>4. TableTyped' /\ Grows(table, table') /\ taken' = taken
  BY <1>2, <1>3, CreateGrows DEF HubIInv
<1>5. requests' \in 0 .. MaxRequests
  BY HubBounds DEF HubIInv, HttpCreate, Request
<1>6. hubEnds' \in 0 .. MaxHubEnds
  BY <1>3 DEF HubIInv
<1>. QED
  BY <1>3, <1>4, <1>5, <1>6, HubStands

\* Another client adds a field through the hub.
LEMMA HandOnAddFieldsKeeps ==
  ASSUME HubIInv, NEW reply, HandOnAddFields("extra", "INT", reply)
  PROVE  HubIInv'
<1>1. PICK f : f = "extra"
  OBVIOUS
<1>2. PICK type : type = "INT"
  OBVIOUS
<1>3. f \in FieldNames /\ type \in Types
  BY <1>1, <1>2 DEF FieldNames, Types
<1>4. AddFieldsCall(f, type, reply) /\ UNCHANGED <<cache, hub, clash, searched, hubEnds>>
  BY <1>1, <1>2 DEF HandOnAddFields
<1>5. TableTyped' /\ Grows(table, table') /\ taken' = taken
  BY <1>3, <1>4, AddFieldsGrows DEF HubIInv
<1>6. requests' \in 0 .. MaxRequests
  BY HubBounds DEF HubIInv, HandOnAddFields
<1>7. hubEnds' \in 0 .. MaxHubEnds
  BY <1>4 DEF HubIInv
<1>. QED
  BY <1>4, <1>5, <1>6, <1>7, HubStands

\* A condition is sent: nothing of the schema is involved.
LEMMA SendConditionKeeps ==
  ASSUME HubIInv, NEW r \in HubRequests, NEW ids, NEW ranges, NEW terms,
         SendCondition(r, ids, ranges, terms)
  PROVE  HubIInv'
<1>1. UNCHANGED <<table, taken, cache, hub, clash, searched, hubEnds>>
  BY DEF SendCondition, tableVars
<1>2. TableTyped' /\ Grows(table, table')
  BY <1>1 DEF HubIInv, TableTyped, Grows, Within
<1>3. requests' \in 0 .. MaxRequests
  BY HubBounds DEF HubIInv, SendCondition, Request
<1>4. hubEnds' \in 0 .. MaxHubEnds
  BY <1>1 DEF HubIInv
<1>. QED
  BY <1>1, <1>2, <1>3, <1>4, HubStands

\* The hub ends and starts again: it has forgotten what it knew.
LEMMA EndHubKeeps ==
  ASSUME HubIInv, EndHub
  PROVE  HubIInv'
<1>1. UNCHANGED <<table, taken, searched, requests>> /\ cache' = NoCache /\ clash' = FALSE
  BY DEF EndHub, tableVars
<1>2. /\ TableTyped' /\ HubDocsWithin(taken', table') /\ FoundVectors(searched', table')
      /\ requests' \in 0 .. MaxRequests /\ clash' \in BOOLEAN
  BY <1>1 DEF HubIInv, TableTyped
<1>3. CacheTyped' /\ CacheFits'
  BY <1>1, FieldTypesAre DEF NoCache, CacheTyped, CacheFits
<1>4. hub' = [r \in HubRequests |-> NoHubRequest]
  BY DEF EndHub
<1>5. hub' \in [HubRequests -> Places] /\ \A r \in HubRequests : hub'[r] = NoHubRequest
  BY <1>4, IdlePlace
<1>6. hubEnds' \in 0 .. MaxHubEnds
  BY HubBounds DEF HubIInv, EndHub
<1>. QED
  BY <1>2, <1>3, <1>5, <1>6, IdlePlace DEF HubIInv

\* Every step of the hub keeps it.
LEMMA HubSteps == HubIInv /\ [HubNext]_<<tableVars, hubVars>> => HubIInv'
<1> SUFFICES ASSUME HubIInv, [HubNext]_<<tableVars, hubVars>> PROVE HubIInv'
  OBVIOUS
<1>1. ASSUME NEW r \in HubRequests, HubStep(r) PROVE HubIInv'
  BY <1>1, LookKeeps, RefuseDocKeeps, PanicKeeps, AcceptDocKeeps, SendSearchKeeps,
     AskServerKeeps, CreateForDocKeeps, SendDocsKeeps, Zenon
  DEF HubStep
<1>2. ASSUME NEW r \in HubRequests, Arrival(r) PROVE HubIInv'
  BY <1>2, HubAddKeeps, HubSearchKeeps, HubListKeeps, HttpCreateKeeps, Zenon
  DEF Arrival
<1>3. ASSUME NEW r \in HubRequests, NEW ids, NEW ranges, NEW terms,
             SendCondition(r, ids, ranges, terms)
      PROVE  HubIInv'
  BY <1>3, SendConditionKeeps
<1>4. ASSUME Beside PROVE HubIInv'
  BY <1>4, HandOnAddFieldsKeeps, EndHubKeeps, Zenon DEF Beside
<1>5. CASE UNCHANGED <<tableVars, hubVars>>
  <2>1. UNCHANGED <<table, taken, cache, hub, clash, searched, requests, hubEnds>>
    BY <1>5 DEF tableVars, hubVars
  <2>2. TableTyped' /\ Grows(table, table')
    BY <2>1 DEF HubIInv, TableTyped, Grows, Within
  <2>3. requests' \in 0 .. MaxRequests /\ hubEnds' \in 0 .. MaxHubEnds
    BY <2>1 DEF HubIInv
  <2>. QED
    BY <2>1, <2>2, <2>3, HubStands
<1>. QED
  BY <1>1, <1>2, <1>3, <1>4, <1>5 DEF HubNext

\* What the hub keeps as the schema, what its requests have assembled by it and
\* what they sent agree with the server at every step.
THEOREM HubInvariant == HubSpec => []HubIInv
  BY HubBegins, HubSteps, PTL DEF HubSpec

\* For any number of requests and all documents: unless a Create of /add was
\* refused since the hub runs, the schema it keeps is the server's, the
\* documents it passes on fit the fields, and its searches name vector fields.
THEOREM HubFitsTheServer == HubSpec => []HubInv
<1>1. HubIInv => HubInv
  <2> SUFFICES ASSUME HubIInv PROVE HubInv
    OBVIOUS
  <2>1. HubTypeOK
    <3>1. cache \in {NoCache, Cached(cache.fields)} /\ Range(cache.fields) \subseteq Types
      <4>1. Range(cache.fields) \subseteq Types
        BY FieldTypesAre DEF HubIInv, CacheTyped
      <4>2. cache \in {NoCache, Cached(cache.fields)}
        BY DEF HubIInv, CacheTyped, NoCache, Cached
      <4>. QED
        BY <4>1, <4>2
    <3>2. ASSUME NEW r \in HubRequests
          PROVE  /\ hub[r].at \in {"idle", "look", "ask", "docs", "query"}
                 /\ \A docTypes \in hub[r].out : Key \in DOMAIN docTypes /\ Range(docTypes) \subseteq Types
      BY HubHas, FieldTypesAre DEF Places, InPlace
    <3>. QED
      BY <3>1, <3>2 DEF HubTypeOK, HubIInv
  <2>2. HubKnowsTheTable
    BY DEF HubIInv, CacheFits, Within, HubKnowsTheTable
  <2>3. HubDocsFit
    BY DEF HubIInv, HubDocsWithin, WithinButKey, HubDocsFit, Fits
  <2>4. SearchesNameVectors
    BY DEF HubIInv, FoundVectors, SearchesNameVectors
  <2>. QED
    BY <2>1, <2>2, <2>3, <2>4 DEF HubInv
<1>. QED
  BY <1>1, HubInvariant, PTL
-----------------------------------------------------------------------------
(* The library.  What a call of add holds, document for document.          *)

SoFields == {"created", "types", "attr", "extra", "hasExtra", "batch", "hasKey",
             "doc", "docs", "ret", "raised"}

IsList(s) == s \in Seq(ToSet(s))

\* Fields with their types are among those of the library.
Among(fields, known) ==
  \A f \in DOMAIN fields : f \in DOMAIN known /\ fields[f] = known[f]

Collected(fields, known) ==
  \A i \in DOMAIN fields :
    fields[i][1] \in DOMAIN known /\ fields[i][2] = known[fields[i][1]]

\* Every document fits what the library knows, and one that is alone has a key
\* or the key is of another type than a string.
DocsAreSound(docs, known) ==
  /\ IsList(docs)
  /\ \A i \in DOMAIN docs : docs[i].keyed \in BOOLEAN /\ Among(docs[i].fields, known)
  /\ Len(docs) = 1 =>
       docs[1].keyed \/ (Id \in DOMAIN known /\ known[Id] # "STRING")

SoIsSound(so) ==
  /\ DOMAIN so = SoFields
  /\ DOMAIN so.doc = {"fields", "keyed"}
  /\ so.created \in BOOLEAN /\ so.hasExtra \in BOOLEAN /\ so.hasKey \in BOOLEAN
  /\ so.raised \in BOOLEAN /\ so.doc.keyed \in BOOLEAN /\ so.ret \in Int
  /\ IsList(so.attr)
  /\ Among(so.batch, so.types)
  /\ Among(so.doc.fields, so.types)
  /\ DocsAreSound(so.docs, so.types)
  /\ ~so.created /\ so.hasExtra => Collected(so.attr, so.types)

\* The table is the same one; what is known of it only grows.
SameTable(base, so) ==
  /\ so.created = base.created /\ so.hasExtra = base.hasExtra
  /\ Among(base.types, so.types)

\* Within a document: a key that was seen is that of the document.
PairsHold(base, so) ==
  /\ SoIsSound(so)
  /\ SameTable(base, so)
  /\ so.docs = base.docs
  /\ base.raised => so.raised
  /\ ~base.hasKey /\ so.hasKey /\ ~so.raised => so.doc.keyed

\* Between documents: no key was seen before the first one.
DocsHold(base, so) ==
  /\ SoIsSound(so)
  /\ SameTable(base, so)
  /\ so.docs = << >> /\ so.hasKey => so.raised

-----------------------------------------------------------------------------
(* The inductive invariant of the library. *)

KnownAreTyped ==
  /\ \A t \in DOMAIN attr : IsList(attr[t])
  /\ \A t \in DOMAIN extra : check[t] \/ Collected(attr[t], types[t])

CreatedHaveSchemas ==
  \A t \in DOMAIN check : check[t] =>
    /\ t \in DOMAIN handles /\ handles[t] \in {"created", "closed"}
    /\ t \in DOMAIN schemas /\ Among(schemas[t], types[t])

MetaIsSound ==
  /\ DOMAIN meta = {"state", "check", "types", "attr"}
  /\ DOMAIN meta.types = DOMAIN meta.check /\ DOMAIN meta.attr = DOMAIN meta.check
  /\ \A t \in DOMAIN meta.check :
       /\ meta.check[t] \in BOOLEAN
       /\ IsList(meta.attr[t])
       /\ meta.check[t] => t \in DOMAIN schemas /\ Among(schemas[t], meta.types[t])

FirstDocsAreSound ==
  /\ DOMAIN pending = {"step", "table", "docs"}
  /\ pending.step \in {"none", "created", "added", "writing"}
  /\ pending.step # "none" =>
       /\ alive
       /\ pending.table \in DOMAIN check
       /\ pending.table \in DOMAIN handles /\ handles[pending.table] = "created"
       /\ pending.table \in DOMAIN schemas
       /\ Among(schemas[pending.table], types[pending.table])
       /\ DocsAreSound(pending.docs, types[pending.table])
       /\ pending.step # "created" => check[pending.table]
  /\ pending.step = "writing" => meta.state = "partial"
  /\ alive /\ meta.state = "partial" => pending.step = "writing"

MetaKeepsTables ==
  alive =>
    /\ \A t \in returned : t \in DOMAIN check /\ check[t]
    /\ meta.state # "partial" =>
         /\ \A t \in DOMAIN check : check[t] =>
              \/ t \in DOMAIN meta.check /\ meta.check[t]
              \/ pending.step = "added" /\ pending.table = t
         /\ \A t \in returned : t \in DOMAIN meta.check /\ meta.check[t]

RowsFit ==
  \A row \in stored :
    /\ row.table \in DOMAIN schemas
    /\ Among(row.fields, schemas[row.table])
    /\ row.alone /\ ~row.keyed =>
         Id \notin DOMAIN schemas[row.table] \/ schemas[row.table][Id] # "STRING"

LocalIInv ==
  /\ LocalTypeOK
  /\ alive \in BOOLEAN
  /\ KnownAreTyped
  /\ CreatedHaveSchemas
  /\ MetaIsSound
  /\ FirstDocsAreSound
  /\ MetaKeepsTables
  /\ RowsFit


\* A set of numbers that is not empty has a lowest one.
LEMMA LowestNumber ==
  ASSUME NEW S, S \subseteq Nat, S # {}
  PROVE  \E m \in S : \A k \in S : m <= k
<1> DEFINE R == StrictSubsetOrdering(Nat)
           F == FiniteSubsetsOf(Nat)
           T == {0 .. n : n \in S}
<1>1. IsWellFoundedOn(R, F)
  BY FS_StrictSubsetOrderingWellFounded
<1>2. T \subseteq F
  <2>1. ASSUME NEW n \in S PROVE 0 .. n \in F
    <3>1. n \in Nat /\ 0 .. n \subseteq Nat
      OBVIOUS
    <3>2. IsFiniteSet(0 .. n)
      BY <3>1, FS_Interval
    <3> QED
      BY <3>1, <3>2 DEF FiniteSubsetsOf
  <2> HIDE DEF F
  <2> QED
    BY <2>1
<1>3. T # {}
  OBVIOUS
<1>4. PICK x \in T : \A y \in T : ~(<<y, x>> \in R)
  <2> HIDE DEF R, F, T
  <2> QED
    BY <1>1, <1>2, <1>3, WFMin
<1>5. PICK m \in S : x = 0 .. m
  OBVIOUS
<1>6. ASSUME NEW k \in S, k < m PROVE FALSE
  <2>1. m \in Nat /\ k \in Nat
    OBVIOUS
  <2>2. 0 .. k \subseteq 0 .. m /\ m \in 0 .. m /\ m \notin 0 .. k
    BY <1>6, <2>1
  <2>3. 0 .. k \in T /\ 0 .. k \subseteq Nat /\ 0 .. m \subseteq Nat
    BY <2>1
  <2>4. <<0 .. k, 0 .. m>> \in R
    BY <2>2, <2>3 DEF StrictSubsetOrdering
  <2> QED
    BY <2>3, <2>4, <1>4, <1>5
<1> QED
  BY <1>6

\* Max of numbers up to a bound.
LEMMA MaxIs ==
  ASSUME NEW n \in Nat, NEW S \in SUBSET (1 .. n), S # {}
  PROVE  Max(S) \in S /\ \A y \in S : y <= Max(S)
<1> DEFINE Below == {n - s : s \in S}
<1>1. Below \subseteq Nat /\ Below # {}
  <2>1. PICK x \in S : TRUE
    OBVIOUS
  <2>2. n - x \in Below
    BY <2>1
  <2>3. ASSUME NEW s \in S PROVE n - s \in Nat
    <3>1. s \in 1 .. n
      OBVIOUS
    <3> QED
      BY <3>1
  <2> QED
    BY <2>2, <2>3
<1>2. PICK d \in Below : \A k \in Below : d <= k
  <2> HIDE DEF Below
  <2> QED
    BY <1>1, LowestNumber
<1>3. PICK m \in S : d = n - m
  OBVIOUS
<1>4. \A y \in S : m >= y
  <2> SUFFICES ASSUME NEW y \in S PROVE m >= y
    OBVIOUS
  <2>1. n - y \in Below /\ m \in Int /\ y \in Int
    OBVIOUS
  <2>2. n - m <= n - y
    BY <1>2, <1>3, <2>1
  <2> QED
    BY <2>1, <2>2
<1>5. \E x \in S : \A y \in S : x >= y
  BY <1>4
<1>6. Max(S) \in S /\ \A y \in S : Max(S) >= y
  BY <1>5, Zenon DEF Max
<1> QED
  BY <1>6

\* The two ways in which add goes through a list: the pairs of a document, and
\* the documents.  Each is a function of the places passed so far.
Passed(pairs, so, x) == IF pairs THEN Take(so, x) ELSE TakeDoc(so, x)
Passage(pairs, base, seq, g) ==
  [S \in SUBSET DOMAIN seq |->
     IF S = {} THEN base ELSE Passed(pairs, g[S \ {Max(S)}], seq[Max(S)])]
Holds(pairs, base, so) == IF pairs THEN PairsHold(base, so) ELSE DocsHold(base, so)

\* There is a function that takes every step.
LEMMA PassageExists ==
  ASSUME NEW pairs, NEW base, NEW seq, Len(seq) \in Nat, DOMAIN seq = 1 .. Len(seq)
  PROVE  \E g : g = Passage(pairs, base, seq, g)
<1> DEFINE n == Len(seq)
           All == SUBSET (1 .. n)
           Reached(g, S) == IF S = {} THEN base
                          ELSE Passed(pairs, g[S \ {Max(S)}], seq[Max(S)])
           Steps(g, k) == \A S \in All : S \subseteq 1 .. k => g[S] = Reached(g, S)
           Far(k) == \E g : DOMAIN g = All /\ Steps(g, k)
           Short == {k \in Nat : ~Far(k)}
<1>1. \A g : /\ DOMAIN Passage(pairs, base, seq, g) = All
             /\ \A S \in All : Passage(pairs, base, seq, g)[S] = Reached(g, S)
  BY DEF Passage
<1>2. \A k \in Nat, S \in All : S # {} /\ S \subseteq 1 .. k + 1 =>
        S \ {Max(S)} \in All /\ S \ {Max(S)} \subseteq 1 .. k
  <2> SUFFICES ASSUME NEW k \in Nat, NEW S \in All, S # {}, S \subseteq 1 .. k + 1
               PROVE  S \ {Max(S)} \subseteq 1 .. k
    OBVIOUS
  <2> DEFINE m == Max(S)
  <2>1. m \in S /\ \A y \in S : y <= m
    BY MaxIs
  <2> HIDE DEF m
  <2>2. ASSUME NEW y \in S \ {m} PROVE y \in 1 .. k
    <3>1. y \in 1 .. k + 1 /\ m \in 1 .. k + 1 /\ y <= m /\ y # m
      BY <2>1, <2>2
    <3> QED
      BY <3>1
  <2> QED
    BY <2>2 DEF m
<1>3. Far(0)
  <2> DEFINE g == Passage(pairs, base, seq, << >>)
  <2>1. DOMAIN g = All /\ g[{}] = base
    BY <1>1
  <2>2. \A S \in All : S \subseteq 1 .. 0 => S = {}
    OBVIOUS
  <2>3. Steps(g, 0)
    BY <2>1, <2>2
  <2> QED
    BY <2>1, <2>3
<1>4. ASSUME NEW k \in Nat, Far(k) PROVE Far(k + 1)
  <2>1. PICK g : DOMAIN g = All /\ Steps(g, k)
    BY <1>4
  <2> DEFINE h == Passage(pairs, base, seq, g)
  <2>2. DOMAIN h = All /\ \A S \in All : h[S] = Reached(g, S)
    BY <1>1
  <2> HIDE DEF h
  <2>3. ASSUME NEW S \in All, S \subseteq 1 .. k + 1 PROVE h[S] = Reached(h, S)
    <3>1. CASE S = {}
      BY <2>2, <3>1
    <3>2. CASE S # {}
      <4> DEFINE T == S \ {Max(S)}
      <4>1. T \in All /\ T \subseteq 1 .. k
        BY <1>2, <2>3, <3>2
      <4>2. g[T] = Reached(g, T) /\ h[T] = Reached(g, T)
        BY <2>1, <2>2, <4>1
      <4>3. g[T] = h[T]
        BY <4>2
      <4>4. h[S] = Passed(pairs, g[T], seq[Max(S)])
        BY <2>2, <3>2
      <4>5. Reached(h, S) = Passed(pairs, h[T], seq[Max(S)])
        BY <3>2
      <4> HIDE DEF T
      <4> QED
        BY <4>3, <4>4, <4>5
    <3> QED
      BY <3>1, <3>2
  <2>4. Steps(h, k + 1)
    BY <2>3
  <2> QED
    BY <2>2, <2>4
<1>5. Far(n)
  <2> SUFFICES ASSUME ~Far(n) PROVE FALSE
    OBVIOUS
  <2> HIDE DEF Far
  <2>1. n \in Short /\ Short \subseteq Nat
    OBVIOUS
  <2>2. PICK k \in Short : \A j \in Short : k <= j
    <3> HIDE DEF Short
    <3> QED
      BY <2>1, LowestNumber
  <2>3. k \in Nat /\ ~Far(k) /\ k # 0
    BY <1>3, <2>2
  <2>4. k - 1 \in Nat /\ ~(k - 1 \in Short)
    BY <2>2, <2>3
  <2>5. Far(k - 1)
    BY <2>4
  <2>6. Far((k - 1) + 1)
    BY <1>4, <2>4, <2>5
  <2>7. (k - 1) + 1 = k
    BY <2>3
  <2> QED
    BY <2>3, <2>6, <2>7
<1>6. PICK g : DOMAIN g = All /\ Steps(g, n)
  BY <1>5
<1> DEFINE h == Passage(pairs, base, seq, g)
<1>7. DOMAIN h = All /\ \A S \in All : h[S] = g[S]
  BY <1>1, <1>6
<1>8. \A S \in All : S \ {Max(S)} \in All
  OBVIOUS
<1>9. \A S \in All : Reached(g, S) = Reached(h, S)
  <2> HIDE DEF h
  <2> QED
    BY <1>7, <1>8
<1>10. \A x : Passage(pairs, base, seq, x) = [S \in All |-> Reached(x, S)]
  BY DEF Passage
<1>11. Passage(pairs, base, seq, h) = Passage(pairs, base, seq, g)
  <2> HIDE DEF h, Reached
  <2> QED
    BY <1>9, <1>10
<1> QED
  BY <1>11

\* What holds at the start and is kept by each step holds at the end.
LEMMA PassageHolds ==
  ASSUME NEW pairs, NEW base, NEW seq, Len(seq) \in Nat, DOMAIN seq = 1 .. Len(seq),
         NEW g, g = Passage(pairs, base, seq, g),
         Holds(pairs, base, base),
         \A so : Holds(pairs, base, so) =>
                   \A i \in DOMAIN seq : Holds(pairs, base, Passed(pairs, so, seq[i]))
  PROVE  Holds(pairs, base, g[DOMAIN seq])
<1> DEFINE n == Len(seq)
           All == SUBSET (1 .. n)
           Bad == {k \in Nat : \E S \in All : S \subseteq 1 .. k /\ ~Holds(pairs, base, g[S])}
<1>1. \A S \in All : g[S] = IF S = {} THEN base
                            ELSE Passed(pairs, g[S \ {Max(S)}], seq[Max(S)])
  <2>1. \A S \in All : Passage(pairs, base, seq, g)[S] =
                         IF S = {} THEN base
                         ELSE Passed(pairs, g[S \ {Max(S)}], seq[Max(S)])
    BY DEF Passage
  <2> QED
    BY <2>1
<1>2. SUFFICES ASSUME ~Holds(pairs, base, g[1 .. n]) PROVE FALSE
  OBVIOUS
<1>3. n \in Bad /\ Bad \subseteq Nat
  BY <1>2
<1>4. PICK k \in Bad : \A j \in Bad : k <= j
  <2> HIDE DEF Bad
  <2> QED
    BY <1>3, LowestNumber
<1>5. PICK S \in All : S \subseteq 1 .. k /\ ~Holds(pairs, base, g[S])
  OBVIOUS
<1>6. S # {}
  BY <1>1, <1>5
<1>7. Max(S) \in S /\ \A y \in S : y <= Max(S)
  BY <1>6, MaxIs
<1> DEFINE m == Max(S)
           T == S \ {m}
<1>8. k \in Nat /\ m \in 1 .. k
  BY <1>4, <1>5, <1>7
<1>9. k - 1 \in Nat /\ T \in All /\ T \subseteq 1 .. k - 1
  <2> HIDE DEF m
  <2>1. ASSUME NEW y \in T PROVE y \in 1 .. k - 1
    <3>1. y \in 1 .. k /\ y <= m /\ y # m
      BY <1>5, <1>7, <2>1 DEF m
    <3> QED
      BY <1>8, <3>1
  <2> QED
    BY <1>8, <2>1
<1>10. ~(k - 1 \in Bad)
  <2> HIDE DEF Bad
  <2>1. ~(k <= k - 1)
    BY <1>8
  <2> QED
    BY <1>4, <2>1
<1>11. Holds(pairs, base, g[T])
  BY <1>9, <1>10
<1>12. g[S] = Passed(pairs, g[T], seq[Max(S)]) /\ Max(S) \in DOMAIN seq
  BY <1>1, <1>6, <1>7
<1> HIDE DEF T
<1> QED
  BY <1>5, <1>11, <1>12

\* The two folds are such passages.
LEMMA FoldsPass ==
  ASSUME NEW base, NEW seq, Len(seq) \in Nat, DOMAIN seq = 1 .. Len(seq)
  PROVE  /\ \E g : g = Passage(TRUE, base, seq, g) /\ FoldLeft(Take, base, seq) = g[DOMAIN seq]
         /\ \E g : g = Passage(FALSE, base, seq, g) /\ FoldLeft(TakeDoc, base, seq) = g[DOMAIN seq]
<1> DEFINE Pairs(g) == [S \in SUBSET DOMAIN seq |->
             IF S = {} THEN base ELSE Take(g[S \ {Max(S)}], seq[Max(S)])]
           Docs(g) == [S \in SUBSET DOMAIN seq |->
             IF S = {} THEN base ELSE TakeDoc(g[S \ {Max(S)}], seq[Max(S)])]
           pairs == CHOOSE g : g = Pairs(g)
           docs == CHOOSE g : g = Docs(g)
<1>1. FoldLeft(Take, base, seq) = pairs[DOMAIN seq]
  BY Zenon DEF FoldLeft, MapThenFoldSet
<1>2. FoldLeft(TakeDoc, base, seq) = docs[DOMAIN seq]
  BY Zenon DEF FoldLeft, MapThenFoldSet
<1>3. \A g : Passage(TRUE, base, seq, g) = Pairs(g)
  BY DEF Passage, Passed
<1>4. \A g : Passage(FALSE, base, seq, g) = Docs(g)
  BY DEF Passage, Passed
<1> HIDE DEF Pairs, Docs
<1>5. \E g : g = Pairs(g)
  <2>1. \E g : g = Passage(TRUE, base, seq, g)
    BY PassageExists
  <2> QED
    BY <1>3, <2>1, Zenon
<1>6. \E g : g = Docs(g)
  <2>1. \E g : g = Passage(FALSE, base, seq, g)
    BY PassageExists
  <2> QED
    BY <1>4, <2>1, Zenon
<1>7. pairs = Pairs(pairs)
  BY <1>5, Zenon
<1>8. docs = Docs(docs)
  BY <1>6, Zenon
<1> HIDE DEF pairs, docs
<1> QED
  BY <1>1, <1>2, <1>3, <1>4, <1>7, <1>8

\* A list that is appended to.
LEMMA ListMore ==
  ASSUME NEW s, IsList(s), NEW e
  PROVE  /\ Len(s) \in Nat /\ DOMAIN s = 1 .. Len(s)
         /\ IsList(Append(s, e)) /\ Len(Append(s, e)) = Len(s) + 1
         /\ DOMAIN Append(s, e) = 1 .. Len(s) + 1
         /\ \A i \in DOMAIN s : Append(s, e)[i] = s[i]
         /\ Append(s, e)[Len(s) + 1] = e
<1> DEFINE R == ToSet(s) \cup {e}
           a == Append(s, e)
<1>1. s \in Seq(ToSet(s))
  BY DEF IsList
<1>2. s \in Seq(R)
  <2> DEFINE Q == ToSet(s)
  <2>1. s \in Seq(Q)
    BY <1>1
  <2> HIDE DEF Q
  <2>2. Len(s) \in Nat /\ DOMAIN s = 1 .. Len(s) /\ \A i \in 1 .. Len(s) : s[i] \in Q
    BY <2>1
  <2>3. \A i \in 1 .. Len(s) : s[i] \in Q \cup {e}
    BY <2>2
  <2>4. s = [i \in 1 .. Len(s) |-> s[i]]
    BY <2>1
  <2>5. s \in Seq(Q \cup {e})
    BY <2>2, <2>3, <2>4
  <2> QED
    BY <2>5 DEF Q
<1>3. e \in R
  OBVIOUS
<1> HIDE DEF R
<1>4. /\ Len(s) \in Nat /\ DOMAIN s = 1 .. Len(s)
      /\ a \in Seq(R) /\ Len(a) = Len(s) + 1
      /\ DOMAIN a = 1 .. Len(s) + 1
      /\ \A i \in 1 .. Len(s) : a[i] = s[i]
      /\ a[Len(s) + 1] = e
  BY <1>2, <1>3
<1> HIDE DEF a
<1>5. \A i \in 1 .. Len(a) : a[i] \in ToSet(a)
  BY <1>4 DEF ToSet
<1>6. IsList(a)
  <2> DEFINE Q == ToSet(a)
  <2>1. \A i \in 1 .. Len(a) : a[i] \in Q
    BY <1>5
  <2>2. a = [i \in 1 .. Len(a) |-> a[i]] /\ Len(a) \in Nat
    BY <1>4
  <2> HIDE DEF Q
  <2>3. a \in Seq(Q)
    BY <2>1, <2>2
  <2> QED
    BY <2>3 DEF Q, IsList
<1> QED
  BY <1>4, <1>6 DEF a

\* A sequence is a list, and so is a function of the places of one.
LEMMA ListsAre ==
  ASSUME NEW n \in Nat, NEW s, s = [i \in 1 .. n |-> s[i]]
  PROVE  IsList(s) /\ Len(s) = n
<1> DEFINE Q == ToSet(s)
<1>1. DOMAIN s = 1 .. n
  OBVIOUS
<1>2. \A i \in 1 .. n : s[i] \in Q
  BY <1>1 DEF ToSet
<1> HIDE DEF Q
<1>3. s \in Seq(Q) /\ Len(s) = n
  BY <1>2
<1> QED
  BY <1>3 DEF Q, IsList

\* The empty list.
LEMMA EmptyList == IsList(<< >>) /\ Len(<< >>) = 0 /\ DOMAIN << >> = {}
<1>1. << >> = [i \in 1 .. 0 |-> << >>[i]] /\ Len(<< >>) = 0 /\ DOMAIN << >> = {}
  OBVIOUS
<1> QED
  BY <1>1, ListsAre

\* What With returns.
LEMMA WithIs ==
  ASSUME NEW f, NEW k, NEW v
  PROVE  /\ DOMAIN With(f, k, v) = DOMAIN f \cup {k}
         /\ With(f, k, v)[k] = v
         /\ \A x \in DOMAIN f : x # k => With(f, k, v)[x] = f[x]
BY DEF With

\* What is known may grow further.
LEMMA AmongMore ==
  ASSUME NEW a, NEW b, NEW c, Among(a, b), Among(b, c)
  PROVE  Among(a, c)
BY DEF Among

\* A field more that is known.
LEMMA AmongWith ==
  ASSUME NEW a, NEW b, NEW f, NEW v, Among(a, b), f \in DOMAIN b, b[f] = v
  PROVE  Among(With(a, f, v), b) /\ f \in DOMAIN With(a, f, v)
<1> DEFINE w == With(a, f, v)
<1>1. /\ DOMAIN w = DOMAIN a \cup {f} /\ w[f] = v
      /\ \A x \in DOMAIN a : x # f => w[x] = a[x]
  BY DEF With
<1> HIDE DEF w
<1>2. SUFFICES ASSUME NEW x \in DOMAIN w PROVE x \in DOMAIN b /\ w[x] = b[x]
  BY <1>1 DEF Among, w
<1>3. CASE x = f
  BY <1>1, <1>3
<1>4. CASE x # f
  BY <1>1, <1>4 DEF Among
<1> QED
  BY <1>3, <1>4

\* A field that was not known.
LEMMA AmongMoreKnown ==
  ASSUME NEW a, NEW f, NEW v, f \notin DOMAIN a
  PROVE  /\ Among(a, With(a, f, v))
         /\ f \in DOMAIN With(a, f, v) /\ With(a, f, v)[f] = v
BY DEF Among, With

\* Documents that fit what was known fit what is known.
LEMMA DocsGrow ==
  ASSUME NEW docs, NEW a, NEW b, DocsAreSound(docs, a), Among(a, b)
  PROVE  DocsAreSound(docs, b)
<1>1. \A i \in DOMAIN docs : Among(docs[i].fields, b)
  BY AmongMore DEF DocsAreSound
<1>2. Id \in DOMAIN a /\ a[Id] # "STRING" => Id \in DOMAIN b /\ b[Id] # "STRING"
  BY DEF Among
<1> QED
  BY <1>1, <1>2 DEF DocsAreSound

\* Fields to create a table with that agree with what was known.
LEMMA CollectedGrow ==
  ASSUME NEW fields, NEW a, NEW b, Collected(fields, a), Among(a, b)
  PROVE  Collected(fields, b)
BY DEF Collected, Among

\* A field is refused, known to the call or the library, or new.
LEMMA FieldCheckKeeps ==
  ASSUME NEW so, SoIsSound(so), NEW f, NEW kind \in ValueKinds
  PROVE  LET checked == FieldCheck(so, f, kind)
         IN  /\ SoIsSound(checked) /\ SameTable(so, checked)
             /\ checked.docs = so.docs /\ checked.raised = so.raised
             /\ checked.hasKey = so.hasKey /\ checked.doc = so.doc
             /\ checked.ret >= 0 => f \in DOMAIN checked.batch
             /\ checked.ret < 0 /\ f = Id /\ kind = "STRING" =>
                  Id \in DOMAIN checked.types /\ checked.types[Id] # "STRING"
<1> DEFINE type == TypeOf(f, kind)
           checked == FieldCheck(so, f, kind)
           refuse == [so EXCEPT !.ret = -1]
           twice == [so EXCEPT !.ret = 2]
           again == [so EXCEPT !.ret = 0, !.batch = With(@, f, so.types[f])]
           fresh == [so EXCEPT !.ret = 1, !.batch = With(@, f, type),
                               !.types = With(@, f, type)]
           Kept(x) == /\ DOMAIN x = SoFields /\ x.created = so.created
                      /\ x.hasExtra = so.hasExtra /\ x.docs = so.docs
                      /\ x.raised = so.raised /\ x.hasKey = so.hasKey
                      /\ x.doc = so.doc /\ x.attr = so.attr /\ x.ret \in Int
<1>1. \/ checked = refuse /\ (kind = "STRING" =>
                                f \in DOMAIN so.types /\ so.types[f] # "STRING")
      \/ checked = twice /\ f \in DOMAIN so.batch
      \/ checked = again /\ f \in DOMAIN so.types
      \/ checked = fresh /\ f \notin DOMAIN so.types
  <2>1. kind = "STRING" => type = "STRING"
    BY DEF TypeOf
  <2> HIDE DEF type
  <2>2. checked = IF kind = "ERROR" THEN refuse
                  ELSE IF f \in DOMAIN so.batch THEN twice
                  ELSE IF f \in DOMAIN so.types
                  THEN IF Conflicts(type, so.types[f]) THEN refuse
                       ELSE [so EXCEPT !.ret = 0, !.batch = With(@, f,
                               IF type = "STRING" THEN so.types[f] ELSE type)]
                  ELSE IF so.created /\ type = "VECTOR" THEN refuse
                  ELSE [[so EXCEPT !.ret = 1, !.batch = With(@, f, type)]
                         EXCEPT !.types = With(@, f, type)]
    BY DEF FieldCheck, type
  <2>3. [[so EXCEPT !.ret = 1, !.batch = With(@, f, type)]
          EXCEPT !.types = With(@, f, type)] = fresh
    BY DEF SoIsSound, SoFields
  <2>4. ASSUME ~Conflicts(type, so.types[f])
        PROVE  (IF type = "STRING" THEN so.types[f] ELSE type) = so.types[f]
    BY <2>4 DEF Conflicts
  <2>5. ASSUME Conflicts(type, so.types[f]), kind = "STRING"
        PROVE  so.types[f] # "STRING"
    BY <2>1, <2>5 DEF Conflicts
  <2> HIDE DEF refuse, twice, fresh, checked
  <2> QED
    BY <2>1, <2>2, <2>3, <2>4, <2>5
<1> HIDE DEF checked, type
<1>2. \A x : Kept(x) /\ Among(so.types, x.types) /\ Among(x.batch, x.types)
               => SoIsSound(x) /\ SameTable(so, x)
  <2> SUFFICES ASSUME NEW x, Kept(x), Among(so.types, x.types), Among(x.batch, x.types)
               PROVE  SoIsSound(x) /\ SameTable(so, x)
    OBVIOUS
  <2>1. Among(so.doc.fields, x.types) /\ DocsAreSound(so.docs, x.types)
    BY AmongMore, DocsGrow DEF SoIsSound
  <2>2. ~so.created /\ so.hasExtra => Collected(so.attr, x.types)
    BY CollectedGrow DEF SoIsSound
  <2> QED
    BY <2>1, <2>2 DEF SoIsSound, SameTable
<1>3. CASE checked = refuse /\ (kind = "STRING" =>
                                  f \in DOMAIN so.types /\ so.types[f] # "STRING")
  <2>1. Kept(checked) /\ checked.types = so.types /\ checked.batch = so.batch
        /\ checked.ret = -1
    BY <1>3 DEF SoIsSound, SoFields
  <2>2. Among(so.types, checked.types) /\ Among(checked.batch, checked.types)
    BY <2>1 DEF SoIsSound, Among
  <2>3. SoIsSound(checked) /\ SameTable(so, checked)
    BY <1>2, <2>1, <2>2
  <2>4. kind = "STRING" => f \in DOMAIN so.types /\ so.types[f] # "STRING"
    BY <1>3
  <2> QED
    BY <2>1, <2>3, <2>4 DEF checked
<1>4. CASE checked = twice /\ f \in DOMAIN so.batch
  <2>1. Kept(checked) /\ checked.types = so.types /\ checked.batch = so.batch
        /\ checked.ret = 2
    BY <1>4 DEF SoIsSound, SoFields
  <2>2. Among(so.types, checked.types) /\ Among(checked.batch, checked.types)
    BY <2>1 DEF SoIsSound, Among
  <2>3. SoIsSound(checked) /\ SameTable(so, checked)
    BY <1>2, <2>1, <2>2
  <2>4. f \in DOMAIN checked.batch
    BY <1>4, <2>1
  <2> QED
    BY <2>1, <2>3, <2>4 DEF checked
<1>5. CASE checked = again /\ f \in DOMAIN so.types
  <2>1. Kept(checked) /\ checked.types = so.types
        /\ checked.batch = With(so.batch, f, so.types[f]) /\ checked.ret = 0
    BY <1>5 DEF SoIsSound, SoFields
  <2>2. Among(so.batch, so.types)
    BY DEF SoIsSound
  <2>3. Among(so.types, checked.types) /\ Among(checked.batch, checked.types)
        /\ f \in DOMAIN checked.batch
    <3>1. Among(checked.batch, so.types) /\ f \in DOMAIN checked.batch
      BY <1>5, <2>1, <2>2, AmongWith
    <3>2. Among(so.types, so.types)
      BY DEF Among
    <3> QED
      BY <2>1, <3>1, <3>2
  <2> QED
    BY <1>2, <2>1, <2>3 DEF checked
<1>6. CASE checked = fresh /\ f \notin DOMAIN so.types
  <2>1. Kept(checked) /\ checked.types = With(so.types, f, type)
        /\ checked.batch = With(so.batch, f, type) /\ checked.ret = 1
    BY <1>6 DEF SoIsSound, SoFields
  <2>2. Among(so.batch, so.types)
    BY DEF SoIsSound
  <2>3. Among(so.types, checked.types) /\ Among(checked.batch, checked.types)
        /\ f \in DOMAIN checked.batch
    <3> DEFINE grown == With(so.types, f, type)
    <3>1. Among(so.types, grown) /\ f \in DOMAIN grown /\ grown[f] = type
      BY <1>6, AmongMoreKnown
    <3> HIDE DEF grown
    <3>2. Among(so.batch, grown)
      BY <2>2, <3>1, AmongMore
    <3>3. Among(With(so.batch, f, type), grown) /\ f \in DOMAIN With(so.batch, f, type)
      BY <3>1, <3>2, AmongWith
    <3>4. checked.types = grown
      BY <2>1 DEF grown
    <3> QED
      BY <2>1, <3>1, <3>3, <3>4
  <2> QED
    BY <1>2, <2>1, <2>3 DEF checked
<1> QED
  BY <1>1, <1>3, <1>4, <1>5, <1>6

\* A field is collected, or nothing changes but that it may raise.
LEMMA AddFieldKeeps ==
  ASSUME NEW so, SoIsSound(so), NEW f \in DOMAIN so.batch
  PROVE  LET r == AddField(so, f)
         IN  /\ SoIsSound(r) /\ SameTable(so, r)
             /\ r.docs = so.docs /\ r.doc = so.doc /\ r.hasKey = so.hasKey
             /\ r.types = so.types
<1> DEFINE type == so.batch[f]
           r == AddField(so, f)
           raising(b) == [so EXCEPT !.raised = b]
           more == [so EXCEPT !.extra = Append(@, f)]
           further == [so EXCEPT !.attr = Append(@, <<f, type>>)]
           Kept(x) == /\ DOMAIN x = SoFields /\ x.created = so.created
                      /\ x.hasExtra = so.hasExtra /\ x.docs = so.docs
                      /\ x.hasKey = so.hasKey /\ x.doc = so.doc /\ x.ret \in Int
                      /\ x.batch = so.batch /\ x.types = so.types
                      /\ x.raised \in BOOLEAN
<1>1. r \in {so, raising(TRUE), raising(FALSE), more, further}
  <2>1. (so.ret = 1 /\ type # "VECTOR") \in BOOLEAN
    OBVIOUS
  <2> QED
    BY <2>1 DEF AddField
<1> HIDE DEF r
<1>2. type = so.types[f] /\ f \in DOMAIN so.types
  BY DEF SoIsSound, Among
<1>3. \A x : Kept(x) /\ IsList(x.attr)
              /\ (~so.created /\ so.hasExtra => Collected(x.attr, so.types))
               => SoIsSound(x) /\ SameTable(so, x)
  <2>1. Among(so.types, so.types)
    BY DEF Among
  <2> QED
    BY <2>1 DEF SoIsSound, SameTable
<1>4. ASSUME Kept(r), r.attr = so.attr
      PROVE  SoIsSound(r) /\ SameTable(so, r)
  BY <1>3, <1>4 DEF SoIsSound
<1>5. CASE r = so
  <2>1. Kept(r) /\ r.attr = so.attr
    BY <1>5 DEF SoIsSound
  <2> QED
    BY <1>4, <2>1 DEF r
<1>6. ASSUME NEW b \in BOOLEAN, r = raising(b)
      PROVE  Kept(r) /\ r.attr = so.attr
  BY <1>6 DEF SoIsSound, SoFields
<1>7. CASE r = more
  <2>1. Kept(r) /\ r.attr = so.attr
    BY <1>7 DEF SoIsSound, SoFields
  <2> QED
    BY <1>4, <2>1 DEF r
<1>8. CASE r = further
  <2> DEFINE e == <<f, type>>
             a == so.attr
             longer == Append(a, e)
  <2>1. Kept(r) /\ r.attr = longer
    BY <1>8 DEF SoIsSound, SoFields
  <2>2. IsList(a)
    BY DEF SoIsSound
  <2>3. e[1] = f /\ e[2] = type
    OBVIOUS
  <2> HIDE DEF e, a
  <2>4. /\ Len(a) \in Nat /\ DOMAIN a = 1 .. Len(a)
        /\ IsList(longer) /\ DOMAIN longer = 1 .. Len(a) + 1
        /\ \A i \in DOMAIN a : longer[i] = a[i]
        /\ longer[Len(a) + 1] = e
    BY <2>2, ListMore
  <2>5. ASSUME ~so.created /\ so.hasExtra PROVE Collected(longer, so.types)
    <3>1. Collected(a, so.types)
      BY <2>5 DEF SoIsSound, a
    <3> HIDE DEF longer
    <3>2. ASSUME NEW i \in DOMAIN longer
          PROVE  longer[i][1] \in DOMAIN so.types /\ longer[i][2] = so.types[longer[i][1]]
      <4>1. i \in DOMAIN a \/ i = Len(a) + 1
        BY <2>4, <3>2
      <4>2. CASE i \in DOMAIN a
        BY <2>4, <3>1, <4>2 DEF Collected
      <4>3. CASE i = Len(a) + 1
        BY <1>2, <2>3, <2>4, <4>3
      <4> QED
        BY <4>1, <4>2, <4>3
    <3> QED
      BY <3>2 DEF Collected
  <2> HIDE DEF longer
  <2>6. SoIsSound(r) /\ SameTable(so, r)
    BY <1>3, <2>1, <2>4, <2>5
  <2> QED
    BY <2>1, <2>6 DEF r
<1> HIDE DEF raising, more, further
<1>9. CASE r \in {raising(TRUE), raising(FALSE)}
  <2>1. Kept(r) /\ r.attr = so.attr
    BY <1>6, <1>9
  <2> QED
    BY <1>4, <2>1 DEF r
<1> QED
  BY <1>1, <1>5, <1>7, <1>8, <1>9

\* A table stays the same one over several steps.
LEMMA SameTableOver ==
  ASSUME NEW a, NEW b, NEW c, SameTable(a, b), SameTable(b, c)
  PROVE  SameTable(a, c)
BY AmongMore DEF SameTable

\* What one pair of a document changes.
LEMMA TakeKeeps ==
  ASSUME NEW so, SoIsSound(so), NEW pair, pair[2] \in ValueKinds
  PROVE  LET r == Take(so, pair)
         IN  /\ SoIsSound(r) /\ SameTable(so, r) /\ r.docs = so.docs
             /\ so.raised => r.raised
             /\ so.doc.keyed => r.doc.keyed
             /\ r.hasKey /\ ~r.raised /\ ~r.doc.keyed => so.hasKey
             /\ pair = <<Id, "STRING">> /\ ~r.raised =>
                  r.doc.keyed \/ (Id \in DOMAIN r.types /\ r.types[Id] # "STRING")
<1> DEFINE f == pair[1]
           kind == pair[2]
           r == Take(so, pair)
           checked == FieldCheck(so, f, kind)
           keyed == [checked EXCEPT !.hasKey = KeySeen(checked, f)]
           filled == [keyed EXCEPT !.doc.fields = With(@, f, checked.batch[f]),
                                  !.doc.keyed = @ \/ f = Id]
           raising == [checked EXCEPT !.raised = TRUE]
<1>1. kind \in ValueKinds
  OBVIOUS
<1>2. r = IF so.raised THEN so
          ELSE IF checked.ret < 0 THEN keyed
          ELSE IF ~Converts(kind, checked.batch[f]) THEN raising
          ELSE AddField(filled, f)
  BY DEF Take
<1>3. /\ SoIsSound(checked) /\ SameTable(so, checked)
      /\ checked.docs = so.docs /\ checked.raised = so.raised
      /\ checked.hasKey = so.hasKey /\ checked.doc = so.doc
      /\ checked.ret >= 0 => f \in DOMAIN checked.batch
      /\ checked.ret < 0 /\ f = Id /\ kind = "STRING" =>
           Id \in DOMAIN checked.types /\ checked.types[Id] # "STRING"
  BY <1>1, FieldCheckKeeps
<1> HIDE DEF r, checked, f, kind
<1>4. CASE so.raised
  <2>1. r = so
    BY <1>2, <1>4
  <2>2. SameTable(so, so)
    BY DEF SameTable, Among
  <2> QED
    BY <1>4, <2>1, <2>2 DEF r
<1>5. /\ checked.created \in BOOLEAN /\ checked.hasExtra \in BOOLEAN
      /\ checked.hasKey \in BOOLEAN /\ checked.raised \in BOOLEAN
      /\ checked.doc.keyed \in BOOLEAN /\ checked.ret \in Int
      /\ DOMAIN checked = SoFields /\ DOMAIN checked.doc = {"fields", "keyed"}
  BY <1>3 DEF SoIsSound
<1>6. SameTable(checked, checked)
  BY DEF SameTable, Among
<1>7. CASE ~so.raised /\ checked.ret < 0
  <2>1. r = keyed
    BY <1>2, <1>7
  <2>2. ~(checked.ret >= 0) /\ KeySeen(checked, f) = checked.hasKey
    BY <1>5, <1>7 DEF KeySeen
  <2>3. /\ DOMAIN r = SoFields /\ r.created = checked.created
        /\ r.hasExtra = checked.hasExtra /\ r.docs = checked.docs
        /\ r.hasKey = checked.hasKey /\ r.doc = checked.doc /\ r.ret = checked.ret
        /\ r.batch = checked.batch /\ r.types = checked.types /\ r.attr = checked.attr
        /\ r.raised = checked.raised
    BY <1>5, <2>1, <2>2 DEF SoFields
  <2>4. pair = <<Id, "STRING">> => f = Id /\ kind = "STRING"
    BY DEF f, kind
  <2>5. SoIsSound(r) /\ SameTable(checked, r)
    BY <1>3, <1>6, <2>3 DEF SoIsSound, SameTable
  <2>6. SameTable(so, r)
    BY <1>3, <2>5, SameTableOver
  <2> QED
    BY <1>3, <1>7, <2>3, <2>4, <2>5, <2>6 DEF r
<1>8. CASE ~so.raised /\ ~(checked.ret < 0) /\ ~Converts(kind, checked.batch[f])
  <2>1. r = raising
    BY <1>2, <1>8
  <2>2. /\ DOMAIN r = SoFields /\ r.created = checked.created
        /\ r.hasExtra = checked.hasExtra /\ r.docs = checked.docs
        /\ r.hasKey = checked.hasKey /\ r.doc = checked.doc /\ r.ret = checked.ret
        /\ r.batch = checked.batch /\ r.types = checked.types /\ r.attr = checked.attr
        /\ r.raised = TRUE
    BY <1>5, <2>1 DEF SoFields
  <2>3. SoIsSound(r) /\ SameTable(checked, r)
    BY <1>3, <1>6, <2>2 DEF SoIsSound, SameTable
  <2>4. SameTable(so, r)
    BY <1>3, <2>3, SameTableOver
  <2> QED
    BY <1>3, <2>2, <2>3, <2>4 DEF r
<1>9. CASE ~so.raised /\ ~(checked.ret < 0) /\ Converts(kind, checked.batch[f])
  <2>1. r = AddField(filled, f)
    BY <1>2, <1>9
  <2>2. f \in DOMAIN checked.batch
    BY <1>3, <1>5, <1>9
  <2>3. KeySeen(checked, f) \in BOOLEAN
        /\ (KeySeen(checked, f) => checked.hasKey \/ f = Id)
    BY <1>5 DEF KeySeen
  <2> DEFINE seen == KeySeen(checked, f)
             fields == With(checked.doc.fields, f, checked.batch[f])
  <2>4. /\ DOMAIN filled = SoFields /\ filled.created = checked.created
        /\ filled.hasExtra = checked.hasExtra /\ filled.docs = checked.docs
        /\ filled.hasKey = seen /\ filled.ret = checked.ret
        /\ filled.batch = checked.batch /\ filled.types = checked.types
        /\ filled.attr = checked.attr /\ filled.raised = checked.raised
        /\ DOMAIN filled.doc = {"fields", "keyed"}
        /\ filled.doc.fields = fields
        /\ filled.doc.keyed = (checked.doc.keyed \/ f = Id)
    <3> HIDE DEF seen, fields
    <3>1. DOMAIN keyed = SoFields /\ keyed.doc = checked.doc /\ keyed.hasKey = seen
          /\ \A x \in SoFields \ {"hasKey"} : keyed[x] = checked[x]
      BY <1>5 DEF seen, SoFields
    <3> HIDE DEF keyed
    <3>2. DOMAIN filled = SoFields /\ \A x \in SoFields \ {"doc"} : filled[x] = keyed[x]
      BY <3>1 DEF SoFields
    <3>3. DOMAIN filled.doc = {"fields", "keyed"}
          /\ filled.doc.fields = fields /\ filled.doc.keyed = (checked.doc.keyed \/ f = Id)
      BY <1>5, <3>1 DEF fields, SoFields
    <3> HIDE DEF filled
    <3> QED
      BY <3>1, <3>2, <3>3 DEF SoFields
  <2> HIDE DEF filled, seen, fields
  <2>5. Among(fields, checked.types)
    <3>1. Among(checked.doc.fields, checked.types) /\ Among(checked.batch, checked.types)
      BY <1>3 DEF SoIsSound
    <3>2. f \in DOMAIN checked.types /\ checked.types[f] = checked.batch[f]
      BY <2>2, <3>1 DEF Among
    <3> QED
      BY <3>1, <3>2, AmongWith DEF fields
  <2>6. (checked.doc.keyed \/ f = Id) \in BOOLEAN
    OBVIOUS
  <2>7. SoIsSound(filled) /\ SameTable(checked, filled)
    BY <1>3, <1>6, <2>3, <2>4, <2>5, <2>6 DEF SoIsSound, SameTable, seen
  <2>8. /\ SoIsSound(r) /\ SameTable(filled, r)
        /\ r.docs = filled.docs /\ r.doc = filled.doc /\ r.hasKey = filled.hasKey
        /\ r.types = filled.types
    BY <2>1, <2>2, <2>4, <2>7, AddFieldKeeps
  <2>9. SameTable(so, r)
    BY <1>3, <2>7, <2>8, SameTableOver
  <2>10. pair = <<Id, "STRING">> => f = Id
    BY DEF f
  <2>11. r.doc.keyed = (checked.doc.keyed \/ f = Id) /\ r.hasKey = seen
    BY <2>4, <2>8
  <2> QED
    BY <1>3, <1>9, <2>3, <2>4, <2>8, <2>9, <2>10, <2>11 DEF r, seen
<1> QED
  BY <1>4, <1>7, <1>8, <1>9

\* What holds within a document is kept by each of its pairs.
LEMMA PairsKeep ==
  ASSUME NEW base, NEW so, PairsHold(base, so), NEW pair \in STRING \X ValueKinds
  PROVE  PairsHold(base, Take(so, pair))
<1> DEFINE r == Take(so, pair)
<1>1. SoIsSound(so) /\ SameTable(base, so)
  BY DEF PairsHold
<1>2. /\ SoIsSound(r) /\ SameTable(so, r) /\ r.docs = so.docs
      /\ so.raised => r.raised
      /\ so.doc.keyed => r.doc.keyed
      /\ r.hasKey /\ ~r.raised /\ ~r.doc.keyed => so.hasKey
  <2>1. pair[2] \in ValueKinds
    OBVIOUS
  <2> QED
    BY <1>1, <2>1, TakeKeeps
<1> HIDE DEF r
<1>3. SameTable(base, r)
  BY <1>1, <1>2, SameTableOver
<1> QED
  BY <1>2, <1>3 DEF PairsHold, r

\* A document as it was given.
LEMMA OwnPairsHold ==
  ASSUME NEW base, SoIsSound(base), NEW doc \in Seq(STRING \X ValueKinds)
  PROVE  PairsHold(base, FoldLeft(Take, base, doc))
<1>1. Len(doc) \in Nat /\ DOMAIN doc = 1 .. Len(doc)
      /\ \A i \in DOMAIN doc : doc[i] \in STRING \X ValueKinds
  OBVIOUS
<1>2. PairsHold(base, base)
  BY DEF PairsHold, SameTable, Among
<1>3. PICK g : g = Passage(TRUE, base, doc, g)
               /\ FoldLeft(Take, base, doc) = g[DOMAIN doc]
  BY <1>1, FoldsPass
<1>4. \A so : Holds(TRUE, base, so) = PairsHold(base, so)
  BY DEF Holds
<1>5. \A so, x : Passed(TRUE, so, x) = Take(so, x)
  BY DEF Passed
<1>6. \A so : Holds(TRUE, base, so) =>
         \A i \in DOMAIN doc : Holds(TRUE, base, Passed(TRUE, so, doc[i]))
  BY <1>1, <1>4, <1>5, PairsKeep
<1>7. Holds(TRUE, base, base)
  BY <1>2, <1>4
<1>8. Holds(TRUE, base, g[DOMAIN doc])
  BY <1>1, <1>3, <1>6, <1>7, PassageHolds
<1> QED
  BY <1>3, <1>4, <1>8

\* A document is added to those before, with a key of its own or the one that
\* add makes, or the call ends.
LEMMA DocsKeep ==
  ASSUME NEW base, NEW so, DocsHold(base, so), NEW doc \in Seq(STRING \X ValueKinds)
  PROVE  DocsHold(base, TakeDoc(so, doc))
<1> DEFINE start == [so EXCEPT !.doc = NewDoc]
           own == FoldLeft(Take, start, doc)
           key == <<Id, "STRING">>
           given == Take(own, key)
           made == [given EXCEPT !.hasKey = FALSE]
           all == IF own.raised \/ own.hasKey THEN own ELSE made
           r == TakeDoc(so, doc)
           Keyless(x) == Id \in DOMAIN x.types /\ x.types[Id] # "STRING"
<1>1. r = IF all.raised THEN all ELSE [all EXCEPT !.docs = Append(@, all.doc)]
  BY DEF TakeDoc
<1>2. SoIsSound(so) /\ SameTable(base, so) /\ (so.docs = << >> /\ so.hasKey => so.raised)
  BY DEF DocsHold
<1>3. /\ DOMAIN start = SoFields /\ start.created = so.created
      /\ start.hasExtra = so.hasExtra /\ start.docs = so.docs
      /\ start.hasKey = so.hasKey /\ start.ret = so.ret
      /\ start.batch = so.batch /\ start.types = so.types /\ start.attr = so.attr
      /\ start.raised = so.raised /\ start.doc = NewDoc
  BY <1>2 DEF SoIsSound, SoFields
<1> HIDE DEF start, r
<1>4. SoIsSound(start) /\ SameTable(so, start)
  <2>1. DOMAIN NewDoc = {"fields", "keyed"} /\ NewDoc.keyed = FALSE
        /\ DOMAIN NewDoc.fields = {}
    BY DEF NewDoc
  <2>2. Among(NewDoc.fields, so.types) /\ Among(so.types, so.types)
    BY <2>1 DEF Among
  <2> QED
    BY <1>2, <1>3, <2>1, <2>2 DEF SoIsSound, SameTable
<1>5. PairsHold(start, own)
  BY <1>4, OwnPairsHold
<1> HIDE DEF own
<1>6. /\ SoIsSound(own) /\ SameTable(start, own) /\ own.docs = so.docs
      /\ so.raised => own.raised
      /\ ~so.hasKey /\ own.hasKey /\ ~own.raised => own.doc.keyed
  BY <1>3, <1>5 DEF PairsHold
<1>7. key[2] \in ValueKinds
  BY DEF ValueKinds
<1>8. /\ SoIsSound(given) /\ SameTable(own, given) /\ given.docs = own.docs
      /\ ~given.raised => given.doc.keyed \/ Keyless(given)
  BY <1>6, <1>7, TakeKeeps
<1> HIDE DEF given
<1>9. /\ DOMAIN made = SoFields /\ made.created = given.created
      /\ made.hasExtra = given.hasExtra /\ made.docs = given.docs
      /\ made.hasKey = FALSE /\ made.ret = given.ret /\ made.doc = given.doc
      /\ made.batch = given.batch /\ made.types = given.types /\ made.attr = given.attr
      /\ made.raised = given.raised
  BY <1>8 DEF SoIsSound, SoFields
<1> HIDE DEF made
<1>10. SoIsSound(made) /\ SameTable(own, made)
  BY <1>8, <1>9 DEF SoIsSound, SameTable
<1>11. SameTable(base, own) /\ SameTable(base, made)
  BY <1>2, <1>4, <1>6, <1>10, SameTableOver
<1>12. /\ SoIsSound(all) /\ SameTable(base, all) /\ all.docs = so.docs
       /\ ~all.raised /\ so.docs = << >> => all.doc.keyed \/ Keyless(all)
  <2>1. CASE own.raised \/ own.hasKey
    <3>1. all = own
      BY <2>1
    <3> HIDE DEF all, Keyless
    <3> QED
      BY <1>2, <1>6, <1>11, <2>1, <3>1
  <2>2. CASE ~(own.raised \/ own.hasKey)
    <3>1. all = made
      BY <2>2
    <3>2. Keyless(given) = Keyless(made)
      BY <1>9
    <3> HIDE DEF all, Keyless
    <3> QED
      BY <1>6, <1>8, <1>9, <1>10, <1>11, <3>1, <3>2
  <2> QED
    BY <2>1, <2>2
<1> HIDE DEF all
<1>13. CASE all.raised
  <2>1. r = all
    BY <1>1, <1>13
  <2> QED
    BY <1>12, <1>13, <2>1 DEF DocsHold, r
<1>14. CASE ~all.raised
  <2> DEFINE before == so.docs
             last == all.doc
             more == Append(before, last)
  <2>1. /\ DOMAIN r = SoFields /\ r.created = all.created
        /\ r.hasExtra = all.hasExtra /\ r.docs = more
        /\ r.hasKey = all.hasKey /\ r.ret = all.ret /\ r.doc = all.doc
        /\ r.batch = all.batch /\ r.types = all.types /\ r.attr = all.attr
        /\ r.raised = all.raised
    BY <1>1, <1>12, <1>14 DEF SoIsSound, SoFields
  <2>2. DocsAreSound(before, all.types) /\ IsList(before)
    BY <1>12 DEF SoIsSound, DocsAreSound
  <2>3. last.keyed \in BOOLEAN /\ Among(last.fields, all.types)
    BY <1>12 DEF SoIsSound
  <2>4. before = << >> => last.keyed \/ Keyless(all)
    BY <1>12, <1>14
  <2> HIDE DEF before, last
  <2>5. /\ Len(before) \in Nat /\ DOMAIN before = 1 .. Len(before)
        /\ IsList(more) /\ Len(more) = Len(before) + 1
        /\ DOMAIN more = 1 .. Len(before) + 1
        /\ \A i \in DOMAIN before : more[i] = before[i]
        /\ more[Len(before) + 1] = last
    BY <2>2, ListMore
  <2>6. Len(before) = 0 => before = << >>
    BY <2>2 DEF IsList
  <2> HIDE DEF more
  <2>7. DocsAreSound(more, all.types)
    <3>1. ASSUME NEW i \in DOMAIN more
          PROVE  more[i].keyed \in BOOLEAN /\ Among(more[i].fields, all.types)
      <4>1. i \in DOMAIN before \/ i = Len(before) + 1
        BY <2>5, <3>1
      <4>2. CASE i \in DOMAIN before
        BY <2>2, <2>5, <4>2 DEF DocsAreSound
      <4>3. CASE i = Len(before) + 1
        BY <2>3, <2>5, <4>3
      <4> QED
        BY <4>1, <4>2, <4>3
    <3>2. ASSUME Len(more) = 1 PROVE more[1].keyed \/ Keyless(all)
      <4>1. Len(before) = 0 /\ Len(before) + 1 = 1
        <5>1. Len(before) \in Nat /\ Len(before) + 1 = 1
          BY <2>5, <3>2
        <5> QED
          BY <5>1
      <4> QED
        BY <2>4, <2>5, <2>6, <4>1
    <3> QED
      BY <2>5, <3>1, <3>2 DEF DocsAreSound
  <2>8. more # << >>
    BY <2>5, EmptyList
  <2> QED
    BY <1>12, <2>1, <2>7, <2>8 DEF DocsHold, SoIsSound, SameTable, r
<1> QED
  BY <1>13, <1>14

\* What a call of add makes of its documents.
LEMMA ProcessedIs ==
  ASSUME NEW t, NEW docs \in Seq(Seq(STRING \X ValueKinds)), LocalTypeOK, KnownAreTyped
  PROVE  LET so == Processed(t, docs)
         IN  /\ SoIsSound(so)
             /\ so.created = IfHas(check, t, FALSE)
             /\ so.hasExtra = (t \in DOMAIN extra \/ t \notin DOMAIN check)
             /\ Among(IfHas(types, t, << >>), so.types)
<1> DEFINE base == [created |-> IfHas(check, t, FALSE), types |-> IfHas(types, t, << >>),
     attr |-> IfHas(attr, t, << >>), extra |-> IfHas(extra, t, << >>),
     hasExtra |-> t \in DOMAIN extra \/ t \notin DOMAIN check,
     batch |-> << >>, hasKey |-> FALSE, doc |-> NewDoc, docs |-> << >>,
     ret |-> 0, raised |-> FALSE]
<1>1. Processed(t, docs) = FoldLeft(TakeDoc, base, docs)
  BY DEF Processed
<1>2. /\ DOMAIN base = SoFields
      /\ base.created = IfHas(check, t, FALSE) /\ base.types = IfHas(types, t, << >>)
      /\ base.attr = IfHas(attr, t, << >>)
      /\ base.hasExtra = (t \in DOMAIN extra \/ t \notin DOMAIN check)
      /\ base.batch = << >> /\ base.hasKey = FALSE /\ base.doc = NewDoc
      /\ base.docs = << >> /\ base.ret = 0 /\ base.raised = FALSE
  BY DEF SoFields
<1> HIDE DEF base
<1>3. /\ DOMAIN NewDoc = {"fields", "keyed"} /\ NewDoc.keyed = FALSE
      /\ DOMAIN NewDoc.fields = {} /\ DOMAIN << >> = {}
  BY EmptyList DEF NewDoc
<1>4. base.created \in BOOLEAN /\ base.hasExtra \in BOOLEAN
  BY <1>2 DEF LocalTypeOK, IfHas
<1>5. IsList(base.attr)
  BY <1>2, EmptyList DEF LocalTypeOK, KnownAreTyped, IfHas
<1>6. ~base.created /\ base.hasExtra => Collected(base.attr, base.types)
  <2>1. CASE t \in DOMAIN extra
    BY <1>2, <2>1 DEF LocalTypeOK, KnownAreTyped, IfHas
  <2>2. CASE t \notin DOMAIN check
    <3>1. base.attr = << >>
      BY <1>2, <2>2 DEF LocalTypeOK, IfHas
    <3> QED
      BY <1>3, <3>1 DEF Collected
  <2> QED
    BY <1>2, <2>1, <2>2
<1>7. DocsAreSound(base.docs, base.types)
  BY <1>2, EmptyList DEF DocsAreSound
<1>8. Among(base.batch, base.types) /\ Among(base.doc.fields, base.types)
  BY <1>2, <1>3 DEF Among
<1>9. DocsHold(base, base)
  <2>1. SameTable(base, base)
    BY DEF SameTable, Among
  <2>2. base.hasKey \in BOOLEAN /\ base.raised \in BOOLEAN
        /\ base.doc.keyed \in BOOLEAN /\ base.ret \in Int
        /\ DOMAIN base.doc = {"fields", "keyed"}
    <3>1. base.doc.keyed = FALSE /\ DOMAIN base.doc = {"fields", "keyed"}
      BY <1>2, <1>3, Zenon
    <3>2. base.hasKey = FALSE /\ base.raised = FALSE /\ base.ret = 0
      BY <1>2, Zenon
    <3>3. base.ret \in Int
      BY <3>2
    <3>4. FALSE \in BOOLEAN
      OBVIOUS
    <3> QED
      BY <3>1, <3>2, <3>3, <3>4, Zenon
  <2>3. SoIsSound(base)
    BY <1>2, <1>4, <1>5, <1>6, <1>7, <1>8, <2>2 DEF SoIsSound
  <2> QED
    BY <1>2, <2>1, <2>3 DEF DocsHold
<1>10. Len(docs) \in Nat /\ DOMAIN docs = 1 .. Len(docs)
       /\ \A i \in DOMAIN docs : docs[i] \in Seq(STRING \X ValueKinds)
  OBVIOUS
<1>11. PICK g : g = Passage(FALSE, base, docs, g)
                /\ FoldLeft(TakeDoc, base, docs) = g[DOMAIN docs]
  BY <1>10, FoldsPass
<1>12. \A so : Holds(FALSE, base, so) = DocsHold(base, so)
  BY DEF Holds
<1>13. \A so, x : Passed(FALSE, so, x) = TakeDoc(so, x)
  BY DEF Passed
<1>14. \A so : Holds(FALSE, base, so) =>
         \A i \in DOMAIN docs : Holds(FALSE, base, Passed(FALSE, so, docs[i]))
  BY <1>10, <1>12, <1>13, DocsKeep
<1>15. Holds(FALSE, base, g[DOMAIN docs])
  BY <1>9, <1>10, <1>11, <1>12, <1>14, PassageHolds
<1>16. DocsHold(base, Processed(t, docs))
  BY <1>1, <1>11, <1>12, <1>15
<1> QED
  BY <1>2, <1>16 DEF DocsHold, SameTable

\* A table that is created from what was collected has known fields.
LEMMA SchemaIs ==
  ASSUME NEW fields, IsList(fields), NEW known, Collected(fields, known)
  PROVE  Among(SchemaOf(fields), known)
<1> DEFINE schema == SchemaOf(fields)
           places == 1 .. Len(fields)
           At(f) == CHOOSE i \in places : fields[i][1] = f
<1>1. DOMAIN fields = places
  BY DEF IsList
<1>2. DOMAIN schema = {fields[i][1] : i \in places}
      /\ \A f \in DOMAIN schema : schema[f] = fields[At(f)][2]
  BY DEF SchemaOf
<1> HIDE DEF schema
<1>3. ASSUME NEW f \in DOMAIN schema PROVE f \in DOMAIN known /\ schema[f] = known[f]
  <2>1. \E i \in places : fields[i][1] = f
    BY <1>2
  <2>2. At(f) \in places /\ fields[At(f)][1] = f
    BY <2>1, Zenon
  <2> HIDE DEF At, places
  <2> QED
    BY <1>1, <1>2, <2>2 DEF Collected
<1> QED
  BY <1>3 DEF Among, schema

\* Rows made of documents that fit what is known of a table fit its schema.
LEMMA RowsAre ==
  ASSUME NEW t, NEW docs, NEW schema, NEW known,
         DocsAreSound(docs, known), Among(schema, known),
         NEW row \in Rows(t, docs, schema)
  PROVE  /\ row.table = t /\ Among(row.fields, schema)
         /\ row.alone /\ ~row.keyed => Id \notin DOMAIN schema \/ schema[Id] # "STRING"
<1>1. PICK i \in 1 .. Len(docs) :
        row = [table |-> t, keyed |-> docs[i].keyed, alone |-> Len(docs) = 1,
               fields |-> [f \in DOMAIN docs[i].fields \cap DOMAIN schema |->
                             docs[i].fields[f]]]
  BY DEF Rows
<1> DEFINE given == docs[i].fields
<1>2. /\ row.table = t /\ row.keyed = docs[i].keyed /\ row.alone = (Len(docs) = 1)
      /\ DOMAIN row.fields = DOMAIN given \cap DOMAIN schema
      /\ \A f \in DOMAIN row.fields : row.fields[f] = given[f]
  BY <1>1
<1>3. i \in DOMAIN docs /\ Len(docs) \in Nat
  BY DEF DocsAreSound, IsList
<1>4. Among(given, known)
  BY <1>3 DEF DocsAreSound
<1> HIDE DEF given
<1>5. Among(row.fields, schema)
  BY <1>2, <1>4 DEF Among
<1>6. ASSUME row.alone, ~row.keyed PROVE Id \notin DOMAIN schema \/ schema[Id] # "STRING"
  <2>1. Len(docs) = 1
    BY <1>2, <1>6
  <2>2. i = 1
    BY <2>1
  <2>3. ~docs[1].keyed
    BY <1>2, <1>6, <2>2
  <2>4. Id \in DOMAIN known /\ known[Id] # "STRING"
    BY <2>1, <2>3 DEF DocsAreSound
  <2> QED
    BY <2>4 DEF Among
<1> QED
  BY <1>2, <1>5, <1>6

\* What a call of add leaves the library knowing.
Learned(t, so) ==
  /\ DOMAIN check' = DOMAIN check \cup {t}
  /\ DOMAIN types' = DOMAIN check' /\ DOMAIN attr' = DOMAIN check'
  /\ DOMAIN extra' \subseteq DOMAIN check'
  /\ \A u \in DOMAIN check' : check'[u] \in BOOLEAN /\ IsList(attr'[u])
  /\ \A u \in DOMAIN extra' : check'[u] \/ Collected(attr'[u], types'[u])
  /\ \A u \in DOMAIN check : check'[u] = check[u] /\ Among(types[u], types'[u])
  /\ check'[t] = so.created /\ types'[t] = so.types
  /\ so.created => t \in DOMAIN check

\* Learn is that.
LEMMA LearnIs ==
  ASSUME NEW t, NEW so, LocalTypeOK, KnownAreTyped, Learn(t, so), SoIsSound(so),
         so.created = IfHas(check, t, FALSE),
         so.hasExtra = (t \in DOMAIN extra \/ t \notin DOMAIN check),
         Among(IfHas(types, t, << >>), so.types)
  PROVE  Learned(t, so)
<1>1. /\ DOMAIN check' = DOMAIN check \cup {t} /\ check'[t] = so.created
      /\ \A u \in DOMAIN check : u # t => check'[u] = check[u]
  BY DEF Learn, With
<1>2. /\ DOMAIN types' = DOMAIN types \cup {t} /\ types'[t] = so.types
      /\ \A u \in DOMAIN types : u # t => types'[u] = types[u]
  BY DEF Learn, With
<1>3. /\ DOMAIN attr' = DOMAIN attr \cup {t} /\ attr'[t] = so.attr
      /\ \A u \in DOMAIN attr : u # t => attr'[u] = attr[u]
  BY DEF Learn, With
<1>4. /\ DOMAIN extra' = IF so.hasExtra THEN DOMAIN extra \cup {t} ELSE DOMAIN extra
  BY DEF Learn, With
<1>5. DOMAIN check = DOMAIN types /\ DOMAIN attr = DOMAIN types
      /\ DOMAIN extra \subseteq DOMAIN check
      /\ \A u \in DOMAIN check : check[u] \in BOOLEAN
  BY DEF LocalTypeOK
<1>6. so.created \in BOOLEAN /\ IsList(so.attr)
      /\ (~so.created /\ so.hasExtra => Collected(so.attr, so.types))
  BY DEF SoIsSound
<1>7. \A u \in DOMAIN attr : IsList(attr[u])
  BY DEF KnownAreTyped
<1>8. \A u \in DOMAIN extra : check[u] \/ Collected(attr[u], types[u])
  BY DEF KnownAreTyped
<1>9. t \in DOMAIN check => check'[t] = check[t] /\ Among(types[t], types'[t])
  BY <1>1, <1>2, <1>5 DEF IfHas
<1>10. so.created => t \in DOMAIN check
  BY DEF IfHas
<1>11. \A u : Among(types[u], types[u])
  BY DEF Among
<1>12. t \in DOMAIN extra => so.hasExtra
  OBVIOUS
<1>13. \A u \in DOMAIN extra' : check'[u] \/ Collected(attr'[u], types'[u])
  <2> SUFFICES ASSUME NEW u \in DOMAIN extra'
               PROVE  check'[u] \/ Collected(attr'[u], types'[u])
    OBVIOUS
  <2>1. CASE u = t
    BY <1>1, <1>2, <1>3, <1>4, <1>6, <1>12, <2>1
  <2>2. CASE u # t
    <3>1. u \in DOMAIN extra /\ u \in DOMAIN check
      BY <1>4, <1>5, <2>2
    <3> QED
      BY <1>1, <1>2, <1>3, <1>5, <1>8, <2>2, <3>1
  <2> QED
    BY <2>1, <2>2
<1>14. \A u \in DOMAIN check' : check'[u] \in BOOLEAN /\ IsList(attr'[u])
  <2> SUFFICES ASSUME NEW u \in DOMAIN check'
               PROVE  check'[u] \in BOOLEAN /\ IsList(attr'[u])
    OBVIOUS
  <2>1. CASE u = t
    BY <1>1, <1>3, <1>6, <2>1
  <2>2. CASE u # t
    BY <1>1, <1>3, <1>5, <1>7, <2>2
  <2> QED
    BY <2>1, <2>2
<1>15. \A u \in DOMAIN check : check'[u] = check[u] /\ Among(types[u], types'[u])
  <2> SUFFICES ASSUME NEW u \in DOMAIN check
               PROVE  check'[u] = check[u] /\ Among(types[u], types'[u])
    OBVIOUS
  <2>1. CASE u = t
    BY <1>9, <2>1
  <2>2. CASE u # t
    BY <1>1, <1>2, <1>5, <1>11, <2>2
  <2> QED
    BY <2>1, <2>2
<1>16. DOMAIN types' = DOMAIN check' /\ DOMAIN attr' = DOMAIN check'
       /\ DOMAIN extra' \subseteq DOMAIN check'
  BY <1>1, <1>2, <1>3, <1>4, <1>5
<1> QED
  BY <1>1, <1>2, <1>10, <1>13, <1>14, <1>15, <1>16 DEF Learned

-----------------------------------------------------------------------------
(* Every step of the library. *)

\* What is on disk only gets more tables.
SchemasStay ==
  /\ DOMAIN schemas \subseteq DOMAIN schemas'
  /\ \A t \in DOMAIN schemas : schemas'[t] = schemas[t]

\* Rows and tables.meta stay sound as tables are created.
LEMMA DiskStays ==
  ASSUME LocalIInv, SchemasStay
  PROVE  /\ UNCHANGED meta => MetaIsSound'
         /\ UNCHANGED stored => RowsFit'
<1>1. MetaIsSound /\ RowsFit
  BY DEF LocalIInv
<1>2. ASSUME UNCHANGED meta PROVE MetaIsSound'
  BY <1>1, <1>2 DEF MetaIsSound, SchemasStay
<1>3. ASSUME UNCHANGED stored PROVE RowsFit'
  <2> SUFFICES ASSUME NEW row \in stored
               PROVE  /\ row.table \in DOMAIN schemas'
                      /\ Among(row.fields, schemas'[row.table])
                      /\ row.alone /\ ~row.keyed =>
                           Id \notin DOMAIN schemas'[row.table]
                             \/ schemas'[row.table][Id] # "STRING"
    BY <1>3 DEF RowsFit
  <2>1. /\ row.table \in DOMAIN schemas
        /\ Among(row.fields, schemas[row.table])
        /\ row.alone /\ ~row.keyed =>
             Id \notin DOMAIN schemas[row.table] \/ schemas[row.table][Id] # "STRING"
    BY <1>1 DEF RowsFit
  <2>2. row.table \in DOMAIN schemas' /\ schemas'[row.table] = schemas[row.table]
    BY <2>1 DEF SchemasStay
  <2> QED
    BY <2>1, <2>2
<1> QED
  BY <1>2, <1>3

\* It holds at the start.
LEMMA LocalBegins ==
  ASSUME LocalInit
  PROVE  LocalIInv
<1>1. DOMAIN << >> = {}
  BY EmptyList
<1>2. /\ DOMAIN check = {} /\ DOMAIN types = {} /\ DOMAIN attr = {} /\ DOMAIN extra = {}
      /\ DOMAIN handles = {} /\ DOMAIN schemas = {} /\ stored = {} /\ returned = {}
      /\ alive = TRUE /\ meta = NoMeta /\ pending = NothingPending
  BY <1>1 DEF LocalInit
<1>3. DOMAIN meta = {"state", "check", "types", "attr"} /\ meta.state = "none"
      /\ DOMAIN meta.check = {} /\ DOMAIN meta.types = {} /\ DOMAIN meta.attr = {}
  BY <1>1, <1>2 DEF NoMeta
<1>4. DOMAIN pending = {"step", "table", "docs"} /\ pending.step = "none"
  BY <1>2 DEF NothingPending
<1>5. LocalTypeOK
  BY <1>2, <1>3, <1>4 DEF LocalTypeOK
<1>6. KnownAreTyped /\ CreatedHaveSchemas /\ RowsFit
  BY <1>2 DEF KnownAreTyped, CreatedHaveSchemas, RowsFit
<1>7. MetaIsSound /\ FirstDocsAreSound /\ MetaKeepsTables
  BY <1>2, <1>3, <1>4 DEF MetaIsSound, FirstDocsAreSound, MetaKeepsTables
<1> QED
  BY <1>2, <1>5, <1>6, <1>7 DEF LocalIInv

\* Between calls the library knows what tables.meta does.
LEMMA AddKnows ==
  ASSUME LocalIInv, alive, pending.step = "none", NEW t, NEW so, Learned(t, so),
         UNCHANGED <<meta, alive>>
  PROVE  /\ KnownAreTyped'
         /\ DOMAIN check' = DOMAIN types' /\ DOMAIN attr' = DOMAIN types'
         /\ DOMAIN extra' \subseteq DOMAIN check'
         /\ \A u \in DOMAIN check' : check'[u] \in BOOLEAN
         /\ \A u \in DOMAIN check' : check'[u] => u \in DOMAIN check /\ check[u]
         /\ \A u \in DOMAIN check' : check'[u] => u \in DOMAIN meta.check /\ meta.check[u]
         /\ meta.state # "partial"
<1>1. \A u \in DOMAIN check' : check'[u] => u \in DOMAIN check /\ check[u]
  <2> SUFFICES ASSUME NEW u \in DOMAIN check', check'[u]
               PROVE  u \in DOMAIN check /\ check[u]
    OBVIOUS
  <2>1. u \in DOMAIN check
    BY DEF Learned
  <2> QED
    BY <2>1 DEF Learned
<1>2. meta.state # "partial"
  BY DEF LocalIInv, FirstDocsAreSound
<1>3. \A u \in DOMAIN check : check[u] => u \in DOMAIN meta.check /\ meta.check[u]
  BY <1>2 DEF LocalIInv, MetaKeepsTables
<1>4. KnownAreTyped'
  BY DEF Learned, KnownAreTyped
<1> QED
  BY <1>1, <1>2, <1>3, <1>4 DEF Learned

\* A table that was created and its schema stay known.
LEMMA CreatedStay ==
  ASSUME LocalIInv, SchemasStay, NEW t, NEW so, Learned(t, so),
         \A u \in DOMAIN check : check[u] =>
           u \in DOMAIN handles' /\ handles'[u] \in {"created", "closed"}
  PROVE  CreatedHaveSchemas'
<1> SUFFICES ASSUME NEW u \in DOMAIN check', check'[u]
             PROVE  /\ u \in DOMAIN handles' /\ handles'[u] \in {"created", "closed"}
                    /\ u \in DOMAIN schemas' /\ Among(schemas'[u], types'[u])
  BY DEF CreatedHaveSchemas
<1>1. u \in DOMAIN check /\ check[u] /\ Among(types[u], types'[u])
  <2>1. u \in DOMAIN check
    BY DEF Learned
  <2> QED
    BY <2>1 DEF Learned
<1>2. u \in DOMAIN schemas /\ Among(schemas[u], types[u])
  BY <1>1 DEF LocalIInv, CreatedHaveSchemas
<1>3. u \in DOMAIN schemas' /\ schemas'[u] = schemas[u]
  BY <1>2 DEF SchemasStay
<1>4. Among(schemas[u], types'[u])
  BY <1>1, <1>2, AmongMore
<1> QED
  BY <1>1, <1>3, <1>4

\* A call of add.
LEMMA AddKeeps ==
  ASSUME LocalAssumption, LocalIInv, NEW t \in Tables, NEW docs \in DocLists[t],
         NEW made, NEW created, Add(t, docs, made, created)
  PROVE  LocalIInv'
<1> DEFINE so == Processed(t, docs)
<1>1. docs \in Seq(Seq(STRING \X ValueKinds))
  BY DEF LocalAssumption
<1>2. LocalTypeOK /\ KnownAreTyped /\ CreatedHaveSchemas /\ FirstDocsAreSound
      /\ MetaKeepsTables /\ RowsFit /\ alive \in BOOLEAN
  BY DEF LocalIInv
<1>3. /\ SoIsSound(so) /\ so.created = IfHas(check, t, FALSE)
      /\ so.hasExtra = (t \in DOMAIN extra \/ t \notin DOMAIN check)
      /\ Among(IfHas(types, t, << >>), so.types)
  BY <1>1, <1>2, ProcessedIs
<1>4. /\ alive /\ pending.step = "none" /\ Learn(t, so)
      /\ UNCHANGED <<meta, alive>>
      /\ Raise(t, docs) \/ AddToCreated(t, docs) \/ CreateFirst(t, docs, made, created)
  BY DEF Add
<1> HIDE DEF so
<1>5. Learned(t, so)
  BY <1>2, <1>3, <1>4, LearnIs
<1>6. /\ KnownAreTyped'
      /\ DOMAIN check' = DOMAIN types' /\ DOMAIN attr' = DOMAIN types'
      /\ DOMAIN extra' \subseteq DOMAIN check'
      /\ \A u \in DOMAIN check' : check'[u] \in BOOLEAN
      /\ \A u \in DOMAIN check' : check'[u] => u \in DOMAIN check /\ check[u]
      /\ \A u \in DOMAIN check' : check'[u] => u \in DOMAIN meta.check /\ meta.check[u]
      /\ meta.state # "partial"
  BY <1>4, <1>5, AddKnows
<1>7. \A u \in returned : u \in DOMAIN check' /\ check'[u]
                           /\ u \in DOMAIN meta.check /\ meta.check[u]
  <2>1. \A u \in returned : u \in DOMAIN check /\ check[u]
                             /\ u \in DOMAIN meta.check /\ meta.check[u]
    BY <1>2, <1>4, <1>6 DEF MetaKeepsTables
  <2>2. \A u \in DOMAIN check : u \in DOMAIN check' /\ check'[u] = check[u]
    BY <1>5 DEF Learned
  <2> QED
    BY <2>1, <2>2
<1>8. MetaIsSound
  BY DEF LocalIInv
<1>9. CASE UNCHANGED <<handles, schemas, pending>>
  <2>1. SchemasStay
    BY <1>9 DEF SchemasStay
  <2>2. CreatedHaveSchemas'
    BY <1>2, <1>5, <1>9, <2>1, CreatedStay DEF CreatedHaveSchemas
  <2>3. MetaIsSound'
    BY <1>4, <2>1, DiskStays
  <2>4. FirstDocsAreSound'
    BY <1>2, <1>4, <1>6, <1>9 DEF FirstDocsAreSound
  <2>5. LocalTypeOK'
    BY <1>2, <1>4, <1>6, <1>9 DEF LocalTypeOK
  <2>6. CASE UNCHANGED <<stored, returned>>
    <3>1. RowsFit'
      BY <2>1, <2>6, DiskStays
    <3>2. MetaKeepsTables'
      BY <1>4, <1>6, <1>7, <2>6 DEF MetaKeepsTables
    <3> QED
      BY <1>4, <1>6, <2>2, <2>3, <2>4, <2>5, <3>1, <3>2 DEF LocalIInv
  <2>7. CASE AddToCreated(t, docs)
    <3>1. /\ so.created /\ returned' = returned \cup {t}
          /\ stored' = stored \cup Rows(t, so.docs, schemas[t])
      BY <2>7 DEF AddToCreated, so
    <3>2. t \in DOMAIN check' /\ check'[t]
      BY <1>5, <3>1 DEF Learned
    <3>3. MetaKeepsTables'
      BY <1>4, <1>6, <1>7, <3>1, <3>2 DEF MetaKeepsTables
    <3>4. t \in DOMAIN schemas' /\ Among(schemas'[t], types'[t])
      BY <2>2, <3>2 DEF CreatedHaveSchemas
    <3>5. schemas' = schemas /\ types'[t] = so.types /\ DocsAreSound(so.docs, so.types)
      BY <1>3, <1>5, <1>9 DEF Learned, SoIsSound
    <3>6. t \in DOMAIN schemas /\ Among(schemas[t], so.types)
      BY <3>4, <3>5
    <3>7. ASSUME NEW row \in stored'
          PROVE  /\ row.table \in DOMAIN schemas
                 /\ Among(row.fields, schemas[row.table])
                 /\ row.alone /\ ~row.keyed =>
                      Id \notin DOMAIN schemas[row.table]
                        \/ schemas[row.table][Id] # "STRING"
      <4>1. CASE row \in stored
        BY <1>2, <4>1 DEF RowsFit
      <4>2. CASE row \in Rows(t, so.docs, schemas[t])
        <5>1. /\ row.table = t /\ Among(row.fields, schemas[t])
              /\ row.alone /\ ~row.keyed =>
                   Id \notin DOMAIN schemas[t] \/ schemas[t][Id] # "STRING"
          BY <3>5, <3>6, <4>2, RowsAre
        <5> QED
          BY <3>6, <5>1
      <4> QED
        BY <3>1, <4>1, <4>2
    <3>8. RowsFit'
      BY <3>5, <3>7 DEF RowsFit
    <3> QED
      BY <1>4, <1>6, <2>2, <2>3, <2>4, <2>5, <3>3, <3>8 DEF LocalIInv
  <2>8. CASE CreateFirst(t, docs, made, created)
    BY <2>6, <2>8 DEF CreateFirst
  <2>9. CASE Raise(t, docs)
    BY <2>6, <2>9 DEF Raise
  <2> QED
    BY <1>4, <2>7, <2>8, <2>9
<1>10. CASE CreateFirst(t, docs, made, created)
  <2> DEFINE handle == IF t \in DOMAIN handles THEN handles[t]
                       ELSE IF made THEN "empty" ELSE "nil"
  <2>1. /\ ~so.raised /\ ~so.created
        /\ handle # "created" => t \notin DOMAIN schemas
        /\ UNCHANGED <<stored, returned>>
        /\ \/ /\ handle = "empty"
              /\ handles' = With(handles, t, "created")
              /\ schemas' = With(schemas, t, SchemaOf(so.attr))
              /\ pending' = IF so.hasExtra
                            THEN [step |-> "created", table |-> t, docs |-> so.docs]
                            ELSE NothingPending
           \/ /\ handles' = With(handles, t, IF handle = "empty" THEN "spoilt" ELSE handle)
              /\ UNCHANGED <<schemas, pending>>
    <3>1. CreateFirst(t, docs, made, created)
      BY <1>10
    <3> USE DEF so
    <3>2. ~so.raised /\ ~so.created /\ (handle # "created" => t \notin DOMAIN schemas)
          /\ UNCHANGED <<stored, returned>>
      BY <3>1 DEF CreateFirst
    <3>3. \/ /\ handle = "empty"
             /\ handles' = With(handles, t, "created")
             /\ schemas' = With(schemas, t, SchemaOf(so.attr))
             /\ pending' = IF so.hasExtra
                           THEN [step |-> "created", table |-> t, docs |-> so.docs]
                           ELSE NothingPending
          \/ /\ handles' = With(handles, t, IF handle = "empty" THEN "spoilt" ELSE handle)
             /\ UNCHANGED <<schemas, pending>>
      BY <3>1, Zenon DEF CreateFirst
    <3> QED
      BY <3>2, <3>3
  <2>2. handle \in {"nil", "empty", "spoilt", "created", "closed"}
    BY <1>2 DEF LocalTypeOK
  <2> HIDE DEF handle
  <2>3. PICK new \in {"nil", "empty", "spoilt", "created", "closed"} :
          handles' = With(handles, t, new)
    BY <2>1, <2>2
  <2>4. /\ DOMAIN handles' = DOMAIN handles \cup {t} /\ handles'[t] = new
        /\ \A u \in DOMAIN handles : u # t => handles'[u] = handles[u]
    BY <2>3 DEF With
  <2>5. SchemasStay /\ DOMAIN schemas' \subseteq Tables
    <3>1. DOMAIN schemas \subseteq Tables
      BY <1>2 DEF LocalTypeOK
    <3>2. CASE UNCHANGED schemas
      BY <3>1, <3>2 DEF SchemasStay
    <3>3. CASE handle = "empty" /\ schemas' = With(schemas, t, SchemaOf(so.attr))
      <4>1. t \notin DOMAIN schemas
        BY <2>1, <3>3
      <4> DEFINE schema == SchemaOf(so.attr)
      <4>2. schemas' = With(schemas, t, schema)
        BY <3>3
      <4> HIDE DEF schema
      <4> QED
        BY <3>1, <4>1, <4>2 DEF SchemasStay, With
    <3> QED
      BY <2>1, <3>2, <3>3
  <2>6. CreatedHaveSchemas'
    <3>1. t \in DOMAIN check => ~check[t]
      BY <1>3, <2>1 DEF IfHas
    <3>2. \A u \in DOMAIN check : check[u] =>
            u \in DOMAIN handles' /\ handles'[u] \in {"created", "closed"}
      BY <1>2, <2>4, <3>1 DEF CreatedHaveSchemas
    <3> QED
      BY <1>5, <2>5, <3>2, CreatedStay
  <2>7. MetaIsSound' /\ RowsFit'
    BY <1>4, <2>1, <2>5, DiskStays
  <2>8. /\ DOMAIN pending' = {"step", "table", "docs"}
        /\ pending'.step \in {"none", "created"}
        /\ pending'.step = "created" =>
             /\ pending'.table = t /\ pending'.docs = so.docs /\ so.hasExtra
             /\ handle = "empty"
             /\ handles' = With(handles, t, "created")
             /\ schemas' = With(schemas, t, SchemaOf(so.attr))
    <3>1. CASE UNCHANGED pending
      BY <1>2, <1>4, <3>1 DEF FirstDocsAreSound
    <3>2. CASE /\ handle = "empty"
               /\ handles' = With(handles, t, "created")
               /\ schemas' = With(schemas, t, SchemaOf(so.attr))
               /\ pending' = IF so.hasExtra
                             THEN [step |-> "created", table |-> t, docs |-> so.docs]
                             ELSE NothingPending
      <4>1. CASE so.hasExtra
        <5>1. pending' = [step |-> "created", table |-> t, docs |-> so.docs]
          BY <3>2, <4>1
        <5>2. DOMAIN pending' = {"step", "table", "docs"} /\ pending'.step = "created"
              /\ pending'.table = t /\ pending'.docs = so.docs
          BY <5>1
        <5> QED
          BY <3>2, <4>1, <5>2
      <4>2. CASE ~so.hasExtra
        <5>1. pending' = NothingPending
          BY <3>2, <4>2
        <5>2. DOMAIN pending' = {"step", "table", "docs"} /\ pending'.step = "none"
          BY <5>1 DEF NothingPending
        <5> QED
          BY <5>2
      <4> QED
        BY <4>1, <4>2
    <3> QED
      BY <2>1, <3>1, <3>2
  <2>9. FirstDocsAreSound'
    <3>1. ASSUME pending'.step = "created"
          PROVE  /\ t \in DOMAIN check' /\ t \in DOMAIN handles' /\ handles'[t] = "created"
                 /\ t \in DOMAIN schemas' /\ Among(schemas'[t], types'[t])
                 /\ DocsAreSound(so.docs, types'[t])
      <4> DEFINE schema == SchemaOf(so.attr)
      <4>1. /\ so.hasExtra /\ handles' = With(handles, t, "created")
            /\ schemas' = With(schemas, t, schema)
        BY <2>8, <3>1
      <4>2. Among(schema, so.types)
        <5>1. IsList(so.attr) /\ Collected(so.attr, so.types)
          BY <1>3, <2>1, <4>1 DEF SoIsSound
        <5> QED
          BY <5>1, SchemaIs
      <4> HIDE DEF schema
      <4>3. t \in DOMAIN schemas' /\ schemas'[t] = schema
        BY <4>1 DEF With
      <4>4. t \in DOMAIN handles' /\ handles'[t] = "created"
        BY <4>1 DEF With
      <4>5. t \in DOMAIN check' /\ types'[t] = so.types /\ DocsAreSound(so.docs, so.types)
        BY <1>3, <1>5 DEF Learned, SoIsSound
      <4> QED
        BY <4>2, <4>3, <4>4, <4>5
    <3> QED
      BY <1>4, <1>6, <2>8, <3>1 DEF FirstDocsAreSound
  <2>10. LocalTypeOK'
    <3>1. \A u \in DOMAIN handles' :
            handles'[u] \in {"nil", "empty", "spoilt", "created", "closed"}
      BY <1>2, <2>3, <2>4 DEF LocalTypeOK
    <3>2. pending'.step # "writing" /\ meta'.state # "partial"
          /\ meta'.state \in {"none", "partial", "whole"}
      BY <1>2, <1>4, <1>6, <2>8 DEF LocalTypeOK
    <3> QED
      BY <1>6, <2>5, <3>1, <3>2 DEF LocalTypeOK
  <2>11. MetaKeepsTables'
    BY <1>4, <1>6, <1>7, <2>1 DEF MetaKeepsTables
  <2> QED
    BY <1>4, <1>6, <2>6, <2>7, <2>9, <2>10, <2>11 DEF LocalIInv
<1>11. Raise(t, docs) \/ AddToCreated(t, docs) => UNCHANGED <<handles, schemas, pending>>
  BY DEF Raise, AddToCreated
<1> QED
  BY <1>4, <1>9, <1>10, <1>11

\* The first documents of a table.
LEMMA AddFirstDocsKeeps ==
  ASSUME LocalIInv, AddFirstDocs
  PROVE  LocalIInv'
<1> DEFINE t == pending.table
           docs == pending.docs
<1>1. LocalTypeOK /\ KnownAreTyped /\ CreatedHaveSchemas /\ FirstDocsAreSound
      /\ MetaKeepsTables /\ RowsFit /\ MetaIsSound /\ alive \in BOOLEAN
  BY DEF LocalIInv
<1>2. /\ pending.step = "created"
      /\ stored' = stored \cup Rows(t, docs, schemas[t])
      /\ check' = [check EXCEPT ![t] = TRUE]
      /\ pending' = [pending EXCEPT !.step = "added"]
      /\ UNCHANGED <<types, attr, extra, handles, schemas, meta, alive, returned>>
  BY DEF AddFirstDocs
<1>3. /\ DOMAIN pending = {"step", "table", "docs"}
      /\ alive /\ t \in DOMAIN check /\ t \in DOMAIN handles /\ handles[t] = "created"
      /\ t \in DOMAIN schemas /\ Among(schemas[t], types[t]) /\ DocsAreSound(docs, types[t])
      /\ meta.state # "partial"
  BY <1>1, <1>2 DEF FirstDocsAreSound
<1>4. /\ DOMAIN pending' = {"step", "table", "docs"} /\ pending'.step = "added"
      /\ pending'.table = t /\ pending'.docs = docs
  BY <1>2, <1>3
<1> HIDE DEF t, docs
<1>5. DOMAIN check' = DOMAIN check /\ check'[t] = TRUE
      /\ \A u \in DOMAIN check : u # t => check'[u] = check[u]
  BY <1>2, <1>3
<1>6. \A u \in DOMAIN check : check[u] => check'[u]
  BY <1>5
<1>7. LocalTypeOK'
  <2>1. \A u \in DOMAIN check' : check'[u] \in BOOLEAN
    BY <1>1, <1>5 DEF LocalTypeOK
  <2> QED
    BY <1>1, <1>2, <1>3, <1>4, <1>5, <2>1 DEF LocalTypeOK
<1>8. KnownAreTyped'
  <2>1. DOMAIN extra \subseteq DOMAIN check
    BY <1>1 DEF LocalTypeOK
  <2> QED
    BY <1>1, <1>2, <1>6, <2>1 DEF KnownAreTyped
<1>9. CreatedHaveSchemas'
  BY <1>1, <1>2, <1>3, <1>5 DEF CreatedHaveSchemas
<1>10. MetaIsSound'
  BY <1>1, <1>2 DEF MetaIsSound
<1>11. FirstDocsAreSound'
  BY <1>2, <1>3, <1>4, <1>5 DEF FirstDocsAreSound
<1>12. MetaKeepsTables'
  <2>1. \A u \in returned : u \in DOMAIN check /\ check[u]
                             /\ u \in DOMAIN meta.check /\ meta.check[u]
    BY <1>1, <1>3 DEF MetaKeepsTables
  <2>2. \A u \in DOMAIN check : check[u] => u \in DOMAIN meta.check /\ meta.check[u]
    BY <1>1, <1>2, <1>3 DEF MetaKeepsTables
  <2>3. \A u \in DOMAIN check' : check'[u] =>
          (u \in DOMAIN meta.check /\ meta.check[u]) \/ u = t
    BY <1>5, <2>2
  <2>4. \A u \in returned : u \in DOMAIN check' /\ check'[u]
    BY <1>5, <1>6, <2>1
  <2> QED
    BY <1>2, <1>4, <2>1, <2>3, <2>4 DEF MetaKeepsTables
<1>13. RowsFit'
  <2> SUFFICES ASSUME NEW row \in stored'
               PROVE  /\ row.table \in DOMAIN schemas
                      /\ Among(row.fields, schemas[row.table])
                      /\ row.alone /\ ~row.keyed =>
                           Id \notin DOMAIN schemas[row.table]
                             \/ schemas[row.table][Id] # "STRING"
    BY <1>2 DEF RowsFit
  <2>1. CASE row \in stored
    BY <1>1, <2>1 DEF RowsFit
  <2>2. CASE row \in Rows(t, docs, schemas[t])
    <3>1. /\ row.table = t /\ Among(row.fields, schemas[t])
          /\ row.alone /\ ~row.keyed =>
               Id \notin DOMAIN schemas[t] \/ schemas[t][Id] # "STRING"
      BY <1>3, <2>2, RowsAre
    <3> QED
      BY <1>3, <3>1
  <2> QED
    BY <1>2, <2>1, <2>2
<1> QED
  BY <1>1, <1>2, <1>7, <1>8, <1>9, <1>10, <1>11, <1>12, <1>13 DEF LocalIInv

\* tables.meta is emptied.
LEMMA OpenMetaKeeps ==
  ASSUME LocalIInv, OpenMeta
  PROVE  LocalIInv'
<1>1. LocalTypeOK /\ KnownAreTyped /\ CreatedHaveSchemas /\ FirstDocsAreSound
      /\ MetaKeepsTables /\ RowsFit /\ alive \in BOOLEAN
  BY DEF LocalIInv
<1>2. /\ pending.step = "added"
      /\ meta' = [NoMeta EXCEPT !.state = "partial"]
      /\ pending' = [pending EXCEPT !.step = "writing"]
      /\ UNCHANGED <<check, types, attr, extra, handles, schemas, stored, alive, returned>>
  BY DEF OpenMeta
<1>3. /\ DOMAIN pending = {"step", "table", "docs"} /\ alive
  BY <1>1, <1>2 DEF FirstDocsAreSound
<1>4. /\ DOMAIN pending' = {"step", "table", "docs"} /\ pending'.step = "writing"
      /\ pending'.table = pending.table /\ pending'.docs = pending.docs
  BY <1>2, <1>3
<1>5. /\ DOMAIN meta' = {"state", "check", "types", "attr"} /\ meta'.state = "partial"
      /\ DOMAIN meta'.check = {} /\ DOMAIN meta'.types = {} /\ DOMAIN meta'.attr = {}
  BY <1>2, EmptyList DEF NoMeta
<1>6. LocalTypeOK'
  BY <1>1, <1>2, <1>4, <1>5 DEF LocalTypeOK
<1>7. MetaIsSound' /\ MetaKeepsTables'
  BY <1>1, <1>2, <1>5 DEF MetaIsSound, MetaKeepsTables
<1>8. FirstDocsAreSound'
  BY <1>1, <1>2, <1>4, <1>5 DEF FirstDocsAreSound
<1>9. KnownAreTyped' /\ CreatedHaveSchemas' /\ RowsFit'
  BY <1>1, <1>2 DEF KnownAreTyped, CreatedHaveSchemas, RowsFit
<1> QED
  BY <1>1, <1>2, <1>6, <1>7, <1>8, <1>9 DEF LocalIInv

\* tables.meta is written.
LEMMA WriteMetaKeeps ==
  ASSUME LocalIInv, WriteMeta
  PROVE  LocalIInv'
<1>1. LocalTypeOK /\ KnownAreTyped /\ CreatedHaveSchemas /\ FirstDocsAreSound
      /\ MetaKeepsTables /\ RowsFit /\ alive \in BOOLEAN
  BY DEF LocalIInv
<1>2. /\ pending.step = "writing"
      /\ meta' = [state |-> "whole", check |-> check, types |-> types, attr |-> attr]
      /\ pending' = NothingPending
      /\ returned' = returned \cup {pending.table}
      /\ UNCHANGED <<check, types, attr, extra, handles, schemas, stored, alive>>
  BY DEF WriteMeta, Written
<1>3. alive /\ pending.table \in DOMAIN check /\ check[pending.table]
  BY <1>1, <1>2 DEF FirstDocsAreSound
<1>4. DOMAIN pending' = {"step", "table", "docs"} /\ pending'.step = "none"
  BY <1>2 DEF NothingPending
<1>5. /\ DOMAIN meta' = {"state", "check", "types", "attr"} /\ meta'.state = "whole"
      /\ meta'.check = check /\ meta'.types = types /\ meta'.attr = attr
  BY <1>2
<1>6. LocalTypeOK'
  BY <1>1, <1>2, <1>4, <1>5 DEF LocalTypeOK
<1>7. MetaIsSound'
  BY <1>1, <1>2, <1>5 DEF MetaIsSound, LocalTypeOK, KnownAreTyped, CreatedHaveSchemas
<1>8. MetaKeepsTables'
  BY <1>1, <1>2, <1>3, <1>5 DEF MetaKeepsTables
<1>9. FirstDocsAreSound'
  BY <1>4, <1>5 DEF FirstDocsAreSound
<1>10. KnownAreTyped' /\ CreatedHaveSchemas' /\ RowsFit'
  BY <1>1, <1>2 DEF KnownAreTyped, CreatedHaveSchemas, RowsFit
<1> QED
  BY <1>1, <1>2, <1>6, <1>7, <1>8, <1>9, <1>10 DEF LocalIInv

\* Between calls only the handle of a table changes, and not to less.
LEMMA HandleKeeps ==
  ASSUME LocalIInv, pending.step = "none",
         UNCHANGED <<check, types, attr, extra, schemas, stored, meta, pending, alive,
                     returned>>,
         \A u \in DOMAIN handles' :
           handles'[u] \in {"nil", "empty", "spoilt", "created", "closed"},
         \A u \in DOMAIN handles : u \in DOMAIN handles' /\
           (handles'[u] = handles[u] \/ handles'[u] = "closed")
  PROVE  LocalIInv'
<1>1. LocalTypeOK'
  BY DEF LocalIInv, LocalTypeOK
<1>2. CreatedHaveSchemas'
  BY DEF LocalIInv, CreatedHaveSchemas
<1>3. FirstDocsAreSound'
  BY DEF LocalIInv, FirstDocsAreSound
<1>4. KnownAreTyped' /\ MetaIsSound' /\ MetaKeepsTables' /\ RowsFit'
  BY DEF LocalIInv, KnownAreTyped, MetaIsSound, MetaKeepsTables, RowsFit
<1> QED
  BY <1>1, <1>2, <1>3, <1>4 DEF LocalIInv

\* load.
LEMMA LoadTableKeeps ==
  ASSUME LocalIInv, NEW t, LoadTable(t)
  PROVE  LocalIInv'
<1>1. /\ pending.step = "none" /\ t \notin DOMAIN handles
      /\ handles' = With(handles, t, IF t \in DOMAIN schemas THEN "created" ELSE "empty")
      /\ UNCHANGED <<check, types, attr, extra, schemas, stored, meta, pending, alive,
                     returned>>
  BY DEF LoadTable
<1>2. \A u \in DOMAIN handles :
        handles[u] \in {"nil", "empty", "spoilt", "created", "closed"}
  BY DEF LocalIInv, LocalTypeOK
<1>3. /\ DOMAIN handles' = DOMAIN handles \cup {t} /\ handles'[t] \in {"created", "empty"}
      /\ \A u \in DOMAIN handles : handles'[u] = handles[u]
  BY <1>1 DEF With
<1> QED
  BY <1>1, <1>2, <1>3, HandleKeeps

\* close.
LEMMA CloseKeeps ==
  ASSUME LocalIInv, NEW t, Close(t)
  PROVE  LocalIInv'
<1>1. /\ pending.step = "none" /\ t \in DOMAIN handles
      /\ handles' = [handles EXCEPT ![t] = "closed"]
      /\ UNCHANGED <<check, types, attr, extra, schemas, stored, meta, pending, alive,
                     returned>>
  BY DEF Close
<1>2. \A u \in DOMAIN handles :
        handles[u] \in {"nil", "empty", "spoilt", "created", "closed"}
  BY DEF LocalIInv, LocalTypeOK
<1>3. /\ DOMAIN handles' = DOMAIN handles /\ handles'[t] = "closed"
      /\ \A u \in DOMAIN handles : u # t => handles'[u] = handles[u]
  BY <1>1
<1> QED
  BY <1>1, <1>2, <1>3, HandleKeeps

\* A search changes nothing of this, nor does a step that changes nothing.
LEMMA NothingChanges ==
  ASSUME LocalIInv,
         UNCHANGED <<check, types, attr, extra, handles, schemas, stored, meta, pending,
                     alive, returned>>
  PROVE  LocalIInv'
BY DEF LocalIInv, LocalTypeOK, KnownAreTyped, CreatedHaveSchemas, MetaIsSound,
       FirstDocsAreSound, MetaKeepsTables, RowsFit

\* A start after the process has ended.
LEMMA ReopenKeeps ==
  ASSUME LocalIInv, Reopen
  PROVE  LocalIInv'
<1>1. LocalTypeOK /\ MetaIsSound /\ FirstDocsAreSound /\ MetaKeepsTables /\ RowsFit
  BY DEF LocalIInv
<1>2. /\ alive /\ alive' = (meta.state # "partial")
      /\ check' = meta.check /\ types' = meta.types
      /\ attr' = [t \in DOMAIN meta.attr |-> ReadAttr(meta.attr[t])]
      /\ extra' = << >>
      /\ handles' = [t \in DOMAIN meta.types |->
                       IF t \in DOMAIN schemas THEN "created" ELSE "empty"]
      /\ pending' = NothingPending
      /\ UNCHANGED <<schemas, stored, meta, returned>>
  BY DEF Reopen, ReadTypes
<1>3. /\ DOMAIN meta.types = DOMAIN meta.check /\ DOMAIN meta.attr = DOMAIN meta.check
      /\ \A t \in DOMAIN meta.check :
           /\ meta.check[t] \in BOOLEAN
           /\ IsList(meta.attr[t])
           /\ meta.check[t] => t \in DOMAIN schemas /\ Among(schemas[t], meta.types[t])
  BY <1>1 DEF MetaIsSound
<1>4. DOMAIN pending' = {"step", "table", "docs"} /\ pending'.step = "none"
  BY <1>2 DEF NothingPending
<1>5. DOMAIN extra' = {}
  BY <1>2, EmptyList
<1>6. DOMAIN attr' = DOMAIN meta.check /\ DOMAIN handles' = DOMAIN meta.check
      /\ \A t \in DOMAIN meta.check :
           handles'[t] = IF t \in DOMAIN schemas THEN "created" ELSE "empty"
  BY <1>2, <1>3
<1>7. alive' \in BOOLEAN /\ (alive' <=> meta.state # "partial")
  BY <1>2
<1>8. LocalTypeOK'
  <2>1. DOMAIN schemas \subseteq Tables /\ meta.state \in {"none", "partial", "whole"}
    BY <1>1 DEF LocalTypeOK
  <2> QED
    BY <1>2, <1>3, <1>4, <1>5, <1>6, <1>7, <2>1 DEF LocalTypeOK
<1>9. KnownAreTyped'
  <2>1. ASSUME NEW t \in DOMAIN meta.attr PROVE IsList(attr'[t])
    <3> DEFINE a == meta.attr[t]
               read == ReadAttr(a)
    <3>1. attr'[t] = read
      BY <1>2
    <3>2. Len(a) \in Nat
      BY <1>3 DEF IsList
    <3>3. read = [i \in 1 .. Len(a) |-> read[i]]
      BY DEF ReadAttr
    <3> HIDE DEF read, a
    <3> QED
      BY <3>1, <3>2, <3>3, ListsAre
  <2> QED
    BY <1>3, <1>5, <1>6, <2>1 DEF KnownAreTyped
<1>10. CreatedHaveSchemas'
  BY <1>2, <1>3, <1>6 DEF CreatedHaveSchemas
<1>11. MetaIsSound'
  BY <1>1, <1>2 DEF MetaIsSound
<1>12. FirstDocsAreSound'
  BY <1>2, <1>4, <1>7 DEF FirstDocsAreSound
<1>13. MetaKeepsTables'
  BY <1>1, <1>2, <1>7 DEF MetaKeepsTables
<1>14. RowsFit'
  BY <1>1, <1>2 DEF RowsFit
<1> QED
  BY <1>7, <1>8, <1>9, <1>10, <1>11, <1>12, <1>13, <1>14 DEF LocalIInv

\* Every step.
LEMMA LocalSteps ==
  ASSUME LocalAssumption, LocalIInv, [LocalNext]_localVars
  PROVE  LocalIInv'
<1>1. CASE LocalNext
  <2>1. ASSUME NEW t \in Tables, NEW made \in BOOLEAN, NEW created \in BOOLEAN,
               NEW docs \in DocLists[t], Add(t, docs, made, created)
        PROVE  LocalIInv'
    BY <2>1, AddKeeps
  <2>2. ASSUME NEW t \in Tables, LoadTable(t) \/ Close(t) PROVE LocalIInv'
    BY <2>2, LoadTableKeeps, CloseKeeps
  <2>3. ASSUME NEW t \in Tables, NEW filters \in FilterLists, Search(t, filters)
        PROVE  LocalIInv'
    BY <2>3, NothingChanges DEF Search
  <2> QED
    BY <1>1, <2>1, <2>2, <2>3, AddFirstDocsKeeps, OpenMetaKeeps, WriteMetaKeeps,
       ReopenKeeps DEF LocalNext
<1>2. CASE UNCHANGED localVars
  BY <1>2, NothingChanges DEF localVars
<1> QED
  BY <1>1, <1>2

\* What the library knows of its tables, what it was given to keep and what it
\* writes to tables.meta agree at every step (AwaLocal.add, __write, __read).
THEOREM LocalInvariant == LocalSpec => []LocalIInv
<1>1. LocalInit => LocalIInv
  BY LocalBegins
<1>2. LocalIInv /\ [LocalNext]_localVars => LocalIInv'
  BY LocalSteps, LocalAssumption
<1> QED
  BY <1>1, <1>2, PTL DEF LocalSpec

\* Whatever is added, in whatever order, and wherever the process ends: values
\* have the types of the schema they are stored by, the library knows the
\* fields of the tables that were created, tables that took documents stay and
\* a document alone has a key (AwaLocal.add, __field_check).
THEOREM LibraryKeepsTables == LocalSpec => []LocalInv
<1>1. ASSUME LocalIInv PROVE LocalInv
  <2>1. LocalTypeOK
    BY <1>1 DEF LocalIInv
  <2>2. ValuesFitTheSchema
    BY <1>1 DEF LocalIInv, RowsFit, Among, ValuesFitTheSchema
  <2>3. EngineFieldsAreKnown
    BY <1>1 DEF LocalIInv, CreatedHaveSchemas, Among, EngineFieldsAreKnown
  <2>4. ReturnedTablesStay
    BY <1>1 DEF LocalIInv, MetaKeepsTables, CreatedHaveSchemas, ReturnedTablesStay
  <2>5. LoneDocsHaveKeys
    <3> SUFFICES ASSUME NEW row \in stored, row.alone,
                        IfHas(schemas[row.table], Id, "none") = "STRING"
                 PROVE  row.keyed
      BY DEF LoneDocsHaveKeys
    <3>1. Id \in DOMAIN schemas[row.table] /\ schemas[row.table][Id] = "STRING"
      BY DEF IfHas
    <3> QED
      BY <1>1, <3>1 DEF LocalIInv, RowsFit
  <2> QED
    BY <2>1, <2>2, <2>3, <2>4, <2>5 DEF LocalInv
<1> QED
  BY <1>1, LocalInvariant, PTL
=============================================================================
