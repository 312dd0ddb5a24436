---------------------------- MODULE MCEngineParts ----------------------------
(* What runs beside the calls of an engine, each part on its own: the queue *)
(* of the range index, a migration, the engine's threads, its bitmap; and   *)
(* the retrieval of words, whose map nothing else shares.                   *)
EXTENDS RangeIndex, Migration, EngineThreads, GrowingBitmap, TextRetrieval

CONSTANTS a, b, c  \* words

\* Nodes of a few documents stay sparse, as nodes below 100000 ids do.
MCRise == <<1, 10>>
MCFall == <<8, 100>>

MCTextQueries == {<<a>>, <<b, a, c>>}

VARIABLE part  \* the component of this behaviour

OnlyQueue ==
  /\ part = "queue"
  /\ UNCHANGED <<part, migrationVars, threadVars, bitmapVars, textVars>>
OnlyMigration ==
  /\ part = "migration"
  /\ UNCHANGED <<part, vars, threadVars, bitmapVars, textVars>>
OnlyThreads ==
  /\ part = "threads"
  /\ UNCHANGED <<part, vars, migrationVars, bitmapVars, textVars>>
OnlyBitmap ==
  /\ part = "bitmap"
  /\ UNCHANGED <<part, vars, migrationVars, threadVars, textVars>>
OnlyText ==
  /\ part = "text"
  /\ UNCHANGED <<part, vars, migrationVars, threadVars, bitmapVars>>

PartsInit ==
  /\ Init /\ MigrationInit /\ ThreadsInit /\ BitmapInit /\ TextInit
  /\ part \in {"queue", "migration", "threads", "bitmap", "text"}

PartsNext ==
  \/ OnlyQueue /\ Next
  \/ OnlyMigration /\ MigrationNext
  \/ OnlyThreads /\ ThreadsNext
  \/ OnlyBitmap /\ BitmapNext
  \/ OnlyText /\ TextNext

PartsSpec ==
  /\ PartsInit
  /\ [][PartsNext]_<<part, vars, migrationVars, threadVars, bitmapVars,
                     textVars>>
  /\ WF_vars(Worker) /\ WF_vars(Continue)
  /\ MigrationFairness /\ ThreadsFairness /\ TextFairness

\* Every part comes to its end: calls return and their values become
\* searchable, a migration catches up, the destructor returns, documents are
\* indexed, and the walk over the words of a query ends.
PartsProgress ==
  /\ CallsReturn
  /\ ValuesBecomeSearchable
  /\ MigrationCatchesUp
  /\ EndReturns
  /\ DocumentsBecomeSearchable
  /\ WalksEnd
=============================================================================
