---------------------------- MODULE TableServer ----------------------------
(***************************************************************************)
(* One table of the server as those who call it see it: Create, AddFields, *)
(* CheckTable and AddOrUpdate, each processed at one moment, as the server *)
(* has one thread.  The reply of a call may be lost, or come after the     *)
(* caller has given up: the call has then happened or not.  A call that    *)
(* happens later than that is a call of somebody else to the model.        *)
(* Restarts of the server and what documents become in an engine are the   *)
(* business of Service and DocEngine.                                      *)
(***************************************************************************)
EXTENDS Integers, Sequences, FiniteSets, Functions

CONSTANT MaxLosses   \* bound: calls without an answer

ASSUME ServerAssumption == MaxLosses \in Nat

Key == "_id"
Types == {"INT", "LONG", "FLOAT", "STRING", "MULTI_STRING", "VECTOR"}

VARIABLES
  table,    \* what is under the name of the table, and the fields it has
  taken,    \* the documents sent to it: types of their values, sender
  losses

tableVars == <<table, taken, losses>>

NoTable == [engine |-> "none", fields |-> << >>]
Unusable == [engine |-> "unusable", fields |-> << >>]
Usable(fields) == [engine |-> "usable", fields |-> fields]

ServerInit == table = NoTable /\ taken = {} /\ losses = 0

\* A field more, or another type for one.
Including(fields, f, type) ==
  [g \in DOMAIN fields \cup {f} |-> IF g = f THEN type ELSE fields[g]]

Heard(reply) == reply # "lost"

\* A call may get no answer; the process behind an unusable engine may have
\* ended, which is not counted.
Loses(reply) ==
  IF reply = "lost" /\ table.engine # "unusable"
  THEN losses < MaxLosses /\ losses' = losses + 1
  ELSE UNCHANGED losses

\* Create: a field named twice makes the engine refuse it, other things may;
\* the engine stays registered then, or was never made.
CreateCall(fields, twice, reply) ==
  /\ Loses(reply)
  /\ UNCHANGED taken
  /\ \/ /\ table.engine # "none"
        /\ reply \in {"TABLE_EXIST", "lost"}
        /\ UNCHANGED table
     \/ /\ table.engine = "none"
        /\ ~twice
        /\ reply \in {"OK", "lost"}
        /\ table' = Usable(fields)
     \/ /\ table.engine = "none"
        /\ reply \in {"INTERNAL_ERROR", "lost"}
        /\ table' \in {NoTable, Unusable}

\* AddFields: a field of the schema is refused, one added before is accepted
\* and keeps its type.  An unusable engine ends the process.
AddFieldsCall(field, type, reply) ==
  /\ Loses(reply)
  /\ UNCHANGED taken
  /\ \/ reply \in {"INTERNAL_ERROR", "lost"} /\ UNCHANGED table
     \/ /\ table.engine = "usable"
        /\ reply \in {"OK", "lost"}
        /\ table' = IF field \in DOMAIN table.fields THEN table
                    ELSE Usable(Including(table.fields, field, type))

\* CheckTable: an unusable engine ends the process.
CheckTableCall(reply) ==
  /\ Loses(reply)
  /\ UNCHANGED <<table, taken>>
  /\ reply \in IF table.engine = "unusable" THEN {"lost"}
               ELSE {IF table.engine = "none" THEN "missing" ELSE "there", "lost"}

\* AddOrUpdate: values are not compared with the fields they are for.
AddOrUpdateCall(docs, reply) ==
  /\ Loses(reply)
  /\ UNCHANGED table
  /\ \/ reply \in {"INTERNAL_ERROR", "lost"} /\ UNCHANGED taken
     \/ /\ table.engine = "usable"
        /\ reply \in {"OK", "lost"}
        /\ taken' = taken \cup docs

\* What the type of a value ought to be.
Fits(types) ==
  \A f \in DOMAIN types \ {Key} :
    f \in DOMAIN table.fields /\ table.fields[f] = types[f]
=============================================================================
