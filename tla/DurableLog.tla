----------------------------- MODULE DurableLog -----------------------------
(***************************************************************************)
(* What a storage of fixed length rows promises its users (the table and   *)
(* the raw vectors): rows are appended at the end, a row may be replaced   *)
(* in place, some prefix of the rows is durable, and a restart keeps       *)
(* exactly that prefix, with every row as it was last acknowledged.  The   *)
(* owner may then cut the log to a shorter prefix before using it again.   *)
(***************************************************************************)
EXTENDS Naturals, Sequences

CONSTANT Values          \* the contents a row can have

VARIABLES
  log,                   \* the acknowledged rows, log[i + 1] is the row of id i
  durable,               \* the number of rows a restart would find
  up                     \* FALSE from the end of a process until its log is cut

vars == <<log, durable, up>>

TypeOK ==
  /\ log \in Seq(Values)
  /\ durable \in 0 .. Len(log)
  /\ up \in BOOLEAN

Init == log = <<>> /\ durable = 0 /\ up = TRUE

Append1(v) ==
  /\ up
  /\ log' = Append(log, v)
  /\ UNCHANGED <<durable, up>>

Replace(i, v) ==
  /\ up
  /\ log' = [log EXCEPT ![i] = v]
  /\ UNCHANGED <<durable, up>>

Persist(n) ==
  /\ up
  /\ durable' = n
  /\ UNCHANGED <<log, up>>

\* The process ends: only the durable prefix is left.
End ==
  /\ up
  /\ up' = FALSE
  /\ log' = SubSeq(log, 1, durable)
  /\ UNCHANGED durable

\* The next process decides how many of the rows it found it keeps.
Cut(n) ==
  /\ ~up
  /\ log' = SubSeq(log, 1, n)
  /\ durable' = n
  /\ up' = TRUE

Next ==
  \/ \E v \in Values : Append1(v)
  \/ \E i \in 1 .. Len(log), v \in Values : Replace(i, v)
  \/ \E n \in durable + 1 .. Len(log) : Persist(n)
  \/ End
  \/ \E n \in 0 .. Len(log) : Cut(n)

Spec == Init /\ [][Next]_vars
=============================================================================
