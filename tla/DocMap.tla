------------------------------- MODULE DocMap -------------------------------
(***************************************************************************)
(* What a table of documents promises its clients: a map from keys to the  *)
(* version last written.  A key is safe once a restart would find it; the  *)
(* end of a process keeps exactly the safe keys, at their last version.    *)
(***************************************************************************)
CONSTANTS Keys, Versions, Missing

VARIABLES
  store,   \* the version of each key, Missing if there is none
  safe,    \* the keys a restart would find
  up       \* FALSE from the end of a process until the next one has loaded

vars == <<store, safe, up>>

TypeOK ==
  /\ store \in [Keys -> Versions \union {Missing}]
  /\ safe \in SUBSET {k \in Keys : store[k] # Missing}
  /\ up \in BOOLEAN

Init ==
  /\ store = [k \in Keys |-> Missing]
  /\ safe = {}
  /\ up = TRUE

\* Some keys get a version, those that were there keep their place.
Put ==
  /\ up
  /\ \E changed \in SUBSET Keys, doc \in [Keys -> Versions] :
       store' = [k \in Keys |-> IF k \in changed THEN doc[k] ELSE store[k]]
  /\ UNCHANGED <<safe, up>>

Remove ==
  /\ up
  /\ \E gone \in SUBSET Keys :
       /\ store' = [k \in Keys |-> IF k \in gone THEN Missing ELSE store[k]]
       /\ safe' = safe \ gone
  /\ UNCHANGED up

Secure ==
  /\ up
  /\ safe \subseteq safe'
  /\ safe' \subseteq {k \in Keys : store[k] # Missing}
  /\ UNCHANGED <<store, up>>

End ==
  /\ up
  /\ up' = FALSE
  /\ store' = [k \in Keys |-> IF k \in safe THEN store[k] ELSE Missing]
  /\ UNCHANGED safe

Start ==
  /\ ~up
  /\ up' = TRUE
  /\ UNCHANGED <<store, safe>>

Next == Put \/ Remove \/ Secure \/ End \/ Start

Spec == Init /\ [][Next]_vars
=============================================================================
