--------------------------- MODULE RangePostings ---------------------------
(***************************************************************************)
(* The nodes of the range index beside what each document carries:         *)
(* documents are indexed and unindexed one key at a time, as the worker of *)
(* the index does (RangeIndex models when it does).                        *)
(***************************************************************************)
EXTENDS RangeNode

CONSTANTS
  Docs,        \* document ids, a finite set of naturals below IntMax
  Keys         \* <<field, value>> pairs that occur

ASSUME PostingsAssumption == Docs \subseteq 0..(IntMax - 1)

VARIABLES
  node,        \* [made keys -> node]: what the B-tree maps each key to
  docs         \* [Keys -> SUBSET Docs]: the documents that carry the key

qvars == <<node, docs>>

QInit == node = << >> /\ docs = [k \in Keys |-> {}]

NodeOf(k) == IF k \in DOMAIN node THEN node[k] ELSE NewNode

\* FieldRangeIndex::Add: the first document under a key makes its node.
IndexDoc(k, d) ==
  /\ d \notin docs[k]
  /\ docs' = [docs EXCEPT ![k] = @ \cup {d}]
  /\ node' = [x \in DOMAIN node \cup {k} |->
                IF x = k THEN AddNode(NodeOf(k), d) ELSE node[x]]

\* FieldRangeIndex::Delete: the node stays, even when it is emptied.
UnindexDoc(k, d) ==
  /\ d \in docs[k]
  /\ docs' = [docs EXCEPT ![k] = @ \ {d}]
  /\ node' = [node EXCEPT ![k] = DeleteNode(@, d)]

QNext == \E k \in Keys, d \in Docs : IndexDoc(k, d) \/ UnindexDoc(k, d)

QSpec == QInit /\ [][QNext]_qvars

----------------------------------------------------------------------------
\* Every node keeps an exact count and covering ranges, and the B-tree
\* holds a node for each key a document carries.
QTypeOK == /\ DOMAIN node \subseteq Keys
           /\ docs \in [Keys -> SUBSET Docs]
           /\ \A k \in DOMAIN node : NodeInv(node[k])

\* A node holds the documents that carry its key, whatever conversions
\* between array and bitmap its ids went through (Node::Add, Node::Delete).
NodesHoldTheirDocs ==
  \A k \in Keys : docs[k] = IF k \in DOMAIN node THEN Members(node[k]) ELSE {}
=============================================================================
