----------------------------- MODULE HnswGraph ------------------------------
(***************************************************************************)
(* The graph of the HNSW index (HierarchicalNSW, GammaIndexHNSWLIB).       *)
(* Elements live in layer 0 and, by a random level, in the layers above.   *)
(* A batch of elements is added by several threads at once; updates,       *)
(* deletes and dumps exclude batches and each other (dump_mutex_).         *)
(*                                                                         *)
(* A thread that adds an element holds the lock of that element from the   *)
(* beginning to the end, and takes the lock of each element that it visits *)
(* or links for a moment; one that raises the top level also keeps the     *)
(* global lock.  A visit is one step.  Vectors are points of a line with   *)
(* different distances, so nothing is tied.                                *)
(***************************************************************************)
EXTENDS Integers, Sequences, FiniteSets, SequencesExt, FiniteSetsExt

CONSTANTS
  Placements,      \* the vectors of the elements: sequences of points
  SparePoints,     \* points that an update may move a vector to
  Adders,          \* threads of a batch: numbers from 1
  BatchSizes,      \* how many elements Add may be called with
  Links,           \* M_
  EfConstruction,  \* ef_construction_, before the maximum with M_
  TopLevel,        \* bound: the highest level an element gets
  MaxDeletes, MaxHnswUpdates, MaxReloads  \* bounds: operations of each kind

ASSUME HnswAssumption ==
  /\ BatchSizes \subseteq Nat \ {0}
  /\ Adders = 1 .. Cardinality(Adders)
  /\ Links \in Nat /\ Links >= 2
  /\ {EfConstruction, TopLevel, MaxDeletes, MaxHnswUpdates, MaxReloads} \subseteq Nat

VARIABLES
  point,      \* the vector of each element, in the raw vectors
  level,      \* element_levels_, of the elements added so far
  links,      \* the link lists: [layer -> [element -> Seq(elements)]]
  marked,     \* elements with the deleted mark
  marks,      \* num_deleted_
  entryPoint, \* enterpoint_node_
  topLayer,   \* maxlevel_
  batch,      \* the elements of the running batch left for each thread
  adding,     \* the addPoint call of each thread
  global,     \* who holds the lock for raising the top level
  moved,      \* updated_vids_: elements whose vector moved
  taken,      \* the update that the indexing thread took
  hnswFile,   \* what the last dump wrote
  changed,    \* how many deletes, updates and reloads there were
  thrown      \* the error that ended the process

hnswVars == <<point, level, links, marked, marks, entryPoint, topLayer, batch,
              adding, global, moved, taken, hnswFile, changed, thrown>>

None == -1
Free == 0
Layers == 0 .. TopLevel
Elements == DOMAIN point
Added == DOMAIN level      \* cur_element_count of them
Ef == IF EfConstruction > Links THEN EfConstruction ELSE Links
MaxLinks(layer) == IF layer = 0 THEN 2 * Links ELSE Links

NotAdding == [step |-> "idle", element |-> None, layer |-> 0, at |-> None,
              maxLevel |-> None, entry |-> None, found |-> [top |-> {},
              candidates |-> {}, visited |-> {}], connect |-> << >>]
NoHnswFile == [level |-> << >>]

HnswInit ==
  /\ point \in Placements
  /\ level = << >>
  /\ links = [layer \in Layers |-> << >>]
  /\ marked = {}
  /\ marks = 0
  /\ entryPoint = None
  /\ topLayer = None
  /\ batch = [t \in Adders |-> {}]
  /\ adding = [t \in Adders |-> NotAdding]
  /\ global = Free
  /\ moved = {}
  /\ taken = None
  /\ hnswFile = NoHnswFile
  /\ changed = [deletes |-> 0, updates |-> 0, reloads |-> 0]
  /\ thrown = "nothing"

Quiet == thrown = "nothing"
         /\ \A t \in Adders : batch[t] = {} /\ adding[t].step = "idle"

-----------------------------------------------------------------------------
Distance(x, y) == IF x > y THEN x - y ELSE y - x
Far(x, e) == Distance(x, point[e])
Nearest(x, s) == CHOOSE e \in s : \A f \in s : Far(x, e) <= Far(x, f)
Farthest(x, s) == CHOOSE e \in s : \A f \in s : Far(x, e) >= Far(x, f)
FarthestFirst(x, s) == SetToSortSeq(s, LAMBDA e, f : Far(x, e) > Far(x, f))

\* getNeighborsByHeuristic2: from the nearest on, without those that are nearer
\* to one that was kept.
Selected(x, s, m) ==
  LET keep(kept, e) ==
        IF Cardinality(kept) >= m
           \/ \E f \in kept : Distance(point[e], point[f]) < Far(x, e)
        THEN kept ELSE kept \cup {e}
  IN  IF Cardinality(s) < m THEN s
      ELSE FoldLeft(keep, {}, Reverse(FarthestFirst(x, s)))

\* searchBaseLayer: its start, the test that ends it, and a visit.
StartAt(e) == [top |-> IF e \in marked THEN {} ELSE {e},
               candidates |-> {e}, visited |-> {e}]
SearchDone(x, ef, s) ==
  s.candidates # {} =>
    /\ Cardinality(s.top) = ef
    /\ Far(x, Nearest(x, s.candidates)) > Far(x, Farthest(x, s.top))

Meet(x, ef, wanted, s, e) ==
  IF e \in s.visited THEN s
  ELSE LET near == Cardinality(s.top) < ef \/ Far(x, e) < Far(x, Farthest(x, s.top))
           top == IF e \in wanted THEN s.top \cup {e} ELSE s.top
       IN  [top |-> IF ~near THEN s.top
                    ELSE IF Cardinality(top) > ef
                         THEN top \ {Farthest(x, top)} ELSE top,
            candidates |-> IF near THEN s.candidates \cup {e} ELSE s.candidates,
            visited |-> s.visited \cup {e}]

Visit(x, layer, graph, s) ==
  LET c == Nearest(x, s.candidates)
  IN  FoldLeft(LAMBDA t, e : Meet(x, Ef, Added \ marked, t, e),
               [s EXCEPT !.candidates = @ \ {c}], graph[layer][c])

\* One round of the greedy descent through an upper layer.
Greedy(x, layer, graph, at) ==
  FoldLeft(LAMBDA e, f : IF Far(x, f) < Far(x, e) THEN f ELSE e, at,
           graph[layer][at])

-----------------------------------------------------------------------------
\* A batch: GammaIndexHNSWLIB::Add.  Each thread gets a share of the elements,
\* which it adds in their order (omp parallel for).
AddBatch(n) ==
  /\ Quiet
  /\ taken = None
  /\ Cardinality(Added) + n <= Len(point)
  /\ batch' = [t \in Adders |->
       {Cardinality(Added) + i : i \in
          {j \in 1 .. n : ((j - 1) * Cardinality(Adders)) \div n + 1 = t}}]
  /\ UNCHANGED <<point, level, links, marked, marks, entryPoint, topLayer,
                 adding, global, moved, taken, hnswFile, changed, thrown>>

Busy(e) == \E t \in Adders : adding[t].element = e

\* addPoint: the element and its lock, its level, the highest level.  The first
\* element is done at once; one that does not raise the top level lets the
\* global lock go before it reads the entry point.
BeginAdd(t, lev) ==
  LET e == Min(batch[t]) IN
  /\ adding[t].step = "idle"
  /\ batch[t] # {}
  /\ global = Free
  /\ batch' = [batch EXCEPT ![t] = @ \ {e}]
  /\ level' = [f \in Added \cup {e} |-> IF f = e THEN lev ELSE level[f]]
  /\ links' = [layer \in Layers |->
                 IF layer <= lev
                 THEN [f \in DOMAIN links[layer] \cup {e} |->
                         IF f = e THEN << >> ELSE links[layer][f]]
                 ELSE links[layer]]
  /\ IF entryPoint = None
     THEN /\ entryPoint' = e
          /\ topLayer' = lev
          /\ UNCHANGED <<adding, global>>
     ELSE /\ global' = IF lev > topLayer THEN t ELSE Free
          /\ adding' = [adding EXCEPT ![t] =
               [NotAdding EXCEPT !.step = "entry", !.element = e,
                                 !.maxLevel = topLayer, !.layer = topLayer]]
          /\ UNCHANGED <<entryPoint, topLayer>>
  /\ UNCHANGED <<point, marked, marks, moved, taken, hnswFile, changed, thrown>>

AdderMoves ==
  UNCHANGED <<point, level, marked, marks, batch, moved, taken, hnswFile, changed>>

ReadEntry(t) ==
  LET a == adding[t]
  IN  /\ a.step = "entry"
      /\ adding' = [adding EXCEPT ![t].at = entryPoint, ![t].entry = entryPoint,
           ![t].step = IF level[a.element] < a.maxLevel THEN "descend" ELSE "enter"]
      /\ AdderMoves /\ UNCHANGED <<links, entryPoint, topLayer, global, thrown>>

\* The descent to the level of the element, an element of the path at a time.
Descend(t) ==
  LET a == adding[t]
      next == Greedy(point[a.element], a.layer, links, a.at)
  IN  /\ a.step = "descend"
      /\ ~Busy(a.at)
      /\ adding' = [adding EXCEPT ![t] =
           IF next # a.at THEN [a EXCEPT !.at = next]
           ELSE [a EXCEPT !.layer = @ - 1,
                          !.step = IF a.layer - 1 > level[a.element]
                                   THEN "descend" ELSE "enter"]]
      /\ AdderMoves /\ UNCHANGED <<links, entryPoint, topLayer, global, thrown>>

\* The search of a layer begins.
EnterLayer(t) ==
  /\ adding[t].step = "enter"
  /\ adding' = [adding EXCEPT ![t].step = "search", ![t].found = StartAt(adding[t].at)]
  /\ AdderMoves /\ UNCHANGED <<links, entryPoint, topLayer, global, thrown>>

VisitElement(t) ==
  LET a == adding[t]
      x == point[a.element]
  IN  /\ a.step = "search"
      /\ ~SearchDone(x, Ef, a.found)
      /\ ~Busy(Nearest(x, a.found.candidates))
      /\ adding' = [adding EXCEPT ![t].found = Visit(x, a.layer, links, a.found)]
      /\ AdderMoves /\ UNCHANGED <<links, entryPoint, topLayer, global, thrown>>

\* The entry point joins the candidates when it is marked deleted.
\* Mutant: it does not.
FoundOnly(x, found, entry) == found
WithEntry(x, found, entry) ==
  LET all == IF entry \in marked THEN found \cup {entry} ELSE found
  IN  IF Cardinality(all) > Ef THEN all \ {Farthest(x, all)} ELSE all

\* mutuallyConnectNewElement: the element's own list.  The last of an empty
\* list is undefined.
SelectLinks(t) ==
  LET a == adding[t]
      x == point[a.element]
      list == FarthestFirst(x, Selected(x, WithEntry(x, a.found.top, a.entry), Links))
  IN  /\ a.step = "search"
      /\ SearchDone(x, Ef, a.found)
      /\ IF list = << >>
         THEN thrown' = "no neighbour" /\ UNCHANGED <<links, adding>>
         ELSE /\ links' = [links EXCEPT ![a.layer][a.element] = list]
              /\ adding' = [adding EXCEPT ![t].step = "connect",
                   ![t].connect = list, ![t].at = Last(list),
                   ![t].found = NotAdding.found]
              /\ UNCHANGED thrown
      /\ AdderMoves /\ UNCHANGED <<entryPoint, topLayer, global>>

\* Mutant: a full list is not pruned.
LinkedBackUnpruned(list, layer, n, e) == Append(list, e)

\* The list of neighbour n in a layer once element e linked it: appended, or
\* selected anew when the list is full.
LinkedBack(list, layer, n, e) ==
  IF Len(list) < MaxLinks(layer) THEN Append(list, e)
  ELSE FarthestFirst(point[n],
                     Selected(point[n], ToSet(list) \cup {e}, MaxLinks(layer)))

ConnectBack(t) ==
  LET a == adding[t]
      n == Head(a.connect)
  IN  /\ a.step = "connect"
      /\ a.connect # << >>
      /\ ~Busy(n)
      /\ links' = [links EXCEPT ![a.layer][n] = LinkedBack(@, a.layer, n, a.element)]
      /\ adding' = [adding EXCEPT ![t].connect = Tail(@)]
      /\ AdderMoves /\ UNCHANGED <<entryPoint, topLayer, global, thrown>>

\* The thread that raised the top level lets the global lock go at the end.
\* Mutant: it keeps it.
GlobalKept(higher) == global
GlobalAfter(higher) == IF higher THEN Free ELSE global

\* The next layer down, or the end: a higher element becomes the entry point.
EndLayer(t) ==
  LET a == adding[t]
      higher == level[a.element] > a.maxLevel
  IN  /\ a.step = "connect"
      /\ a.connect = << >>
      /\ IF a.layer > 0
         THEN /\ adding' = [adding EXCEPT ![t].step = "enter", ![t].layer = @ - 1]
              /\ UNCHANGED <<entryPoint, topLayer, global>>
         ELSE /\ adding' = [adding EXCEPT ![t] = NotAdding]
              /\ entryPoint' = IF higher THEN a.element ELSE entryPoint
              /\ topLayer' = IF higher THEN level[a.element] ELSE topLayer
              /\ global' = GlobalAfter(higher)
      /\ AdderMoves /\ UNCHANGED <<links, thrown>>

-----------------------------------------------------------------------------
\* Whole searches and descents, for updates and queries.
RECURSIVE SearchLayer(_, _, _, _)
SearchLayer(x, layer, graph, s) ==
  IF SearchDone(x, Ef, s) THEN s.top
  ELSE SearchLayer(x, layer, graph, Visit(x, layer, graph, s))

RECURSIVE DescendTo(_, _, _, _, _)
DescendTo(x, low, layer, graph, at) ==
  IF layer <= low THEN at
  ELSE LET next == Greedy(x, layer, graph, at)
       IN  DescendTo(x, low, IF next = at THEN layer - 1 ELSE layer, graph, next)

\* updatePoint: every neighbour of the element selects its links anew, among
\* the element, its neighbours and theirs.
Relinked(e, layer, graph) ==
  LET near == ToSet(graph[layer][e])
      reach == {e} \cup near \cup UNION {ToSet(graph[layer][n]) : n \in near}
      relist(n) ==
        LET all == reach \ {n}
            kept == ToSet(SubSeq(Reverse(FarthestFirst(point[n], all)), 1,
                                 Min({Ef, Cardinality(all)})))
        IN  FarthestFirst(point[n], Selected(point[n], kept, MaxLinks(layer)))
  IN  [f \in DOMAIN graph[layer] |-> IF f \in near THEN relist(f) ELSE graph[layer][f]]

\* repairConnectionsForUpdate: the element is searched and linked as a new one,
\* from its level down; a neighbour that links it already is left alone.
RECURSIVE Repair(_, _, _, _)
Repair(e, layer, graph, at) ==
  IF layer < 0 THEN graph
  ELSE LET x == point[e]
           others == SearchLayer(x, layer, graph, StartAt(at)) \ {e}
           list == FarthestFirst(x, Selected(x, WithEntry(x, others, entryPoint),
                                             Links))
           back(n) == IF e \in ToSet(graph[layer][n]) THEN graph[layer][n]
                      ELSE LinkedBack(graph[layer][n], layer, n, e)
       IN  IF others = {} THEN Repair(e, layer - 1, graph, at)
           ELSE Repair(e, layer - 1,
                       [graph EXCEPT ![layer] =
                          [f \in DOMAIN graph[layer] |->
                             IF f = e THEN list
                             ELSE IF f \in ToSet(list) THEN back(f)
                             ELSE graph[layer][f]]],
                       Last(list))

\* What updatePoint leaves of the links, once the vector moved.
AfterUpdate(e) ==
  LET graph == [layer \in Layers |->
                  IF layer <= level[e] THEN Relinked(e, layer, links) ELSE links[layer]]
  IN  IF entryPoint = e /\ Cardinality(Added) = 1 THEN links
      ELSE Repair(e, level[e], graph,
                  DescendTo(point[e], level[e], topLayer, graph, entryPoint))

\* The caller writes the vector, bound: while no element is being added; the
\* indexing thread takes the update unless the document is deleted by then, and
\* calls Update.  An element that would link itself throws.
MoveVector(e, x) ==
  /\ Quiet
  /\ changed.updates < MaxHnswUpdates
  /\ e \in Added \ marked
  /\ \A f \in Elements : point[f] # x
  /\ point' = [point EXCEPT ![e] = x]
  /\ moved' = moved \cup {e}
  /\ changed' = [changed EXCEPT !.updates = @ + 1]
  /\ UNCHANGED <<level, links, marked, marks, entryPoint, topLayer, batch, adding,
                 global, taken, hnswFile, thrown>>

TakeMoved(e) ==
  /\ Quiet
  /\ taken = None
  /\ e \in moved
  /\ moved' = moved \ {e}
  /\ taken' = IF e \in marked THEN None ELSE e
  /\ UNCHANGED <<point, level, links, marked, marks, entryPoint, topLayer, batch,
                 adding, global, hnswFile, changed, thrown>>

UpdateMoved ==
  LET after == AfterUpdate(taken)
  IN  /\ Quiet
      /\ taken # None
      /\ taken' = None
      /\ IF \E layer \in 0 .. level[taken] : taken \in ToSet(after[layer][taken])
         THEN thrown' = "self link" /\ UNCHANGED links
         ELSE links' = after /\ UNCHANGED thrown
      /\ UNCHANGED <<point, level, marked, marks, entryPoint, topLayer, batch,
                     adding, global, moved, hnswFile, changed>>

\* Delete: an element that was not added yet is left alone.
MarkDeleted(e) ==
  /\ Quiet
  /\ changed.deletes < MaxDeletes
  /\ changed' = [changed EXCEPT !.deletes = @ + 1]
  /\ IF e \in Added \ marked
     THEN marked' = marked \cup {e} /\ marks' = marks + 1
     ELSE UNCHANGED <<marked, marks>>
  /\ UNCHANGED <<point, level, links, entryPoint, topLayer, batch, adding,
                 global, moved, taken, hnswFile, thrown>>

DumpGraph ==
  /\ Quiet
  /\ Added # {}
  /\ hnswFile' = [level |-> level, links |-> links, marked |-> marked,
                  entryPoint |-> entryPoint, topLayer |-> topLayer]
  /\ UNCHANGED <<point, level, links, marked, marks, entryPoint, topLayer,
                 batch, adding, global, moved, taken, changed, thrown>>

\* Loading counts the marks, which are in the file.  Mutant: it does not.
NotRecounted(file) == 0
Recounted(file) == Cardinality(file.marked)

\* A restart, at any time: from the file, or from nothing.
RestartGraph ==
  /\ changed.reloads < MaxReloads
  /\ changed' = [changed EXCEPT !.reloads = @ + 1]
  /\ IF hnswFile = NoHnswFile
     THEN /\ level' = << >> /\ links' = [layer \in Layers |-> << >>]
          /\ marked' = {} /\ marks' = 0
          /\ entryPoint' = None /\ topLayer' = None
     ELSE /\ level' = hnswFile.level /\ links' = hnswFile.links
          /\ marked' = hnswFile.marked /\ marks' = Recounted(hnswFile)
          /\ entryPoint' = hnswFile.entryPoint /\ topLayer' = hnswFile.topLayer
  /\ batch' = [t \in Adders |-> {}]
  /\ adding' = [t \in Adders |-> NotAdding]
  /\ global' = Free
  /\ moved' = {}
  /\ taken' = None
  /\ thrown' = "nothing"
  /\ UNCHANGED <<point, hnswFile>>

-----------------------------------------------------------------------------
\* searchBaseLayerST: elements outside wanted are walked through.  Without
\* deleted elements the search ends at the first candidate beyond the bound.
Infinity == 1000
ScanFrom(q, wanted, e) ==
  [top |-> {e} \cap wanted, candidates |-> {e}, visited |-> {e}, steps |-> 0,
   bound |-> IF e \in marked THEN Infinity ELSE Far(q, e)]
ScanDone(q, ef, s) ==
  \/ s.candidates = {}
  \/ s.steps > ef
  \/ /\ Far(q, Nearest(q, s.candidates)) > s.bound
     /\ Cardinality(s.top) = ef \/ marks = 0

\* Mutant: elements outside wanted are not walked through.
ScanMeetWanted(q, ef, wanted, s, e) ==
  IF e \in s.visited \/ e \notin wanted THEN s
  ELSE [s EXCEPT !.visited = @ \cup {e}, !.candidates = @ \cup {e},
                 !.top = @ \cup {e}]

ScanMeet(q, ef, wanted, s, e) ==
  IF e \in s.visited THEN s
  ELSE LET near == Cardinality(s.top) < ef \/ Far(q, e) < s.bound
           all == s.top \cup ({e} \cap wanted)
           top == IF Cardinality(all) > ef THEN all \ {Farthest(q, all)} ELSE all
           seen == [s EXCEPT !.visited = @ \cup {e}]
       IN  IF ~near THEN seen
           ELSE [seen EXCEPT !.top = top, !.candidates = @ \cup {e},
                   !.bound = IF top = {} THEN @ ELSE Far(q, Farthest(q, top))]

RECURSIVE Scan(_, _, _, _)
Scan(q, ef, wanted, s) ==
  IF ScanDone(q, ef, s) THEN s.top
  ELSE LET c == Nearest(q, s.candidates)
       IN  Scan(q, ef, wanted,
             FoldLeft(LAMBDA u, e : ScanMeet(q, ef, wanted, u, e),
                      [s EXCEPT !.candidates = @ \ {c}, !.steps = @ + 1],
                      links[0][c]))

\* The k elements that are nearest to q.
NearestOf(q, k, s) ==
  ToSet(SubSeq(Reverse(FarthestFirst(q, s)), 1, Min({k, Cardinality(s)})))

\* searchKnn, of efSearch at least k.
SearchKnn(q, k, ef, valid) ==
  IF Added = {} THEN {}
  ELSE LET at == DescendTo(q, 0, topLayer, links, entryPoint)
           wanted == valid \ marked
       IN  NearestOf(q, k, Scan(q, ef, wanted, ScanFrom(q, wanted, at)))

-----------------------------------------------------------------------------
Add(t) ==
  \/ \E lev \in Layers : BeginAdd(t, lev)
  \/ ReadEntry(t) \/ Descend(t) \/ EnterLayer(t) \/ VisitElement(t)
  \/ SelectLinks(t) \/ ConnectBack(t) \/ EndLayer(t)

HnswNext ==
  \/ \E n \in BatchSizes : AddBatch(n)
  \/ thrown = "nothing" /\ \E t \in Adders : Add(t)
  \/ \E e \in Elements : MarkDeleted(e) \/ TakeMoved(e)
  \/ \E e \in Elements, x \in SparePoints : MoveVector(e, x)
  \/ UpdateMoved
  \/ DumpGraph
  \/ RestartGraph

\* The threads of a batch run; nobody has to start one.
HnswFairness ==
  \A t \in Adders : WF_hnswVars(thrown = "nothing" /\ Add(t))

HnswSpec == HnswInit /\ [][HnswNext]_hnswVars /\ HnswFairness

-----------------------------------------------------------------------------
\* The state is well formed, and the mark counter counts the marked elements.
HnswTypeOK ==
  /\ Added = 1 .. Cardinality(Added) \/ ~Quiet
  /\ Added \subseteq Elements
  /\ marked \subseteq Added /\ marks = Cardinality(marked)
  /\ (entryPoint = None) = (topLayer = None)
  /\ entryPoint # None => entryPoint \in Added /\ level[entryPoint] = topLayer
  /\ \A layer \in Layers : DOMAIN links[layer] = {e \in Added : level[e] >= layer}
  /\ global \in Adders \cup {Free}

\* What the runtime errors of addPoint and mutuallyConnectNewElement are about:
\* whatever the threads of a batch interleave, updates move and restarts lose,
\* an element links in a layer only other elements of this layer, each once, and
\* no more than fit.
LinksAreWellFormed ==
  \A layer \in Layers : \A e \in DOMAIN links[layer] :
    LET list == links[layer][e]
    IN  /\ Len(list) <= MaxLinks(layer)
        /\ Cardinality(ToSet(list)) = Len(list)
        /\ ToSet(list) \subseteq DOMAIN links[layer] \ {e}

\* selectedNeighbors.back(): a search on behalf of a new element finds a
\* neighbour for it, also when elements around it are marked.
SelectionNeverEmpty == thrown # "no neighbour"

\* "Trying to connect an element to itself" (hnswalg.h:530) is not thrown.
NeverLinksItself == thrown # "self link"

\* Between batches and with efSearch at the number of elements, a search finds
\* exactly the nearest elements that are not deleted.
HnswSearchIsExact ==
  Quiet => \A q \in SparePoints, k \in 1 .. 2 :
             SearchKnn(q, k, Cardinality(Added), Added)
               = NearestOf(q, k, Added \ marked)

\* Every element that a batch takes gets linked: the locks that the threads hold
\* while they wait for each other never form a circle.
BatchesFinish == []<>(Quiet \/ thrown # "nothing")

\* The shape of the graph, and that no insertion is left without a neighbour.
HnswInv ==
  /\ HnswTypeOK
  /\ LinksAreWellFormed
  /\ SelectionNeverEmpty
=============================================================================
