--------------------------- MODULE TextRetrieval ---------------------------
(***************************************************************************)
(* The words of documents and searches for them (AwadbRetrieval and        *)
(* DocDetail, called by GammaEngine::AddOrUpdateDocs and Search).  Each    *)
(* word has the list of the documents it is in; a search for several words *)
(* walks the lists in turn, each to the first document that is not before  *)
(* the farthest one found so far.  The documents found restrict the answer *)
(* together with the filters on fields.                                    *)
(*                                                                         *)
(* Nothing protects the map of words, so calls exclude one another here.   *)
(* The words are in memory only: the next process starts without them.     *)
(***************************************************************************)
EXTENDS Integers, Sequences, SequencesExt, FiniteSets

CONSTANTS
  Words,         \* the words documents are made of
  TextQueries,   \* the lists of words that are searched for
  MaxTextDocs    \* bound: documents

ASSUME TextAssumption ==
  /\ TextQueries \subseteq Seq(Words) \ {<< >>}
  /\ MaxTextDocs \in Nat

VARIABLES
  textDocs,  \* documents so far; their ids count from 0
  inverted,  \* inverted_list_: [Words -> Seq(ids)], empty when it has none
  seek       \* the call of Retrieve

textVars == <<textDocs, inverted, seek>>

NotSeeking == [pc |-> "idle"]

TextInit ==
  /\ textDocs = 0
  /\ inverted = [w \in Words |-> << >>]
  /\ seek = NotSeeking

\* A document is added; when its vector is refused, or it is added by a call
\* that hands over no words, they are not noted (gamma_engine.cc:1037).
AddTextDoc(ws, noted) ==
  /\ seek.pc = "idle" /\ textDocs < MaxTextDocs
  /\ textDocs' = textDocs + 1
  /\ inverted' = [w \in Words |->
                    IF noted /\ w \in ws THEN Append(inverted[w], textDocs)
                    ELSE inverted[w]]
  /\ UNCHANGED seek

\* The next process: the documents are there, their words are not.
RestartText ==
  /\ seek.pc = "idle" /\ textDocs > 0
  /\ inverted' = [w \in Words |-> << >>]
  /\ UNCHANGED <<textDocs, seek>>

----------------------------------------------------------------------------
(* AwadbRetrieval::Retrieve.                                                *)

\* The list whose first document is the last one comes first.
Start(q) ==
  LET first(i) == inverted[q[i]][1]
      base == CHOOSE i \in DOMAIN q :
                /\ \A j \in DOMAIN q : first(j) <= first(i)
                /\ \A j \in 1 .. (i - 1) : first(j) < first(i)
  IN [start |-> first(base), base |-> base]

BeginRetrieve(q) ==
  /\ seek.pc = "idle"
  /\ seek' = IF \E i \in DOMAIN q : inverted[q[i]] = << >>
             THEN [pc |-> "end", query |-> q, hits |-> << >>]
             ELSE [pc |-> "seek", query |-> q, hits |-> << >>,
                   start |-> Start(q).start, base |-> Start(q).base,
                   count |-> 1, pos |-> [i \in DOMAIN q |-> 1]]
  /\ UNCHANGED <<textDocs, inverted>>

\* DocDetail::Seek: from the position of the list on, the first document that
\* is not before the farthest; -1 at its end.
Seek(i) ==
  LET ids == inverted[seek.query[i]]
      ahead == {k \in DOMAIN ids : k >= seek.pos[i] /\ ids[k] >= seek.start}
      k == CHOOSE l \in ahead : \A m \in ahead : l <= m
  IN IF ahead = {} THEN [id |-> -1, pos |-> Len(ids) + 1]
     ELSE [id |-> ids[k], pos |-> k + 1]

\* Mutant: the lists before the base one are walked again.
SkipBaseBack ==
  /\ seek.pc = "seek"
  /\ seek.count = seek.base
  /\ seek' = [seek EXCEPT !.count = 1]
  /\ UNCHANGED <<textDocs, inverted>>

SkipBase ==
  /\ seek.pc = "seek"
  /\ seek.count = seek.base
  /\ seek' = [seek EXCEPT !.count = @ + 1]
  /\ UNCHANGED <<textDocs, inverted>>

\* Mutant: the list that was farthest keeps that role while another moves on.
SeekOneOldBase ==
  LET found == Seek(seek.count)
      moved == [seek EXCEPT !.pos[seek.count] = found.pos]
  IN /\ seek.pc = "seek"
     /\ seek.count <= Len(seek.query) /\ seek.count # seek.base
     /\ seek' = CASE found.id = -1 -> [seek EXCEPT !.pc = "end"]
                  [] found.id = seek.start -> [moved EXCEPT !.count = @ + 1]
                  [] OTHER -> [moved EXCEPT !.start = found.id,
                                            !.count = @ + 1]
     /\ UNCHANGED <<textDocs, inverted>>

\* One list is walked; a document beyond the farthest starts over from it.
SeekOne ==
  LET found == Seek(seek.count)
      moved == [seek EXCEPT !.pos[seek.count] = found.pos]
  IN /\ seek.pc = "seek"
     /\ seek.count <= Len(seek.query) /\ seek.count # seek.base
     /\ seek' = CASE found.id = -1 -> [seek EXCEPT !.pc = "end"]
                  [] found.id = seek.start -> [moved EXCEPT !.count = @ + 1]
                  [] OTHER -> [moved EXCEPT !.start = found.id, !.count = 1,
                                            !.base = seek.count]
     /\ UNCHANGED <<textDocs, inverted>>

\* Mutant: the end of the base list is taken for a document.
TakeHitPastEnd ==
  LET hit == [seek EXCEPT !.hits = Append(@, seek.start)]
      found == Seek(seek.base)
  IN /\ seek.pc = "seek"
     /\ seek.count = Len(seek.query) + 1
     /\ seek' = [hit EXCEPT !.pos[seek.base] = found.pos,
                            !.start = found.id, !.count = 1]
     /\ UNCHANGED <<textDocs, inverted>>

\* Every list has the document: it is a hit, and the base list moves on.
TakeHit ==
  LET hit == [seek EXCEPT !.hits = Append(@, seek.start)]
      found == Seek(seek.base)
  IN /\ seek.pc = "seek"
     /\ seek.count = Len(seek.query) + 1
     /\ seek' = IF found.id = -1 THEN [hit EXCEPT !.pc = "end"]
                ELSE [hit EXCEPT !.pos[seek.base] = found.pos,
                                 !.start = found.id, !.count = 1]
     /\ UNCHANGED <<textDocs, inverted>>

RetrieveStep == SkipBase \/ SeekOne \/ TakeHit

----------------------------------------------------------------------------
(* The answer.                                                              *)

\* The answers of the range index: no filter was given, every document
\* passes, or the documents named.
NoFilters == [kind |-> "none", docs |-> {}]
Everything == [kind |-> "everything", docs |-> {}]
FieldAnswers ==
  {NoFilters, Everything} \cup
  {[kind |-> "some", docs |-> ds] :
     ds \in SUBSET (0 .. (MaxTextDocs - 1)) \ {{}}}

\* Mutant: halving steps over one.
TextHasDocNear(hits, d) ==
  LET found[span \in (1 .. (Len(hits) + 2)) \X (0 .. Len(hits))] ==
        LET lo == span[1]
            hi == span[2]
            mid == ((lo - 1) + (hi - 1)) \div 2 + 1 IN
         \/ lo = hi /\ d = hits[lo]
         \/ /\ lo < hi /\ hits[lo] <= d /\ d <= hits[hi]
            /\ \/ d \in {hits[lo], hits[hi], hits[mid]}
               \/ d > hits[mid] /\ found[<<mid + 2, hi>>]
               \/ d < hits[mid] /\ found[<<lo, mid - 1>>]
  IN Len(hits) > 0 /\ found[<<1, Len(hits)>>]

\* MultiRangeQueryResults::TextHasDoc: is d in hits[lo .. hi]?
TextHasDoc(hits, d) ==
  LET found[span \in (1 .. (Len(hits) + 1)) \X (0 .. Len(hits))] ==
        LET lo == span[1]
            hi == span[2]
            mid == ((lo - 1) + (hi - 1)) \div 2 + 1 IN
         \/ lo = hi /\ d = hits[lo]
         \/ /\ lo < hi /\ hits[lo] <= d /\ d <= hits[hi]
            /\ \/ d \in {hits[lo], hits[hi], hits[mid]}
               \/ d > hits[mid] /\ found[<<mid + 1, hi>>]
               \/ d < hits[mid] /\ found[<<lo, mid - 1>>]
  IN Len(hits) > 0 /\ found[<<1, Len(hits)>>]

\* Mutant: a filter on fields replaces the words.
AnsweredByFields(fields) ==
  {d \in 0 .. (textDocs - 1) :
     CASE fields = NoFilters  -> TextHasDoc(seek.hits, d)
       [] fields = Everything -> TRUE
       [] OTHER -> d \in fields.docs}

\* What MultiRangeQuery and MultiRangeQueryResults::Has let a search answer:
\* a filter that every document passes drops the words, and so does a search
\* for words that found nothing beside a filter on fields.
Answered(fields) ==
  {d \in 0 .. (textDocs - 1) :
     CASE fields = NoFilters  -> TextHasDoc(seek.hits, d)
       [] fields = Everything -> TRUE
       [] OTHER -> /\ d \in fields.docs
                   /\ seek.hits # << >> => TextHasDoc(seek.hits, d)}

EndSearch ==
  /\ seek.pc = "end"
  /\ seek' = NotSeeking
  /\ UNCHANGED <<textDocs, inverted>>

TextNext ==
  \/ \E ws \in SUBSET Words, noted \in BOOLEAN : AddTextDoc(ws, noted)
  \/ RestartText
  \/ \E q \in TextQueries : BeginRetrieve(q)
  \/ RetrieveStep
  \/ EndSearch

TextFairness == WF_textVars(RetrieveStep \/ EndSearch)

TextSpec == TextInit /\ [][TextNext]_textVars /\ TextFairness

----------------------------------------------------------------------------
(* Properties.                                                              *)

Ids == 0 .. (MaxTextDocs - 1)

TextTypeOK ==
  /\ textDocs \in 0 .. MaxTextDocs
  /\ \A w \in Words : inverted[w] \in Seq(Ids)
  /\ seek.pc \in {"idle", "seek", "end"}
  /\ seek.pc = "seek" =>
       /\ seek.start \in Ids
       /\ seek.base \in DOMAIN seek.query
       /\ seek.count \in 1 .. (Len(seek.query) + 1)

\* The documents whose noted words include those of the query.
Holding(q) == {d \in Ids : \A i \in DOMAIN q : d \in ToSet(inverted[q[i]])}

\* However the lists interleave, the walk finds exactly the documents that
\* hold every word (awadb_retrieval.cc:102).
WalkFindsTheMeet == seek.pc = "end" => ToSet(seek.hits) = Holding(seek.query)

\* Documents come in their order, so that they can be searched for by halving,
\* and each comes once, but for the first one of a single word.
HitsCanBeSearched ==
  seek.pc = "end" =>
    /\ \A d \in Ids : TextHasDoc(seek.hits, d) <=> d \in ToSet(seek.hits)
    /\ Len(seek.query) > 1 => IsInjective(seek.hits)

\* Words that were found restrict the answer of every search whose filter on
\* fields is none or names documents (gamma_engine.cc:561).
WordsRestrictAnswers ==
  seek.pc = "end" /\ seek.hits # << >> =>
    \A fields \in FieldAnswers \ {Everything} :
      Answered(fields) \subseteq Holding(seek.query)

\* The walk is a loop without a bound: it ends.
WalksEnd == seek.pc = "seek" ~> seek.pc = "idle"

\* The documents of a query's words are found and restrict its answer.
TextInv ==
  /\ TextTypeOK
  /\ WalkFindsTheMeet
  /\ HitsCanBeSearched
  /\ WordsRestrictAnswers
=============================================================================
