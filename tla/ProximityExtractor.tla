------------------------- MODULE ProximityExtractor -------------------------
(***************************************************************************)
(* extract_word_pair_proximity_docids (update/index_documents/extract/     *)
(* extract_word_pair_proximity_docids.rs): one pass over the docid word    *)
(* positions of a chunk, sorted by (document id, field id). Per record the *)
(* deletion and the addition sides run as the two closures of a           *)
(* rayon::join, each sliding a window of (position, word) over its side    *)
(* and keeping, per word pair, the smallest proximity seen in the current  *)
(* document. When the document changes the pairs go into the sorters.     *)
(*                                                                         *)
(* A record's Del side is the field's old text, its Add side the new one;  *)
(* a text is a sequence of <<position, word>> with increasing positions,   *)
(* as KvReaderU16 yields them. Words are model values; the sorters are one *)
(* set of <<prox, w1, w2, side, doc>> entries, the merge of a sorter being *)
(* the union of the documents of each side.                                *)
(***************************************************************************)
EXTENDS Integers, Sequences, FiniteSets, FiniteSetsExt, SequencesExt

CONSTANTS
  Slots,          \* the (document id, field id) pairs of the chunk
  Words,          \* the words the texts are made of
  Texts,          \* the texts a field may hold
  MaxDistance     \* MAX_DISTANCE

ASSUME MaxDistance \in Nat \ {0, 1}

Sides == {"Del", "Add"}
Docs == {s[1] : s \in Slots}
NoDoc == 0
ASSUME \A d \in Docs : d \in Nat \ {0}

VARIABLES
  oldText, newText,  \* the field texts before and after the update
  oldPrecision, newPrecision, settingsUpdateOnly,  \* the InnerIndexSettingsDiff
  pc,          \* "start", "next" (cursor loop), "join", "done"
  i,           \* the cursor: index of the current record
  currentDoc,  \* current_document_id (NoDoc for None)
  task,        \* task[side]: the rayon::join closure of each side, "run" or "done"
  input,       \* input[side]: what the closure still has to read of its side
  window,      \* window[side]: del_word_positions / add_word_positions
  pairs,       \* pairs[side]: del/add_word_pair_proximity, <<w1, w2>> -> prox
  sorters,     \* word_pair_proximity_docids_sorters
  output       \* the entries written to the returned reader

vars == <<oldText, newText, oldPrecision, newPrecision, settingsUpdateOnly,
          pc, i, currentDoc, task, input, window, pairs, sorters, output>>

-----------------------------------------------------------------------------
(* The records of the chunk, sorted by the big-endian key (doc, fid).      *)
SlotLt(a, b) == a[1] < b[1] \/ (a[1] = b[1] /\ a[2] < b[2])
Records ==
  SetToSortSeq({s \in Slots : oldText[s] # <<>> \/ newText[s] # <<>>}, SlotLt)
SideText(side, s) == IF side = "Del" THEN oldText[s] ELSE newText[s]

(* settings_diff.reindex_proximities() (settings.rs, not under src), as    *)
(* spec.md 4.7 words the short-circuit.                                    *)
ReindexProximities == oldPrecision # newPrecision \/ oldPrecision = "ByWord"
AnySide == [Del |-> oldPrecision = "ByWord", Add |-> newPrecision = "ByWord"]

(* proximity::index_proximity (not under src): the distance, capped.       *)
Proximity(p1, p2) == Min({IF p1 <= p2 THEN p2 - p1 ELSE p1 - p2, MaxDistance})

EmptyPairs == [k \in {} |-> 0]
AddPair(m, k, prox) ==
  IF k \in DOMAIN m THEN [m EXCEPT ![k] = Min({@, prox})] ELSE m @@ (k :> prox)

(* word_positions_into_word_pair_proximity: pair the popped head with every*)
(* word left in the window, keeping the smaller proximity per pair.        *)
WordPositionsIntoPairs(head, rest, m) ==
  FoldLeft(LAMBDA acc, e :
             LET prox == Proximity(head[1], e[1])
             IN IF prox > 0 /\ prox < MaxDistance THEN AddPair(acc, <<head[2], e[2]>>, prox) ELSE acc,
           m, rest)

(* document_word_positions_into_sorter: the merge_join_by of the two maps  *)
(* on (pair, prox) inserts a Del entry for each deleted pair and an Add    *)
(* entry for each added one into word_pair_proximity_docids_sorters[prox-1]*)
(* (line 237); an entry of the sorters is <<index, key and value>>.        *)
SorterEntries(doc, side, m, SorterIndex(_)) ==
  {<<SorterIndex(m[k]), <<m[k], k[1], k[2], side, doc>>>> : k \in DOMAIN m}

(* Mutant: the sorter is indexed by prox rather than prox - 1.            *)
DocumentIntoSorterByProx(doc, delPairs, addPairs) ==
  SorterEntries(doc, "Del", delPairs, LAMBDA p : p)
  \cup SorterEntries(doc, "Add", addPairs, LAMBDA p : p)

(* Mutant: a pair at the same proximity on both sides (Both) is skipped   *)
(* as unchanged.                                                           *)
DocumentIntoSorterSkipBoth(doc, delPairs, addPairs) ==
  LET same == {k \in DOMAIN delPairs \cap DOMAIN addPairs : delPairs[k] = addPairs[k]}
  IN SorterEntries(doc, "Del", [k \in DOMAIN delPairs \ same |-> delPairs[k]], LAMBDA p : p - 1)
     \cup SorterEntries(doc, "Add", [k \in DOMAIN addPairs \ same |-> addPairs[k]], LAMBDA p : p - 1)

DocumentIntoSorter(doc, delPairs, addPairs) ==
  SorterEntries(doc, "Del", delPairs, LAMBDA p : p - 1)
  \cup SorterEntries(doc, "Add", addPairs, LAMBDA p : p - 1)

-----------------------------------------------------------------------------
Init ==
  /\ oldText \in [Slots -> Texts]
  /\ newText \in [Slots -> Texts]
  /\ oldPrecision \in {"ByWord", "ByAttribute"}
  /\ newPrecision \in {"ByWord", "ByAttribute"}
  /\ settingsUpdateOnly \in BOOLEAN
  /\ settingsUpdateOnly => oldText = newText
  /\ pc = "start"
  /\ i = 1
  /\ currentDoc = NoDoc
  /\ task = [s \in Sides |-> "done"]
  /\ input = [s \in Sides |-> <<>>]
  /\ window = [s \in Sides |-> <<>>]
  /\ pairs = [s \in Sides |-> EmptyPairs]
  /\ sorters = {}
  /\ output = {}

(* Lines 29-37: a settings-only update that does not touch proximities     *)
(* returns an empty reader.                                                *)
Start ==
  /\ pc = "start"
  /\ pc' = IF settingsUpdateOnly /\ ~ReindexProximities THEN "done" ELSE "next"
  /\ UNCHANGED <<oldText, newText, oldPrecision, newPrecision, settingsUpdateOnly,
                 i, currentDoc, task, input, window, pairs, sorters, output>>

(* Mutant: the pair maps are not cleared when the document changes.       *)
NextRecordNoClear ==
  /\ pc = "next"
  /\ i <= Len(Records)
  /\ LET s == Records[i]
         changed == currentDoc # NoDoc /\ currentDoc # s[1]
     IN /\ sorters' = IF changed
                      THEN sorters \cup DocumentIntoSorter(currentDoc, pairs["Del"], pairs["Add"])
                      ELSE sorters
        /\ pairs' = pairs
        /\ currentDoc' = s[1]
        /\ task' = [x \in Sides |-> IF AnySide[x] THEN "run" ELSE "done"]
        /\ input' = [x \in Sides |-> SideText(x, s)]
  /\ pc' = "join"
  /\ UNCHANGED <<oldText, newText, oldPrecision, newPrecision, settingsUpdateOnly,
                 i, window, output>>

(* Lines 66-89: read the next record; on a new document flush the pairs of *)
(* the previous one into the sorters and clear them; start both closures.  *)
NextRecord ==
  /\ pc = "next"
  /\ i <= Len(Records)
  /\ LET s == Records[i]
         changed == currentDoc # NoDoc /\ currentDoc # s[1]
     IN /\ sorters' = IF changed
                      THEN sorters \cup DocumentIntoSorter(currentDoc, pairs["Del"], pairs["Add"])
                      ELSE sorters
        /\ pairs' = IF changed THEN [x \in Sides |-> EmptyPairs] ELSE pairs
        /\ currentDoc' = s[1]
        /\ task' = [x \in Sides |-> IF AnySide[x] THEN "run" ELSE "done"]
        /\ input' = [x \in Sides |-> SideText(x, s)]
  /\ pc' = "join"
  /\ UNCHANGED <<oldText, newText, oldPrecision, newPrecision, settingsUpdateOnly,
                 i, window, output>>

(* Lines 99-101: the head of the window is too far from the next word.   *)
Far(side) ==
  /\ window[side] # <<>>
  /\ Proximity(Head(window[side])[1], Head(input[side])[1]) >= MaxDistance

(* Lines 99-106: pop the far head of the window into the pairs.           *)
DrainFar(side) ==
  /\ pc = "join"
  /\ task[side] = "run"
  /\ input[side] # <<>>
  /\ Far(side)
  /\ window' = [window EXCEPT ![side] = Tail(@)]
  /\ pairs' = [pairs EXCEPT ![side] =
                 WordPositionsIntoPairs(Head(window[side]), Tail(window[side]), @)]
  /\ UNCHANGED <<oldText, newText, oldPrecision, newPrecision, settingsUpdateOnly,
                 pc, i, currentDoc, task, input, sorters, output>>

(* Lines 108-110: push the next word once the head is close to it.        *)
PushWord(side) ==
  /\ pc = "join"
  /\ task[side] = "run"
  /\ input[side] # <<>>
  /\ ~Far(side)
  /\ window' = [window EXCEPT ![side] = Append(@, Head(input[side]))]
  /\ input' = [input EXCEPT ![side] = Tail(@)]
  /\ UNCHANGED <<oldText, newText, oldPrecision, newPrecision, settingsUpdateOnly,
                 pc, i, currentDoc, task, pairs, sorters, output>>

(* Mutant: the window's head is paired but not popped.                   *)
DrainRestNoPop(side) ==
  /\ pc = "join"
  /\ task[side] = "run"
  /\ input[side] = <<>>
  /\ window[side] # <<>>
  /\ window' = window
  /\ pairs' = [pairs EXCEPT ![side] =
                 WordPositionsIntoPairs(Head(window[side]), Tail(window[side]), @)]
  /\ UNCHANGED <<oldText, newText, oldPrecision, newPrecision, settingsUpdateOnly,
                 pc, i, currentDoc, task, input, sorters, output>>

(* Lines 113-118: at the end of the record, drain the whole window.       *)
DrainRest(side) ==
  /\ pc = "join"
  /\ task[side] = "run"
  /\ input[side] = <<>>
  /\ window[side] # <<>>
  /\ window' = [window EXCEPT ![side] = Tail(@)]
  /\ pairs' = [pairs EXCEPT ![side] =
                 WordPositionsIntoPairs(Head(window[side]), Tail(window[side]), @)]
  /\ UNCHANGED <<oldText, newText, oldPrecision, newPrecision, settingsUpdateOnly,
                 pc, i, currentDoc, task, input, sorters, output>>

(* Lines 119-121 and 152-154: the closure returns Ok(()).                  *)
SideDone(side) ==
  /\ pc = "join"
  /\ task[side] = "run"
  /\ input[side] = <<>>
  /\ window[side] = <<>>
  /\ task' = [task EXCEPT ![side] = "done"]
  /\ UNCHANGED <<oldText, newText, oldPrecision, newPrecision, settingsUpdateOnly,
                 pc, i, currentDoc, input, window, pairs, sorters, output>>

(* Lines 156-159: rayon::join returns once both closures have returned.   *)
Join ==
  /\ pc = "join"
  /\ \A side \in Sides : task[side] = "done"
  /\ i' = i + 1
  /\ pc' = "next"
  /\ UNCHANGED <<oldText, newText, oldPrecision, newPrecision, settingsUpdateOnly,
                 currentDoc, task, input, window, pairs, sorters, output>>

(* Lines 162-190: flush the last document, then write every sorter into   *)
(* the returned reader.                                                    *)
Finish ==
  /\ pc = "next"
  /\ i > Len(Records)
  /\ sorters' = IF currentDoc # NoDoc
                THEN sorters \cup DocumentIntoSorter(currentDoc, pairs["Del"], pairs["Add"])
                ELSE sorters
  /\ output' = {e[2] : e \in sorters'}
  /\ pc' = "done"
  /\ UNCHANGED <<oldText, newText, oldPrecision, newPrecision, settingsUpdateOnly,
                 i, currentDoc, task, input, window, pairs>>

(* The extraction has returned its reader.                                 *)
Returned == pc = "done" /\ UNCHANGED vars

Next ==
  \/ Start
  \/ NextRecord
  \/ \E side \in Sides : DrainFar(side) \/ PushWord(side) \/ DrainRest(side) \/ SideDone(side)
  \/ Join
  \/ Finish
  \/ Returned

Spec == Init /\ [][Next]_vars

(* The extraction is one sequential loop but for the rayon::join of each   *)
(* record, and rayon runs both closures to completion: every step that is *)
(* enabled is eventually taken.                                            *)
FairSpec == Spec /\ WF_vars(Next)

-----------------------------------------------------------------------------
(* The abstract specification, with the returned reader for its output   *)
(* and the end of the extraction for its `done`.                           *)
Abs == INSTANCE ProximityDeltas WITH done <- (pc = "done")

Emitted(side, p, w1, w2) == {d \in Docs : <<p, w1, w2, side, d>> \in output}

(* The proximity of every pair kept and flushed lies in                    *)
(* 1..MAX_DISTANCE - 1 (lines 251-252), so the index prox - 1 at line 237  *)
(* names one of the MAX_DISTANCE - 1 sorters and the indexing cannot       *)
(* panic, for every window, drain and flush the texts lead to.            *)
SorterIndexInRange ==
  /\ \A side \in Sides : \A k \in DOMAIN pairs[side] : pairs[side][k] \in 1..(MaxDistance - 1)
  /\ \A e \in sorters : e[1] \in 0..(MaxDistance - 2) /\ e[2][1] \in 1..(MaxDistance - 1)

(* Applying the returned deltas to the index of the old texts under the   *)
(* old precision gives the index of the new texts under the new precision:*)
(* the per-document flush of lines 72-85 and 162-173, the window of lines *)
(* 99-118 and the early return of line 30 together lose no pair and leave *)
(* no stale one.                                                           *)
IndexRebuiltByDeltas ==
  pc = "done" =>
    \A p \in 1..MaxDistance, w1, w2 \in Words :
      (Abs!PairIndex(oldText, oldPrecision, p, w1, w2) \ Emitted("Del", p, w1, w2))
        \cup Emitted("Add", p, w1, w2)
      = Abs!PairIndex(newText, newPrecision, p, w1, w2)

(* Every extraction returns its reader: the cursor loop, the window of each*)
(* side and the join all make progress, whatever the texts.               *)
Termination == <>(pc = "done")

(* The reader returned is exactly the abstract specification's deltas:    *)
(* each Del and Add entry at the pair's best proximity in the document, no *)
(* other entry, and nothing before the extraction ends.                    *)
ImplementsDeltas == Abs!Spec

(* The words of a document's new fields read as one stream in field order, *)
(* as spec.md 4.7 groups the records "by DocId only (FieldId is ignored)". *)
DocStream(d) ==
  FoldLeft(LAMBDA acc, s : acc \o newText[s], <<>>,
           SetToSortSeq({s \in Slots : s[1] = d}, SlotLt))

(* spec.md 4.7: two words of one document within MaxDistance positions of *)
(* each other give an Add entry of at most their distance, whichever field *)
(* each is in. The code drains the window at the end of every record       *)
(* (lines 113-118), so it never pairs words of two fields.                *)
DocumentPairsAcrossFields ==
  (pc = "done" /\ newPrecision = "ByWord" /\ ReindexProximities) =>
    \A d \in Docs :
      LET t == DocStream(d) IN
      \A x, y \in 1..Len(t) :
        (x < y /\ Proximity(t[x][1], t[y][1]) \in 1..(MaxDistance - 1)) =>
          \E p \in 1..Proximity(t[x][1], t[y][1]) : d \in Emitted("Add", p, t[x][2], t[y][2])
=============================================================================
