------------------------- MODULE WordDocidsExtractor -------------------------
(***************************************************************************)
(* extract_word_docids (update/index_documents/extract/                    *)
(* extract_word_docids.rs). Pass 1 reads the docid word positions of a     *)
(* chunk, one record per (document id, field id), and inserts one Del/Add  *)
(* entry per word of the record into word_fid_docids_sorter under the key  *)
(* word \0 fid.to_be_bytes(). Pass 2 walks the merged sorter in key order, *)
(* writes each entry that is not a noop into the word_fid_docids writer    *)
(* and sends its deletion side to the word or exact word sorter by the old *)
(* settings and its addition side by the new ones.                         *)
(*                                                                         *)
(* Positions play no part here, so a field text is the set of its words.   *)
(* Words are numbers standing for byte strings in the same order. A sorter *)
(* is the set of what was inserted into it; its merge                      *)
(* (MergeDeladdCboRoaringBitmaps) gives a key the union of the documents  *)
(* of each side.                                                           *)
(***************************************************************************)
EXTENDS Integers, Sequences, FiniteSets, FiniteSetsExt, SequencesExt

CONSTANTS
  Slots,       \* the (document id, field id) pairs of the chunk
  Words,       \* the words, as numbers ordered like their bytes
  Texts,       \* the word sets a field may hold
  ExactFids,   \* the choices of exact_attributes
  ExactWords   \* the choices of the words disabled_typos_terms.is_exact holds

Docs == {s[1] : s \in Slots}
Fids == {s[2] : s \in Slots}
Sides == {"Del", "Add"}
ASSUME Fids \subseteq 0..65535 /\ Words \subseteq Nat

VARIABLES
  oldText, newText,              \* the field texts before and after the update
  oldExactFids, newExactFids,    \* settings_diff.old/new.exact_attributes
  oldExactWords, newExactWords,  \* settings_diff.old/new.disabled_typos_terms
  pc,                \* "pass1", "pass2", "done"
  i,                 \* the cursor of pass 1, then of pass 2
  delWords, addWords,  \* the BTreeSets of lines 50-51
  wordFidSorter,     \* entries <<word, fid bytes, side, doc>>
  wordFidWriter,     \* the word_fid_docids output: <<key, del docs, add docs>>
  wordSorter,        \* word_docids_sorter: entries <<word, side, docs>>
  exactSorter        \* exact_word_docids_sorter

vars == <<oldText, newText, oldExactFids, newExactFids, oldExactWords, newExactWords,
          pc, i, delWords, addWords, wordFidSorter, wordFidWriter, wordSorter, exactSorter>>
inputs == <<oldText, newText, oldExactFids, newExactFids, oldExactWords, newExactWords>>

-----------------------------------------------------------------------------
SlotLt(a, b) == a[1] < b[1] \/ (a[1] = b[1] /\ a[2] < b[2])
Records ==
  SetToSortSeq({s \in Slots : oldText[s] # {} \/ newText[s] # {}}, SlotLt)

(* Mutant: the fid is written little-endian.                               *)
FidBytesLe(fid) == <<fid % 256, fid \div 256>>

(* fid.to_be_bytes() (line 198) and its decoding by StrBEU16Codec (124).   *)
FidBytes(fid) == <<fid \div 256, fid % 256>>
DecodeFid(bytes) == bytes[1] * 256 + bytes[2]

(* words_into_sorter: the merge_join_by of del_words and add_words gives   *)
(* a Deletion for a word of del_words and an Addition for one of add_words.*)
WordsIntoSorter(doc, fid, dw, aw) ==
  {<<w, FidBytes(fid), "Del", doc>> : w \in dw} \cup {<<w, FidBytes(fid), "Add", doc>> : w \in aw}

(* The merged stream of word_fid_docids_sorter: its keys in byte order and *)
(* the documents of each side of a key.                                    *)
KeyLt(k1, k2) ==
  \/ k1[1] < k2[1]
  \/ k1[1] = k2[1] /\ (k1[2][1] < k2[2][1] \/ (k1[2][1] = k2[2][1] /\ k1[2][2] < k2[2][2]))
MergedKeys == SetToSortSeq({<<e[1], e[2]>> : e \in wordFidSorter}, KeyLt)
MergedSide(k, side) == {e[4] : e \in {x \in wordFidSorter : <<x[1], x[2]>> = k /\ x[3] = side}}

(* Mutant: an entry whose deletions are all re-added counts as a noop.     *)
IsNoopSubset(del, add) == del \subseteq add

(* Line 120: is_noop_del_add_obkv (del_add.rs, not under src) holds when   *)
(* both sides are present and equal.                                       *)
IsNoop(del, add) == del # {} /\ del = add

IsExact(exactFids, exactWords, fid, w) == fid \in exactFids \/ w \in exactWords

(* Mutant: deletions routed by the new settings.                           *)
DeleteFromExactNew(fid, w) == IsExact(newExactFids, newExactWords, fid, w)

(* Lines 130-131 and 143-144: deletions follow the old settings, additions *)
(* the new ones.                                                           *)
DeleteFromExact(fid, w) == IsExact(oldExactFids, oldExactWords, fid, w)
AddInExact(fid, w) == IsExact(newExactFids, newExactWords, fid, w)

-----------------------------------------------------------------------------
Init ==
  /\ oldText \in [Slots -> Texts]
  /\ newText \in [Slots -> Texts]
  /\ oldExactFids \in ExactFids /\ newExactFids \in ExactFids
  /\ oldExactWords \in ExactWords /\ newExactWords \in ExactWords
  /\ pc = "pass1"
  /\ i = 1
  /\ delWords = {} /\ addWords = {}
  /\ wordFidSorter = {} /\ wordFidWriter = {}
  /\ wordSorter = {} /\ exactSorter = {}

(* Lines 53-87: collect the words of both sides of the record, insert     *)
(* them into the sorter, clear the sets.                                   *)
ReadRecord ==
  /\ pc = "pass1"
  /\ i <= Len(Records)
  /\ LET s == Records[i]
         dw == delWords \cup oldText[s]
         aw == addWords \cup newText[s]
     IN /\ wordFidSorter' = wordFidSorter \cup WordsIntoSorter(s[1], s[2], dw, aw)
        /\ delWords' = {}
        /\ addWords' = {}
  /\ i' = i + 1
  /\ UNCHANGED <<inputs, pc, wordFidWriter, wordSorter, exactSorter>>

(* Line 115: the sorter is turned into its merged stream.                 *)
EndPass1 ==
  /\ pc = "pass1"
  /\ i > Len(Records)
  /\ pc' = "pass2"
  /\ i' = 1
  /\ UNCHANGED <<inputs, delWords, addWords, wordFidSorter, wordFidWriter, wordSorter, exactSorter>>

(* Lines 118-153: one merged key: keep it for word_fid_docids unless it is *)
(* a noop, then route its deletions by the old settings and its additions  *)
(* by the new ones, keyed by the word alone.                               *)
MergeKey ==
  /\ pc = "pass2"
  /\ i <= Len(MergedKeys)
  /\ LET k == MergedKeys[i]
         w == k[1]
         fid == DecodeFid(k[2])
         del == MergedSide(k, "Del")
         add == MergedSide(k, "Add")
         delExact == DeleteFromExact(fid, w)
         addExact == AddInExact(fid, w)
         Routed(side, docs, exact) ==
           IF docs # {} /\ exact THEN {<<w, side, docs>>} ELSE {}
         Normal(side, docs, exact) ==
           IF docs # {} /\ ~exact THEN {<<w, side, docs>>} ELSE {}
     IN /\ wordFidWriter' = IF IsNoop(del, add) THEN wordFidWriter
                            ELSE wordFidWriter \cup {<<k, del, add>>}
        /\ exactSorter' = exactSorter \cup Routed("Del", del, delExact) \cup Routed("Add", add, addExact)
        /\ wordSorter' = wordSorter \cup Normal("Del", del, delExact) \cup Normal("Add", add, addExact)
  /\ i' = i + 1
  /\ UNCHANGED <<inputs, pc, delWords, addWords, wordFidSorter>>

(* Lines 156-160: the three readers are returned.                         *)
Return ==
  /\ pc = "pass2"
  /\ i > Len(MergedKeys)
  /\ pc' = "done"
  /\ UNCHANGED <<inputs, i, delWords, addWords, wordFidSorter, wordFidWriter, wordSorter, exactSorter>>

Returned == pc = "done" /\ UNCHANGED vars

Next == ReadRecord \/ EndPass1 \/ MergeKey \/ Return \/ Returned

Spec == Init /\ [][Next]_vars

-----------------------------------------------------------------------------
(* The indexes a set of field texts defines under a setting: word_docids   *)
(* holds a document under w when w is in one of its fields that is not    *)
(* exact for w, exact_word_docids when it is in one that is, and           *)
(* word_fid_docids under (w, fid) when w is in that field.                 *)
WordIndex(texts, ef, ew, w, exact) ==
  {d \in Docs : \E s \in Slots : s[1] = d /\ w \in texts[s] /\ IsExact(ef, ew, s[2], w) = exact}
WordFidIndex(texts, w, fid) ==
  {d \in Docs : <<d, fid>> \in Slots /\ w \in texts[<<d, fid>>]}

(* The merge of an output applied to an index: (old - Del) \cup Add.       *)
SorterSide(sorter, w, side) == UNION {e[3] : e \in {x \in sorter : x[1] = w /\ x[2] = side}}
ApplySorter(sorter, w, old) ==
  (old \ SorterSide(sorter, w, "Del")) \cup SorterSide(sorter, w, "Add")
WriterSide(w, fid, side) ==
  UNION {IF side = "Del" THEN e[2] ELSE e[3] :
           e \in {x \in wordFidWriter : x[1][1] = w /\ DecodeFid(x[1][2]) = fid}}

TypeOK ==
  /\ pc \in {"pass1", "pass2", "done"}
  /\ delWords \subseteq Words /\ addWords \subseteq Words
  \* every key written to word_fid_docids decodes to a field of the chunk
  /\ \A e \in wordFidWriter : e[1][1] \in Words /\ DecodeFid(e[1][2]) \in Fids
  /\ \A e \in wordSorter \cup exactSorter : e[1] \in Words /\ e[2] \in Sides /\ e[3] \subseteq Docs

(* Applying the word_docids and exact_word_docids outputs to the indexes of*)
(* the old texts under the old settings gives the indexes of the new texts *)
(* under the new settings: a deletion routed by the old exactness and an   *)
(* addition by the new one (lines 129-153), with a word's documents merged *)
(* across all its fields, lose nothing and leave nothing stale.            *)
WordIndexRebuiltByDeltas ==
  pc = "done" =>
    \A w \in Words :
      /\ ApplySorter(wordSorter, w, WordIndex(oldText, oldExactFids, oldExactWords, w, FALSE))
           = WordIndex(newText, newExactFids, newExactWords, w, FALSE)
      /\ ApplySorter(exactSorter, w, WordIndex(oldText, oldExactFids, oldExactWords, w, TRUE))
           = WordIndex(newText, newExactFids, newExactWords, w, TRUE)

(* Applying the word_fid_docids output, noops left out (line 120), to the  *)
(* old (word, field) index gives the new one: the per-record word sets of  *)
(* pass 1 (lines 53-87) go to the field they were read from.               *)
WordFidIndexRebuiltByDeltas ==
  pc = "done" =>
    \A w \in Words, fid \in Fids :
      (WordFidIndex(oldText, w, fid) \ WriterSide(w, fid, "Del")) \cup WriterSide(w, fid, "Add")
        = WordFidIndex(newText, w, fid)

=============================================================================
