-------------------------- MODULE ProximityDeltas --------------------------
(***************************************************************************)
(* What extract_word_pair_proximity_docids promises, in one step: the      *)
(* returned reader holds, for every document of the chunk and every word   *)
(* pair, a Del entry at the pair's best proximity in the old texts when    *)
(* the old precision is by word, and an Add entry at its best proximity in *)
(* the new texts when the new precision is by word; nothing at all for a   *)
(* settings-only update that leaves proximities alone. A pair's proximity  *)
(* in a document is the smallest distance, below MaxDistance, at which the *)
(* first word precedes the second in one field of that document.           *)
(*                                                                         *)
(* ProximityExtractor refines this specification: its record loop, window *)
(* and per-document flush are one Extract step seen from outside.          *)
(***************************************************************************)
EXTENDS Integers, Sequences, FiniteSets, FiniteSetsExt

CONSTANTS Slots, Words, Texts, MaxDistance

Sides == {"Del", "Add"}
Docs == {s[1] : s \in Slots}

VARIABLES
  oldText, newText, oldPrecision, newPrecision, settingsUpdateOnly,
  done,    \* the reader has been returned
  output   \* its entries <<prox, w1, w2, side, doc>>

vars == <<oldText, newText, oldPrecision, newPrecision, settingsUpdateOnly, done, output>>

Distance(p1, p2) == IF p1 <= p2 THEN p2 - p1 ELSE p1 - p2

(* The proximities below MaxDistance of w1 followed by w2 in a field of d. *)
DocProxes(texts, d, w1, w2) ==
  UNION {{Distance(texts[s][x][1], texts[s][y][1]) :
            <<x, y>> \in {<<x, y>> \in (DOMAIN texts[s]) \X (DOMAIN texts[s]) :
                            x < y /\ texts[s][x][2] = w1 /\ texts[s][y][2] = w2}}
         : s \in {sl \in Slots : sl[1] = d}} \cap 1..(MaxDistance - 1)

(* The documents whose best proximity for (w1, w2) is p: the word pair     *)
(* proximity index of the texts, empty unless the precision is by word.    *)
PairIndex(texts, precision, p, w1, w2) ==
  IF precision # "ByWord" THEN {}
  ELSE {d \in Docs : DocProxes(texts, d, w1, w2) # {} /\ Min(DocProxes(texts, d, w1, w2)) = p}

Precision(side) == IF side = "Del" THEN oldPrecision ELSE newPrecision
SideTexts(side) == IF side = "Del" THEN oldText ELSE newText

(* spec.md 4.7's short-circuit: nothing to redo for proximities.           *)
NothingToDo ==
  settingsUpdateOnly /\ oldPrecision = newPrecision /\ oldPrecision # "ByWord"

Deltas ==
  IF NothingToDo THEN {}
  ELSE {<<p, w1, w2, side, d>> \in (1..(MaxDistance - 1)) \X Words \X Words \X Sides \X Docs :
          d \in PairIndex(SideTexts(side), Precision(side), p, w1, w2)}

Init ==
  /\ oldText \in [Slots -> Texts]
  /\ newText \in [Slots -> Texts]
  /\ oldPrecision \in {"ByWord", "ByAttribute"}
  /\ newPrecision \in {"ByWord", "ByAttribute"}
  /\ settingsUpdateOnly \in BOOLEAN
  /\ settingsUpdateOnly => oldText = newText
  /\ done = FALSE
  /\ output = {}

Extract ==
  /\ ~done
  /\ done' = TRUE
  /\ output' = Deltas
  /\ UNCHANGED <<oldText, newText, oldPrecision, newPrecision, settingsUpdateOnly>>

Spec == Init /\ [][Extract]_vars
=============================================================================
