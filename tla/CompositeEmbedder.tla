------------------------- MODULE CompositeEmbedder -------------------------
(***************************************************************************)
(* The composite embedder of milli (vector/composite.rs): one sub-embedder *)
(* embeds queries at search time, another embeds documents at indexing     *)
(* time. Embedder::new builds both, rejects them when their dimensions     *)
(* differ, embeds three test texts with each and rejects the pair when the *)
(* counts differ or some pair of test embeddings is farther apart than     *)
(* MAX_COMPOSITE_DISTANCE. Afterwards both sides embed texts, and every    *)
(* embedding goes into one vector store of Embedder::dimensions() columns.  *)
(*                                                                         *)
(* Data abstraction: a sub-embedder's remote model is a record of its      *)
(* dimensions, the vector it gives each text and the number of embeddings  *)
(* it answers a batch of test texts with; vectors have integer components. *)
(* Whether building or calling a remote sub-embedder fails (network, key,  *)
(* download) is a nondeterministic choice.                                 *)
(***************************************************************************)
EXTENDS Integers, Sequences, FiniteSets, SequencesExt

CONSTANTS
  Kinds,          \* the SubEmbedderOptions variants
  Models,         \* [dims, vec: [texts -> vectors], count] of the remote models
  TestTexts,      \* the three texts Embedder::new embeds
  Texts,          \* the texts embedded once the composite exists
  MaxDistNum, MaxDistDen  \* MAX_COMPOSITE_DISTANCE = MaxDistNum / MaxDistDen

VARIABLES
  search,    \* the search SubEmbedderOptions
  index,     \* the index SubEmbedderOptions
  composite, \* NotBuilt, Ready, or the error of Embedder::new
  produced   \* the embeddings returned so far: <<side, text, vector>>

vars == <<search, index, composite, produced>>

Options == [kind : Kinds, model : Models]
NewErr(kind, side, hint) == [kind |-> kind, side |-> side, hint |-> hint]
NotBuilt == NewErr("none", "none", "None")
Ready == NewErr("ready", "none", "None")

-----------------------------------------------------------------------------
(* arroy::distances::Cosine::built_distance (outside src): (1 - cos) / 2,   *)
(* and 0 when a norm is 0; the dot product runs over the common prefix of  *)
(* the two vectors. `distance > MAX` is decided in exact integer           *)
(* arithmetic: cos < 1 - 2 MAX.                                            *)
Dot(a, b) == FoldLeft(+, 0, [i \in 1..Min({Len(a), Len(b)}) |-> a[i] * b[i]])
DistanceExceeds(a, b) ==
  LET pq == Dot(a, b)
      nn == Dot(a, a) * Dot(b, b)
      c  == MaxDistDen - 2 * MaxDistNum   \* cos threshold times MaxDistDen
  IN nn # 0 /\ (pq < 0 \/ MaxDistDen * MaxDistDen * pq * pq < c * c * nn)

-----------------------------------------------------------------------------
(* SubEmbedder dispatch (123-279).                                         *)

(* SubEmbedder::dimensions (249-257).                                      *)
Dimensions(opts) == opts.model.dims

(* SubEmbedder::embed (149-161) on a batch: the manual embedder refuses to *)
(* embed any text; a remote one answers with the model's vectors, as many  *)
(* as the model's count allows.                                            *)
CanEmbed(opts) == opts.kind # "UserProvided"
Embeddings(opts, texts) ==
  SubSeq([i \in DOMAIN texts |-> opts.model.vec[texts[i]]], 1, Min({opts.model.count, Len(texts)}))

(* configuration_hint (311-323): which sides are Hugging Face embedders.    *)
ConfigurationHint(s, i) ==
  CASE s.kind = "HuggingFace" /\ i.kind = "HuggingFace" -> "Both"
    [] s.kind = "HuggingFace" -> "Search"
    [] i.kind = "HuggingFace" -> "Indexing"
    [] OTHER -> "None"

-----------------------------------------------------------------------------
(* SubEmbedder::new (124-147): a remote sub-embedder may fail to build;   *)
(* the manual one always builds.                                          *)
Builds(opts, built) == opts.kind = "UserProvided" \/ built

-----------------------------------------------------------------------------
(* check_similarity (281-309).                                             *)
CheckSimilarity(left, right, hint) ==
  IF Len(left) # Len(right) THEN NewErr("EmbeddingCountMismatch", "none", hint)
  ELSE IF \E k \in DOMAIN left : DistanceExceeds(left[k], right[k])
  THEN NewErr("EmbeddingValueMismatch", "none", hint)
  ELSE Ready

(* Mutant: the dimension check of Embedder::new left out.                  *)
DimensionsAgreeAlways(s, i) == TRUE

(* `search.dimensions() != index.dimensions()` (69).                       *)
DimensionsAgree(s, i) == Dimensions(s) = Dimensions(i)

(* Embedder::new (60-105) as one step; the four fallible calls to the      *)
(* remote sub-embedders succeed or not, in the order of the code.          *)
New ==
  /\ composite = NotBuilt
  /\ \E searchBuilt, indexBuilt, searchAnswers, indexAnswers \in BOOLEAN :
       LET hint == ConfigurationHint(search, index)
       IN composite' =
            CASE ~Builds(search, searchBuilt) -> NewErr("SubEmbedderNew", "search", "None")
              [] ~Builds(index, indexBuilt) -> NewErr("SubEmbedderNew", "indexing", "None")
              [] ~DimensionsAgree(search, index) -> NewErr("DimensionsMismatch", "none", "None")
              [] ~(CanEmbed(search) /\ searchAnswers) -> NewErr("TestEmbeddingFailed", "search", "None")
              [] ~(CanEmbed(index) /\ indexAnswers) -> NewErr("TestEmbeddingFailed", "indexing", "None")
              [] OTHER -> CheckSimilarity(Embeddings(search, TestTexts), Embeddings(index, TestTexts), hint)
  /\ UNCHANGED <<search, index, produced>>

(* A query embedded with the search side (embed and embed_one, 149-182);   *)
(* embed_one pops the last of the one-text batch.                          *)
EmbedSearch(t) ==
  /\ composite = Ready
  /\ CanEmbed(search)
  /\ produced' = produced \cup {<<"search", t, Last(Embeddings(search, <<t>>))>>}
  /\ UNCHANGED <<search, index, composite>>

(* Documents embedded with the index side (embed_index and                 *)
(* embed_index_ref, 184-214).                                              *)
EmbedIndex(t) ==
  /\ composite = Ready
  /\ CanEmbed(index)
  /\ produced' = produced \cup {<<"index", t, Last(Embeddings(index, <<t>>))>>}
  /\ UNCHANGED <<search, index, composite>>

Init ==
  /\ search \in Options
  /\ index \in Options
  /\ composite = NotBuilt
  /\ produced = {}

Next == New \/ \E t \in Texts : EmbedSearch(t) \/ EmbedIndex(t)

Spec == Init /\ [][Next]_vars

-----------------------------------------------------------------------------
(* Properties.                                                             *)

(* Embedder::dimensions answers with the index side's dimensions only, so  *)
(* every embedding either side returns, the query embeddings of the search *)
(* side included, has Embedder::dimensions() components: the dimension     *)
(* check of Embedder::new is what makes the vector store accept them.      *)
ProducedFitStore ==
  \A e \in produced : Len(e[3]) = Dimensions(index)
=============================================================================
