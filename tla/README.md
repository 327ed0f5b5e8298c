# TLA+ models of milli-core

This directory holds TLA+ models of the core of `milli-core`: the filter's
construction and evaluation (`src/crates/milli-core/src/search/facet/filter.rs`),
the two inverted-index extractors
(`src/crates/milli-core/src/update/index_documents/extract/`) and the
composite embedder (`src/crates/milli-core/src/vector/composite.rs`). Each module is
translated from the Rust source. `PROJECT.json` maps every definition to the
lines it models. Each model is checked with TLC against properties taken from
`spec.md` and from what the code has to guarantee.

## 1. The system

| Part | Source | State it keeps | Operations |
|---|---|---|---|
| Filter AST | `filter_parser` (not under src) | a tree of `Not`, `And`, `Or`, `In`, `Condition`, `GeoLowerThan`, `GeoBoundingBox` | built by `Filter::from_str` and `Filter::from_array` (filter.rs 122-226) with the depth guard `MAX_FILTER_DEPTH` |
| Filter evaluator | filter.rs 234-782 | none of its own; it reads `fields_ids_map`, the filterable-attribute rules and the facet databases of one read transaction | `evaluate` (a preflight that every field is filterable, then `inner_evaluate`), `inner_evaluate` (one arm per AST node, passing an optional *universe* down), `evaluate_operator` (a permission check, then the bounds or docsets of each operator), `explore_facet_levels` |
| Facet range scanner | `facet_range_search` (not under src) | the multi-level facet tree | returns the documents whose facet value lies within two bounds |
| Geo predicates | filter.rs 602-780 | — | radius filter over the r-tree; bounding box rewritten as `Between` on `_geo.lat` and `_geo.lng`, split in two across the antimeridian |
| Word extractor | extract_word_docids.rs | `del_words`/`add_words` per record; three sorters | pass 1 collects the words of each (document, field) record into `word_fid_docids_sorter`; pass 2 merges it, writes non-noop entries to `word_fid_docids`, and routes deletions by the **old** exactness settings and additions by the **new** ones into `word_docids` or `exact_word_docids` |
| Proximity extractor | extract_word_pair_proximity_docids.rs | two windows (`VecDeque`) and two pair maps, one per side; `current_document_id`; `MAX_DISTANCE - 1` sorters | per record, a `rayon::join` of a deletion closure and an addition closure, each sliding its window over the record's positions; on a document change the pair maps are flushed into the sorters and cleared |
| Sort/merge substrate | grenad (not under src) | sorters and readers | insert, merge of Del/Add values per key, write to a stream |
| Composite embedder | vector/composite.rs | two sub-embedders | `Embedder::new` checks dimensions and the distance between test embeddings; search and index embedding are dispatched to the two sides |

**How the parts interact.** The extractors write Del/Add deltas into sorters.
Code outside src merges the deltas into the index: a key's new document set is
`(old − Del) ∪ Add`. A search request's filter is built from JSON, then
evaluated; the evaluator only reads the facet databases. The composite
embedder is built once from settings and then embeds queries (search side) and
documents (index side) into one vector store. These parts never call each
other.

**What is hard about each part.**

- **Evaluator.**
  - The evaluator passes a narrowing universe down `And` children and stops
    early on an empty result.
  - Its preflight runs over every field of the tree before evaluating anything.
  - Its permission table is open-coded in one `match`, with two operators that
    have no arm.
  - One-sided ranges are closed at `f64::MAX`/`MIN`.
  - String bounds are not normalised, while equality is.
  - An unknown field gives the empty set, and under `Not` that becomes every
    document.
- **Construction.**
  - `from_str` checks each string's depth alone; `from_array` then wraps the
    strings in `Or` and `And` and checks again.
  - A malformed element is rejected before any string is parsed; the first
    failing string aborts the request.
- **Geo.**
  - Six parses and range checks run in a fixed order, and the first failure
    is the error.
  - A bounding box whose right edge is west of its left edge is split into
    two longitude ranges.
- **Composite embedder.**
  - The store has the index side's dimensions, but queries come from the
    search side.
  - The similarity check compares the counts of test embeddings, then each pair.
- **Extractors.**
  - Both rely on the order of their input stream.
  - Both rely on buffers being reset at the right moment.
  - The proximity extractor runs two closures concurrently.
  - The word extractor uses two different settings for the two sides of one
    entry.
  - The word extractor drops the field from the `word_docids` key.

## 2. Modules

### FilterEvaluator.tla (+ MCFilterEvaluator.tla)

**State.**
- `docValues[d][f]`: for each document and field, either missing, null, empty,
  or a set of one or two values, each a number or a byte string.
- `fieldsIds`: the fields present in `fields_ids_map`.
- `matching[f]`: the features of the first matching filterable-attribute rule
  (`NoRule` when none matches).
- `geoEnabled`: whether `_geo` is a filterable attribute.
- `request`: the JSON value of the search request's filter.
- `built`: `Pending`, then what `Filter::from_json` returned: a filter, `None`
  (`NotBuilt`), or an error.
- `filter`: the AST being evaluated.
- `outcome`: `Pending`, then `Ok(docs)` or `Err(kind, field)`.

**The two actions.** `BuildFilter` is one call of `Filter::from_json`
(122-133), with `ParseFilterArray`, `FromArray` (its loops as `FromArrayStep`
and `AddRule`, its end as `Compose`) and `FromStr`. A string of the request is
given by what the parser (not under src) makes of it: an AST (`Parses`), an
empty expression or a syntax error; `Nesting`/`TooDeep` stand for the parser's
`token_at_depth`. `EvaluateFilter` is one call of `Filter::evaluate` on the
filter built, if any. The evaluation is pure, so it is one step made of
recursive operators:

| Operator | Models |
|---|---|
| `Evaluate` | the preflight over `Fids`, then `InnerEvaluate` with no universe |
| `InnerEvaluate` | each arm of `inner_evaluate`, including the empty-universe return |
| `AndFold` | the And loop, `bitmap &= eval(child, Some(bitmap))`, with its early return |
| `UnionResults` | `Or` and `In`, which return the first error |
| `LeafEvaluate` | the `fields_ids_map` and rule lookup of `In`/`Condition` |
| `GeoLowerThanEvaluate` | the radius arm: `geoEnabled` check, `GeoLowerThanChecks` (parse and range-check in code order), `WithinRadius` over the r-tree's points |
| `GeoBoundingBoxEvaluate` | the box arm: `GeoBoundingBoxChecks`, then `Between` on `_geo.lat` and on `_geo.lng`, split in two when `WrapsAntimeridian` |
| `EvaluateOperator` | `OperatorAllowed` (the guard table, lines 275-307), then `SelectedDocs`; a refusal is `GenerateFilterError` (785-805), the error naming the field |

`SelectedDocs` computes the docsets:
- `NumberBounds` and `StrBounds` give the bound pairs of lines 308-340. The
  number side comes from `parse_finite_float`; the string side is the raw
  token.
- `EqualDocs` covers Equal, which is normalised.
- NotEqual is all documents minus Equal.
- Contains is a substring scan and StartsWith a prefix scan.
- `RangeDocs` is lines 436-462. It goes through `ExploreNumLevels` and
  `ExploreStrLevels`, which return early on contradictory bounds, then through
  the scanner's contract.

The scanner (`facet_range_search`), `normalize_facet`, `parse_finite_float` and
the parser's `fids` are outside src. They are modelled from spec.md and marked
`spec_modelled`. The evaluator uses only the scanner's contract
(`FindNumDocsWithinBounds`, `FindStrDocsWithinBounds`: the documents with a
value within the bounds); its descent over the facet group tree is not
modelled.

**What is checked against what.** `Reference` is an independent set semantics
of the AST: `Not` is the complement, `And` is the intersection, and `Or`/`In`
is the union. The evaluator is checked against it. `SpecPermitted` is the
permission table of spec.md 4.3, written separately from the code's
`OperatorAllowed`. `GeoCircle` and `GeoBox` are spec.md 4.5's meaning of the
geo predicates (a point within the radius; a point whose latitude and
longitude lie in the box, the longitude range wrapping when the box crosses
the antimeridian). `Denotation` is spec.md 6's meaning of a request: the AND
of its strings and inner arrays, an inner array the OR of its strings, an
empty string no constraint.

**Instances.** `MCFilterEvaluator` has two documents and two fields.
- **"operators":**
  - one field;
  - values 1, 2, "a", "ab";
  - tokens "1", "2", "A", "b";
  - three rule feature sets (all, equality only, comparison only);
  - every operator on every token, every `Between` pair, and `In`, each alone
    and under `Not`.
- **"combinators":**
  - a field with values 1, 2, "a";
  - a second field that is never mapped, with a rule or with none;
  - five atoms;
  - `Not` of each atom, `And`/`Or` of each pair, and a three-level tree;
  - all of them sent as requests: a string, an array of two strings, an inner
    array of two strings, an array holding a string and an inner array;
  - requests that build nothing (`[]`, `[[]]`, `""`, an empty string beside
    a rule), an unparsable string alone and after a rule, a non-string value
    at top level, in an array and in an inner array;
  - a rule nested three deep (`NOT NOT NOT f = 1`), which passes `from_str`
    (`MAX_FILTER_DEPTH = 4`) alone but not inside an array of two or an inner
    array of two, and one nested four deep.
- **"geo":**
  - two fields standing for `_geo.lat` and `_geo.lng`; a document has a point
    (latitude ±10, longitude -170, 0 or 170) or none;
  - geo filtering enabled or disabled;
  - 12 radius filters and 72 boxes whose tokens are in range, on the limit
    (`100` latitude, `200` longitude), unparsable (`x`), with the top below
    the bottom, and crossing the antimeridian; each alone, under `Not`, and in
    four `And`s;
  - `MCDistance`, a stand-in for haversine: the latitude gap plus the
    longitude gap the short way round, so that points at ±170 are close.

Every document state and every rule choice is enumerated in `Init`. The bounds
are enough for the interesting cases:
- a document with a number and a string value;
- upper-case tokens;
- contradictory `Between`;
- an unmapped field under `Not`;
- an empty intermediate `And` result followed by a forbidden operator.

### ProximityExtractor.tla (+ MCProximityExtractor.tla)

**State.** The control variables follow the code's loop:
- `pc` and the cursor `i`;
- `currentDoc`;
- per side (`Del`, `Add`): the closure's status `task`, the rest of its input
  `input`, the `window` and the `pairs` map;
- `sorters`: entries `<<prox - 1, <<prox, w1, w2, side, doc>>>>`;
- `output`.

The inputs are chosen in `Init`:
- the old and new text of every (document, field);
- the old and new `ProximityPrecision`;
- `settings_update_only`, which implies the texts are equal.

**Actions.**

| Action | Source lines | What it does |
|---|---|---|
| `Start` | 29-37 | the early return |
| `NextRecord` | 66-96 | flush and clear on a document change; start both closures |
| `DrainFar` | 99-106 | one iteration of the `while` |
| `PushWord` | 108-111 | push the next word |
| `DrainRest` | 113-118 | drain the window after the record |
| `SideDone` | — | the closure returns |
| `Join` | 156-160 | `rayon::join` returns |
| `Finish` | 162-190 | final flush and write |

The steps of the two sides interleave freely, so TLC explores every
interleaving of the `rayon::join`. `index_proximity` (outside src) is the
capped distance of spec.md 4.7.

**Refinement and liveness.** `ProximityDeltas.tla` is the one-step
specification of what the function promises: once it has returned, its
output is the set of Del entries at each pair's best proximity in the old
texts (when the old precision is by word) and Add entries in the new texts
(when the new one is), and nothing for a settings-only update that keeps the
precision. `ProximityExtractor` instantiates it with
`done <- (pc = "done")`; its record loop, windows and flushes are stutter
steps of the abstract spec, and `Finish` is its `Extract` step.
`ImplementsDeltas` checks `Abs!Spec`. `SorterIndexInRange` checks that every
proximity kept in a pair map or written to a sorter lies in
`1..MAX_DISTANCE - 1`, so the index `prox - 1` of line 237 cannot panic.
`Termination` checks that the function returns, under weak fairness of
`Next`: the drain loops (lines 99 and 113) end because each call of
`word_positions_into_word_pair_proximity` pops the window's head; `rayon::join` runs both closures to
completion and each closure's loops are bounded by the record, so no enabled
step is postponed forever.

**Instance.**
- two words and `MAX_DISTANCE = 3`;
- texts `a b`, `b . a` and `a a . . b`, where the last has a repeated word and
  a pair beyond the cap;
- two documents, the second with two fields;
- every precision change.

### WordDocidsExtractor.tla (+ MCWordDocidsExtractor.tla)

**State.**
- `pc` and the cursor `i`;
- `delWords` and `addWords`;
- `wordFidSorter`, whose entries have keys `<<word, fid bytes>>`;
- `wordFidWriter`;
- `wordSorter` and `exactSorter`.

The inputs are the old and new word sets of each field, and the old and new
`exact_attributes` and `disabled_typos_terms`.

**Actions.**

| Action | Source lines | What it does |
|---|---|---|
| `ReadRecord` | 53-87 | collect, `words_into_sorter`, clear |
| `EndPass1` | — | the sorter becomes a merged stream |
| `MergeKey` | 118-154 | one merged key |
| `Return` | 156-160 | return the three readers |

`docids_into_writers` (206-245) has no caller in the crate and is not
modelled.

The fid is encoded big-endian into the key (`FidBytes`) and decoded back
(`DecodeFid`).

**Instance.**
- documents 1 (fields 1, 2) and 2 (field 1);
- words 1 and 2;
- texts {}, {1}, {1, 2};
- exactness of field 2 and of word 2 both free to flip between the old and new
  settings.

### CompositeEmbedder.tla (+ MCCompositeEmbedder.tla)

**State.** `search` and `index` are the two `SubEmbedderOptions`: a kind
(Hugging Face, OpenAI, user-provided) and the remote model it stands for, a
record of its dimensions, the vector it gives each text, and how many
embeddings it answers a batch of test texts with. `composite` is `NotBuilt`,
`Ready` or the error of `Embedder::new`; `produced` holds every embedding
returned since.

**Actions.**

| Action | Source lines | What it does |
|---|---|---|
| `New` | 60-105, 281-323 | both sub-embedders built (a remote one may fail), the dimension check, the test embeddings (the manual embedder refuses), `CheckSimilarity` with the configuration hint |
| `EmbedSearch(t)` | 149-182 | `embed`/`embed_one` on the search side |
| `EmbedIndex(t)` | 184-214 | `embed_index`/`embed_index_ref` on the index side |

Which remote call fails is a nondeterministic choice. The distance is arroy's
cosine distance, `(1 − cos) / 2` and 0 when a norm is 0, compared with
`MAX_COMPOSITE_DISTANCE` in exact integer arithmetic.

**Instance.** Three test texts and a query; five models: a plane model, a
scaled copy (same directions), one that answers only two test embeddings and
disagrees on the third, a two-dimensional and a one-dimensional model that
agree on their common prefix. `MAX_COMPOSITE_DISTANCE = 1/100`.

## 3. Runs

| Run | Expect | Properties | What it shows |
|---|---|---|---|
| filter_operators | pass (304k states) | ErrorsAreJustified, ComplementaryRanges | every error is justified: `AttributeNotFilterable` exactly when some field of the tree is not filterable, and `FilterOperatorNotAllowed` only when spec.md's table forbids an operator on that field; LT ∪ GTE and LTE ∪ GT cover the valued documents, splitting single-valued ones |
| filter_combinators | pass (682k states) | EvaluateMatchesReference, ErrorsAreJustified, FromJsonMeaning | a request builds a filter no deeper than `MAX_FILTER_DEPTH` that means the AND of ORs the request says, builds none only when every string is empty, and fails only for a malformed value, a syntax error or a rule too deep once wrapped, never building a filter from a request with an unparsable string; the universe narrowing and early return of `And`, first-error `Or`, and `Not` with and without a universe give set semantics |
| filter_geo | pass (702k states) | EvaluateMatchesReference, ErrorsAreJustified | radius and bounding-box filters, with geo disabled, unparsable or out-of-range tokens, inverted and antimeridian-crossing boxes, select exactly the points of spec.md 4.5, and every geo error is one some token of the filter justifies (which invalid token is reported first is not checked) |
| filter_string_point_range | violation | StringPointRange | `f A TO A` misses what `f = A` selects (see findings) |
| filter_universe_bounded | violation | UniverseBounded | leaves ignore the universe (see findings) |
| filter_and_commutes | violation | AndCommutes | spec.md 8.2 fails for errors |
| filter_contains_permission | violation | OperatorPermittedBySpec | CONTAINS runs without the equality feature |
| filter_range_decomposition | violation | RangeDecomposition | spec.md 8.4 fails for multi-valued fields |
| proximity | pass (617k states) | SorterIndexInRange, IndexRebuiltByDeltas, Termination, ImplementsDeltas | applying the emitted Del/Add pairs to the old pair index under the old precision yields the new pair index under the new precision; every sorter index `prox - 1` is in range; the function returns under every interleaving of the join; it refines `ProximityDeltas` |
| proximity_cross_field | violation | DocumentPairsAcrossFields | spec.md 4.7/8.5 cross-field pairs are never emitted |
| word_docids | pass (104k states) | TypeOK, WordIndexRebuiltByDeltas, WordFidIndexRebuiltByDeltas | the three outputs turn the old indexes into the new ones across exactness flips; every written key decodes to a real field |
| composite_embedder | pass (8k states) | ProducedFitStore | whatever the two sub-embedders and whichever remote call fails, `Embedder::new` accepts only pairs whose every later embedding fits the store's dimensions |

Every property of a passing run has a mutant in `PROJECT.json`. The mutant is
a one-place change of the code that a plausible bug would make, such as
`&=` replaced by `=` in `And`, pair maps not cleared on a document change,
deletions routed by the new settings, the fid written little-endian, or a
window drain that does not pop its head. TLC
finds each mutant violating its property.

**Findings.**

1. **`And`'s intersection is not redundant** (filter.rs:588). Spec.md 9 says
   it costs only wasted work. In fact Equal, NotEqual, In, Null, Empty, Exists
   and Contains ignore the universe, so the `&=` is what keeps `And` correct.
2. **`And` is not commutative for errors** (filter.rs:582). `f = 1 AND f > 1`
   on an equality-only field gives `Ok({})`; in the other order it gives
   `FilterOperatorNotAllowed`.
3. **CONTAINS / STARTS WITH have no permission check** (filter.rs:383, 418).
4. **`a TO b` ≠ `>= a AND <= b`** on a multi-valued field (filter.rs:332).
   `Between` selects a document with one value in `[a, b]`; the `AND`
   selects one with some value `>= a` and some, maybe another, `<= b`. A
   document with values 1 and 3 matches `f >= 2 AND f <= 2` but not
   `f 2 TO 2`.
5. **Proximity pairs never span two fields** (extract_word_pair_proximity_docids.rs:113).
   Spec.md groups by document.
6. **String ranges use the raw token, equality the normalised one**
   (filter.rs:311). `f A TO A` misses the facet string `a` that `f = A`
   selects. Spec.md 4.3 says range bounds take the raw value, while 4.3 and
   4.4 also say that lookups of these operators are normalised.

**Fairness.** Only the proximity run states liveness (`Termination`), under
`WF_vars(Next)`, justified above. The other runs assume no fairness. The
extractors end in a `Returned` stutter step, so deadlock checking stays on:
a state where both closures wait on each other would be reported. The filter
runs set `CHECK_DEADLOCK FALSE`, since a query ends once `evaluate` returns.

## 4. Not modelled (yet), and the plan

1. **The facet range scanner** (`facet_range_search`): not under src. Only
   its contract is modelled, so a wrong comparison in it (an empty range
   returning its boundary value) cannot be seen.
2. **`From<FilterCondition>`** (filter.rs:807-811). It builds a filter with
   no depth check, and `evaluate` checks none. The danger is stack depth,
   which is out of a model's reach.
3. **The filter parser** (`FilterCondition::parse`, `token_at_depth`,
   `fids`): not under src; a string is represented by what it parses to.
4. **Composite embedder getters** (`distribution`, chunk hints, cache,
   `uses_document_template`): they change no state.
5. **Short answers from both sub-embedders** (composite.rs:287).
   `check_similarity` compares the two sides' counts of test embeddings
   with each other, not with the three texts. TLC confirms the consequence
   on an instance with a second model that answers two of the three test
   texts and differs from `Truncated` on the third: `Embedder::new`
   accepts the pair although the third test text embeds differently on the
   two sides. Whether a real remote embedder can answer short is decided
   by code outside src, so the instance keeps a single short model and no
   property about the test texts is checked.
6. **Zero vectors** (composite.rs:302). arroy's cosine distance is 0 when a
   norm is 0, so a sub-embedder answering zero vectors passes the
   similarity check against any other. The model keeps this behaviour, but
   nothing in the repository says what a zero vector should give, so no
   property takes a side.
7. **The unit tests of filter.rs** (812-1396) and
   `meilisearch/tests/settings/vectors.rs`. They are single scenarios of
   behaviour the runs already check over every instance state
   (`from_array` against `from_str`, each range operator, `NOT` on an empty
   index), or snapshots of HTTP error text.
8. **Not planned:**
   - error message formatting (filter.rs 40-113);
   - grenad's spilling to disk, where only the merge semantics matter;
   - the r-tree itself, abstracted to the set of points it holds, and the
     haversine formula, a constant operator of the instance.
