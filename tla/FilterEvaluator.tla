--------------------------- MODULE FilterEvaluator ---------------------------
(***************************************************************************)
(* The filter evaluator of milli (search/facet/filter.rs): Filter::evaluate *)
(* runs a preflight over every field the AST names, then inner_evaluate    *)
(* walks the AST, threading an optional `universe` bitmap through And,     *)
(* and evaluate_operator turns one condition into a set of document ids    *)
(* read from the facet databases.                                          *)
(*                                                                         *)
(* Data abstraction: a document id is a model value, a bitmap a set of     *)
(* them; a facet string is a sequence of bytes (ASCII codes) so that the   *)
(* byte order, prefixes, substrings and lower-casing the code relies on    *)
(* are computed, not assumed; a float is an integer; f64::MIN/MAX are the  *)
(* constants F64Min/F64Max. Storage (LMDB reads) cannot fail in the model. *)
(***************************************************************************)
EXTENDS Integers, Sequences, FiniteSets, FiniteSetsExt, SequencesExt

CONSTANTS
  Docs,           \* document ids of the index (documents_ids)
  Fields,         \* attribute names a filter may mention
  DocFieldStates, \* [Fields -> states a document's field may be in]
  Matchings,      \* possible results of matching_features per field
  Requests,       \* the JSON `filter` values of search requests
  MaxFilterDepth, \* MAX_FILTER_DEPTH
  Tokens,         \* raw token values (byte sequences) filters may carry
  F64Min, F64Max, \* stand-ins for f64::MIN and f64::MAX
  GeoLat, GeoLng, \* the synthetic fields _geo.lat and _geo.lng
  GeoEnabled,     \* the possible results of index.is_geo_filtering_enabled
  Distance(_, _)  \* distance_between_two_points on <<lat, lng>> pairs

VARIABLES
  docValues,  \* docValues[d][f]: [kind: missing, null, empty or values; vals: facet values]
  fieldsIds,  \* the attributes present in fields_ids_map
  matching,   \* matching[f]: the features of the first matching rule, or NoRule
  geoEnabled, \* index.is_geo_filtering_enabled(rtxn)
  request,    \* the JSON value the filter is built from
  built,      \* Pending, or what Filter::from_json returned
  filter,     \* the Filter built, NoFilter before
  outcome     \* Pending, or the Result returned by Filter::evaluate

vars == <<docValues, fieldsIds, matching, geoEnabled, request, built, filter, outcome>>

Pending == [ok |-> FALSE, err |-> "Pending", field |-> "none"]
NoRule  == [matched |-> FALSE, filterable |-> FALSE, equality |-> FALSE,
            comparison |-> FALSE, empty |-> FALSE, null |-> FALSE, exists |-> FALSE]
Ok(s) == [ok |-> TRUE, docs |-> s]
Err(kind, f) == [ok |-> FALSE, err |-> kind, field |-> f]

(* Option<&RoaringBitmap> for the universe argument. *)
NoUniverse == [isSome |-> FALSE, docs |-> {}]
Some(s) == [isSome |-> TRUE, docs |-> s]

-----------------------------------------------------------------------------
(* Facet values and the conversions applied to tokens.                     *)

NumVal(n) == [num |-> n]
StrVal(s) == [str |-> s]
IsNum(v) == "num" \in DOMAIN v

(* normalize_facet lower-cases the string (trimming is not modelled).      *)
Normalize(s) == [i \in DOMAIN s |-> IF s[i] \in 65..90 THEN s[i] + 32 ELSE s[i]]

(* Token::parse_finite_float, as a set holding the number when the token  *)
(* is an optionally negative decimal integer, possibly written with a     *)
(* fraction of zeros ("-180.0"), so "inf", "NaN" and words yield {} = None.*)
(* The tokens of the model have no other fractions.                       *)
IsDigit(c) == c \in 48..57
Digits(s) == s # <<>> /\ \A i \in DOMAIN s : IsDigit(s[i])
DecimalValue(s) == FoldLeft(LAMBDA acc, c : 10 * acc + (c - 48), 0, s)
ParseFiniteFloat(raw) ==
  LET neg  == raw # <<>> /\ raw[1] = 45
      body == IF neg THEN Tail(raw) ELSE raw
      dots == {i \in DOMAIN body : body[i] = 46}
      int  == IF dots = {} THEN body ELSE SubSeq(body, 1, Min(dots) - 1)
      frac == IF dots = {} THEN <<48>> ELSE SubSeq(body, Min(dots) + 1, Len(body))
  IN IF Digits(int) /\ (dots # {} => Digits(frac) /\ DecimalValue(frac) = 0)
     THEN {IF neg THEN -DecimalValue(int) ELSE DecimalValue(int)}
     ELSE {}

(* Byte-wise lexicographic order of the facet string keys.                 *)
RECURSIVE StrLt(_, _)
StrLt(a, b) ==
  IF b = <<>> THEN FALSE
  ELSE IF a = <<>> THEN TRUE
  ELSE IF Head(a) # Head(b) THEN Head(a) < Head(b)
  ELSE StrLt(Tail(a), Tail(b))
NumLt(a, b) == a < b

IsSubstring(w, s) ==
  \E i \in 0..(Len(s) - Len(w)) : SubSeq(s, i + 1, i + Len(w)) = w

-----------------------------------------------------------------------------
(* Reads of the index.                                                     *)

Values(d, f) == docValues[d][f].vals

(* facet_id_f64_docids / facet_id_string_docids at level 0.                *)
NumDocs(f, ns) == {d \in Docs : \E n \in ns : NumVal(n) \in Values(d, f)}
StrDocsWhere(f, P(_)) ==
  {d \in Docs : \E v \in Values(d, f) : ~IsNum(v) /\ P(v.str)}

NullDocs(f)   == {d \in Docs : docValues[d][f].kind = "null"}
EmptyDocs(f)  == {d \in Docs : docValues[d][f].kind = "empty"}
ExistsDocs(f) == {d \in Docs : docValues[d][f].kind # "missing"}

-----------------------------------------------------------------------------
(* Range scans: explore_facet_levels and facet_range_search.               *)

Inc(v) == [kind |-> "Included", v |-> v]
Exc(v) == [kind |-> "Excluded", v |-> v]
Unb    == [kind |-> "Unbounded", v |-> 0]

(* The early returns of explore_facet_levels: self-contradictory bounds.   *)
ContradictoryBounds(l, r, Lt(_, _)) ==
  \/ l.kind = "Included" /\ r.kind = "Included" /\ Lt(r.v, l.v)
  \/ l.kind \in {"Included", "Excluded"} /\ r.kind \in {"Included", "Excluded"}
     /\ (l.kind = "Excluded" \/ r.kind = "Excluded") /\ ~Lt(l.v, r.v)

AboveLeft(x, l, Lt(_, _)) ==
  CASE l.kind = "Included" -> ~Lt(x, l.v)
    [] l.kind = "Excluded" -> Lt(l.v, x)
    [] OTHER -> TRUE
BelowRight(x, r, Lt(_, _)) ==
  CASE r.kind = "Included" -> ~Lt(r.v, x)
    [] r.kind = "Excluded" -> Lt(x, r.v)
    [] OTHER -> TRUE
WithinBounds(x, l, r, Lt(_, _)) == AboveLeft(x, l, Lt) /\ BelowRight(x, r, Lt)

(* facet_range_search::find_docids_of_facet_within_bounds (not under src): *)
(* the documents with a level-0 value of the field inside the bounds.      *)
FindNumDocsWithinBounds(f, l, r) ==
  {d \in Docs : \E v \in Values(d, f) : IsNum(v) /\ WithinBounds(v.num, l, r, NumLt)}
FindStrDocsWithinBounds(f, l, r) ==
  StrDocsWhere(f, LAMBDA s : WithinBounds(s, l, r, StrLt))

(* explore_facet_levels calls facet_range_search, which is not under src; *)
(* the evaluator relies on its contract above (spec.md 4.4).               *)
ExploreNumLevels(f, l, r) ==
  IF ContradictoryBounds(l, r, NumLt) THEN {} ELSE FindNumDocsWithinBounds(f, l, r)
ExploreStrLevels(f, l, r) ==
  IF ContradictoryBounds(l, r, StrLt) THEN {} ELSE FindStrDocsWithinBounds(f, l, r)

-----------------------------------------------------------------------------
(* Filter AST (filter_parser::FilterCondition) and Condition operators.    *)
(* Every node has the same fields so that TLC can compare any two.         *)

Node(type, fid, op, els, children) ==
  [type |-> type, fid |-> fid, op |-> op, els |-> els, children |-> children]
NoOp == [kind |-> "None", val |-> <<>>, to |-> <<>>]
Op(kind, val) == [kind |-> kind, val |-> val, to |-> <<>>]
BetweenOp(from, to) == [kind |-> "Between", val |-> from, to |-> to]
Condition(f, op) == Node("Condition", f, op, <<>>, <<>>)
In(f, els) == Node("In", f, NoOp, els, <<>>)
Not(c) == Node("Not", "none", NoOp, <<>>, <<c>>)
And(cs) == Node("And", "none", NoOp, <<>>, cs)
Or(cs) == Node("Or", "none", NoOp, <<>>, cs)
\* the coordinates are the raw tokens: <<lat, lng, radius>> and
\* <<top_right lat, top_right lng, bottom_left lat, bottom_left lng>>
GeoLowerThan(lat, lng, radius) == Node("GeoLowerThan", "none", NoOp, <<lat, lng, radius>>, <<>>)
GeoBoundingBox(tr, bl) == Node("GeoBoundingBox", "none", NoOp, tr \o bl, <<>>)
NoFilter == Node("none", "none", NoOp, <<>>, <<>>)

ComparisonOps ==
  {"GreaterThan", "GreaterThanOrEqual", "LowerThan", "LowerThanOrEqual", "Between"}

-----------------------------------------------------------------------------
(* Building the Filter (filter.rs:121-232). A string of the request is     *)
(* given by what FilterCondition::parse makes of it: an AST, nothing (an   *)
(* empty expression) or a syntax error. A JSON value is a string, an array *)
(* of JSON values, or any other value.                                     *)

Parses(ast) == [kind |-> "ast", ast |-> ast]
EmptyExpr   == [kind |-> "empty", ast |-> NoFilter]
InvalidExpr == [kind |-> "invalid", ast |-> NoFilter]
JsonString(rule) == [kind |-> "string", rule |-> rule, elems |-> <<>>]
JsonArray(elems) == [kind |-> "array", rule |-> EmptyExpr, elems |-> elems]
JsonOther        == [kind |-> "other", rule |-> EmptyExpr, elems |-> <<>>]

Built(c) == [ok |-> TRUE, some |-> TRUE, filter |-> c]
NotBuilt == [ok |-> TRUE, some |-> FALSE, filter |-> NoFilter]

(* FilterCondition::token_at_depth (filter-parser, not under src): a leaf  *)
(* nested under MaxFilterDepth combinators makes the filter too deep.      *)
RECURSIVE Nesting(_)
Nesting(c) ==
  IF c.type \in {"Not", "And", "Or"}
  THEN IF c.children = <<>> THEN -1 ELSE 1 + Max(ToSet([i \in DOMAIN c.children |-> Nesting(c.children[i])]))
  ELSE 0
TooDeep(c) == Nesting(c) >= MaxFilterDepth

(* Filter::from_str (213-228).                                             *)
FromStr(rule) ==
  CASE rule.kind = "invalid" -> Err("InvalidFilter", "none")
    [] rule.kind = "empty"   -> NotBuilt
    [] TooDeep(rule.ast)     -> Err("TooDeep", "none")
    [] OTHER                 -> Built(rule.ast)

(* The loops of from_array (172-197): each rule through from_str, the      *)
(* first error returned, an inner array's conditions OR-ed (one kept as    *)
(* is, none skipped).                                                      *)
NoConds == [failed |-> FALSE, err |-> NotBuilt, conds |-> <<>>]
AddRule(acc, rule) ==
  LET r == FromStr(rule)
  IN CASE acc.failed -> acc
       [] ~r.ok      -> [acc EXCEPT !.failed = TRUE, !.err = r]
       [] r.some     -> [acc EXCEPT !.conds = Append(@, r.filter)]
       [] OTHER      -> acc
OrOf(ors) == IF Len(ors) <= 1 THEN ors ELSE <<Or(ors)>>
FromArrayStep(acc, elem) ==
  IF acc.failed \/ elem.kind = "string" THEN AddRule(acc, elem.rule)
  ELSE LET g == FoldLeft(LAMBDA a, e : AddRule(a, e.rule), NoConds, elem.elems)
       IN IF g.failed THEN [acc EXCEPT !.failed = TRUE, !.err = g.err]
          ELSE [acc EXCEPT !.conds = @ \o OrOf(g.conds)]

(* Mutant: the depth of the composed filter is not checked.                *)
ComposeNoDepthCheck(conds) ==
  CASE conds = <<>>   -> NotBuilt
    [] Len(conds) = 1 -> Built(conds[1])
    [] OTHER          -> Built(And(conds))

(* The end of from_array (198-211): no condition gives None, one is kept  *)
(* as is, more are AND-ed; the result is checked for depth again.          *)
Compose(conds) ==
  LET c == IF Len(conds) = 1 THEN conds[1] ELSE And(conds)
  IN CASE conds = <<>> -> NotBuilt
       [] TooDeep(c)   -> Err("TooDeep", "none")
       [] OTHER        -> Built(c)

FromArray(elems) ==
  LET acc == FoldLeft(FromArrayStep, NoConds, elems)
  IN IF acc.failed THEN acc.err ELSE Compose(acc.conds)

(* parse_filter_array (135-166): every element must be a string or an     *)
(* array of strings, checked before any string is parsed.                  *)
WellFormed(elem) ==
  \/ elem.kind = "string"
  \/ elem.kind = "array" /\ \A j \in DOMAIN elem.elems : elem.elems[j].kind = "string"
ParseFilterArray(elems) ==
  IF \E i \in DOMAIN elems : ~WellFormed(elems[i]) THEN Err("InvalidFilterExpression", "none")
  ELSE FromArray(elems)

(* Filter::from_json (121-133).                                            *)
FromJson(req) ==
  CASE req.kind = "string" -> FromStr(req.rule)
    [] req.kind = "array"  -> ParseFilterArray(req.elems)
    [] OTHER               -> Err("InvalidFilterExpression", "none")

-----------------------------------------------------------------------------
(* Filter::evaluate_operator (filter.rs:259-463).                          *)

(* The guarded arms at the top of the match: an operator whose feature is  *)
(* off returns FilterOperatorNotAllowed. Contains and StartsWith have no   *)
(* guarded arm.                                                            *)
OperatorAllowed(op, features) ==
  /\ op.kind \in ComparisonOps => features.comparison
  /\ op.kind = "Empty" => features.empty
  /\ op.kind = "Null" => features.null
  /\ op.kind = "Exists" => features.exists
  /\ op.kind \in {"Equal", "NotEqual"} => features.equality

(* Mutant: `>` built with an Included lower bound.                         *)
NumberBoundsGtIncluded(op) ==
  LET n == ParseFiniteFloat(op.val) IN
  CASE op.kind = "GreaterThan"        -> {<<Inc(x), Inc(F64Max)>> : x \in n}
    [] op.kind = "GreaterThanOrEqual" -> {<<Inc(x), Inc(F64Max)>> : x \in n}
    [] op.kind = "LowerThan"          -> {<<Inc(F64Min), Exc(x)>> : x \in n}
    [] op.kind = "LowerThanOrEqual"   -> {<<Inc(F64Min), Inc(x)>> : x \in n}
    [] op.kind = "Between"            ->
         {<<Inc(x), Inc(y)>> : x \in n, y \in ParseFiniteFloat(op.to)}

(* The numeric bound pair, absent ({}) when a token is not a finite float. *)
NumberBounds(op) ==
  LET n == ParseFiniteFloat(op.val) IN
  CASE op.kind = "GreaterThan"        -> {<<Exc(x), Inc(F64Max)>> : x \in n}
    [] op.kind = "GreaterThanOrEqual" -> {<<Inc(x), Inc(F64Max)>> : x \in n}
    [] op.kind = "LowerThan"          -> {<<Inc(F64Min), Exc(x)>> : x \in n}
    [] op.kind = "LowerThanOrEqual"   -> {<<Inc(F64Min), Inc(x)>> : x \in n}
    [] op.kind = "Between"            ->
         {<<Inc(x), Inc(y)>> : x \in n, y \in ParseFiniteFloat(op.to)}

(* The string bound pair, built from the token's raw value.                *)
StrBounds(op) ==
  CASE op.kind = "GreaterThan"        -> <<Exc(op.val), Unb>>
    [] op.kind = "GreaterThanOrEqual" -> <<Inc(op.val), Unb>>
    [] op.kind = "LowerThan"          -> <<Unb, Exc(op.val)>>
    [] op.kind = "LowerThanOrEqual"   -> <<Unb, Inc(op.val)>>
    [] op.kind = "Between"            -> <<Inc(op.val), Inc(op.to)>>

RangeDocs(f, op) ==
  UNION {ExploreNumLevels(f, b[1], b[2]) : b \in NumberBounds(op)}
  \cup ExploreStrLevels(f, StrBounds(op)[1], StrBounds(op)[2])

EqualDocs(f, t) ==
  StrDocsWhere(f, LAMBDA s : s = Normalize(t)) \cup NumDocs(f, ParseFiniteFloat(t))

SelectedDocs(f, op) ==
  CASE op.kind \in ComparisonOps -> RangeDocs(f, op)
    [] op.kind = "Null"       -> NullDocs(f)
    [] op.kind = "Empty"      -> EmptyDocs(f)
    [] op.kind = "Exists"     -> ExistsDocs(f)
    [] op.kind = "Equal"      -> EqualDocs(f, op.val)
    [] op.kind = "NotEqual"   -> Docs \ EqualDocs(f, op.val)
    [] op.kind = "Contains"   -> StrDocsWhere(f, LAMBDA s : IsSubstring(Normalize(op.val), s))
    [] op.kind = "StartsWith" -> StrDocsWhere(f, LAMBDA s : IsPrefix(Normalize(op.val), s))

(* Mutant: NotEqual guarded by the comparison feature.                     *)
EvaluateOperatorNotEqualAsComparison(f, universe, op, features) ==
  IF OperatorAllowed(op, features) /\ (op.kind = "NotEqual" => features.comparison)
  THEN Ok(SelectedDocs(f, op))
  ELSE Err("FilterOperatorNotAllowed", f)

(* generate_filter_error (785-806): the error names the field read back    *)
(* from fields_ids_map, which cannot fail in the model.                    *)
GenerateFilterError(f) == Err("FilterOperatorNotAllowed", f)

EvaluateOperator(f, universe, op, features) ==
  IF OperatorAllowed(op, features)
  THEN Ok(SelectedDocs(f, op))
  ELSE GenerateFilterError(f)

-----------------------------------------------------------------------------
(* Filter::inner_evaluate (filter.rs:495-601).                             *)

(* `.union()` over an iterator of Results: the first error, else the union.*)
UnionResults(rs) ==
  LET errs == {i \in DOMAIN rs : ~rs[i].ok}
  IN IF errs = {} THEN Ok(UNION {rs[i].docs : i \in DOMAIN rs}) ELSE rs[Min(errs)]

(* The In and Condition arms: an unknown field or no matching rule gives   *)
(* an empty bitmap; In evaluates Equal once per element.                   *)
LeafEvaluate(c, universe) ==
  CASE c.fid \notin fieldsIds      -> Ok({})
    [] ~matching[c.fid].matched    -> Ok({})
    [] c.type = "In" ->
         UnionResults([i \in DOMAIN c.els |->
           EvaluateOperator(c.fid, universe, Op("Equal", c.els[i]), matching[c.fid])])
    [] OTHER -> EvaluateOperator(c.fid, universe, c.op, matching[c.fid])

-----------------------------------------------------------------------------
(* The geo arms of inner_evaluate (filter.rs:602-780).                     *)

GeoField == "_geo"    \* RESERVED_GEO_FIELD_NAME
\* the tokens "-180.0" and "180.0" the bounding box creates
MinLngToken == <<45, 49, 56, 48, 46, 48>>
MaxLngToken == <<49, 56, 48, 46, 48>>

(* The documents with a point, which the geo r-tree holds.                 *)
GeoDocs ==
  IF GeoLat \in Fields /\ GeoLng \in Fields
  THEN {d \in Docs : Values(d, GeoLat) # {} /\ Values(d, GeoLng) # {}}
  ELSE {}
GeoPoint(d) ==
  <<(CHOOSE v \in Values(d, GeoLat) : TRUE).num, (CHOOSE v \in Values(d, GeoLng) : TRUE).num>>

Parsed(t) == CHOOSE x \in ParseFiniteFloat(t) : TRUE
NotFloat(t) == ParseFiniteFloat(t) = {}
(* `!(-bound..=bound).contains(&x)` on a parsed coordinate.               *)
OutOfRange(t, bound) == \E x \in ParseFiniteFloat(t) : x < -bound \/ x > bound

(* The validations of a geo arm, in the order of the code: the first one   *)
(* that fails is returned.                                                 *)
Check(failed, err) == [failed |-> failed, err |-> err]
FirstFailure(checks) ==
  checks[Min({i \in DOMAIN checks : checks[i].failed})].err
AnyFailure(checks) == \E i \in DOMAIN checks : checks[i].failed

(* The parses and range checks of GeoLowerThan (604-612), in order.       *)
GeoLowerThanChecks(c) ==
  << Check(NotFloat(c.els[1]), Err("InvalidFloat", GeoField)),
     Check(NotFloat(c.els[2]), Err("InvalidFloat", GeoField)),
     Check(OutOfRange(c.els[1], 90), Err("BadGeoLat", GeoField)),
     Check(OutOfRange(c.els[2], 180), Err("BadGeoLng", GeoField)),
     Check(NotFloat(c.els[3]), Err("InvalidFloat", GeoField)) >>

(* The parses and checks of GeoBoundingBox (642-672), in order; the last  *)
(* compares the latitudes of the corners.                                 *)
BoxChecks(c, topBelowBottom) ==
  << Check(NotFloat(c.els[1]), Err("InvalidFloat", GeoField)),
     Check(NotFloat(c.els[2]), Err("InvalidFloat", GeoField)),
     Check(NotFloat(c.els[3]), Err("InvalidFloat", GeoField)),
     Check(NotFloat(c.els[4]), Err("InvalidFloat", GeoField)),
     Check(OutOfRange(c.els[1], 90), Err("BadGeoLat", GeoField)),
     Check(OutOfRange(c.els[2], 180), Err("BadGeoLng", GeoField)),
     Check(OutOfRange(c.els[3], 90), Err("BadGeoLat", GeoField)),
     Check(OutOfRange(c.els[4], 180), Err("BadGeoLng", GeoField)),
     Check(topBelowBottom, Err("BoundingBoxTopIsBelowBottom", GeoField)) >>
ParsedLt(a, b) == ~NotFloat(a) /\ ~NotFloat(b) /\ Parsed(a) < Parsed(b)

(* Mutant: `top_right[1] < bottom_left[1]`, the longitudes compared.      *)
GeoBoundingBoxChecksLng(c) == BoxChecks(c, ParsedLt(c.els[2], c.els[4]))

GeoBoundingBoxChecks(c) == BoxChecks(c, ParsedLt(c.els[1], c.els[3]))

(* Mutant: points at exactly the radius are left out.                      *)
WithinRadiusStrict(base, radius, p) == Distance(base, p) < radius

(* The take_while over rtree.nearest_neighbor_iter: the points are visited *)
(* by increasing distance, so it keeps those within radius + EPSILON.      *)
WithinRadius(base, radius, p) == Distance(base, p) <= radius

(* GeoLowerThan (602-638).                                                 *)
GeoLowerThanEvaluate(c) ==
  LET lat == c.els[1]
      lng == c.els[2]
      radius == c.els[3]
      checks == GeoLowerThanChecks(c)
  IN IF ~geoEnabled THEN Err("AttributeNotFilterable", GeoField)
     ELSE IF AnyFailure(checks) THEN FirstFailure(checks)
     ELSE IF GeoDocs = {} THEN Ok({})
     ELSE Ok({d \in GeoDocs :
                WithinRadius(<<Parsed(lat), Parsed(lng)>>, Parsed(radius), GeoPoint(d))})

(* Mutant: a box whose longitudes are equal is taken as wrapping.          *)
WrapsAntimeridianEqual(trLng, blLng) == Parsed(trLng) <= Parsed(blLng)

(* `top_right[1] < bottom_left[1]`: the box crosses the antimeridian.      *)
WrapsAntimeridian(trLng, blLng) == Parsed(trLng) < Parsed(blLng)

(* GeoBoundingBox (640-780): after the checks, `_geo.lat` bl TO tr and     *)
(* `_geo.lng` bl TO tr, or bl TO 180 OR -180 TO tr across the antimeridian,*)
(* each evaluated as a Condition with the universe, then intersected.      *)
GeoBoundingBoxEvaluate(c, universe) ==
  LET trLat == c.els[1]
      trLng == c.els[2]
      blLat == c.els[3]
      blLng == c.els[4]
      checks == GeoBoundingBoxChecks(c)
      Between(f, from, to) == LeafEvaluate(Condition(f, BetweenOp(from, to)), universe)
      lat == Between(GeoLat, blLat, trLat)
      lng == IF WrapsAntimeridian(trLng, blLng)
             THEN UnionResults(<<Between(GeoLng, blLng, MaxLngToken),
                                 Between(GeoLng, MinLngToken, trLng)>>)
             ELSE Between(GeoLng, blLng, trLng)
  IN IF ~geoEnabled THEN Err("AttributeNotFilterable", GeoField)
     ELSE IF AnyFailure(checks) THEN FirstFailure(checks)
     ELSE IF ~lat.ok THEN lat
     ELSE IF ~lng.ok THEN lng
     ELSE Ok(lat.docs \cap lng.docs)

RECURSIVE InnerEvaluate(_, _), AndFold(_, _)

(* Mutant: `bitmap = ...` instead of `bitmap &= ...` (the TODO at         *)
(* filter.rs:585-587).                                                     *)
AndFoldAssign(bitmap, rest) ==
  IF rest = <<>> \/ bitmap = {} THEN Ok(bitmap)
  ELSE LET r == InnerEvaluate(Head(rest), Some(bitmap))
       IN IF ~r.ok THEN r ELSE AndFold(r.docs, Tail(rest))

(* The loop of the And arm: stop on an empty bitmap, else evaluate the     *)
(* next subfilter with the bitmap as universe and intersect (`&=`).        *)
AndFold(bitmap, rest) ==
  IF rest = <<>> \/ bitmap = {} THEN Ok(bitmap)
  ELSE LET r == InnerEvaluate(Head(rest), Some(bitmap))
       IN IF ~r.ok THEN r ELSE AndFold(bitmap \cap r.docs, Tail(rest))

InnerEvaluate(c, universe) ==
  IF universe.isSome /\ universe.docs = {} THEN Ok({})
  ELSE CASE c.type = "Not" ->
              LET selected == InnerEvaluate(c.children[1], universe)
              IN IF ~selected.ok THEN selected
                 ELSE IF universe.isSome THEN Ok(universe.docs \ selected.docs)
                 ELSE Ok(Docs \ selected.docs)
         [] c.type \in {"In", "Condition"} -> LeafEvaluate(c, universe)
         [] c.type = "Or" ->
              UnionResults([i \in DOMAIN c.children |-> InnerEvaluate(c.children[i], universe)])
         [] c.type = "And" ->
              IF c.children = <<>> THEN Ok({})
              ELSE LET first == InnerEvaluate(Head(c.children), universe)
                   IN IF ~first.ok THEN first ELSE AndFold(first.docs, Tail(c.children))
         [] c.type = "GeoLowerThan" -> GeoLowerThanEvaluate(c)
         [] c.type = "GeoBoundingBox" -> GeoBoundingBoxEvaluate(c, universe)

-----------------------------------------------------------------------------
(* Filter::evaluate (filter.rs:234-257): the preflight over fids, in AST   *)
(* order, then the recursion without a universe.                           *)

RECURSIVE Fids(_)
Fids(c) ==
  IF c.type \in {"In", "Condition"} THEN <<c.fid>>
  ELSE IF c.type \in {"GeoLowerThan", "GeoBoundingBox"} THEN <<>>
  ELSE FoldLeft(LAMBDA acc, child : acc \o Fids(child), <<>>, c.children)

Filterable(f) == matching[f].matched /\ matching[f].filterable

(* Mutant: no preflight.                                                   *)
EvaluateNoPreflight(c) == InnerEvaluate(c, NoUniverse)

Evaluate(c) ==
  LET fids == Fids(c)
      bad  == {i \in DOMAIN fids : ~Filterable(fids[i])}
  IN IF bad # {} THEN Err("AttributeNotFilterable", fids[Min(bad)])
     ELSE InnerEvaluate(c, NoUniverse)

-----------------------------------------------------------------------------
(* The functions g over Fields with g[f] in S[f].                          *)
FieldwiseChoices(S) == {g \in [Fields -> UNION {S[f] : f \in Fields}] : \A f \in Fields : g[f] \in S[f]}

(* A document's _geo gives it both a _geo.lat and a _geo.lng value or     *)
(* neither (the extractor writes them together).                           *)
GeoPointsWhole ==
  GeoLat \in Fields /\ GeoLng \in Fields =>
    \A d \in Docs : Values(d, GeoLat) = {} <=> Values(d, GeoLng) = {}

Init ==
  /\ docValues \in [Docs -> FieldwiseChoices(DocFieldStates)]
  /\ fieldsIds \in {m \in SUBSET Fields :
                      \A d \in Docs, f \in Fields : docValues[d][f].kind # "missing" => f \in m}
  /\ matching \in FieldwiseChoices(Matchings)
  /\ geoEnabled \in GeoEnabled
  /\ request \in Requests
  /\ request.kind \in {"string", "array", "other"}
  /\ built = Pending
  /\ filter = NoFilter
  /\ outcome = Pending

(* The request's filter is built with Filter::from_json.                   *)
BuildFilter ==
  /\ built = Pending
  /\ built' = FromJson(request)
  /\ filter' = IF built'.ok /\ built'.some THEN built'.filter ELSE NoFilter
  /\ UNCHANGED <<docValues, fieldsIds, matching, geoEnabled, request, outcome>>

(* One read query: the whole of Filter::evaluate as one step, when a       *)
(* filter was built.                                                       *)
EvaluateFilter ==
  /\ built.ok /\ built.some
  /\ outcome = Pending
  /\ outcome' = Evaluate(filter)
  /\ UNCHANGED <<docValues, fieldsIds, matching, geoEnabled, request, built, filter>>

Next == BuildFilter \/ EvaluateFilter

Spec == Init /\ [][Next]_vars

-----------------------------------------------------------------------------
(* Reference semantics, from spec.md 4.2-4.3 and 8: a filter denotes a set *)
(* of documents; NOT is the complement in documents_ids, AND and OR are    *)
(* intersection and union, an unknown field selects nothing.               *)

(* spec.md 4.5: the points within the radius of the centre, and the points *)
(* inside the box, whose longitudes wrap the antimeridian when top.lng <   *)
(* bottom.lng.                                                             *)
GeoCircle(c) ==
  {d \in GeoDocs :
     Distance(<<Parsed(c.els[1]), Parsed(c.els[2])>>, GeoPoint(d)) <= Parsed(c.els[3])}
GeoBox(c) ==
  LET top == <<Parsed(c.els[1]), Parsed(c.els[2])>>
      bottom == <<Parsed(c.els[3]), Parsed(c.els[4])>>
      InLng(x) == IF top[2] < bottom[2] THEN x >= bottom[2] \/ x <= top[2]
                  ELSE bottom[2] <= x /\ x <= top[2]
  IN {d \in GeoDocs : bottom[1] <= GeoPoint(d)[1] /\ GeoPoint(d)[1] <= top[1] /\ InLng(GeoPoint(d)[2])}

(* spec.md 4.5: the validation errors a geo predicate's tokens call for.   *)
GeoTokenErrors(c) ==
  LET lats == IF c.type = "GeoLowerThan" THEN {c.els[1]} ELSE {c.els[1], c.els[3]}
      lngs == IF c.type = "GeoLowerThan" THEN {c.els[2]} ELSE {c.els[2], c.els[4]}
  IN   {"InvalidFloat" : t \in {t \in ToSet(c.els) : NotFloat(t)}}
     \cup {"BadGeoLat" : t \in {t \in lats : OutOfRange(t, 90)}}
     \cup {"BadGeoLng" : t \in {t \in lngs : OutOfRange(t, 180)}}
     \cup (IF c.type = "GeoBoundingBox" /\ ~NotFloat(c.els[1]) /\ ~NotFloat(c.els[3])
               /\ Parsed(c.els[1]) < Parsed(c.els[3])
           THEN {"BoundingBoxTopIsBelowBottom"} ELSE {})

RECURSIVE Reference(_)
Reference(c) ==
  CASE c.type = "Not" -> Docs \ Reference(c.children[1])
    [] c.type = "And" ->
         IF c.children = <<>> THEN {}
         ELSE {d \in Docs : \A i \in DOMAIN c.children : d \in Reference(c.children[i])}
    [] c.type = "Or" -> UNION {Reference(c.children[i]) : i \in DOMAIN c.children}
    [] c.type = "In" ->
         IF c.fid \in fieldsIds THEN UNION {EqualDocs(c.fid, t) : t \in ToSet(c.els)} ELSE {}
    [] c.type = "Condition" ->
         IF c.fid \in fieldsIds THEN SelectedDocs(c.fid, c.op) ELSE {}
    [] c.type = "GeoLowerThan" -> GeoCircle(c)
    [] c.type = "GeoBoundingBox" -> GeoBox(c)

RECURSIVE Subterms(_)
Subterms(c) == {c} \cup UNION {Subterms(c.children[i]) : i \in DOMAIN c.children}

(* spec.md 4.3: the operator table, where Contains and StartsWith need the *)
(* equality feature like Equal.                                            *)
SpecPermitted(op, features) ==
  /\ op.kind \in {"Equal", "NotEqual", "Contains", "StartsWith"} => features.equality
  /\ op.kind \in ComparisonOps => features.comparison
  /\ op.kind = "Empty" => features.empty
  /\ op.kind = "Null" => features.null
  /\ op.kind = "Exists" => features.exists

(* spec.md 6: the strings of an array are AND-ed, those of an inner array  *)
(* OR-ed; an empty expression constrains nothing.                          *)
Elems(v) == IF v.kind = "string" THEN {v} ELSE ToSet(v.elems)
Rules(v) == UNION {{e.rule : e \in Elems(x)} : x \in IF v.kind = "array" THEN ToSet(v.elems) ELSE {v}}
Asts(v) == {r.ast : r \in {r \in Rules(v) : r.kind = "ast"}}
Denotation(req) ==
  LET groups == IF req.kind = "string" THEN {req} ELSE {x \in ToSet(req.elems) : Asts(x) # {}}
  IN {d \in Docs : \A x \in groups : \E a \in Asts(x) : d \in Reference(a)}

ValuedDocs(f) == {d \in Docs : Values(d, f) # {}}
NumericTokens == {t \in Tokens : ParseFiniteFloat(t) # {}}

-----------------------------------------------------------------------------
(* Properties.                                                             *)

(* Filter::from_json builds a filter that selects what the request's       *)
(* strings say, AND-ed across the array and OR-ed within an inner array,   *)
(* and that is never deeper than MAX_FILTER_DEPTH, though wrapping rules   *)
(* in Or and And adds two levels to what from_str checked; it builds none  *)
(* only when every string is empty, never when some string does not parse,*)
(* and fails only for a malformed value,                                   *)
(* a syntax error, or a string nested deep enough to exceed the limit once *)
(* wrapped.                                                                *)
FromJsonMeaning ==
  built # Pending =>
    CASE built.ok /\ built.some ->
           /\ InvalidExpr \notin Rules(request)
           /\ ~TooDeep(filter) /\ Reference(filter) = Denotation(request)
      [] built.ok -> Rules(request) \subseteq {EmptyExpr} /\ request.kind # "other"
      [] built.err = "InvalidFilterExpression" ->
           request.kind = "other" \/ \E x \in Elems(request) \cup UNION {Elems(y) : y \in Elems(request)} :
                                      x.kind = "other"
      [] built.err = "InvalidFilter" -> InvalidExpr \in Rules(request)
      [] OTHER -> \E a \in Asts(request) : Nesting(a) + 2 >= MaxFilterDepth

(* What Filter::evaluate returns is the set the filter denotes: the        *)
(* universe threaded through And, the early exits on an empty bitmap and   *)
(* the re-intersection `bitmap &= ...` never change the answer.            *)
EvaluateMatchesReference ==
  outcome.ok => outcome.docs = Reference(filter)

(* The errors of Filter::evaluate are the ones the inputs call for: the    *)
(* preflight rejects every filter naming an attribute that is not          *)
(* filterable; otherwise AttributeNotFilterable only names _geo, for a geo *)
(* predicate on an index without geo filtering; FilterOperatorNotAllowed   *)
(* names a field some condition uses with an operator the spec's table     *)
(* does not permit, a bounding box counting as range conditions on         *)
(* _geo.lat and _geo.lng; and a geo error comes from a geo predicate whose *)
(* tokens are invalid in that way.                                         *)
ErrorsAreJustified ==
  LET fids == Fids(filter)
      geos == {s \in Subterms(filter) : s.type \in {"GeoLowerThan", "GeoBoundingBox"}}
      fails(k) == ~outcome.ok /\ outcome.err = k
  IN outcome # Pending =>
    /\ (\E i \in DOMAIN fids : ~Filterable(fids[i])) => fails("AttributeNotFilterable")
    /\ fails("AttributeNotFilterable") =>
         \/ \E i \in DOMAIN fids : ~Filterable(fids[i]) /\ outcome.field = fids[i]
         \/ ~geoEnabled /\ geos # {} /\ outcome.field = GeoField
    /\ fails("FilterOperatorNotAllowed") =>
         \/ \E s \in Subterms(filter) :
              /\ s.type \in {"In", "Condition"} /\ s.fid = outcome.field
              /\ ~SpecPermitted(IF s.type = "In" THEN Op("Equal", <<>>) ELSE s.op,
                                matching[s.fid])
         \/ \E s \in geos :
              /\ s.type = "GeoBoundingBox" /\ outcome.field \in {GeoLat, GeoLng}
              /\ ~matching[outcome.field].comparison
    /\ \A k \in {"InvalidFloat", "BadGeoLat", "BadGeoLng", "BoundingBoxTopIsBelowBottom"} :
         fails(k) => \E s \in geos : k \in GeoTokenErrors(s)

(* For a numeric token t, `f < t` and `f >= t` (and `f <= t`, `f > t`)     *)
(* split the documents having a value for f: every such document is in one *)
(* of them, and a single-valued one in exactly one. This needs the number  *)
(* side and the string side of evaluate_operator to use matching bounds    *)
(* and explore_facet_levels to reject only empty ranges.                   *)
ComplementaryRanges ==
  \* docValues and fieldsIds are fixed by Init: the initial states suffice
  built = Pending =>
  \A f \in fieldsIds, t \in NumericTokens :
    LET lt == SelectedDocs(f, Op("LowerThan", t))
        ge == SelectedDocs(f, Op("GreaterThanOrEqual", t))
        le == SelectedDocs(f, Op("LowerThanOrEqual", t))
        gt == SelectedDocs(f, Op("GreaterThan", t))
    IN /\ lt \cup ge = ValuedDocs(f)
       /\ le \cup gt = ValuedDocs(f)
       /\ \A d \in ValuedDocs(f) :
            Cardinality(Values(d, f)) = 1 => (d \in lt <=> d \notin ge) /\ (d \in le <=> d \notin gt)

-----------------------------------------------------------------------------
(* Statements of spec.md that the code does not meet (checked as expected *)
(* violations).                                                            *)

(* spec.md 9 calls the re-intersection `bitmap &= eval(child, Some(bitmap))`*)
(* semantically redundant, i.e. a result never leaves its universe.        *)
UniverseBounded ==
  outcome # Pending =>
    \A s \in Subterms(filter), u \in SUBSET Docs :
      LET a == InnerEvaluate(s, Some(u)) IN a.ok => a.docs \subseteq u

(* spec.md 8.2: eval(A AND B) = eval(B AND A), errors included.            *)
AndCommutes ==
  outcome # Pending /\ filter.type = "And" =>
    outcome = Evaluate(And(Reverse(filter.children)))

(* spec.md 4.3: an operator the matched rule does not permit is rejected;  *)
(* Contains and StartsWith need the equality feature.                      *)
OperatorPermittedBySpec ==
  outcome.ok =>
    \A s \in Subterms(filter) :
      s.type = "Condition" /\ s.fid \in fieldsIds /\ matching[s.fid].matched
        => SpecPermitted(s.op, matching[s.fid])

(* spec.md 8.4: for numeric a <= b, `f a TO b` = `f >= a` AND `f <= b`.    *)
(* Between selects a document with one value in [a, b] (filter.rs:332-338),*)
(* the AND one with some value >= a and some, maybe another, <= b, so the  *)
(* two differ on a multi-valued field such as {1, 3} with `f 2 TO 2`.      *)
RangeDecomposition ==
  \A f \in fieldsIds, a, b \in NumericTokens :
    Min(ParseFiniteFloat(a)) <= Min(ParseFiniteFloat(b)) =>
      SelectedDocs(f, BetweenOp(a, b))
        = SelectedDocs(f, Op("GreaterThanOrEqual", a)) \cap SelectedDocs(f, Op("LowerThanOrEqual", b))

(* spec.md 4.3-4.4: facet strings are normalised before both indexing and  *)
(* lookup and ranges compare normalised strings, so the one-point range    *)
(* `f t TO t` selects the documents `f = t` selects. evaluate_operator     *)
(* builds the string bounds from the raw token (filter.rs:311), while      *)
(* Equal normalises it.                                                    *)
StringPointRange ==
  \A f \in fieldsIds, t \in Tokens \ NumericTokens :
    SelectedDocs(f, BetweenOp(t, t)) = EqualDocs(f, t)
=============================================================================
