-------------------------- MODULE MCFilterEvaluator --------------------------
(***************************************************************************)
(* Instances of FilterEvaluator for TLC: two documents, facet values that  *)
(* mix numbers and strings, and filters built from a handful of atoms.     *)
(***************************************************************************)
EXTENDS FilterEvaluator

CONSTANTS d1, d2, f, g, glat, glng

(* Bytes of the tokens and facet strings.                                  *)
Str1 == <<49>>       \* "1"
Str2 == <<50>>       \* "2"
StrUpA == <<65>>     \* "A"
StrA == <<97>>       \* "a"
StrAB == <<97, 98>>  \* "ab"
StrB == <<98>>       \* "b"

MCDocs == {d1, d2}
MCF64Min == -1000
MCF64Max == 1000

(* Runs without geo predicates: geo filtering disabled.                   *)
NoGeo == {FALSE}

(* A stand-in for the haversine distance on <<lat, lng>>: the latitude gap *)
(* plus the longitude gap the short way round, so that points on either   *)
(* side of the antimeridian are close.                                     *)
AbsDiff(x, y) == IF x > y THEN x - y ELSE y - x
MCDistance(p, q) ==
  AbsDiff(p[1], q[1]) + Min({AbsDiff(p[2], q[2]), 360 - AbsDiff(p[2], q[2])})

Features(eq, cmp) ==
  [matched |-> TRUE, filterable |-> TRUE, equality |-> eq, comparison |-> cmp,
   empty |-> TRUE, null |-> TRUE, exists |-> TRUE]
AllFeatures == Features(TRUE, TRUE)
EqualityOnly == Features(TRUE, FALSE)
ComparisonOnly == Features(FALSE, TRUE)

(* A field is missing, null, empty, or holds one or two facet values.      *)
FieldStates(vals) ==
  {[kind |-> k, vals |-> {}] : k \in {"missing", "null", "empty"}}
  \cup {[kind |-> "values", vals |-> s] : s \in {s \in SUBSET vals : Cardinality(s) \in 1..2}}

-----------------------------------------------------------------------------
(* Run "operators": every Condition operator on one field, alone or under  *)
(* NOT, over every index of two documents.                                 *)

OpValues == {NumVal(1), NumVal(2), NumVal(3), StrVal(StrA), StrVal(StrAB)}
OpTokens == {Str1, Str2, StrUpA, StrB}
OpFields == {f}
OpDocFieldStates == [x \in OpFields |-> FieldStates(OpValues)]
OpMatchings == [x \in OpFields |-> {AllFeatures, EqualityOnly, ComparisonOnly}]

AllOps ==
  {Op(k, t) : k \in {"Equal", "NotEqual", "GreaterThan", "GreaterThanOrEqual",
                     "LowerThan", "LowerThanOrEqual", "Contains", "StartsWith"},
              t \in OpTokens}
  \cup {BetweenOp(a, b) : a, b \in OpTokens}
  \cup {Op(k, <<>>) : k \in {"Null", "Empty", "Exists"}}
OpAtoms == {Condition(f, op) : op \in AllOps} \cup {In(f, <<Str1, StrUpA>>)}
OpFilters == OpAtoms \cup {Not(a) : a \in OpAtoms}
OpRequests == {JsonString(Parses(x)) : x \in OpFilters}

-----------------------------------------------------------------------------
(* Run "combinators": NOT, AND, OR over atoms on a field f with values and *)
(* a field g that no document has, which may be unmapped or unfilterable.  *)

CombValues == {NumVal(1), NumVal(2), StrVal(StrA)}
CombTokens == {Str1, StrB}
CombFields == {f, g}
CombDocFieldStates == [x \in CombFields |-> IF x = f THEN FieldStates(CombValues) ELSE {[kind |-> "missing", vals |-> {}]}]
CombMatchings == [x \in CombFields |-> IF x = f THEN {AllFeatures, EqualityOnly}
                                       ELSE {NoRule, AllFeatures}]
CombAtoms ==
  {Condition(f, Op("Equal", Str1)), Condition(f, Op("GreaterThan", Str1)),
   Condition(f, Op("Contains", StrB)), Condition(f, Op("Null", <<>>)),
   Condition(g, Op("Equal", Str1))}
CombLevel1 == CombAtoms \cup {Not(a) : a \in CombAtoms}
CombFilters ==
  CombLevel1
  \cup {And(<<x, y>>) : x, y \in CombLevel1} \cup {Or(<<x, y>>) : x, y \in CombLevel1}
  \cup {And(<<a, Or(<<b, Not(c)>>)>>) : a, b, c \in CombAtoms}

(* The filters above as the request sends them: a string, an array of      *)
(* strings (AND), an inner array (OR). Besides, requests that build no     *)
(* filter, that are malformed or do not parse, and rules nested three and  *)
(* four deep: the first passes from_str alone but not once wrapped.        *)
Str(x) == JsonString(Parses(x))
Deep == Not(Not(Not(Condition(f, Op("Equal", Str1)))))
Deeper == Not(Deep)
CombRequests ==
  {Str(x) : x \in CombLevel1}
  \cup {JsonArray(<<Str(x), Str(y)>>) : x, y \in CombLevel1}
  \cup {JsonArray(<<JsonArray(<<Str(x), Str(y)>>)>>) : x, y \in CombLevel1}
  \cup {JsonArray(<<Str(a), JsonArray(<<Str(b), Str(Not(c))>>)>>) : a, b, c \in CombAtoms}
  \cup {JsonArray(<<>>), JsonArray(<<JsonArray(<<>>)>>), JsonString(EmptyExpr),
        JsonArray(<<JsonString(EmptyExpr), Str(Not(Condition(f, Op("Null", <<>>))))>>),
        JsonArray(<<JsonArray(<<JsonString(EmptyExpr), Str(Condition(g, Op("Equal", Str1)))>>)>>),
        JsonString(InvalidExpr), JsonArray(<<Str(Deep), JsonString(InvalidExpr)>>),
        JsonOther, JsonArray(<<Str(Deep), JsonOther>>), JsonArray(<<JsonArray(<<JsonOther>>)>>),
        Str(Deep), Str(Deeper), JsonArray(<<Str(Deep)>>),
        JsonArray(<<Str(Deep), Str(Condition(f, Op("Null", <<>>)))>>),
        JsonArray(<<JsonArray(<<Str(Deep), Str(Deep)>>)>>)}

-----------------------------------------------------------------------------
(* Run "geo": _geoRadius and _geoBoundingBox over documents with a point,  *)
(* with coordinates out of range, unparsable, on the boundary, and boxes   *)
(* crossing the antimeridian; geo filtering enabled or not.               *)

StrM10 == <<45, 49, 48>>       \* "-10"
Str10 == <<49, 48>>            \* "10"
Str0 == <<48>>                 \* "0"
Str20 == <<50, 48>>            \* "20"
Str100 == <<49, 48, 48>>       \* "100"
Str170 == <<49, 55, 48>>       \* "170"
StrM170 == <<45, 49, 55, 48>>  \* "-170"
Str200 == <<50, 48, 48>>       \* "200"
StrX == <<120>>                \* "x"

GeoFields == {glat, glng}
GeoDocFieldStates ==
  [x \in GeoFields |->
     {[kind |-> "missing", vals |-> {}]}
     \cup {[kind |-> "values", vals |-> {NumVal(n)}] :
             n \in IF x = glat THEN {-10, 10} ELSE {-170, 0, 170}}]
GeoMatchings == [x \in GeoFields |-> {AllFeatures, EqualityOnly}]
GeoTokens == {StrM10, Str10, Str0, Str20, Str100, Str170, StrM170, Str200, StrX}

GeoCircles ==
  {GeoLowerThan(lat, lng, r) : lat \in {StrM10, Str100}, lng \in {Str0, Str200, StrX},
                               r \in {Str0, Str20}}
GeoBoxes ==
  {GeoBoundingBox(<<trLat, trLng>>, <<blLat, blLng>>) :
     trLat \in {Str10, StrM10, Str100}, trLng \in {Str170, StrM170, Str0},
     blLat \in {StrM10, Str10}, blLng \in {StrM170, Str170, Str200, StrX}}
GeoAtoms == GeoCircles \cup GeoBoxes
GeoFilters ==
  GeoAtoms \cup {Not(a) : a \in GeoAtoms}
  \cup {And(<<x, y>>) : x \in {GeoLowerThan(StrM10, Str0, Str20), GeoLowerThan(StrM10, Str200, Str0)},
                         y \in {GeoBoundingBox(<<Str10, StrM170>>, <<StrM10, Str170>>),
                                GeoBoundingBox(<<StrM10, Str0>>, <<Str10, Str0>>)}}
GeoRequests == {JsonString(Parses(x)) : x \in GeoFilters}
=============================================================================
