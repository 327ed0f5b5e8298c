\* Expected violation: "f A TO A" misses the facet string "a" that "f = A" selects.
CONSTANTS
  d1 = d1
  d2 = d2
  f = f
  g = g
  glat = glat
  glng = glng
  GeoLat = glat
  GeoLng = glng
  GeoEnabled <- NoGeo
  Distance <- MCDistance
  Docs <- MCDocs
  Fields <- OpFields
  DocFieldStates <- OpDocFieldStates
  Matchings <- OpMatchings
  Requests <- OpRequests
  MaxFilterDepth = 4
  Tokens <- OpTokens
  F64Min <- MCF64Min
  F64Max <- MCF64Max
SPECIFICATION Spec
\* A query ends once Filter::evaluate has returned.
CHECK_DEADLOCK FALSE
INVARIANTS
  StringPointRange
