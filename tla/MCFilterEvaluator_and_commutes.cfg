\* Expected violation: A AND B and B AND A can differ (one errors, one returns nothing).
CONSTANTS
  d1 = d1
  d2 = d2
  f = f
  g = g
  glat = glat
  glng = glng
  GeoLat = glat
  GeoLng = glng
  GeoEnabled <- NoGeo
  Distance <- MCDistance
  Docs <- MCDocs
  Fields <- CombFields
  DocFieldStates <- CombDocFieldStates
  Matchings <- CombMatchings
  Requests <- CombRequests
  MaxFilterDepth = 4
  Tokens <- CombTokens
  F64Min <- MCF64Min
  F64Max <- MCF64Max
SPECIFICATION Spec
\* A query ends once Filter::evaluate has returned.
CHECK_DEADLOCK FALSE
INVARIANTS
  AndCommutes
