\* _geoRadius and _geoBoundingBox over every index of two documents with points.
CONSTANTS
  d1 = d1
  d2 = d2
  f = f
  g = g
  glat = glat
  glng = glng
  GeoLat = glat
  GeoLng = glng
  GeoEnabled = {TRUE, FALSE}
  Distance <- MCDistance
  Docs <- MCDocs
  Fields <- GeoFields
  DocFieldStates <- GeoDocFieldStates
  Matchings <- GeoMatchings
  Requests <- GeoRequests
  MaxFilterDepth = 4
  Tokens <- GeoTokens
  F64Min <- MCF64Min
  F64Max <- MCF64Max
SPECIFICATION Spec
\* A query ends once Filter::evaluate has returned.
CHECK_DEADLOCK FALSE
INVARIANTS
  EvaluateMatchesReference
  ErrorsAreJustified
