CONSTANTS
  MaxLosses = 0
  HubRequests = {"r1"}
  JsonDocs <- MCJsonDocs
  VectorNames = {"v"}
  FilterFields = {"price", "sales", "labels"}
  HttpSchemas <- MCHttpSchemas
  MaxRequests = 1
  MaxHubEnds = 0
SPECIFICATION HubSpec
INVARIANT FiltersAreSent
CHECK_DEADLOCK FALSE
