CONSTANTS
  Clients = {"c1", "c2"}
  Dbs = {"d"}
  TableNames <- MCTableNames
  CreateLists <- MCCreateLists
  MaxCreates = 2
  MaxQuestions = 1
  MaxRestarts = 1
  Tables = {"t", "u"}
  DocLists <- MCDocLists
  FilterLists <- MCFilterLists
  MaxAdds = 3
  MaxCrashes = 1
  MaxLosses = 1
  HubRequests = {"r1", "r2"}
  JsonDocs <- MCJsonDocs
  VectorNames = {"v", "f"}
  FilterFields = {"f"}
  HttpSchemas <- MCHttpSchemas
  MaxRequests = 3
  MaxHubEnds = 1
  Remotes = {"p1", "p2"}
  RemoteDocs <- MCRemoteDocs
  MaxCalls = 3
SPECIFICATION ClientsSpec
 
 
INVARIANT HubInv
INVARIANT RemoteInv
 
CHECK_DEADLOCK FALSE
