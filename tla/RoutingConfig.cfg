SPECIFICATION RoutingSpec
CONSTANTS
  None = None
  AnyModel = AnyModel
  Protocols <- MCProtocols
  Features <- MCFeatures
  Adapters <- MCAdapters
  Rank <- MCRank
  Family <- MCFamily
  Files <- MCFiles
  Presets <- MCPresets
  SourceRequests <- MCSourceRequests
  SourceInputs <- MCSourceInputs
  AccountInputs <- MCAccountInputs
  ModelInputs <- MCModelInputs
  BindingInputs <- MCBindingInputs
  RouteIds <- MCRouteIds
  RouteInputs <- MCRouteInputs
  LineLists <- MCLineLists
  CapInputs <- MCCapInputs
  AccountIds = {"a1", "a2", "a3"}
  LogicalModels = {"m", "u"}
  Upstreams <- MCUpstreams
  MaxWrites = 3
  MaxListings = 2
CHECK_DEADLOCK FALSE

    
    
    
PROPERTIES
    FamiliesNeverSpread
