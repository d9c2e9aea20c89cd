SPECIFICATION Spec
CONSTANTS
  t1 = t1
  t2 = t2
  r1 = r1
  r2 = r2
  api1 = api1
  None = None
  Consumer = consumer
  Routes <- TwoRoutes
  Tenants <- TwoTenants
  Api = {}
  OrgRules <- ForwardToAll
  TenantRules <- OnlyT1Publishing
  ListFilter <- OwnFilters
  InitialDest <- NoDest
  PushTenants <- TwoTenants
  PushStatuses = {"usable"}
  PublishRequests = {}
  UnpublishRequests = {}
  ArticleRequests = {}
  PackageRequests = {}
  DestinationRequests = {}
  MaxPushes = 2
  MaxRequests = 0
  MaxCrashes = 0
  MaxFailures = 0
INVARIANTS OwnLists
CHECK_DEADLOCK FALSE
