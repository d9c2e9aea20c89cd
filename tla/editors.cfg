SPECIFICATION Spec
CONSTANTS
  t1 = t1
  t2 = t2
  r1 = r1
  r2 = r2
  api1 = api1
  None = None
  Consumer = consumer
  Routes <- TwoRoutes
  Tenants <- OneTenant
  Api = {api1}
  OrgRules <- ForwardToAll
  TenantRules <- OwnPublishing
  ListFilter <- OwnFilters
  InitialDest <- NoDest
  PushTenants <- OneTenant
  PushStatuses = {"usable", "canceled"}
  PublishRequests <- PublishRouted
  UnpublishRequests <- UnpublishAny
  ArticleRequests <- PatchT1
  PackageRequests = {"canceled"}
  DestinationRequests <- DestinationsT1
  MaxPushes = 2
  MaxRequests = 3
  MaxCrashes = 0
  MaxFailures = 0
INVARIANTS Sound
 
CHECK_DEADLOCK FALSE
