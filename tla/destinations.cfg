SPECIFICATION Spec
CONSTANTS
  t1 = t1
  t2 = t2
  r1 = r1
  r2 = r2
  api1 = api1
  None = None
  Consumer = consumer
  Routes <- TwoRoutes
  Tenants <- TwoTenants
  Api = {}
  OrgRules <- ForwardToT2
  TenantRules <- OwnPublishing
  ListFilter <- OwnFilters
  InitialDest <- DraftT1
  PushTenants <- OneTenant
  PushStatuses = {"usable", "canceled"}
  PublishRequests = {}
  UnpublishRequests = {}
  ArticleRequests = {}
  PackageRequests = {}
  DestinationRequests = {}
  MaxPushes = 3
  MaxRequests = 0
  MaxCrashes = 1
  MaxFailures = 1
INVARIANTS DestinationDecides Sound
PROPERTIES QueueDrains
CHECK_DEADLOCK FALSE
