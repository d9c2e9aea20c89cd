SPECIFICATION Spec
CONSTANTS
  t1 = t1
  t2 = t2
  r1 = r1
  r2 = r2
  api1 = api1
  None = None
  Consumer = consumer
  Routes <- TwoRoutes
  Tenants <- OneTenant
  Api = {api1}
  OrgRules <- ForwardToAll
  TenantRules <- OwnPublishing
  ListFilter <- OwnFilters
  InitialDest <- NoDest
  PushTenants <- OneTenant
  PushStatuses = {"usable", "withheld", "canceled"}
  PublishRequests = {}
  UnpublishRequests <- UnpublishAny
  ArticleRequests <- UnpublishT1
  PackageRequests = {}
  DestinationRequests = {}
  MaxPushes = 4
  MaxRequests = 2
  MaxCrashes = 2
  MaxFailures = 0
INVARIANTS TypeOK KilledStaysDown ListedIsPublished PublishedIsListed ListedOnce FreshContent

CHECK_DEADLOCK FALSE
