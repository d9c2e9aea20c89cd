SPECIFICATION Spec
CONSTANTS
  t1 = t1
  t2 = t2
  r1 = r1
  r2 = r2
  api1 = api1
  None = None
  Consumer = consumer
  Routes <- TwoRoutes
  Tenants <- TwoTenants
  Api = {}
  OrgRules <- ForwardToAll
  TenantRules <- OwnPublishing
  ListFilter <- OwnFilters
  InitialDest <- NoDest
  PushTenants <- TwoTenants
  PushStatuses = {"usable", "canceled"}
  PublishRequests = {}
  UnpublishRequests = {}
  ArticleRequests = {}
  PackageRequests = {}
  DestinationRequests = {}
  MaxPushes = 4
  MaxRequests = 0
  MaxCrashes = 1
  MaxFailures = 0
INVARIANTS KilledStaysDown FreshContent PackageShowsArticles ContextForgotten PublishedIsListed
CHECK_DEADLOCK FALSE
