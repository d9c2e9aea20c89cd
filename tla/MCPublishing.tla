----------------------------- MODULE MCPublishing -----------------------------
(* Instances of Publishing for TLC: two tenants, a route of each.          *)
EXTENDS Publishing
CONSTANTS t1, t2, r1, r2, api1

OneTenant == {t1}
TwoTenants == {t1, t2}
TwoRoutes == {r1, r2}
All == 1 .. MaxPushes

RouteOf(t) == IF t = t1 THEN r1 ELSE r2
To(t, published) == [tenant |-> t, route |-> RouteOf(t), published |-> published]

ForwardToAll == {[when |-> All, tenants |-> Tenants]}
ForwardToT2 == {[when |-> All, tenants |-> {t2}]}

\* Every tenant publishes what it gets on its own route.
OwnPublishing == [t \in Tenants |-> <<[when |-> All, route |-> RouteOf(t), published |-> "yes"]>>]
\* t1 publishes; t2 routes and leaves publishing to its editors.
OnlyT1Publishing ==
    [t \in Tenants |-> <<[when |-> All, route |-> RouteOf(t),
                          published |-> IF t = t1 THEN "yes" ELSE "no"]>>]
OwnFilters == [t \in Tenants |-> {RouteOf(t)}]

NoDest == [t \in Tenants |-> None]
DestT1 == [t \in Tenants |-> IF t = t1 THEN [route |-> r1, published |-> TRUE] ELSE None]
DraftT1 == [t \in Tenants |-> IF t = t1 THEN [route |-> r1, published |-> FALSE] ELSE None]

PublishRouted == {{To(t1, TRUE)}, {[To(t1, TRUE) EXCEPT !.route = r2]}, {To(t1, FALSE)}}
UnpublishAny == (SUBSET Tenants) \ {{}}
DestinationsT1 == {To(t1, TRUE), To(t1, FALSE)}
UnpublishT1 == {[tenant |-> t1, status |-> "unpublished", route |-> r1]}
PatchT1 == {[tenant |-> t1, status |-> s, route |-> r1] : s \in {"published", "unpublished"}}
=============================================================================
