------------------------------ MODULE Publishing ------------------------------
(***************************************************************************)
(* The life of one story in Superdesk Publisher.                           *)
(*                                                                         *)
(* Superdesk pushes revisions of a package (`content/push'); they wait in  *)
(* a RabbitMQ queue for the single content_push consumer, which stores the *)
(* package, corrects, cancels or creates its articles (at most one for     *)
(* each tenant) and runs the organisation's and the tenants' rules.        *)
(* Meanwhile editors publish, unpublish and patch through the HTTP API.    *)
(*                                                                         *)
(* Consumer and API requests are PHP processes that share a database.      *)
(* Each has a Doctrine entity manager (em: an identity map whose changes   *)
(* reach the database at a flush), a tenant context with the `tenantable'  *)
(* SQL filter (ctx) and a place in the handler it executes (run). A step   *)
(* of a process is what it does up to one flush or one query: those are    *)
(* the points where another process can get in between.                    *)
(*                                                                         *)
(* The installation modelled has one automatic content list per tenant and *)
(* no bucket list, webhook, output channel or Facebook feed: listeners for *)
(* those return early, but their effect on ctx is kept.                    *)
(***************************************************************************)
EXTENDS Naturals, Sequences, FiniteSets

CONSTANTS
    Tenants,            \* the tenants of the organisation
    Routes,             \* the routes of all tenants
    Api,                \* PHP processes that serve HTTP API requests
    Consumer,           \* the content_push consumer process
    None,               \* null
    OrgRules,           \* organisation rules: which revisions go to which tenants
    TenantRules,        \* the rules of a tenant, highest priority first
    ListFilter,         \* routes named by the criteria of a tenant's automatic list
    InitialDest,        \* publish destinations set up before the first push
    PushTenants,        \* tenants whose API receives the pushes and the requests
    PushStatuses,       \* pubStatus values Superdesk sends
    PublishRequests,    \* bodies of packages/{id}/publish
    UnpublishRequests,  \* bodies of packages/{id}/unpublish
    ArticleRequests,    \* PATCHes of content/articles/{id}
    PackageRequests,    \* pubStatus values of PATCHes of packages/{id}
    DestinationRequests,\* bodies of organization/destinations
    MaxPushes, MaxRequests, MaxCrashes, MaxFailures

Workers == Api \cup {Consumer}
Revs == 1 .. MaxPushes
PubStatuses == {"usable", "withheld", "canceled"}
Statuses == {"new", "published", "unpublished", "canceled"}

Article == [status : Statuses, route : Routes \cup {None}, rev : Revs]
Package == [status : Statuses, pub : PubStatuses, rev : Revs]
Message == [rev : Revs, pub : PubStatuses, tenant : Tenants]
Destination == [tenant : Tenants, route : Routes \cup {None}, published : BOOLEAN]
Target == [route : Routes \cup {None}, published : BOOLEAN]

\* A rule's expression is abstracted to `when', the revisions it is true of;
\* its configuration may leave the published key out.
OrgRule == [when : SUBSET Revs, tenants : SUBSET Tenants]
TenantRule == [when : SUBSET Revs, route : Routes \cup {None},
               published : {"unset", "no", "yes"}]

\* <<list, article>>: the automatic list of one tenant, the article of another.
Entries == Tenants \X Tenants

EntityManager == [pkg : Package \cup {None}, pkg0 : Package \cup {None},
                  art : [Tenants -> Article \cup {None}],
                  art0 : [Tenants -> Article \cup {None}],
                  adds : [Entries -> Nat]]

Context == [tenant : Tenants \cup {None}, filter : Tenants \cup {None}]

Places == {"idle", "onUpdated", "hydrate", "onCanceled", "cancel", "processRules",
           "publish", "populate", "save", "articleRules", "rule", "refresh",
           "dispatch", "processed", "unpublishLoad", "unpublish", "patch"}

Run == [pc : Places, arts : SUBSET Tenants, dests : SUBSET Destination,
        cur : Tenants \cup {None}, wanted : BOOLEAN, created : BOOLEAN,
        rules : Seq(TenantRule), home : Tenants \cup {None},
        from : {"hydrate", "publish", "populate", "none"}]

Budget == [pushes : 0 .. MaxPushes, requests : 0 .. MaxRequests,
           crashes : 0 .. MaxCrashes, failures : 0 .. MaxFailures]

ASSUME ConstantsAssumption ==
    /\ Consumer \notin Api
    /\ None \notin Tenants \cup Routes \cup Article \cup Package \cup Target
    /\ MaxPushes \in Nat /\ MaxRequests \in Nat
    /\ MaxCrashes \in Nat /\ MaxFailures \in Nat
    /\ OrgRules \subseteq OrgRule
    /\ TenantRules \in [Tenants -> Seq(TenantRule)]
    /\ ListFilter \in [Tenants -> SUBSET Routes]
    /\ InitialDest \in [Tenants -> Target \cup {None}]
    /\ PushTenants \subseteq Tenants
    /\ PushStatuses \subseteq PubStatuses
    /\ PublishRequests \subseteq SUBSET Destination
    /\ \A D \in PublishRequests : \A c, d \in D : c.tenant = d.tenant => c = d
    /\ UnpublishRequests \subseteq SUBSET Tenants
    /\ ArticleRequests \subseteq
         [tenant : Tenants, status : Statuses, route : Routes \cup {None}]
    /\ PackageRequests \subseteq PubStatuses
    /\ DestinationRequests \subseteq Destination

VARIABLES
    pkg,      \* table swp_package: the row of the story, None before the first push
    art,      \* table swp_article: the story's article of each tenant
    items,    \* table swp_content_list_item: items of each automatic list
    dest,     \* table swp_publish_destination: the story's destination at each tenant
    queue,    \* the content_push queue; its head is unacknowledged while consumed
    em, ctx, run,
    budget    \* what the environment has done, against the Max bounds

db == <<pkg, art, items>>
vars == <<pkg, art, items, dest, queue, em, ctx, run, budget>>

-----------------------------------------------------------------------------
(* Local state of a process.                                               *)

NoArticles == [t \in Tenants |-> None]
NoItems == [i \in Entries |-> 0]

FreshEm == [pkg |-> None, pkg0 |-> None, art |-> NoArticles, art0 |-> NoArticles,
            adds |-> NoItems]
NoContext == [tenant |-> None, filter |-> None]
Resting == [pc |-> "idle", arts |-> {}, dests |-> {}, cur |-> None, wanted |-> FALSE,
            created |-> FALSE, rules |-> <<>>, home |-> None, from |-> "none"]

TypeOK ==
    /\ pkg \in Package \cup {None}
    /\ art \in [Tenants -> Article \cup {None}]
    /\ items \in [Entries -> Nat]
    /\ dest \in [Tenants -> Target \cup {None}]
    /\ queue \in Seq(Message)
    /\ em \in [Workers -> EntityManager]
    /\ ctx \in [Workers -> Context]
    /\ run \in [Workers -> Run]
    /\ budget \in Budget

At(w, place) == run[w].pc = place
Go(w, r) == run' = [run EXCEPT ![w] = r]

\* Mutant of TenantSet: the filter is switched, the tenant is not set.
TenantUnset(t) == [tenant |-> None, filter |-> t]

\* CachedTenantContext::setTenant also switches the filter to the new tenant.
TenantSet(t) == [tenant |-> t, filter |-> t]
Enabled(c) == [c EXCEPT !.filter = IF c.tenant = None THEN c.filter ELSE c.tenant]
Disabled(c) == [c EXCEPT !.filter = None]
SetCtx(w, c) == ctx' = [ctx EXCEPT ![w] = c]

-----------------------------------------------------------------------------
(* Doctrine: what a flush writes.                                          *)

\* Only the fields a process changed since it loaded the row are written.
MergedArticle(row, new, old) ==
    CASE new = None -> row
      [] new # None /\ (old = None \/ row = None) -> new
      [] OTHER -> [status |-> IF new.status # old.status THEN new.status ELSE row.status,
                   route  |-> IF new.route # old.route THEN new.route ELSE row.route,
                   rev    |-> IF new.rev # old.rev THEN new.rev ELSE row.rev]

MergedPackage(row, new, old) ==
    CASE new = None -> row
      [] new # None /\ (old = None \/ row = None) -> new
      [] OTHER -> [status |-> IF new.status # old.status THEN new.status ELSE row.status,
                   pub    |-> IF new.pub # old.pub THEN new.pub ELSE row.pub,
                   rev    |-> IF new.rev # old.rev THEN new.rev ELSE row.rev]

\* An INSERT of an article the tenant already has breaks the unique index on
\* slug and tenant of the articles that are not deleted.
Conflict(e) == \E t \in Tenants : e.art[t] # None /\ e.art0[t] = None /\ art[t] # None

Clean(e) == [e EXCEPT !.pkg0 = e.pkg, !.art0 = e.art, !.adds = NoItems]

\* The database after process state e is flushed; left is the content of the
\* lists once the removed items are gone.
Flush(e, left) ==
    /\ ~Conflict(e)
    /\ pkg' = MergedPackage(pkg, e.pkg, e.pkg0)
    /\ art' = [t \in Tenants |-> MergedArticle(art[t], e.art[t], e.art0[t])]
    /\ items' = [i \in Entries |-> left[i] + e.adds[i]]

Keep(w, e) == em' = [em EXCEPT ![w] = e]
FlushOf(w, e, left) == Flush(e, left) /\ Keep(w, Clean(e))

\* The identity map: a query returns the managed object if there is one.
WithArticles(e, T) ==
    [e EXCEPT !.art = [t \in Tenants |-> IF t \in T /\ e.art[t] = None
                                           THEN art[t] ELSE e.art[t]],
              !.art0 = [t \in Tenants |-> IF t \in T /\ e.art[t] = None
                                            THEN art[t] ELSE e.art0[t]]]

WithPackage(e) ==
    IF e.pkg = None THEN [e EXCEPT !.pkg = pkg, !.pkg0 = pkg] ELSE e

Existing == {t \in Tenants : art[t] # None}

-----------------------------------------------------------------------------
(* Events and their listeners.                                             *)

IsPublished(e, t) == e.art[t].status = "published"

\* Mutant of PackageStatus: setPubStatus is called instead of setStatus.
PubStatusInstead(e, status) ==
    IF e.pkg.pub = "usable" THEN [e EXCEPT !.pkg.pub = status] ELSE e

PackageStatus(e, status) ==
    IF e.pkg.pub = "usable" THEN [e EXCEPT !.pkg.status = status] ELSE e

\* Mutant of PackageCanceled: the listener is not registered.
PackageUntouched(e) == e

PackageCanceled(e) ==
    IF e.pkg.pub = "canceled" THEN [e EXCEPT !.pkg.status = "canceled"] ELSE e

\* Mutant of Withdrawn: the wrong one of two statuses.
WithdrawnAsCanceled(e, t) ==
    PackageStatus([e EXCEPT !.art[t].status = "canceled"], "unpublished")

\* swp.article.unpublish of a published article, as far as they go.
Withdrawn(e, t) ==
    PackageStatus([e EXCEPT !.art[t].status = "unpublished"], "unpublished")

\* swp.article.publish, as far as the article and the package go.
AfterPublish(e, t) ==
    IF IsPublished(e, t) THEN e
    ELSE PackageStatus([e EXCEPT !.art[t].status = "published"], "published")

\* ArticleCriteriaMatcher on the routes of a list's criteria.
Matches(list, route) ==
    /\ ListFilter[list] # {}
    /\ \A r \in ListFilter[list] : route # None => r = route

\* swp.article.publish, as far as the automatic list of the current tenant
\* goes: a matching article is added (again), the item of another is removed.
Listed(w, e, t) ==
    LET l == ctx[w].tenant IN
    IF Matches(l, e.art[t].route) THEN [e EXCEPT !.adds[<<l, t>>] = @ + 1] ELSE e

\* The items findItemByArticleAndList sees: the filter is that of tenant l.
Found(w, t) == LET l == ctx[w].tenant IN IF l = t THEN items[<<l, t>>] ELSE 0

MustUnlist(w, e, t) == ~Matches(ctx[w].tenant, e.art[t].route) /\ Found(w, t) = 1
Unlisted(w, t) == [items EXCEPT ![<<ctx[w].tenant, t>>] = 0]
NonUnique(w, e, t) == ~Matches(ctx[w].tenant, e.art[t].route) /\ Found(w, t) > 1

\* HandleArticleChangeSubscriber: items of an article that is not published
\* are removed, as far as the filter shows them.
Visible(c, i) == c.filter = None \/ (c.filter = i[1] /\ c.filter = i[2])

\* Mutant of Refreshed: no item is removed.
RefreshedKeeping(c, e, t) == items

\* Mutant of Refreshed: the items of a published article are removed as well.
RefreshedAlways(c, e, t) ==
    [i \in Entries |-> IF i[2] = t /\ Visible(c, i) THEN 0 ELSE items[i]]

Refreshed(c, e, t) ==
    [i \in Entries |-> IF i[2] = t /\ ~IsPublished(e, t) /\ Visible(c, i)
                         THEN 0 ELSE items[i]]

-----------------------------------------------------------------------------
(* Superdesk.                                                              *)

Init ==
    /\ pkg = None
    /\ art = NoArticles
    /\ items = NoItems
    /\ dest = InitialDest
    /\ queue = <<>>
    /\ em = [w \in Workers |-> FreshEm]
    /\ ctx = [w \in Workers |-> NoContext]
    /\ run = [w \in Workers |-> Resting]
    /\ budget = [pushes |-> 0, requests |-> 0, crashes |-> 0, failures |-> 0]

\* POST content/push: the package is queued with the tenant that received it.
Push ==
    /\ budget.pushes < MaxPushes
    /\ \E p \in PushStatuses, t \in PushTenants :
         queue' = Append(queue, [rev |-> budget.pushes + 1, pub |-> p, tenant |-> t])
    /\ budget' = [budget EXCEPT !.pushes = @ + 1]
    /\ UNCHANGED <<db, dest, em, ctx, run>>

-----------------------------------------------------------------------------
(* The consumer: package.                                                  *)

\* A first revision is added; a later one is merged over the package found by
\* guid, whose status it keeps.
Receive ==
    LET w == Consumer
        m == Head(queue)
        e == WithPackage(em[w])
        row(status) == [status |-> status, pub |-> m.pub, rev |-> m.rev]
        new == e.pkg = None
        r == [Resting EXCEPT !.pc = IF new THEN "processRules" ELSE "onUpdated"]
    IN /\ queue # <<>>
       /\ At(w, "idle")
       /\ FlushOf(w, [e EXCEPT !.pkg = row(IF new THEN "new" ELSE e.pkg.status)], items)
       /\ SetCtx(w, TenantSet(m.tenant))
       /\ Go(w, r)
       /\ UNCHANGED <<dest, queue, budget>>

\* UpdatedPackageListener loads the articles of all tenants ...
OnUpdated(w) ==
    /\ At(w, "onUpdated")
    /\ IF em[w].pkg.pub = "usable"
       THEN /\ Keep(w, WithArticles(em[w], Existing))
            /\ SetCtx(w, Disabled(ctx[w]))
            /\ Go(w, [run[w] EXCEPT !.pc = "hydrate", !.arts = Existing, !.from = "hydrate"])
       ELSE /\ Go(w, [run[w] EXCEPT !.pc = "onCanceled"])
            /\ UNCHANGED <<em, ctx>>
    /\ UNCHANGED <<db, dest, queue, budget>>

\* ... and copies the revision to each, still in the context of the tenant
\* that received the push.
Hydrate(w) ==
    /\ At(w, "hydrate")
    /\ \E t \in run[w].arts :
         /\ FlushOf(w, [em[w] EXCEPT !.art[t].rev = em[w].pkg.rev], items)
         /\ Go(w, [run[w] EXCEPT !.pc = "articleRules", !.arts = @ \ {t}, !.cur = t,
                                 !.wanted = FALSE, !.created = FALSE])
    /\ UNCHANGED <<dest, queue, ctx, budget>>

\* Mutant of Hydrated: the loop ends early.
HydratedEarly(w) ==
    /\ At(w, "hydrate")
    /\ SetCtx(w, Enabled(ctx[w]))
    /\ Go(w, [run[w] EXCEPT !.pc = "onCanceled", !.arts = {}])
    /\ UNCHANGED <<db, dest, queue, em, budget>>

Hydrated(w) ==
    /\ At(w, "hydrate")
    /\ run[w].arts = {}
    /\ SetCtx(w, Enabled(ctx[w]))
    /\ Go(w, [run[w] EXCEPT !.pc = "onCanceled"])
    /\ UNCHANGED <<db, dest, queue, em, budget>>

\* Mutant of Killed: every status but usable counts.
KilledOrWithheld(e) == e.pkg.pub # "usable"

Killed(e) == e.pkg.pub = "canceled"

\* CanceledPackageListener loads the articles of all tenants ...
OnCanceled(w) ==
    /\ At(w, "onCanceled")
    /\ IF Killed(em[w])
       THEN /\ Keep(w, WithArticles(em[w], Existing))
            /\ SetCtx(w, Disabled(ctx[w]))
            /\ Go(w, [run[w] EXCEPT !.pc = "cancel", !.arts = Existing])
       ELSE /\ Go(w, [run[w] EXCEPT !.pc = "processRules"])
            /\ UNCHANGED <<em, ctx>>
    /\ UNCHANGED <<db, dest, queue, budget>>

\* ... and cancels each: HandleArticleChangeSubscriber flushes, then the
\* webhook subscriber enables the filter of the push tenant, and only then
\* PackageStatusListener marks the package, in memory.
Cancel(w) ==
    /\ At(w, "cancel")
    /\ \E t \in run[w].arts :
         LET e == [em[w] EXCEPT !.art[t].status = "canceled"] IN
         /\ Flush(e, Refreshed(ctx[w], e, t))
         /\ Keep(w, PackageCanceled(Clean(e)))
         /\ Go(w, [run[w] EXCEPT !.arts = @ \ {t}])
    /\ SetCtx(w, Enabled(ctx[w]))
    /\ UNCHANGED <<dest, queue, budget>>

Canceled(w) ==
    /\ At(w, "cancel")
    /\ run[w].arts = {}
    /\ FlushOf(w, em[w], items)
    /\ SetCtx(w, Enabled(ctx[w]))
    /\ Go(w, [run[w] EXCEPT !.pc = "processRules"])
    /\ UNCHANGED <<dest, queue, budget>>

-----------------------------------------------------------------------------
(* The consumer: organisation rules and publish destinations.              *)

Forwarded(rev) == UNION {r.tenants : r \in {o \in OrgRules : rev \in o.when}}

\* Mutant of PopulatedTenants: pubStatus is not looked at.
PopulatedAnyway(p) == Forwarded(p.rev)

\* PackageRuleApplicator populates nothing from a canceled package.
PopulatedTenants(p) == IF p.pub = "canceled" THEN {} ELSE Forwarded(p.rev)

\* The tenant rule that counts is the last that matches and names a route:
\* the one of lowest priority. A published key counts as true if it is there.
RuleDestination(t, rev) ==
    LET rs == TenantRules[t]
        M == {i \in DOMAIN rs : rev \in rs[i].when /\ rs[i].route # None}
        last == CHOOSE i \in M : \A j \in M : j <= i
    IN IF M = {} THEN [tenant |-> t, route |-> None, published |-> FALSE]
       ELSE [tenant |-> t, route |-> rs[last].route,
             published |-> rs[last].published # "unset"]

\* RulesMatcher: the destinations, and the tenants rules forward to that have none.
MatchedDestinations(rev) ==
    {[tenant |-> t, route |-> dest[t].route, published |-> dest[t].published] :
        t \in {u \in Tenants : dest[u] # None}}
    \cup {RuleDestination(t, rev) : t \in {u \in Forwarded(rev) : dest[u] = None}}

\* With a destination the package is published to the destinations, whatever
\* its pubStatus; without, organisation rules populate articles, unless it is
\* canceled.
ProcessRules(w) ==
    LET p == em[w].pkg IN
    /\ At(w, "processRules")
    /\ IF \E t \in Tenants : dest[t] # None
       THEN /\ Go(w, [run[w] EXCEPT !.pc = "publish", !.from = "publish",
                        !.dests = MatchedDestinations(p.rev), !.home = ctx[w].tenant])
            /\ SetCtx(w, Enabled(ctx[w]))
       ELSE /\ Go(w, [run[w] EXCEPT !.pc = "populate", !.from = "populate",
                        !.dests = {[tenant |-> t, route |-> None, published |-> FALSE] :
                                     t \in PopulatedTenants(p)},
                        !.home = ctx[w].tenant])
            /\ SetCtx(w, Disabled(ctx[w]))
    /\ UNCHANGED <<db, dest, queue, em, budget>>

\* ArticlePopulator: a tenant that has the article is skipped.
Populate(w) ==
    /\ At(w, "populate")
    /\ \E d \in run[w].dests :
         LET t == d.tenant
             rest == [run[w] EXCEPT !.dests = @ \ {d}]
         IN /\ SetCtx(w, TenantSet(t))
            /\ IF art[t] # None
               THEN /\ Keep(w, WithArticles(em[w], {t}))
                    /\ Go(w, rest)
               ELSE /\ Keep(w, [em[w] EXCEPT !.art0[t] = None, !.art[t] =
                          [status |-> "new", route |-> None, rev |-> em[w].pkg.rev]])
                    /\ Go(w, [rest EXCEPT !.pc = "save", !.cur = t,
                                          !.created = TRUE, !.wanted = FALSE])
    /\ UNCHANGED <<db, dest, queue, budget>>

Populated(w) ==
    /\ At(w, "populate")
    /\ run[w].dests = {}
    /\ SetCtx(w, Enabled([ctx[w] EXCEPT !.tenant = run[w].home]))
    /\ Go(w, [run[w] EXCEPT !.pc = "processed"])
    /\ UNCHANGED <<db, dest, queue, em, budget>>

\* Mutant of Processed: the tenant is not reset.
ProcessedForTenant(w) ==
    /\ At(w, "processed")
    /\ queue' = Tail(queue)
    /\ Keep(w, FreshEm)
    /\ Go(w, Resting)
    /\ UNCHANGED <<db, dest, ctx, budget>>

\* Mutant of Processed: the message is requeued instead of acknowledged.
ProcessedRequeued(w) ==
    /\ At(w, "processed")
    /\ Keep(w, FreshEm)
    /\ SetCtx(w, [ctx[w] EXCEPT !.tenant = None])
    /\ Go(w, Resting)
    /\ UNCHANGED <<db, dest, queue, budget>>

\* The tenant context is forgotten, the filter is not.
Processed(w) ==
    /\ At(w, "processed")
    /\ queue' = Tail(queue)
    /\ Keep(w, FreshEm)
    /\ SetCtx(w, [ctx[w] EXCEPT !.tenant = None])
    /\ Go(w, Resting)
    /\ UNCHANGED <<db, dest, budget>>

-----------------------------------------------------------------------------
(* ArticlePublisher::publish, for the consumer and for API requests.       *)

\* The article of the destination's tenant is found and routed, or created.
Publish(w) ==
    /\ At(w, "publish")
    /\ \E d \in run[w].dests :
         LET t == d.tenant
             found == art[t] # None
             e == IF found THEN WithArticles(em[w], {t}) ELSE em[w]
         IN /\ SetCtx(w, TenantSet(t))
            /\ Keep(w, IF found THEN [e EXCEPT !.art[t].route = d.route]
                       ELSE [e EXCEPT !.art0[t] = None, !.art[t] =
                               [status |-> "new", route |-> d.route, rev |-> e.pkg.rev]])
            /\ Go(w, [run[w] EXCEPT !.pc = "save", !.cur = t, !.dests = @ \ {d},
                                    !.wanted = d.published, !.created = ~found])
    /\ UNCHANGED <<db, dest, queue, budget>>

\* The response ends an API process; the consumer goes on.
PublishDone(w) ==
    /\ At(w, "publish")
    /\ run[w].dests = {}
    /\ IF w = Consumer
       THEN /\ SetCtx(w, TenantSet(run[w].home))
            /\ Go(w, [run[w] EXCEPT !.pc = "processed"])
            /\ UNCHANGED em
       ELSE /\ SetCtx(w, NoContext)
            /\ Go(w, Resting)
            /\ Keep(w, FreshEm)
    /\ UNCHANGED <<db, dest, queue, budget>>

Save(w) ==
    /\ At(w, "save")
    /\ FlushOf(w, em[w], items)
    /\ Go(w, [run[w] EXCEPT !.pc = "articleRules"])
    /\ UNCHANGED <<dest, queue, ctx, budget>>

\* Mutants of RulesSkipped: one of its two conditions is dropped.
RulesSkippedIfPlaced(w) == dest[ctx[w].tenant] # None
RulesSkippedIfPublished(w) == IsPublished(em[w], run[w].cur)

\* post_create and post_update: the rules of the CURRENT tenant are run unless
\* it has a destination for the package or the article is published.
RulesSkipped(w) == dest[ctx[w].tenant] # None \/ IsPublished(em[w], run[w].cur)

ArticleRules(w) ==
    /\ At(w, "articleRules")
    /\ IF RulesSkipped(w)
       THEN /\ Go(w, [run[w] EXCEPT !.pc = IF run[w].created THEN "dispatch" ELSE "refresh"])
            /\ SetCtx(w, IF run[w].created THEN Enabled(ctx[w]) ELSE ctx[w])
       ELSE /\ Go(w, [run[w] EXCEPT !.pc = "rule", !.rules = TenantRules[ctx[w].tenant]])
            /\ SetCtx(w, Enabled(ctx[w]))
    /\ UNCHANGED <<db, dest, queue, em, budget>>

\* Every rule whose expression holds is applied. Removing an item flushes.
Rule(w) ==
    LET t == run[w].cur
        r == Head(run[w].rules)
        a == em[w].art[t]
        applies == a.rev \in r.when
        routed == IF applies /\ r.route # None
                    THEN [em[w] EXCEPT !.art[t].route = r.route] ELSE em[w]
        e == AfterPublish(routed, t)
    IN /\ At(w, "rule")
       /\ run[w].rules # <<>>
       /\ \/ /\ ~(applies /\ r.published = "yes")
             /\ Keep(w, routed)
             /\ UNCHANGED <<db, ctx>>
          \/ /\ applies /\ r.published = "yes"
             /\ ~NonUnique(w, e, t)
             /\ IF MustUnlist(w, e, t)
                THEN FlushOf(w, e, Unlisted(w, t))
                ELSE Keep(w, Listed(w, e, t)) /\ UNCHANGED db
             /\ SetCtx(w, Disabled(ctx[w]))
       /\ Go(w, [run[w] EXCEPT !.rules = Tail(@)])
       /\ UNCHANGED <<dest, queue, budget>>

\* TenantAwareRuleProcessor leaves the filter disabled.
RulesDone(w) ==
    /\ At(w, "rule")
    /\ run[w].rules = <<>>
    /\ IF run[w].created
       THEN /\ Go(w, [run[w] EXCEPT !.pc = "dispatch"])
            /\ SetCtx(w, Enabled(ctx[w]))
       ELSE /\ Go(w, [run[w] EXCEPT !.pc = "refresh"])
            /\ SetCtx(w, Disabled(ctx[w]))
    /\ UNCHANGED <<db, dest, queue, em, budget>>

Refresh(w) ==
    /\ At(w, "refresh")
    /\ FlushOf(w, em[w], Refreshed(ctx[w], em[w], run[w].cur))
    /\ SetCtx(w, Enabled(ctx[w]))
    /\ Go(w, [run[w] EXCEPT !.pc = IF run[w].from = "hydrate" THEN "hydrate" ELSE "dispatch"])
    /\ UNCHANGED <<dest, queue, budget>>

\* swp.article.publish if the destination says so, and the flush after it.
Dispatch(w) ==
    LET t == run[w].cur
        e == AfterPublish(em[w], t)
    IN /\ At(w, "dispatch")
       /\ IF run[w].wanted
          THEN /\ ~NonUnique(w, e, t)
               /\ FlushOf(w, Listed(w, e, t),
                          IF MustUnlist(w, e, t) THEN Unlisted(w, t) ELSE items)
               /\ SetCtx(w, Disabled(ctx[w]))
          ELSE FlushOf(w, em[w], items) /\ UNCHANGED ctx
       /\ Go(w, [run[w] EXCEPT !.pc = run[w].from])
       /\ UNCHANGED <<dest, queue, budget>>

-----------------------------------------------------------------------------
(* API requests.                                                           *)

Accept(w) ==
    /\ w \in Api
    /\ At(w, "idle")
    /\ budget.requests < MaxRequests
    /\ budget' = [budget EXCEPT !.requests = @ + 1]

\* packages/{id}/publish: the package is loaded with the filter disabled.
PublishPackage(w) ==
    /\ Accept(w)
    /\ pkg # None
    /\ \E D \in PublishRequests, t \in PushTenants :
         /\ SetCtx(w, [tenant |-> t, filter |-> None])
         /\ Go(w, [Resting EXCEPT !.pc = "publish", !.from = "publish",
                                  !.dests = D, !.home = t])
    /\ Keep(w, WithPackage(em[w]))
    /\ UNCHANGED <<db, dest, queue>>

\* packages/{id}/unpublish: the package first, its articles when the loop starts.
UnpublishPackage(w) ==
    /\ Accept(w)
    /\ pkg # None
    /\ \E T \in UnpublishRequests, t \in PushTenants :
         /\ SetCtx(w, [tenant |-> t, filter |-> None])
         /\ Go(w, [Resting EXCEPT !.pc = "unpublishLoad", !.arts = T])
    /\ Keep(w, WithPackage(em[w]))
    /\ UNCHANGED <<db, dest, queue>>

UnpublishLoad(w) ==
    /\ At(w, "unpublishLoad")
    /\ Keep(w, WithArticles(em[w], Existing))
    /\ Go(w, [run[w] EXCEPT !.pc = "unpublish", !.arts = @ \cap Existing])
    /\ UNCHANGED <<db, dest, queue, ctx, budget>>

\* ArticlePublisher::unpublish of one article, in its own tenant's context.
Unpublish(w) ==
    /\ At(w, "unpublish")
    /\ \E t \in run[w].arts :
         LET e == Withdrawn(em[w], t) IN
            /\ IF IsPublished(em[w], t)
               THEN FlushOf(w, e, Refreshed(TenantSet(t), e, t))
               ELSE UNCHANGED <<db, em>>
            /\ SetCtx(w, TenantSet(t))
            /\ Go(w, [run[w] EXCEPT !.arts = @ \ {t}])
    /\ UNCHANGED <<dest, queue, budget>>

Unpublished(w) ==
    /\ At(w, "unpublish")
    /\ run[w].arts = {}
    /\ Keep(w, FreshEm)
    /\ SetCtx(w, NoContext)
    /\ Go(w, Resting)
    /\ UNCHANGED <<db, dest, queue, budget>>

\* PATCH content/articles/{id}: the form writes status and route into the
\* article loaded under the filter of its tenant ...
PatchArticle(w) ==
    /\ Accept(w)
    /\ \E r \in ArticleRequests :
         LET t == r.tenant IN
         /\ art[t] # None
         /\ Keep(w, [WithArticles(em[w], {t}) EXCEPT
                       !.art[t] = [art[t] EXCEPT !.status = r.status, !.route = r.route]])
         /\ SetCtx(w, TenantSet(t))
         /\ Go(w, [Resting EXCEPT !.pc = "patch", !.cur = t])
    /\ UNCHANGED <<db, dest, queue>>

\* ... and ArticleService::reactOnStatusChange follows a changed status. It
\* does not dispatch swp.article.publish: no list gets the article.
ReactOnStatusChange(w) ==
    LET t == run[w].cur
        changed == em[w].art[t].status # em[w].art0[t].status
        loaded == WithPackage(em[w])
        e == IF ~changed THEN em[w]
             ELSE PackageStatus(loaded, IF IsPublished(loaded, t) THEN "published"
                                        ELSE "unpublished")
    IN /\ At(w, "patch")
       /\ Flush(e, IF changed THEN Refreshed(ctx[w], e, t) ELSE items)
       /\ Keep(w, FreshEm)
       /\ SetCtx(w, NoContext)
       /\ Go(w, Resting)
       /\ UNCHANGED <<dest, queue, budget>>

\* PATCH packages/{id} changes the package and none of its articles.
PatchPackage(w) ==
    /\ Accept(w)
    /\ pkg # None
    /\ \E p \in PackageRequests :
         pkg' = [pkg EXCEPT !.pub = p, !.status = IF p = "canceled" THEN "canceled" ELSE @]
    /\ UNCHANGED <<art, items, dest, queue, em, ctx, run>>

\* POST organization/destinations: one destination per tenant.
CreateDestination(w) ==
    /\ Accept(w)
    /\ \E d \in DestinationRequests :
         dest' = [dest EXCEPT ![d.tenant] = [route |-> d.route, published |-> d.published]]
    /\ UNCHANGED <<db, queue, em, ctx, run>>

-----------------------------------------------------------------------------
(* Failures.                                                               *)

\* Everything the process had not flushed is lost. An unacknowledged message
\* is delivered again, first.
Restart(w) == Keep(w, FreshEm) /\ SetCtx(w, NoContext) /\ Go(w, Resting)

Crash(w) ==
    /\ ~At(w, "idle")
    /\ budget.crashes < MaxCrashes
    /\ budget' = [budget EXCEPT !.crashes = @ + 1]
    /\ Restart(w)
    /\ UNCHANGED <<db, dest, queue>>

\* No prefetch limit is set: a rejected message comes back behind those that
\* were already delivered.
Requeued(q) ==
    {SubSeq(q, 2, i) \o <<Head(q)>> \o SubSeq(q, i + 1, Len(q)) : i \in 1 .. Len(q)}

\* Any other exception: the message is requeued, and entity manager and
\* context stay as they are.
Reject ==
    /\ ~At(Consumer, "idle")
    /\ budget.failures < MaxFailures
    /\ budget' = [budget EXCEPT !.failures = @ + 1]
    /\ queue' \in Requeued(queue)
    /\ Go(Consumer, Resting)
    /\ UNCHANGED <<db, dest, em, ctx>>

\* An INSERT breaks the unique index. The entity manager is closed, which
\* ends the process at its next message.
UniqueViolation(w) ==
    /\ Conflict(em[w])
    /\ run[w].pc \in {"idle", "save", "hydrate", "cancel", "refresh", "dispatch"}
    /\ IF w = Consumer THEN queue' \in Requeued(queue) ELSE UNCHANGED queue
    /\ Restart(w)
    /\ UNCHANGED <<db, dest, budget>>

\* getOneOrNullResult finds two items of the article in the list: an
\* ORMException, which ends the process.
NonUniqueResult(w) ==
    LET t == run[w].cur
        r == Head(run[w].rules)
        a == em[w].art[t]
    IN /\ \/ /\ At(w, "rule")
             /\ run[w].rules # <<>>
             /\ a.rev \in r.when /\ r.published = "yes"
             /\ NonUnique(w, IF r.route = None THEN em[w]
                             ELSE [em[w] EXCEPT !.art[t].route = r.route], t)
          \/ At(w, "dispatch") /\ run[w].wanted /\ NonUnique(w, em[w], t)
       /\ Restart(w)
       /\ UNCHANGED <<db, dest, queue, budget>>

-----------------------------------------------------------------------------

Handle(w) ==
    \/ Publish(w) \/ PublishDone(w) \/ Save(w)
    \/ ArticleRules(w) \/ Rule(w) \/ RulesDone(w) \/ Refresh(w) \/ Dispatch(w)
    \/ UniqueViolation(w) \/ NonUniqueResult(w)

Consume ==
    \/ Receive \/ OnUpdated(Consumer) \/ Hydrate(Consumer) \/ Hydrated(Consumer)
    \/ OnCanceled(Consumer) \/ Cancel(Consumer) \/ Canceled(Consumer)
    \/ ProcessRules(Consumer) \/ Populate(Consumer) \/ Populated(Consumer)
    \/ Processed(Consumer) \/ Handle(Consumer)

Request(w) ==
    \/ PublishPackage(w) \/ UnpublishPackage(w) \/ PatchArticle(w)
    \/ PatchPackage(w) \/ CreateDestination(w)

Respond(w) ==
    \/ UnpublishLoad(w) \/ Unpublish(w) \/ Unpublished(w)
    \/ ReactOnStatusChange(w) \/ Handle(w)

Next ==
    \/ Push
    \/ Consume
    \/ \E w \in Api : Request(w) \/ Respond(w)
    \/ \E w \in Workers : Crash(w)
    \/ Reject

\* The supervisor restarts the consumer, and PHP runs a request to its end.
Spec == /\ Init /\ [][Next]_vars
        /\ WF_vars(Consume)
        /\ \A w \in Api : WF_vars(Respond(w))

-----------------------------------------------------------------------------
(* What a process relies on at each place.                                 *)

PackagePlaces == Places \ {"idle", "patch"}
ArticlePlaces == {"save", "articleRules", "rule", "refresh", "dispatch", "patch"}
ContextPlaces == {"onUpdated", "hydrate", "save", "articleRules", "rule", "refresh", "dispatch"}
LoopPlaces == {"hydrate", "publish", "populate", "save", "articleRules", "rule", "refresh",
               "dispatch"}

\* Entity manager e, context c and place r of a process, with the package row p.
Fit(e, c, r, p) ==
    /\ r.pc \in PackagePlaces => e.pkg # None
    /\ e.pkg # None => p # None
    /\ \A t \in Tenants : e.art[t] # None => p # None
    /\ r.pc \in ArticlePlaces => r.cur # None /\ e.art[r.cur] # None
    /\ r.pc # "unpublishLoad" => \A t \in r.arts : e.art[t] # None
    /\ r.pc \in ContextPlaces => c.tenant # None
    /\ r.pc \in LoopPlaces => r.from # "none"

\* No handler meets a null it does not expect: every object it works on is loaded,
\* an article has a package (PackageStatusListener::getPackage throws otherwise)
\* and the consumer holds a message while it works.
Sound ==
    /\ \A t \in Tenants : art[t] # None => pkg # None
    /\ \A w \in Workers : Fit(em[w], ctx[w], run[w], pkg)
    /\ ~At(Consumer, "idle") => queue # <<>>

-----------------------------------------------------------------------------
(* Properties.                                                             *)

Quiet == queue = <<>> /\ \A w \in Workers : At(w, "idle")

\* Once a killed package (pubStatus canceled) has been processed, none of its
\* articles is public (CanceledPackageListener; docs/content_publishing.rst).
KilledStaysDown ==
    Quiet /\ pkg # None /\ pkg.pub = "canceled" =>
        \A t \in Existing : art[t].status # "published"

\* Automatic lists hold published articles only (HandleArticleChangeSubscriber).
ListedIsPublished ==
    Quiet => \A i \in Entries : items[i] > 0 =>
                 art[i[2]] # None /\ art[i[2]].status = "published"

\* A published article that meets the criteria of its tenant's automatic list is
\* in it (docs/cookbooks/developers/content_lists.rst, "How articles are being
\* added to Automatic Content Lists").
PublishedIsListed ==
    Quiet => \A t \in Existing :
        art[t].status = "published" /\ Matches(t, art[t].route) => items[<<t, t>>] > 0

\* A list holds an article at most once, over corrections and redeliveries
\* (AddArticleToListListener adds without looking).
ListedOnce == \A i \in Entries : items[i] <= 1

\* A tenant's list holds, and a tenant's rules route, the tenant's own articles
\* only: docs/cookbooks/developers/rules.rst has tenant rules `applied to the
\* level of tenant'.
OwnLists == \A i \in Entries : items[i] > 0 => i[1] = i[2]

\* Every article shows the last revision pushed, whatever crashed meanwhile
\* (UpdatedPackageListener corrects one article per flush).
FreshContent ==
    Quiet /\ pkg # None /\ pkg.pub = "usable" =>
        \A t \in Existing : art[t].rev = budget.pushes

\* The package counts as published only while one of its articles is
\* (PackageStatusListener, MergePackageListener).
PackageShowsArticles ==
    Quiet /\ pkg # None /\ pkg.status = "published" =>
        \E t \in Existing : art[t].status = "published"

\* A destination decides: where the story has one, its article ends up on the
\* destination's route, published if the destination says so, whatever the
\* tenant's rules are (ProcessOrganizationRulesSubscriber).
DestinationDecides ==
    Quiet /\ pkg # None => \A t \in Tenants : dest[t] # None =>
        /\ art[t] # None
        /\ art[t].route = dest[t].route
        /\ dest[t].published <=> art[t].status = "published"

\* An article is canceled only while its package is killed.
CancelOnlyKilled ==
    [][\A t \in Tenants :
         art'[t] # None /\ art'[t].status = "canceled"
           /\ (art[t] = None \/ art[t].status # "canceled")
         => pkg # None /\ pkg.pub = "canceled"]_vars

\* A process that rests has forgotten whom it worked for, so that nothing of one
\* message is done in the name of the tenant of another (ContentPushConsumer::reset).
ContextForgotten ==
    \A w \in Workers : At(w, "idle") => ctx[w].tenant = None /\ em[w] = FreshEm

\* Every pushed message is handled in the end.
QueueDrains == []<>(queue = <<>>)
=============================================================================
