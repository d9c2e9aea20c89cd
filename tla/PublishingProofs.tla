--------------------------- MODULE PublishingProofs ---------------------------
(***************************************************************************)
(* Proofs about Publishing: every state is well typed and no process meets *)
(* a null it does not expect, for every number of tenants, API processes,  *)
(* rules, requests and failures.                                           *)
(*                                                                         *)
(* TypeOK alone is not inductive: a handler that works on an object which  *)
(* was not loaded would leave the types. Inv adds Sound, which says what   *)
(* is loaded at each place.                                                *)
(***************************************************************************)
EXTENDS Publishing, SequenceTheorems, WellFoundedInduction, TLAPS

Inv == TypeOK /\ Sound

-----------------------------------------------------------------------------
(* Entity managers.                                                        *)

\* A package object is no null, and so forth: None is outside of every table.
LEMMA NoneIsNothing ==
    /\ None \notin Tenants
    /\ None \notin Routes
    /\ None \notin Article
    /\ None \notin Package
    /\ None \notin Target
BY ConstantsAssumption DEF ConstantsAssumption

\* The consumer is a worker that serves no requests.
LEMMA ConsumerWorks == Consumer \in Workers /\ Consumer \notin Api
BY ConstantsAssumption DEF ConstantsAssumption, Workers

\* An empty entity manager is one.
LEMMA FreshEmType == FreshEm \in EntityManager
BY DEF FreshEm, EntityManager, NoArticles, NoItems

\* What a flush writes into the package row is a package, and never removes it
\* (UnitOfWork::computeChangeSets).
LEMMA MergedPackageType ==
    ASSUME NEW row \in Package \cup {None}, NEW new \in Package \cup {None},
           NEW old \in Package \cup {None}
    PROVE  /\ MergedPackage(row, new, old) \in Package \cup {None}
           /\ row # None \/ new # None => MergedPackage(row, new, old) # None
<1>1. CASE new = None
  BY <1>1 DEF MergedPackage
<1>2. CASE new # None /\ (old = None \/ row = None)
  BY <1>2 DEF MergedPackage
<1>3. CASE new # None /\ old # None /\ row # None
  <2>1. MergedPackage(row, new, old) \in Package
    BY <1>3 DEF MergedPackage, Package
  <2> QED
    BY <2>1, NoneIsNothing
<1> QED
  BY <1>1, <1>2, <1>3

\* The same for an article row; none appears without an object.
LEMMA MergedArticleType ==
    ASSUME NEW row \in Article \cup {None}, NEW new \in Article \cup {None},
           NEW old \in Article \cup {None}
    PROVE  /\ MergedArticle(row, new, old) \in Article \cup {None}
           /\ MergedArticle(row, new, old) # None => row # None \/ new # None
<1>1. CASE new = None
  BY <1>1 DEF MergedArticle
<1>2. CASE new # None /\ (old = None \/ row = None)
  BY <1>2 DEF MergedArticle
<1>3. CASE new # None /\ old # None /\ row # None
  BY <1>3 DEF MergedArticle, Article
<1> QED
  BY <1>1, <1>2, <1>3

\* After a flush the entity manager holds the same objects.
LEMMA CleanType ==
    ASSUME NEW e \in EntityManager
    PROVE  /\ Clean(e) \in EntityManager
           /\ Clean(e).pkg = e.pkg
           /\ Clean(e).art = e.art
BY DEF Clean, EntityManager, NoItems

\* A flush leaves a well-typed database; it removes no package, and it adds
\* articles only from the entity manager.
LEMMA FlushType ==
    ASSUME TypeOK, NEW e \in EntityManager, NEW left \in [Entries -> Nat], Flush(e, left)
    PROVE  /\ pkg' \in Package \cup {None}
           /\ art' \in [Tenants -> Article \cup {None}]
           /\ items' \in [Entries -> Nat]
           /\ pkg # None \/ e.pkg # None => pkg' # None
           /\ \A t \in Tenants : art'[t] # None => art[t] # None \/ e.art[t] # None
<1>1. /\ e.pkg \in Package \cup {None} /\ e.pkg0 \in Package \cup {None}
      /\ e.art \in [Tenants -> Article \cup {None}]
      /\ e.art0 \in [Tenants -> Article \cup {None}]
      /\ e.adds \in [Entries -> Nat]
  BY DEF EntityManager
<1>2. pkg \in Package \cup {None} /\ art \in [Tenants -> Article \cup {None}]
  BY DEF TypeOK
<1>3. pkg' \in Package \cup {None} /\ (pkg # None \/ e.pkg # None => pkg' # None)
  BY <1>1, <1>2, MergedPackageType DEF Flush
<1>4. \A t \in Tenants :
         /\ MergedArticle(art[t], e.art[t], e.art0[t]) \in Article \cup {None}
         /\ MergedArticle(art[t], e.art[t], e.art0[t]) # None
              => art[t] # None \/ e.art[t] # None
  BY <1>1, <1>2, MergedArticleType
<1>5. items' \in [Entries -> Nat]
  BY <1>1 DEF Flush
<1> QED
  BY <1>3, <1>4, <1>5 DEF Flush

\* Loading articles keeps what is loaded.
LEMMA WithArticlesType ==
    ASSUME TypeOK, NEW e \in EntityManager, NEW T
    PROVE  /\ WithArticles(e, T) \in EntityManager
           /\ WithArticles(e, T).pkg = e.pkg
           /\ WithArticles(e, T).pkg0 = e.pkg0
           /\ \A t \in Tenants :
                WithArticles(e, T).art[t] = IF t \in T /\ e.art[t] = None
                                              THEN art[t] ELSE e.art[t]
BY DEF WithArticles, EntityManager, TypeOK

\* Loading the package does, too.
LEMMA WithPackageType ==
    ASSUME TypeOK, NEW e \in EntityManager
    PROVE  /\ WithPackage(e) \in EntityManager
           /\ WithPackage(e).pkg = IF e.pkg = None THEN pkg ELSE e.pkg
           /\ WithPackage(e).art = e.art
           /\ WithPackage(e).art0 = e.art0
           /\ WithPackage(e).adds = e.adds
BY DEF WithPackage, EntityManager, TypeOK

-----------------------------------------------------------------------------
(* Steps of one process.                                                   *)

\* The database keeps its types and the package.
DbStep ==
    /\ pkg' \in Package \cup {None}
    /\ art' \in [Tenants -> Article \cup {None}]
    /\ items' \in [Entries -> Nat]
    /\ pkg # None => pkg' # None
    /\ \A t \in Tenants : art'[t] # None => pkg' # None

\* A process moves to a state that fits and leaves the others alone.
LEMMA ProcessStep ==
    ASSUME Inv, NEW w \in Workers,
           NEW e \in EntityManager, NEW c \in Context, NEW r \in Run,
           em' = [em EXCEPT ![w] = e], ctx' = [ctx EXCEPT ![w] = c],
           run' = [run EXCEPT ![w] = r],
           DbStep, Fit(e, c, r, pkg'),
           dest' \in [Tenants -> Target \cup {None}],
           queue' \in Seq(Message), budget' \in Budget,
           w = Consumer /\ r.pc # "idle" => queue' # <<>>,
           w # Consumer /\ queue # <<>> => queue' # <<>>
    PROVE  Inv'
<1>1. TypeOK'
  BY DEF Inv, TypeOK, DbStep
<1>2. ASSUME NEW v \in Workers PROVE Fit(em'[v], ctx'[v], run'[v], pkg')
  <2>1. CASE v = w
    BY <2>1 DEF Inv, TypeOK
  <2>2. CASE v # w
    <3>1. em'[v] = em[v] /\ ctx'[v] = ctx[v] /\ run'[v] = run[v]
      BY <2>2 DEF Inv, TypeOK
    <3>2. Fit(em[v], ctx[v], run[v], pkg)
      BY DEF Inv, Sound
    <3> QED
      BY <3>1, <3>2 DEF Fit, DbStep
  <2> QED
    BY <2>1, <2>2
<1>3. (~At(Consumer, "idle"))' => queue' # <<>>
  <2>1. CASE w = Consumer
    BY <2>1 DEF Inv, TypeOK, At
  <2>2. CASE w # Consumer
    BY <2>2, ConsumerWorks DEF Inv, TypeOK, Sound, At
  <2> QED
    BY <2>1, <2>2
<1>4. \A t \in Tenants : art'[t] # None => pkg' # None
  BY DEF DbStep
<1> QED
  BY <1>1, <1>2, <1>3, <1>4 DEF Inv, Sound

\* The state of a process is well typed and fits.
LEMMA ProcessState ==
    ASSUME Inv, NEW w \in Workers
    PROVE  /\ em[w] \in EntityManager /\ ctx[w] \in Context /\ run[w] \in Run
           /\ Fit(em[w], ctx[w], run[w], pkg)
           /\ em = [em EXCEPT ![w] = em[w]]
           /\ ctx = [ctx EXCEPT ![w] = ctx[w]]
           /\ run = [run EXCEPT ![w] = run[w]]
BY DEF Inv, TypeOK, Sound

\* Of the shared state, dest, queue and budget keep their types if they do not change.
LEMMA SharedState ==
    ASSUME Inv
    PROVE  /\ UNCHANGED dest => dest' \in [Tenants -> Target \cup {None}]
           /\ UNCHANGED queue => queue' \in Seq(Message)
           /\ UNCHANGED budget => budget' \in Budget
           /\ UNCHANGED db => DbStep
BY DEF Inv, TypeOK, Sound, db, DbStep

\* The context of a process stays one.
LEMMA ContextType ==
    ASSUME NEW c \in Context
    PROVE  /\ Enabled(c) \in Context /\ Enabled(c).tenant = c.tenant
           /\ Disabled(c) \in Context /\ Disabled(c).tenant = c.tenant
           /\ NoContext \in Context
           /\ \A t \in Tenants \cup {None} :
                [c EXCEPT !.tenant = t] \in Context /\ TenantSet(t) \in Context
BY DEF Enabled, Disabled, Context, NoContext, TenantSet

\* A resting process fits whatever the database is, if it remembers no object.
LEMMA RestingType == Resting \in Run
BY DEF Resting, Run, Places

LEMMA RestingFits ==
    ASSUME NEW c \in Context, NEW p
    PROVE  Fit(FreshEm, c, Resting, p)
BY DEF Fit, FreshEm, Resting, NoArticles, PackagePlaces, ArticlePlaces, ContextPlaces, LoopPlaces

\* Flushing the objects of a process is a step of the database.
LEMMA FlushStep ==
    ASSUME Inv, NEW e \in EntityManager, NEW left \in [Entries -> Nat], Flush(e, left),
           \A t \in Tenants : e.art[t] # None => e.pkg # None \/ pkg # None
    PROVE  DbStep /\ (e.pkg # None => pkg' # None)
BY FlushType DEF Inv, Sound, DbStep

-----------------------------------------------------------------------------
(* What listeners do to an entity manager.                                 *)

\* f holds an object wherever e does.
SameObjects(e, f) ==
    /\ f.pkg = None <=> e.pkg = None
    /\ \A t \in Tenants : f.art[t] = None <=> e.art[t] = None

\* PackageStatusListener changes the status of the package.
LEMMA PackageStatusType ==
    ASSUME NEW e \in EntityManager, e.pkg # None, NEW status \in Statuses
    PROVE  /\ PackageStatus(e, status) \in EntityManager
           /\ SameObjects(e, PackageStatus(e, status))
           /\ PackageStatus(e, status).art = e.art
           /\ PackageStatus(e, status).art0 = e.art0
           /\ PackageStatus(e, status).pkg0 = e.pkg0
           /\ PackageStatus(e, status).pkg.pub = e.pkg.pub
<1>1. e.pkg \in Package
  BY DEF EntityManager
<1>2. [e.pkg EXCEPT !.status = status] \in Package
  BY <1>1 DEF Package
<1>3. [e.pkg EXCEPT !.status = status] # None
  BY <1>2, NoneIsNothing
<1> QED
  BY <1>1, <1>2, <1>3 DEF PackageStatus, EntityManager, SameObjects, Package

\* So does a cancellation.
LEMMA PackageCanceledType ==
    ASSUME NEW e \in EntityManager, e.pkg # None
    PROVE  /\ PackageCanceled(e) \in EntityManager
           /\ SameObjects(e, PackageCanceled(e))
           /\ PackageCanceled(e).art = e.art
           /\ PackageCanceled(e).art0 = e.art0
           /\ PackageCanceled(e).pkg0 = e.pkg0
           /\ PackageCanceled(e).pkg.pub = e.pkg.pub
<1>1. e.pkg \in Package
  BY DEF EntityManager
<1>2. [e.pkg EXCEPT !.status = "canceled"] \in Package
  BY <1>1 DEF Package, Statuses
<1>3. [e.pkg EXCEPT !.status = "canceled"] # None
  BY <1>2, NoneIsNothing
<1> QED
  BY <1>1, <1>2, <1>3 DEF PackageCanceled, EntityManager, SameObjects, Package

\* An article object is replaced by another.
LEMMA ArticleSet ==
    ASSUME NEW e \in EntityManager, NEW t \in Tenants, NEW a \in Article
    PROVE  /\ [e EXCEPT !.art[t] = a] \in EntityManager
           /\ [e EXCEPT !.art[t] = a].pkg = e.pkg
           /\ [e EXCEPT !.art[t] = a].pkg0 = e.pkg0
           /\ [e EXCEPT !.art[t] = a].art0 = e.art0
           /\ [e EXCEPT !.art[t] = a].art = [e.art EXCEPT ![t] = a]
           /\ a # None
           /\ e.art[t] # None => SameObjects(e, [e EXCEPT !.art[t] = a])
<1>1. a # None
  BY NoneIsNothing
<1> QED
  BY <1>1 DEF EntityManager, SameObjects

\* Its status is set.
LEMMA StatusSet ==
    ASSUME NEW e \in EntityManager, NEW t \in Tenants, e.art[t] # None,
           NEW status \in Statuses
    PROVE  /\ [e EXCEPT !.art[t].status = status] \in EntityManager
           /\ [e EXCEPT !.art[t].status = status].pkg = e.pkg
           /\ SameObjects(e, [e EXCEPT !.art[t].status = status])
<1> DEFINE a == [e.art[t] EXCEPT !.status = status]
<1>1. a \in Article
  BY DEF EntityManager, Article
<1>2. [e EXCEPT !.art[t].status = status] = [e EXCEPT !.art[t] = a]
  BY DEF EntityManager
<1> QED
  BY <1>1, <1>2, ArticleSet

\* Its route is set.
LEMMA RouteSet ==
    ASSUME NEW e \in EntityManager, NEW t \in Tenants, e.art[t] # None,
           NEW route \in Routes \cup {None}
    PROVE  /\ [e EXCEPT !.art[t].route = route] \in EntityManager
           /\ [e EXCEPT !.art[t].route = route].pkg = e.pkg
           /\ SameObjects(e, [e EXCEPT !.art[t].route = route])
<1> DEFINE a == [e.art[t] EXCEPT !.route = route]
<1>1. a \in Article
  BY DEF EntityManager, Article
<1>2. [e EXCEPT !.art[t].route = route] = [e EXCEPT !.art[t] = a]
  BY DEF EntityManager
<1> QED
  BY <1>1, <1>2, ArticleSet

\* Its revision is set.
LEMMA RevSet ==
    ASSUME NEW e \in EntityManager, NEW t \in Tenants, e.art[t] # None, NEW rev \in Revs
    PROVE  /\ [e EXCEPT !.art[t].rev = rev] \in EntityManager
           /\ [e EXCEPT !.art[t].rev = rev].pkg = e.pkg
           /\ SameObjects(e, [e EXCEPT !.art[t].rev = rev])
<1> DEFINE a == [e.art[t] EXCEPT !.rev = rev]
<1>1. a \in Article
  BY DEF EntityManager, Article
<1>2. [e EXCEPT !.art[t].rev = rev] = [e EXCEPT !.art[t] = a]
  BY DEF EntityManager
<1> QED
  BY <1>1, <1>2, ArticleSet

\* swp.article.publish works on what is loaded.
LEMMA AfterPublishType ==
    ASSUME NEW e \in EntityManager, NEW t \in Tenants, e.art[t] # None, e.pkg # None
    PROVE  AfterPublish(e, t) \in EntityManager /\ SameObjects(e, AfterPublish(e, t))
<1> DEFINE f == [e EXCEPT !.art[t].status = "published"]
<1>1. "published" \in Statuses
  BY DEF Statuses
<1>2. f \in EntityManager /\ f.pkg = e.pkg /\ SameObjects(e, f)
  BY <1>1, StatusSet
<1>3. /\ PackageStatus(f, "published") \in EntityManager
      /\ SameObjects(f, PackageStatus(f, "published"))
  BY <1>1, <1>2, PackageStatusType
<1> QED
  BY <1>2, <1>3 DEF AfterPublish, SameObjects

\* So does swp.article.unpublish.
LEMMA WithdrawnType ==
    ASSUME NEW e \in EntityManager, NEW t \in Tenants, e.art[t] # None, e.pkg # None
    PROVE  Withdrawn(e, t) \in EntityManager /\ SameObjects(e, Withdrawn(e, t))
<1> DEFINE f == [e EXCEPT !.art[t].status = "unpublished"]
<1>1. "unpublished" \in Statuses
  BY DEF Statuses
<1>2. f \in EntityManager /\ f.pkg = e.pkg /\ SameObjects(e, f)
  BY <1>1, StatusSet
<1>3. /\ PackageStatus(f, "unpublished") \in EntityManager
      /\ SameObjects(f, PackageStatus(f, "unpublished"))
  BY <1>1, <1>2, PackageStatusType
<1> QED
  BY <1>2, <1>3 DEF Withdrawn, SameObjects

\* Adding an article to a list adds an item.
LEMMA ListedType ==
    ASSUME NEW w \in Workers, NEW e \in EntityManager, NEW t \in Tenants
    PROVE  /\ Listed(w, e, t) \in EntityManager
           /\ Listed(w, e, t).pkg = e.pkg /\ Listed(w, e, t).pkg0 = e.pkg0
           /\ Listed(w, e, t).art = e.art /\ Listed(w, e, t).art0 = e.art0
<1>1. e.adds \in [Entries -> Nat]
  BY DEF EntityManager
<1>2. ASSUME NEW i PROVE [e.adds EXCEPT ![i] = @ + 1] \in [Entries -> Nat]
  <2>1. CASE i \in Entries
    BY <1>1, <2>1
  <2>2. CASE i \notin Entries
    <3>1. [e.adds EXCEPT ![i] = @ + 1] = e.adds
      BY <1>1, <2>2
    <3> QED
      BY <1>1, <3>1
  <2> QED
    BY <2>1, <2>2
<1> QED
  BY <1>1, <1>2 DEF Listed, EntityManager

\* Removing items leaves items.
LEMMA ItemsType ==
    ASSUME TypeOK
    PROVE  /\ items \in [Entries -> Nat]
           /\ \A c, e, t : Refreshed(c, e, t) \in [Entries -> Nat]
           /\ \A w, t : Unlisted(w, t) \in [Entries -> Nat]
BY DEF TypeOK, Refreshed, Unlisted

\* A flush, and a process that then fits as before.
LEMMA FitsWith ==
    ASSUME NEW e, NEW f, NEW c, NEW r, NEW p, Fit(e, c, r, p), SameObjects(e, f),
           r.cur \in Tenants \cup {None}, r.arts \subseteq Tenants
    PROVE  Fit(f, c, r, p)
BY NoneIsNothing DEF Fit, SameObjects

-----------------------------------------------------------------------------
(* Actions.                                                                *)

\* A step of a handler, which leaves destinations, queue and budget alone.
LEMMA HandlerStep ==
    ASSUME Inv, NEW w \in Workers, run[w].pc # "idle",
           NEW e \in EntityManager, NEW c \in Context, NEW r \in Run,
           em' = [em EXCEPT ![w] = e], ctx' = [ctx EXCEPT ![w] = c],
           run' = [run EXCEPT ![w] = r],
           DbStep, Fit(e, c, r, pkg'), UNCHANGED <<dest, queue, budget>>
    PROVE  Inv'
<1>1. /\ dest' \in [Tenants -> Target \cup {None}] /\ queue' \in Seq(Message)
      /\ budget' \in Budget
  BY SharedState
<1>2. w = Consumer /\ r.pc # "idle" => queue' # <<>>
  BY DEF Inv, Sound, At
<1>3. w # Consumer /\ queue # <<>> => queue' # <<>>
  OBVIOUS
<1> QED
  BY <1>1, <1>2, <1>3, ProcessStep

\* The bounds are numbers, and counting up to one stays within it.
LEMMA Bounds ==
    /\ MaxPushes \in Nat /\ MaxRequests \in Nat
    /\ MaxCrashes \in Nat /\ MaxFailures \in Nat
BY ConstantsAssumption DEF ConstantsAssumption

LEMMA BudgetGrows ==
    ASSUME Inv
    PROVE  /\ budget.pushes < MaxPushes => [budget EXCEPT !.pushes = @ + 1] \in Budget
           /\ budget.requests < MaxRequests => [budget EXCEPT !.requests = @ + 1] \in Budget
           /\ budget.crashes < MaxCrashes => [budget EXCEPT !.crashes = @ + 1] \in Budget
           /\ budget.failures < MaxFailures => [budget EXCEPT !.failures = @ + 1] \in Budget
<1> DEFINE p == budget.pushes
           q == budget.requests
           c == budget.crashes
           f == budget.failures
<1>1. /\ p \in 0 .. MaxPushes /\ q \in 0 .. MaxRequests
      /\ c \in 0 .. MaxCrashes /\ f \in 0 .. MaxFailures
      /\ budget \in Budget
  BY DEF Inv, TypeOK, Budget
<1>2. /\ p < MaxPushes => p + 1 \in 0 .. MaxPushes
      /\ q < MaxRequests => q + 1 \in 0 .. MaxRequests
      /\ c < MaxCrashes => c + 1 \in 0 .. MaxCrashes
      /\ f < MaxFailures => f + 1 \in 0 .. MaxFailures
  <2> HIDE DEF p, q, c, f
  <2> QED
    BY <1>1, Bounds
<1> QED
  BY <1>1, <1>2 DEF Budget

\* What pushes and requests name exists.
LEMMA RequestTypes ==
    /\ PushTenants \subseteq Tenants /\ PushStatuses \subseteq PubStatuses
    /\ PublishRequests \subseteq SUBSET Destination
    /\ UnpublishRequests \subseteq SUBSET Tenants
    /\ ArticleRequests \subseteq
         [tenant : Tenants, status : Statuses, route : Routes \cup {None}]
    /\ PackageRequests \subseteq PubStatuses
    /\ DestinationRequests \subseteq Destination
BY ConstantsAssumption DEF ConstantsAssumption

\* content/push appends a message.
LEMMA PushKeepsInv == ASSUME Inv, Push PROVE Inv'
<1>1. PICK p \in PushStatuses, t \in PushTenants :
        queue' = Append(queue, [rev |-> budget.pushes + 1, pub |-> p, tenant |-> t])
  BY DEF Push
<1>2. [rev |-> budget.pushes + 1, pub |-> p, tenant |-> t] \in Message
  BY RequestTypes, Bounds DEF Push, Inv, TypeOK, Budget, Message, Revs
<1>3. queue' \in Seq(Message) /\ queue' # <<>>
  <2>1. queue \in Seq(Message)
    BY DEF Inv, TypeOK
  <2> QED
    BY <1>1, <1>2, <2>1, AppendProperties
<1>4. budget' \in Budget
  BY BudgetGrows DEF Push
<1>5. UNCHANGED <<pkg, art, items, dest, em, ctx, run>>
  BY DEF Push, db
<1> QED
  BY <1>3, <1>4, <1>5 DEF Inv, TypeOK, Sound, At, Fit

\* The consumer takes a message: afterwards it holds the package.
LEMMA ReceiveKeepsInv == ASSUME Inv, Receive PROVE Inv'
<1> DEFINE w == Consumer
           m == Head(queue)
           e == WithPackage(em[w])
           new == e.pkg = None
           row == [status |-> IF new THEN "new" ELSE e.pkg.status, pub |-> m.pub,
                   rev |-> m.rev]
           f == [e EXCEPT !.pkg = row]
           r == [Resting EXCEPT !.pc = IF new THEN "processRules" ELSE "onUpdated"]
<1>1. w \in Workers /\ TypeOK
  BY ConsumerWorks DEF Inv
<1>2. em[w] \in EntityManager /\ Fit(em[w], ctx[w], run[w], pkg)
  BY <1>1, ProcessState
<1>3. e \in EntityManager /\ e.art = em[w].art
  BY <1>1, <1>2, WithPackageType
<1>4. queue # <<>> /\ m \in Message /\ m.tenant \in Tenants
  <2>1. queue # <<>> /\ queue \in Seq(Message)
    BY <1>1 DEF Receive, TypeOK
  <2>2. m \in Message
    BY <2>1, HeadTailProperties
  <2> QED
    BY <2>1, <2>2 DEF Message
<1>5. row \in Package /\ row # None
  <2>1. row \in Package
    BY <1>3, <1>4 DEF EntityManager, Message, Package, Statuses
  <2> QED
    BY <2>1, NoneIsNothing
<1>6. f \in EntityManager /\ f.pkg = row /\ f.art = e.art
  BY <1>3, <1>5 DEF EntityManager
<1>7. FlushOf(w, f, items)
  BY DEF Receive
<1>8. DbStep /\ pkg' # None
  BY <1>1, <1>5, <1>6, <1>7, FlushStep, ItemsType DEF FlushOf
<1>9. Clean(f) \in EntityManager /\ Clean(f).pkg = row /\ Clean(f).art = e.art
  BY <1>6, CleanType
<1>10. TenantSet(m.tenant) \in Context /\ TenantSet(m.tenant).tenant # None
  BY <1>4, NoneIsNothing DEF TenantSet, Context
<1>11. r \in Run
  BY RestingType DEF Run, Places
<1>12. Fit(Clean(f), TenantSet(m.tenant), r, pkg')
  BY <1>5, <1>8, <1>9, <1>10
  DEF Fit, Resting, PackagePlaces, ArticlePlaces, ContextPlaces, LoopPlaces
<1>13. /\ em' = [em EXCEPT ![w] = Clean(f)]
       /\ ctx' = [ctx EXCEPT ![w] = TenantSet(m.tenant)]
       /\ run' = [run EXCEPT ![w] = r]
       /\ UNCHANGED <<dest, queue, budget>>
  BY DEF Receive, FlushOf, Keep, SetCtx, Go
<1>14. /\ dest' \in [Tenants -> Target \cup {None}] /\ queue' \in Seq(Message)
       /\ budget' \in Budget
  BY <1>13, SharedState
<1>15. queue' # <<>>
  BY <1>4, <1>13
<1> HIDE DEF m, e, new, row, f, r
<1> QED
  BY <1>1, <1>8, <1>9, <1>10, <1>11, <1>12, <1>13, <1>14, <1>15, ProcessStep

\* A handler flushes f and keeps the same objects in g.
LEMMA FlushHandlerStep ==
    ASSUME Inv, NEW w \in Workers, run[w].pc # "idle",
           NEW f \in EntityManager, NEW left \in [Entries -> Nat], Flush(f, left),
           NEW g \in EntityManager, SameObjects(f, g), em' = [em EXCEPT ![w] = g],
           NEW c \in Context, NEW r \in Run,
           ctx' = [ctx EXCEPT ![w] = c], run' = [run EXCEPT ![w] = r],
           Fit(f, c, r, pkg), UNCHANGED <<dest, queue, budget>>
    PROVE  Inv'
<1>1. DbStep
  BY FlushStep DEF Fit
<1>2. Fit(g, c, r, pkg)
  BY FitsWith DEF Run
<1>3. Fit(g, c, r, pkg')
  BY <1>1, <1>2 DEF Fit, DbStep
<1> QED
  BY <1>1, <1>3, HandlerStep

\* The same where the entity manager is clean afterwards.
LEMMA FlushOfStep ==
    ASSUME Inv, NEW w \in Workers, run[w].pc # "idle",
           NEW f \in EntityManager, NEW left \in [Entries -> Nat], FlushOf(w, f, left),
           NEW c \in Context, NEW r \in Run,
           ctx' = [ctx EXCEPT ![w] = c], run' = [run EXCEPT ![w] = r],
           Fit(f, c, r, pkg), UNCHANGED <<dest, queue, budget>>
    PROVE  Inv'
<1>1. Clean(f) \in EntityManager /\ SameObjects(f, Clean(f))
  BY CleanType DEF SameObjects
<1> QED
  BY <1>1, FlushHandlerStep DEF FlushOf, Keep

\* A handler keeps the database.
LEMMA QuietStep ==
    ASSUME Inv, NEW w \in Workers, run[w].pc # "idle",
           NEW e \in EntityManager, NEW c \in Context, NEW r \in Run,
           em' = [em EXCEPT ![w] = e], ctx' = [ctx EXCEPT ![w] = c],
           run' = [run EXCEPT ![w] = r],
           Fit(e, c, r, pkg), UNCHANGED <<db, dest, queue, budget>>
    PROVE  Inv'
<1>1. DbStep
  BY SharedState
<1>2. pkg' = pkg
  BY DEF db
<1> QED
  BY <1>1, <1>2, HandlerStep

\* The articles of the story are loaded.
LEMMA ExistingLoaded ==
    ASSUME Inv, NEW w \in Workers, NEW f, f = WithArticles(em[w], Existing)
    PROVE  /\ f \in EntityManager /\ f.pkg = em[w].pkg
           /\ \A t \in Tenants : em[w].art[t] # None \/ t \in Existing => f.art[t] # None
           /\ \A t \in Tenants : f.art[t] # None => pkg # None
<1>1. em[w] \in EntityManager /\ Fit(em[w], ctx[w], run[w], pkg)
  BY ProcessState
<1> QED
  BY <1>1, WithArticlesType DEF Inv, Sound, Fit, Existing

\* UpdatedPackageListener.
LEMMA OnUpdatedKeepsInv == ASSUME Inv, NEW w \in Workers, OnUpdated(w) PROVE Inv'
<1> DEFINE f == WithArticles(em[w], Existing)
           r == [run[w] EXCEPT !.pc = "hydrate", !.arts = Existing, !.from = "hydrate"]
           q == [run[w] EXCEPT !.pc = "onCanceled"]
<1>1. /\ run[w].pc = "onUpdated" /\ UNCHANGED <<db, dest, queue, budget>>
      /\ em[w] \in EntityManager /\ ctx[w] \in Context /\ run[w] \in Run
      /\ Fit(em[w], ctx[w], run[w], pkg)
  BY ProcessState DEF OnUpdated, At
<1>2. r \in Run /\ q \in Run
  BY <1>1 DEF Run, Places, Existing
<1>3. CASE em[w].pkg.pub = "usable"
  <2>1. /\ f \in EntityManager /\ f.pkg = em[w].pkg
        /\ \A t \in Existing : f.art[t] # None
        /\ \A t \in Tenants : f.art[t] # None => pkg # None
    BY ExistingLoaded DEF Existing
  <2>2. /\ em' = [em EXCEPT ![w] = f] /\ ctx' = [ctx EXCEPT ![w] = Disabled(ctx[w])]
        /\ run' = [run EXCEPT ![w] = r]
    BY <1>3 DEF OnUpdated, Keep, SetCtx, Go
  <2>3. Disabled(ctx[w]) \in Context /\ Disabled(ctx[w]).tenant = ctx[w].tenant
    BY <1>1, ContextType
  <2>4. Fit(f, Disabled(ctx[w]), r, pkg)
    BY <1>1, <2>1, <2>3
    DEF Fit, Run, PackagePlaces, ArticlePlaces, ContextPlaces, LoopPlaces, Places
  <2> HIDE DEF f, r
  <2> QED
    BY <1>1, <1>2, <2>1, <2>2, <2>3, <2>4, QuietStep
<1>4. CASE em[w].pkg.pub # "usable"
  <2>1. /\ em' = [em EXCEPT ![w] = em[w]] /\ ctx' = [ctx EXCEPT ![w] = ctx[w]]
        /\ run' = [run EXCEPT ![w] = q]
    BY <1>4, ProcessState DEF OnUpdated, Go
  <2>2. Fit(em[w], ctx[w], q, pkg)
    BY <1>1 DEF Fit, Run, PackagePlaces, ArticlePlaces, ContextPlaces, LoopPlaces, Places
  <2> HIDE DEF q
  <2> QED
    BY <1>1, <1>2, <2>1, <2>2, QuietStep
<1> QED
  BY <1>3, <1>4

\* The loop over the articles to correct.
LEMMA HydrateKeepsInv == ASSUME Inv, NEW w \in Workers, Hydrate(w) PROVE Inv'
<1>1. /\ run[w].pc = "hydrate" /\ UNCHANGED <<dest, queue, budget>>
      /\ ctx' = [ctx EXCEPT ![w] = ctx[w]]
      /\ em[w] \in EntityManager /\ ctx[w] \in Context /\ run[w] \in Run
      /\ Fit(em[w], ctx[w], run[w], pkg)
  BY ProcessState DEF Hydrate, At
<1>2. PICK t \in run[w].arts :
        /\ FlushOf(w, [em[w] EXCEPT !.art[t].rev = em[w].pkg.rev], items)
        /\ Go(w, [run[w] EXCEPT !.pc = "articleRules", !.arts = @ \ {t}, !.cur = t,
                                !.wanted = FALSE, !.created = FALSE])
  BY DEF Hydrate
<1> DEFINE f == [em[w] EXCEPT !.art[t].rev = em[w].pkg.rev]
           r == [run[w] EXCEPT !.pc = "articleRules", !.arts = @ \ {t}, !.cur = t,
                               !.wanted = FALSE, !.created = FALSE]
<1>3. t \in Tenants /\ t # None /\ em[w].art[t] # None /\ em[w].pkg # None
  BY <1>1, NoneIsNothing DEF Fit, Run, PackagePlaces, Places
<1>4. em[w].pkg.rev \in Revs
  BY <1>1, <1>3 DEF EntityManager, Package
<1>5. f \in EntityManager /\ SameObjects(em[w], f)
  BY <1>1, <1>3, <1>4, RevSet
<1>6. r \in Run
  BY <1>1, <1>3 DEF Run, Places
<1>7. Fit(em[w], ctx[w], r, pkg)
  BY <1>1, <1>3
  DEF Fit, Run, PackagePlaces, ArticlePlaces, ContextPlaces, LoopPlaces, Places
<1>8. run' = [run EXCEPT ![w] = r] /\ items \in [Entries -> Nat]
  BY <1>2 DEF Go, Inv, TypeOK
<1>9. FlushOf(w, f, items)
  BY <1>2
<1> HIDE DEF f, r
<1>10. Fit(f, ctx[w], r, pkg)
  BY <1>5, <1>6, <1>7, FitsWith DEF Run
<1> QED
  BY <1>1, <1>5, <1>6, <1>8, <1>9, <1>10, FlushOfStep

LEMMA HydratedKeepsInv == ASSUME Inv, NEW w \in Workers, Hydrated(w) PROVE Inv'
<1> DEFINE r == [run[w] EXCEPT !.pc = "onCanceled"]
           c == Enabled(ctx[w])
<1>1. /\ run[w].pc = "hydrate" /\ UNCHANGED <<db, dest, queue, budget>>
      /\ em' = [em EXCEPT ![w] = em[w]] /\ run' = [run EXCEPT ![w] = r]
      /\ ctx' = [ctx EXCEPT ![w] = c]
      /\ em[w] \in EntityManager /\ ctx[w] \in Context /\ run[w] \in Run
      /\ Fit(em[w], ctx[w], run[w], pkg)
  BY ProcessState DEF Hydrated, At, SetCtx, Go
<1>2. r \in Run /\ c \in Context
  BY <1>1, ContextType DEF Run, Places
<1>3. Fit(em[w], c, r, pkg)
  BY <1>1 DEF Fit, Run, PackagePlaces, ArticlePlaces, ContextPlaces, LoopPlaces, Places
<1> HIDE DEF r, c
<1> QED
  BY <1>1, <1>2, <1>3, QuietStep

\* CanceledPackageListener.
LEMMA OnCanceledKeepsInv == ASSUME Inv, NEW w \in Workers, OnCanceled(w) PROVE Inv'
<1> DEFINE f == WithArticles(em[w], Existing)
           r == [run[w] EXCEPT !.pc = "cancel", !.arts = Existing]
           q == [run[w] EXCEPT !.pc = "processRules"]
<1>1. /\ run[w].pc = "onCanceled" /\ UNCHANGED <<db, dest, queue, budget>>
      /\ em[w] \in EntityManager /\ ctx[w] \in Context /\ run[w] \in Run
      /\ Fit(em[w], ctx[w], run[w], pkg)
  BY ProcessState DEF OnCanceled, At
<1>2. r \in Run /\ q \in Run
  BY <1>1 DEF Run, Places, Existing
<1>3. CASE Killed(em[w])
  <2>1. /\ f \in EntityManager /\ f.pkg = em[w].pkg
        /\ \A t \in Existing : f.art[t] # None
        /\ \A t \in Tenants : f.art[t] # None => pkg # None
    BY ExistingLoaded DEF Existing
  <2>2. /\ em' = [em EXCEPT ![w] = f] /\ ctx' = [ctx EXCEPT ![w] = Disabled(ctx[w])]
        /\ run' = [run EXCEPT ![w] = r]
    BY <1>3 DEF OnCanceled, Keep, SetCtx, Go
  <2>3. Disabled(ctx[w]) \in Context
    BY <1>1, ContextType
  <2>4. Fit(f, Disabled(ctx[w]), r, pkg)
    BY <1>1, <2>1
    DEF Fit, Run, PackagePlaces, ArticlePlaces, ContextPlaces, LoopPlaces, Places
  <2> HIDE DEF f, r
  <2> QED
    BY <1>1, <1>2, <2>1, <2>2, <2>3, <2>4, QuietStep
<1>4. CASE ~Killed(em[w])
  <2>1. /\ em' = [em EXCEPT ![w] = em[w]] /\ ctx' = [ctx EXCEPT ![w] = ctx[w]]
        /\ run' = [run EXCEPT ![w] = q]
    BY <1>4, ProcessState DEF OnCanceled, Go
  <2>2. Fit(em[w], ctx[w], q, pkg)
    BY <1>1 DEF Fit, Run, PackagePlaces, ArticlePlaces, ContextPlaces, LoopPlaces, Places
  <2> HIDE DEF q
  <2> QED
    BY <1>1, <1>2, <2>1, <2>2, QuietStep
<1> QED
  BY <1>3, <1>4

\* One article is canceled, and then the package.
LEMMA CancelKeepsInv == ASSUME Inv, NEW w \in Workers, Cancel(w) PROVE Inv'
<1> DEFINE c == Enabled(ctx[w])
<1>1. /\ run[w].pc = "cancel" /\ UNCHANGED <<dest, queue, budget>>
      /\ ctx' = [ctx EXCEPT ![w] = c] /\ c \in Context
      /\ em[w] \in EntityManager /\ run[w] \in Run
      /\ Fit(em[w], ctx[w], run[w], pkg)
  BY ProcessState, ContextType DEF Cancel, At, SetCtx
<1>2. PICK t \in run[w].arts :
        LET e == [em[w] EXCEPT !.art[t].status = "canceled"] IN
        /\ Flush(e, Refreshed(ctx[w], e, t))
        /\ Keep(w, PackageCanceled(Clean(e)))
        /\ Go(w, [run[w] EXCEPT !.arts = @ \ {t}])
  BY DEF Cancel
<1> DEFINE f == [em[w] EXCEPT !.art[t].status = "canceled"]
           left == Refreshed(ctx[w], f, t)
           g == PackageCanceled(Clean(f))
           r == [run[w] EXCEPT !.arts = @ \ {t}]
<1>3. t \in Tenants /\ em[w].art[t] # None /\ em[w].pkg # None
  BY <1>1 DEF Fit, Run, PackagePlaces, Places
<1>4. f \in EntityManager /\ f.pkg = em[w].pkg /\ SameObjects(em[w], f)
  <2>1. "canceled" \in Statuses
    BY DEF Statuses
  <2> QED
    BY <1>1, <1>3, <2>1, StatusSet
<1>5. r \in Run
  BY <1>1 DEF Run
<1>6. Fit(em[w], c, r, pkg)
  BY <1>1 DEF Fit, Run, PackagePlaces, ArticlePlaces, ContextPlaces, LoopPlaces, Places
<1>7. left \in [Entries -> Nat]
  BY ItemsType DEF Inv
<1>8. Flush(f, left) /\ em' = [em EXCEPT ![w] = g] /\ run' = [run EXCEPT ![w] = r]
  BY <1>2 DEF Keep, Go
<1>9. g \in EntityManager /\ SameObjects(f, g)
  <2> HIDE DEF f
  <2>1. Clean(f) \in EntityManager /\ Clean(f).pkg # None /\ SameObjects(f, Clean(f))
    BY <1>3, <1>4, CleanType DEF SameObjects
  <2> QED
    BY <2>1, PackageCanceledType DEF SameObjects
<1> HIDE DEF c, f, left, g, r
<1>10. Fit(f, c, r, pkg)
  BY <1>4, <1>5, <1>6, FitsWith DEF Run
<1> QED
  BY <1>1, <1>4, <1>5, <1>7, <1>8, <1>9, <1>10, FlushHandlerStep

LEMMA CanceledKeepsInv == ASSUME Inv, NEW w \in Workers, Canceled(w) PROVE Inv'
<1> DEFINE r == [run[w] EXCEPT !.pc = "processRules"]
           c == Enabled(ctx[w])
<1>1. /\ run[w].pc = "cancel" /\ UNCHANGED <<dest, queue, budget>>
      /\ FlushOf(w, em[w], items) /\ run' = [run EXCEPT ![w] = r]
      /\ ctx' = [ctx EXCEPT ![w] = c]
      /\ em[w] \in EntityManager /\ ctx[w] \in Context /\ run[w] \in Run
      /\ Fit(em[w], ctx[w], run[w], pkg)
  BY ProcessState DEF Canceled, At, SetCtx, Go
<1>2. r \in Run /\ c \in Context /\ items \in [Entries -> Nat]
  BY <1>1, ContextType DEF Run, Places, Inv, TypeOK
<1>3. Fit(em[w], c, r, pkg)
  BY <1>1 DEF Fit, Run, PackagePlaces, ArticlePlaces, ContextPlaces, LoopPlaces, Places
<1> HIDE DEF r, c
<1> QED
  BY <1>1, <1>2, <1>3, FlushOfStep

\* A tenant rule's destination is one: the last of the matching rules exists.
LEMMA RuleDestinationType ==
    ASSUME NEW t \in Tenants, NEW rev
    PROVE  RuleDestination(t, rev) \in Destination
<1> DEFINE rs == TenantRules[t]
           M == {i \in DOMAIN rs : rev \in rs[i].when /\ rs[i].route # None}
           last == CHOOSE i \in M : \A j \in M : j <= i
           D == {n \in Nat : Len(rs) - n \in M}
<1>1. rs \in Seq(TenantRule) /\ Len(rs) \in Nat /\ M \subseteq 1 .. Len(rs)
  BY ConstantsAssumption DEF ConstantsAssumption
<1>2. CASE M = {}
  BY <1>2 DEF RuleDestination, Destination
<1>3. CASE M # {}
  <2>1. D # {} /\ D \subseteq Nat
    <3>1. PICK i \in M : TRUE
      BY <1>3
    <3>2. Len(rs) - i \in Nat /\ Len(rs) - (Len(rs) - i) = i
      <4> HIDE DEF M, rs
      <4> QED
        BY <1>1
    <3>3. Len(rs) - i \in D
      <4> HIDE DEF M, rs
      <4> QED
        BY <3>1, <3>2
    <3> QED
      BY <3>3
  <2>2. PICK d \in D : \A n \in D : d <= n
    <3> HIDE DEF M, rs
    <3>1. PICK d \in D : \A n \in D : <<n, d>> \notin OpToRel(<, Nat)
      <4> HIDE DEF D
      <4> QED
        BY <2>1, NatLessThanWellFounded, WFMin
    <3>2. \A n \in D : n \in Nat /\ d \in Nat /\ ~(n < d)
      BY <3>1 DEF OpToRel
    <3> QED
      BY <3>2
  <2>3. \A j \in M : j <= Len(rs) - d
    <3> SUFFICES ASSUME NEW j \in M PROVE j <= Len(rs) - d
      OBVIOUS
    <3> HIDE DEF M, rs
    <3>1. j \in 1 .. Len(rs) /\ Len(rs) - j \in Nat /\ Len(rs) - (Len(rs) - j) = j
      BY <1>1
    <3>2. d <= Len(rs) - j
      BY <2>2, <3>1
    <3> QED
      BY <1>1, <2>1, <3>1, <3>2
  <2>4. last \in M
    BY <2>2, <2>3
  <2>5. rs[last] \in TenantRule
    <3> HIDE DEF M, last, rs
    <3> QED
      BY <1>1, <2>4
  <2> HIDE DEF last
  <2> QED
    BY <1>3, <2>5 DEF RuleDestination, Destination, TenantRule, last
<1> QED
  BY <1>2, <1>3

\* RulesMatcher finds destinations.
LEMMA MatchedType ==
    ASSUME Inv, NEW rev
    PROVE  MatchedDestinations(rev) \subseteq Destination /\ Forwarded(rev) \subseteq Tenants
<1>1. Forwarded(rev) \subseteq Tenants
  BY ConstantsAssumption DEF ConstantsAssumption, Forwarded, OrgRule
<1>2. \A t \in Tenants : dest[t] # None =>
        [tenant |-> t, route |-> dest[t].route, published |-> dest[t].published] \in Destination
  BY DEF Inv, TypeOK, Target, Destination
<1>3. \A t \in Tenants : RuleDestination(t, rev) \in Destination
  BY RuleDestinationType
<1> QED
  BY <1>1, <1>2, <1>3 DEF MatchedDestinations

\* ProcessOrganizationRulesSubscriber starts a loop over destinations.
LEMMA ProcessRulesKeepsInv == ASSUME Inv, NEW w \in Workers, ProcessRules(w) PROVE Inv'
<1> DEFINE p == em[w].pkg
           D == {[tenant |-> t, route |-> None, published |-> FALSE] :
                   t \in PopulatedTenants(p)}
           r == [run[w] EXCEPT !.pc = "publish", !.from = "publish",
                   !.dests = MatchedDestinations(p.rev), !.home = ctx[w].tenant]
           q == [run[w] EXCEPT !.pc = "populate", !.from = "populate",
                   !.dests = D, !.home = ctx[w].tenant]
<1>1. /\ run[w].pc = "processRules" /\ UNCHANGED <<db, dest, queue, budget>>
      /\ em' = [em EXCEPT ![w] = em[w]]
      /\ em[w] \in EntityManager /\ ctx[w] \in Context /\ run[w] \in Run
      /\ Fit(em[w], ctx[w], run[w], pkg)
  BY ProcessState DEF ProcessRules, At
<1>2. D \subseteq Destination /\ MatchedDestinations(p.rev) \subseteq Destination
  <2>1. /\ MatchedDestinations(p.rev) \subseteq Destination
        /\ Forwarded(p.rev) \subseteq Tenants
    BY MatchedType
  <2>2. PopulatedTenants(p) \subseteq Tenants
    BY <2>1 DEF PopulatedTenants
  <2>3. \A t \in Tenants : [tenant |-> t, route |-> None, published |-> FALSE] \in Destination
    BY DEF Destination
  <2> HIDE DEF p
  <2> QED
    BY <2>1, <2>2, <2>3
<1>3. ctx[w].tenant \in Tenants \cup {None}
  BY <1>1 DEF Context
<1>4. r \in Run /\ q \in Run
  <2> HIDE DEF D, p
  <2> QED
    BY <1>1, <1>2, <1>3 DEF Run, Places
<1>5. Enabled(ctx[w]) \in Context /\ Disabled(ctx[w]) \in Context
  BY <1>1, ContextType
<1>6. /\ \A c : Fit(em[w], c, r, pkg)
      /\ \A c : Fit(em[w], c, q, pkg)
  <2> HIDE DEF D, p
  <2> QED
    BY <1>1 DEF Fit, Run, PackagePlaces, ArticlePlaces, ContextPlaces, LoopPlaces, Places
<1>7. \/ ctx' = [ctx EXCEPT ![w] = Enabled(ctx[w])] /\ run' = [run EXCEPT ![w] = r]
      \/ ctx' = [ctx EXCEPT ![w] = Disabled(ctx[w])] /\ run' = [run EXCEPT ![w] = q]
  BY DEF ProcessRules, SetCtx, Go
<1> HIDE DEF D, p, r, q
<1> QED
  BY <1>1, <1>4, <1>5, <1>6, <1>7, QuietStep

\* An article is found and loaded.
LEMMA FoundLoaded ==
    ASSUME Inv, NEW w \in Workers, NEW t \in Tenants, art[t] # None,
           NEW f, f = WithArticles(em[w], {t})
    PROVE  /\ f \in EntityManager /\ f.pkg = em[w].pkg /\ f.art[t] # None
           /\ \A u \in Tenants : em[w].art[u] # None => f.art[u] # None
           /\ \A u \in Tenants : f.art[u] # None => pkg # None
<1>1. em[w] \in EntityManager /\ Fit(em[w], ctx[w], run[w], pkg)
  BY ProcessState
<1> QED
  BY <1>1, WithArticlesType DEF Inv, Sound, Fit

\* ArticlePopulator: one tenant.
LEMMA PopulateKeepsInv == ASSUME Inv, NEW w \in Workers, Populate(w) PROVE Inv'
<1>1. /\ run[w].pc = "populate" /\ UNCHANGED <<db, dest, queue, budget>>
      /\ em[w] \in EntityManager /\ ctx[w] \in Context /\ run[w] \in Run
      /\ Fit(em[w], ctx[w], run[w], pkg)
  BY ProcessState DEF Populate, At
<1>2. PICK d \in run[w].dests :
        LET t == d.tenant
            rest == [run[w] EXCEPT !.dests = @ \ {d}]
        IN /\ SetCtx(w, TenantSet(t))
           /\ IF art[t] # None
              THEN /\ Keep(w, WithArticles(em[w], {t}))
                   /\ Go(w, rest)
              ELSE /\ Keep(w, [em[w] EXCEPT !.art0[t] = None, !.art[t] =
                         [status |-> "new", route |-> None, rev |-> em[w].pkg.rev]])
                   /\ Go(w, [rest EXCEPT !.pc = "save", !.cur = t,
                                         !.created = TRUE, !.wanted = FALSE])
  BY DEF Populate
<1> DEFINE t == d.tenant
           c == TenantSet(t)
           a == [status |-> "new", route |-> None, rev |-> em[w].pkg.rev]
           f == WithArticles(em[w], {t})
           g == [em[w] EXCEPT !.art0[t] = None, !.art[t] = a]
           r == [run[w] EXCEPT !.dests = @ \ {d}]
           q == [r EXCEPT !.pc = "save", !.cur = t, !.created = TRUE, !.wanted = FALSE]
<1>3. t \in Tenants /\ t # None /\ em[w].pkg # None
  BY <1>1, NoneIsNothing DEF Fit, Run, Destination, PackagePlaces, Places
<1>4. c \in Context /\ c.tenant # None /\ ctx' = [ctx EXCEPT ![w] = c]
  BY <1>2, <1>3 DEF TenantSet, Context, SetCtx
<1>5. r \in Run /\ q \in Run
  BY <1>1, <1>3 DEF Run, Places
<1>6. CASE art[t] # None
  <2>1. /\ f \in EntityManager /\ f.pkg = em[w].pkg
        /\ \A u \in Tenants : em[w].art[u] # None => f.art[u] # None
        /\ \A u \in Tenants : f.art[u] # None => pkg # None
    <3>1. f = WithArticles(em[w], {t})
      OBVIOUS
    <3> HIDE DEF f, t
    <3> QED
      BY <1>3, <1>6, <3>1, FoundLoaded
  <2>2. em' = [em EXCEPT ![w] = f] /\ run' = [run EXCEPT ![w] = r]
    BY <1>2, <1>6 DEF Keep, Go
  <2>3. Fit(f, c, r, pkg)
    <3> HIDE DEF f, c
    <3> QED
      BY <1>1, <1>4, <2>1
      DEF Fit, Run, PackagePlaces, ArticlePlaces, ContextPlaces, LoopPlaces, Places
  <2> HIDE DEF f, c, r
  <2> QED
    BY <1>1, <1>4, <1>5, <2>1, <2>2, <2>3, QuietStep
<1>7. CASE art[t] = None
  <2>1. a \in Article /\ a # None
    <3>1. a \in Article
      BY <1>1, <1>3 DEF EntityManager, Package, Article, Statuses
    <3> QED
      BY <3>1, NoneIsNothing
  <2>2. /\ g \in EntityManager /\ g.pkg = em[w].pkg
        /\ g.art = [em[w].art EXCEPT ![t] = a]
    <3> HIDE DEF a, t
    <3> QED
      BY <1>1, <1>3, <2>1 DEF EntityManager
  <2>3. em' = [em EXCEPT ![w] = g] /\ run' = [run EXCEPT ![w] = q]
    BY <1>2, <1>7 DEF Keep, Go
  <2>4. Fit(g, c, q, pkg)
    <3>1. /\ q.pc = "save" /\ q.cur = t /\ q.arts = run[w].arts /\ q.from = run[w].from
          /\ run[w].arts \subseteq Tenants
      BY <1>1 DEF Run
    <3>2. \A u \in Tenants : g.art[u] = IF u = t THEN a ELSE em[w].art[u]
      <4>1. em[w].art \in [Tenants -> Article \cup {None}]
        BY <1>1 DEF EntityManager
      <4> HIDE DEF g, a, t
      <4> QED
        BY <2>2, <4>1
    <3> HIDE DEF g, c, a, t, q
    <3> QED
      BY <1>1, <1>3, <1>4, <2>1, <2>2, <3>1, <3>2
      DEF Fit, PackagePlaces, ArticlePlaces, ContextPlaces, LoopPlaces, Places
  <2> HIDE DEF g, c, q
  <2> QED
    BY <1>1, <1>4, <1>5, <2>2, <2>3, <2>4, QuietStep
<1> QED
  BY <1>6, <1>7

LEMMA PopulatedKeepsInv == ASSUME Inv, NEW w \in Workers, Populated(w) PROVE Inv'
<1> DEFINE b == [ctx[w] EXCEPT !.tenant = run[w].home]
           c == Enabled(b)
           r == [run[w] EXCEPT !.pc = "processed"]
<1>1. /\ run[w].pc = "populate" /\ UNCHANGED <<db, dest, queue, budget>>
      /\ em' = [em EXCEPT ![w] = em[w]] /\ run' = [run EXCEPT ![w] = r]
      /\ ctx' = [ctx EXCEPT ![w] = c]
      /\ em[w] \in EntityManager /\ ctx[w] \in Context /\ run[w] \in Run
      /\ Fit(em[w], ctx[w], run[w], pkg)
  BY ProcessState DEF Populated, At, SetCtx, Go
<1>2. run[w].home \in Tenants \cup {None}
  BY <1>1 DEF Run
<1>3. b \in Context
  BY <1>1, <1>2, ContextType
<1>4. c \in Context
  <2> HIDE DEF b
  <2> QED
    BY <1>3, ContextType
<1>5. r \in Run
  BY <1>1 DEF Run, Places
<1>6. Fit(em[w], c, r, pkg)
  BY <1>1 DEF Fit, Run, PackagePlaces, ArticlePlaces, ContextPlaces, LoopPlaces, Places
<1> HIDE DEF b, c, r
<1> QED
  BY <1>1, <1>4, <1>5, <1>6, QuietStep

\* The consumer acknowledges.
LEMMA ProcessedKeepsInv == ASSUME Inv, Processed(Consumer) PROVE Inv'
<1> DEFINE w == Consumer
           c == [ctx[w] EXCEPT !.tenant = None]
<1>1. /\ w \in Workers /\ run[w].pc # "idle" /\ queue # <<>> /\ queue \in Seq(Message)
  BY ConsumerWorks DEF Processed, At, Inv, TypeOK, Sound
<1>2. /\ em' = [em EXCEPT ![w] = FreshEm] /\ ctx' = [ctx EXCEPT ![w] = c]
      /\ run' = [run EXCEPT ![w] = Resting] /\ queue' = Tail(queue)
      /\ UNCHANGED <<db, dest, budget>>
  BY DEF Processed, Keep, SetCtx, Go
<1>3. queue' \in Seq(Message)
  BY <1>1, <1>2, HeadTailProperties
<1>4. c \in Context
  BY <1>1, ContextType, ProcessState
<1>5. Fit(FreshEm, c, Resting, pkg')
  BY RestingFits, <1>4
<1>6. DbStep /\ dest' \in [Tenants -> Target \cup {None}] /\ budget' \in Budget
  BY <1>2, SharedState
<1>7. Resting.pc = "idle"
  BY DEF Resting
<1> HIDE DEF w, c
<1> QED
  BY <1>1, <1>2, <1>3, <1>4, <1>5, <1>6, <1>7, ProcessStep, FreshEmType, RestingType DEF w

\* ArticlePublisher: one destination.
LEMMA PublishKeepsInv == ASSUME Inv, NEW w \in Workers, Publish(w) PROVE Inv'
<1>1. /\ run[w].pc = "publish" /\ UNCHANGED <<db, dest, queue, budget>>
      /\ em[w] \in EntityManager /\ ctx[w] \in Context /\ run[w] \in Run
      /\ Fit(em[w], ctx[w], run[w], pkg)
  BY ProcessState DEF Publish, At
<1>2. PICK d \in run[w].dests :
        LET t == d.tenant
            found == art[t] # None
            e == IF found THEN WithArticles(em[w], {t}) ELSE em[w]
        IN /\ SetCtx(w, TenantSet(t))
           /\ Keep(w, IF found THEN [e EXCEPT !.art[t].route = d.route]
                      ELSE [e EXCEPT !.art0[t] = None, !.art[t] =
                              [status |-> "new", route |-> d.route, rev |-> e.pkg.rev]])
           /\ Go(w, [run[w] EXCEPT !.pc = "save", !.cur = t, !.dests = @ \ {d},
                                   !.wanted = d.published, !.created = ~found])
  BY DEF Publish
<1> DEFINE t == d.tenant
           c == TenantSet(t)
           a == [status |-> "new", route |-> d.route, rev |-> em[w].pkg.rev]
           e == WithArticles(em[w], {t})
           f == [e EXCEPT !.art[t].route = d.route]
           g == [em[w] EXCEPT !.art0[t] = None, !.art[t] = a]
           r == [run[w] EXCEPT !.pc = "save", !.cur = t, !.dests = @ \ {d},
                               !.wanted = d.published, !.created = ~(art[t] # None)]
<1>3. /\ t \in Tenants /\ t # None /\ em[w].pkg # None
      /\ d.route \in Routes \cup {None} /\ d.published \in BOOLEAN
  BY <1>1, NoneIsNothing DEF Fit, Run, Destination, PackagePlaces, Places
<1>4. c \in Context /\ c.tenant # None /\ ctx' = [ctx EXCEPT ![w] = c]
  BY <1>2, <1>3 DEF TenantSet, Context, SetCtx
<1>5. r \in Run /\ run' = [run EXCEPT ![w] = r]
  BY <1>1, <1>2, <1>3 DEF Run, Places, Go
<1>6. /\ r.pc = "save" /\ r.cur = t /\ r.arts = run[w].arts /\ r.from = run[w].from
      /\ run[w].arts \subseteq Tenants
  BY <1>1 DEF Run
<1>7. CASE art[t] # None
  <2>1. /\ e \in EntityManager /\ e.pkg = em[w].pkg /\ e.art[t] # None
        /\ \A u \in Tenants : em[w].art[u] # None => e.art[u] # None
        /\ \A u \in Tenants : e.art[u] # None => pkg # None
    <3>1. e = WithArticles(em[w], {t})
      OBVIOUS
    <3> HIDE DEF e, t
    <3> QED
      BY <1>3, <1>7, <3>1, FoundLoaded
  <2>2. f \in EntityManager /\ SameObjects(e, f)
    <3> HIDE DEF e, t
    <3> QED
      BY <1>3, <2>1, RouteSet
  <2>3. em' = [em EXCEPT ![w] = f]
    BY <1>2, <1>7 DEF Keep
  <2>4. Fit(e, c, r, pkg)
    <3> HIDE DEF e, c, r, t
    <3> QED
      BY <1>1, <1>3, <1>4, <1>6, <2>1
      DEF Fit, PackagePlaces, ArticlePlaces, ContextPlaces, LoopPlaces, Places
  <2> HIDE DEF c, r, e, f
  <2>5. Fit(f, c, r, pkg)
    BY <1>5, <2>2, <2>4, FitsWith DEF Run
  <2> QED
    BY <1>1, <1>4, <1>5, <2>2, <2>3, <2>5, QuietStep
<1>8. CASE art[t] = None
  <2>1. a \in Article /\ a # None
    <3>1. a \in Article
      BY <1>1, <1>3 DEF EntityManager, Package, Article, Statuses
    <3> QED
      BY <3>1, NoneIsNothing
  <2>2. /\ g \in EntityManager /\ g.pkg = em[w].pkg
        /\ g.art = [em[w].art EXCEPT ![t] = a]
    <3> HIDE DEF a, t
    <3> QED
      BY <1>1, <1>3, <2>1 DEF EntityManager
  <2>3. em' = [em EXCEPT ![w] = g]
    BY <1>2, <1>8 DEF Keep
  <2>4. \A u \in Tenants : g.art[u] = IF u = t THEN a ELSE em[w].art[u]
    <3>1. em[w].art \in [Tenants -> Article \cup {None}]
      BY <1>1 DEF EntityManager
    <3> HIDE DEF g, a, t
    <3> QED
      BY <2>2, <3>1
  <2>5. Fit(g, c, r, pkg)
    <3> HIDE DEF g, c, a, t, r
    <3> QED
      BY <1>1, <1>3, <1>4, <1>6, <2>1, <2>2, <2>4
      DEF Fit, PackagePlaces, ArticlePlaces, ContextPlaces, LoopPlaces, Places
  <2> HIDE DEF g, c, r
  <2> QED
    BY <1>1, <1>4, <1>5, <2>2, <2>3, <2>5, QuietStep
<1> QED
  BY <1>7, <1>8

\* The loop over destinations ends.
LEMMA PublishDoneKeepsInv == ASSUME Inv, NEW w \in Workers, PublishDone(w) PROVE Inv'
<1> DEFINE c == TenantSet(run[w].home)
           r == [run[w] EXCEPT !.pc = "processed"]
<1>1. /\ run[w].pc = "publish" /\ UNCHANGED <<db, dest, queue, budget>>
      /\ em[w] \in EntityManager /\ ctx[w] \in Context /\ run[w] \in Run
      /\ Fit(em[w], ctx[w], run[w], pkg)
  BY ProcessState DEF PublishDone, At
<1>2. CASE w = Consumer
  <2>1. /\ em' = [em EXCEPT ![w] = em[w]] /\ run' = [run EXCEPT ![w] = r]
        /\ ctx' = [ctx EXCEPT ![w] = c]
    BY <1>2, ProcessState DEF PublishDone, SetCtx, Go
  <2>2. r \in Run /\ c \in Context
    BY <1>1 DEF Run, Places, TenantSet, Context
  <2>3. Fit(em[w], c, r, pkg)
    BY <1>1 DEF Fit, Run, PackagePlaces, ArticlePlaces, ContextPlaces, LoopPlaces, Places
  <2> HIDE DEF c, r
  <2> QED
    BY <1>1, <2>1, <2>2, <2>3, QuietStep
<1>3. CASE w # Consumer
  <2>1. /\ em' = [em EXCEPT ![w] = FreshEm] /\ run' = [run EXCEPT ![w] = Resting]
        /\ ctx' = [ctx EXCEPT ![w] = NoContext]
    BY <1>3 DEF PublishDone, Keep, SetCtx, Go
  <2>2. NoContext \in Context /\ Fit(FreshEm, NoContext, Resting, pkg)
    BY <1>1, ContextType, RestingFits
  <2> QED
    BY <1>1, <2>1, <2>2, FreshEmType, RestingType, QuietStep
<1> QED
  BY <1>2, <1>3

-----------------------------------------------------------------------------
(* The steps of publishing one article.                                    *)

LatePlaces == {"save", "articleRules", "rule", "refresh", "dispatch"}

\* From one of these places to the next the same objects are needed.
LEMMA LateFits ==
    ASSUME NEW e, NEW c, NEW r \in Run, NEW p, Fit(e, c, r, p), r.pc \in LatePlaces,
           NEW d, d.tenant = c.tenant, NEW q, q.pc \in LatePlaces,
           q.cur = r.cur, q.arts = r.arts, q.from = r.from
    PROVE  Fit(e, d, q, p)
BY DEF Fit, LatePlaces, PackagePlaces, ArticlePlaces, ContextPlaces, LoopPlaces, Places

\* What such a place provides.
LEMMA LateState ==
    ASSUME Inv, NEW w \in Workers, run[w].pc \in LatePlaces
    PROVE  /\ run[w].cur \in Tenants /\ em[w].art[run[w].cur] # None /\ em[w].pkg # None
           /\ ctx[w].tenant \in Tenants /\ run[w].from \in {"hydrate", "publish", "populate"}
           /\ em[w] \in EntityManager /\ ctx[w] \in Context /\ run[w] \in Run
           /\ Fit(em[w], ctx[w], run[w], pkg) /\ run[w].pc # "idle"
BY ProcessState
DEF Fit, Run, Context, LatePlaces, PackagePlaces, ArticlePlaces, ContextPlaces, LoopPlaces, Places

LEMMA SaveKeepsInv == ASSUME Inv, NEW w \in Workers, Save(w) PROVE Inv'
<1> DEFINE r == [run[w] EXCEPT !.pc = "articleRules"]
<1>1. run[w].pc \in LatePlaces
  BY DEF Save, At, LatePlaces
<1>2. /\ FlushOf(w, em[w], items) /\ run' = [run EXCEPT ![w] = r]
      /\ ctx' = [ctx EXCEPT ![w] = ctx[w]] /\ UNCHANGED <<dest, queue, budget>>
      /\ items \in [Entries -> Nat]
  BY ProcessState DEF Save, Go, Inv, TypeOK
<1>3. r \in Run /\ r.pc \in LatePlaces /\ r.cur = run[w].cur /\ r.arts = run[w].arts
      /\ r.from = run[w].from
  BY <1>1, LateState DEF Run, Places, LatePlaces
<1> HIDE DEF r
<1>4. Fit(em[w], ctx[w], r, pkg)
  BY <1>1, <1>3, LateState, LateFits
<1> QED
  BY <1>1, <1>2, <1>3, <1>4, LateState, FlushOfStep

LEMMA ArticleRulesKeepsInv == ASSUME Inv, NEW w \in Workers, ArticleRules(w) PROVE Inv'
<1> DEFINE q == [run[w] EXCEPT !.pc = IF run[w].created THEN "dispatch" ELSE "refresh"]
           c == IF run[w].created THEN Enabled(ctx[w]) ELSE ctx[w]
           r == [run[w] EXCEPT !.pc = "rule", !.rules = TenantRules[ctx[w].tenant]]
           d == Enabled(ctx[w])
<1>1. run[w].pc \in LatePlaces
  BY DEF ArticleRules, At, LatePlaces
<1>2. /\ em' = [em EXCEPT ![w] = em[w]] /\ UNCHANGED <<db, dest, queue, budget>>
      /\ \/ run' = [run EXCEPT ![w] = q] /\ ctx' = [ctx EXCEPT ![w] = c]
         \/ run' = [run EXCEPT ![w] = r] /\ ctx' = [ctx EXCEPT ![w] = d]
  BY ProcessState DEF ArticleRules, Go, SetCtx
<1>3. /\ c \in Context /\ c.tenant = ctx[w].tenant
      /\ d \in Context /\ d.tenant = ctx[w].tenant
  BY <1>1, LateState, ContextType
<1>4. TenantRules[ctx[w].tenant] \in Seq(TenantRule)
  BY <1>1, LateState, ConstantsAssumption DEF ConstantsAssumption
<1>5. /\ q \in Run /\ q.pc \in LatePlaces /\ q.cur = run[w].cur /\ q.arts = run[w].arts
      /\ q.from = run[w].from
      /\ r \in Run /\ r.pc \in LatePlaces /\ r.cur = run[w].cur /\ r.arts = run[w].arts
      /\ r.from = run[w].from
  BY <1>1, <1>4, LateState DEF Run, Places, LatePlaces
<1> HIDE DEF q, r, c, d
<1>6. Fit(em[w], c, q, pkg) /\ Fit(em[w], d, r, pkg)
  BY <1>1, <1>3, <1>5, LateState, LateFits
<1>7. CASE run' = [run EXCEPT ![w] = q] /\ ctx' = [ctx EXCEPT ![w] = c]
  BY <1>1, <1>2, <1>3, <1>5, <1>6, <1>7, LateState, QuietStep
<1>8. CASE run' = [run EXCEPT ![w] = r] /\ ctx' = [ctx EXCEPT ![w] = d]
  BY <1>1, <1>2, <1>3, <1>5, <1>6, <1>8, LateState, QuietStep
<1> QED
  BY <1>2, <1>7, <1>8

LEMMA RulesDoneKeepsInv == ASSUME Inv, NEW w \in Workers, RulesDone(w) PROVE Inv'
<1> DEFINE q == [run[w] EXCEPT !.pc = "dispatch"]
           r == [run[w] EXCEPT !.pc = "refresh"]
           c == Enabled(ctx[w])
           d == Disabled(ctx[w])
<1>1. run[w].pc \in LatePlaces
  BY DEF RulesDone, At, LatePlaces
<1>2. /\ em' = [em EXCEPT ![w] = em[w]] /\ UNCHANGED <<db, dest, queue, budget>>
      /\ \/ run' = [run EXCEPT ![w] = q] /\ ctx' = [ctx EXCEPT ![w] = c]
         \/ run' = [run EXCEPT ![w] = r] /\ ctx' = [ctx EXCEPT ![w] = d]
  BY ProcessState DEF RulesDone, Go, SetCtx
<1>3. /\ c \in Context /\ c.tenant = ctx[w].tenant
      /\ d \in Context /\ d.tenant = ctx[w].tenant
  BY <1>1, LateState, ContextType
<1>4. /\ q \in Run /\ q.pc \in LatePlaces /\ q.cur = run[w].cur /\ q.arts = run[w].arts
      /\ q.from = run[w].from
      /\ r \in Run /\ r.pc \in LatePlaces /\ r.cur = run[w].cur /\ r.arts = run[w].arts
      /\ r.from = run[w].from
  BY <1>1, LateState DEF Run, Places, LatePlaces
<1> HIDE DEF q, r, c, d
<1>5. Fit(em[w], c, q, pkg) /\ Fit(em[w], d, r, pkg)
  BY <1>1, <1>3, <1>4, LateState, LateFits
<1>6. CASE run' = [run EXCEPT ![w] = q] /\ ctx' = [ctx EXCEPT ![w] = c]
  BY <1>1, <1>2, <1>3, <1>4, <1>5, <1>6, LateState, QuietStep
<1>7. CASE run' = [run EXCEPT ![w] = r] /\ ctx' = [ctx EXCEPT ![w] = d]
  BY <1>1, <1>2, <1>3, <1>4, <1>5, <1>7, LateState, QuietStep
<1> QED
  BY <1>2, <1>6, <1>7

\* The rule at the head of the list is one.
LEMMA HeadRule ==
    ASSUME Inv, NEW w \in Workers, run[w].rules # <<>>
    PROVE  Head(run[w].rules) \in TenantRule /\ Tail(run[w].rules) \in Seq(TenantRule)
<1>1. run[w].rules \in Seq(TenantRule)
  BY ProcessState DEF Run
<1> QED
  BY <1>1, HeadTailProperties

LEMMA RuleKeepsInv == ASSUME Inv, NEW w \in Workers, Rule(w) PROVE Inv'
<1> DEFINE t == run[w].cur
           rule == Head(run[w].rules)
           applies == em[w].art[t].rev \in rule.when
           routed == IF applies /\ rule.route # None
                       THEN [em[w] EXCEPT !.art[t].route = rule.route] ELSE em[w]
           e == AfterPublish(routed, t)
           r == [run[w] EXCEPT !.rules = Tail(@)]
           d == Disabled(ctx[w])
<1>1. run[w].pc \in LatePlaces /\ run[w].rules # <<>>
  BY DEF Rule, At, LatePlaces
<1>2. /\ t \in Tenants /\ em[w].art[t] # None /\ em[w].pkg # None
      /\ em[w] \in EntityManager /\ ctx[w] \in Context /\ run[w] \in Run
      /\ Fit(em[w], ctx[w], run[w], pkg) /\ run[w].pc # "idle"
  BY <1>1, LateState
<1>3. rule \in TenantRule /\ Tail(run[w].rules) \in Seq(TenantRule)
  BY <1>1, HeadRule
<1>4. r \in Run /\ r.pc \in LatePlaces /\ r.cur = run[w].cur /\ r.arts = run[w].arts
      /\ r.from = run[w].from
  BY <1>1, <1>2, <1>3 DEF Run
<1>5. routed \in EntityManager /\ SameObjects(em[w], routed) /\ routed.pkg = em[w].pkg
  <2>1. rule.route \in Routes \cup {None}
    BY <1>3 DEF TenantRule
  <2>2. SameObjects(em[w], em[w])
    BY DEF SameObjects
  <2> HIDE DEF t, rule, applies
  <2> QED
    BY <1>2, <2>1, <2>2, RouteSet
<1>6. e \in EntityManager /\ SameObjects(em[w], e)
  <2> HIDE DEF routed, t
  <2>1. routed.art[t] # None /\ routed.pkg # None
    BY <1>2, <1>5 DEF SameObjects
  <2> QED
    BY <1>2, <1>5, <2>1, AfterPublishType DEF SameObjects
<1>7. /\ d \in Context /\ d.tenant = ctx[w].tenant
  BY <1>2, ContextType
<1>8. /\ run' = [run EXCEPT ![w] = r] /\ UNCHANGED <<dest, queue, budget>>
  BY DEF Rule, Go
<1>9. \/ em' = [em EXCEPT ![w] = routed] /\ ctx' = [ctx EXCEPT ![w] = ctx[w]] /\ UNCHANGED db
      \/ FlushOf(w, e, Unlisted(w, t)) /\ ctx' = [ctx EXCEPT ![w] = d]
      \/ em' = [em EXCEPT ![w] = Listed(w, e, t)] /\ ctx' = [ctx EXCEPT ![w] = d] /\ UNCHANGED db
  <2>1. ctx = [ctx EXCEPT ![w] = ctx[w]]
    BY ProcessState
  <2> QED
    BY <2>1 DEF Rule, Keep, SetCtx
<1>10. Listed(w, e, t) \in EntityManager /\ SameObjects(em[w], Listed(w, e, t))
  <2> HIDE DEF e, t
  <2> QED
    BY <1>2, <1>6, ListedType DEF SameObjects
<1>11. Unlisted(w, t) \in [Entries -> Nat]
  BY ItemsType DEF Inv
<1> DEFINE l == Listed(w, e, t)
           u == Unlisted(w, t)
<1>12. l \in EntityManager /\ SameObjects(em[w], l) /\ u \in [Entries -> Nat]
  BY <1>10, <1>11
<1>13. \/ em' = [em EXCEPT ![w] = routed] /\ ctx' = [ctx EXCEPT ![w] = ctx[w]] /\ UNCHANGED db
       \/ FlushOf(w, e, u) /\ ctx' = [ctx EXCEPT ![w] = d]
       \/ em' = [em EXCEPT ![w] = l] /\ ctx' = [ctx EXCEPT ![w] = d] /\ UNCHANGED db
  BY <1>9
<1> HIDE DEF t, rule, applies, routed, e, r, d, l, u
<1>14. Fit(em[w], ctx[w], r, pkg) /\ Fit(em[w], d, r, pkg)
  BY <1>1, <1>2, <1>4, <1>7, LateFits
<1>15. /\ Fit(routed, ctx[w], r, pkg) /\ Fit(e, d, r, pkg) /\ Fit(l, d, r, pkg)
  BY <1>4, <1>5, <1>6, <1>12, <1>14, FitsWith DEF Run
<1>16. CASE em' = [em EXCEPT ![w] = routed] /\ ctx' = [ctx EXCEPT ![w] = ctx[w]]
            /\ UNCHANGED db
  BY <1>2, <1>4, <1>5, <1>8, <1>15, <1>16, QuietStep
<1>17. CASE FlushOf(w, e, u) /\ ctx' = [ctx EXCEPT ![w] = d]
  BY <1>2, <1>4, <1>6, <1>7, <1>8, <1>12, <1>15, <1>17, FlushOfStep
<1>18. CASE em' = [em EXCEPT ![w] = l] /\ ctx' = [ctx EXCEPT ![w] = d] /\ UNCHANGED db
  BY <1>2, <1>4, <1>7, <1>8, <1>12, <1>15, <1>18, QuietStep
<1> QED
  BY <1>13, <1>16, <1>17, <1>18

\* HandleArticleChangeSubscriber flushes.
LEMMA RefreshKeepsInv == ASSUME Inv, NEW w \in Workers, Refresh(w) PROVE Inv'
<1> DEFINE left == Refreshed(ctx[w], em[w], run[w].cur)
           c == Enabled(ctx[w])
           r == [run[w] EXCEPT !.pc = IF run[w].from = "hydrate" THEN "hydrate" ELSE "dispatch"]
<1>1. run[w].pc \in LatePlaces
  BY DEF Refresh, At, LatePlaces
<1>2. /\ em[w] \in EntityManager /\ ctx[w] \in Context /\ run[w] \in Run
      /\ Fit(em[w], ctx[w], run[w], pkg) /\ run[w].pc # "idle"
  BY <1>1, LateState
<1>3. /\ FlushOf(w, em[w], left) /\ run' = [run EXCEPT ![w] = r]
      /\ ctx' = [ctx EXCEPT ![w] = c] /\ UNCHANGED <<dest, queue, budget>>
  BY DEF Refresh, Go, SetCtx
<1>4. r \in Run
  BY <1>2 DEF Run, Places
<1>5. c \in Context /\ c.tenant = ctx[w].tenant /\ left \in [Entries -> Nat]
  BY <1>2, ContextType, ItemsType DEF Inv
<1>6. Fit(em[w], c, r, pkg)
  <2> HIDE DEF c
  <2> QED
    BY <1>1, <1>2, <1>5
    DEF Fit, Run, LatePlaces, PackagePlaces, ArticlePlaces, ContextPlaces, LoopPlaces, Places
<1> HIDE DEF left, c, r
<1> QED
  BY <1>2, <1>3, <1>4, <1>5, <1>6, FlushOfStep

\* swp.article.publish of the article of a destination.
LEMMA DispatchKeepsInv == ASSUME Inv, NEW w \in Workers, Dispatch(w) PROVE Inv'
<1> DEFINE t == run[w].cur
           e == AfterPublish(em[w], t)
           l == Listed(w, e, t)
           u == IF MustUnlist(w, e, t) THEN Unlisted(w, t) ELSE items
           d == Disabled(ctx[w])
           r == [run[w] EXCEPT !.pc = run[w].from]
<1>1. run[w].pc \in LatePlaces
  BY DEF Dispatch, At, LatePlaces
<1>2. /\ t \in Tenants /\ em[w].art[t] # None /\ em[w].pkg # None
      /\ em[w] \in EntityManager /\ ctx[w] \in Context /\ run[w] \in Run
      /\ run[w].from \in {"hydrate", "publish", "populate"}
      /\ Fit(em[w], ctx[w], run[w], pkg) /\ run[w].pc # "idle"
  BY <1>1, LateState
<1>3. /\ run' = [run EXCEPT ![w] = r] /\ UNCHANGED <<dest, queue, budget>>
      /\ \/ FlushOf(w, l, u) /\ ctx' = [ctx EXCEPT ![w] = d]
         \/ FlushOf(w, em[w], items) /\ ctx' = [ctx EXCEPT ![w] = ctx[w]]
  BY ProcessState DEF Dispatch, Go, SetCtx
<1>4. e \in EntityManager /\ SameObjects(em[w], e)
  <2> HIDE DEF t
  <2> QED
    BY <1>2, AfterPublishType
<1>5. l \in EntityManager /\ SameObjects(em[w], l)
  <2> HIDE DEF e, t
  <2> QED
    BY <1>2, <1>4, ListedType DEF SameObjects
<1>6. items \in [Entries -> Nat] /\ u \in [Entries -> Nat]
  <2> HIDE DEF e, t
  <2> QED
    BY ItemsType DEF Inv
<1>7. r \in Run
  BY <1>2 DEF Run, Places
<1>8. d \in Context /\ d.tenant = ctx[w].tenant
  BY <1>2, ContextType
<1>9. Fit(em[w], ctx[w], r, pkg) /\ Fit(em[w], d, r, pkg)
  <2> HIDE DEF d
  <2> QED
    BY <1>1, <1>2, <1>8
    DEF Fit, Run, LatePlaces, PackagePlaces, ArticlePlaces, ContextPlaces, LoopPlaces, Places
<1> HIDE DEF t, e, l, u, d, r
<1>10. Fit(l, d, r, pkg)
  BY <1>5, <1>7, <1>9, FitsWith DEF Run
<1>11. CASE FlushOf(w, l, u) /\ ctx' = [ctx EXCEPT ![w] = d]
  BY <1>2, <1>3, <1>5, <1>6, <1>7, <1>8, <1>10, <1>11, FlushOfStep
<1>12. CASE FlushOf(w, em[w], items) /\ ctx' = [ctx EXCEPT ![w] = ctx[w]]
  BY <1>2, <1>3, <1>6, <1>7, <1>9, <1>12, FlushOfStep
<1> QED
  BY <1>3, <1>11, <1>12

-----------------------------------------------------------------------------
(* API requests.                                                           *)

\* A request begins.
LEMMA AcceptStep ==
    ASSUME Inv, NEW w \in Workers, Accept(w),
           NEW e \in EntityManager, NEW c \in Context, NEW r \in Run,
           em' = [em EXCEPT ![w] = e], ctx' = [ctx EXCEPT ![w] = c],
           run' = [run EXCEPT ![w] = r],
           DbStep, Fit(e, c, r, pkg'), dest' \in [Tenants -> Target \cup {None}],
           UNCHANGED queue
    PROVE  Inv'
<1>1. budget' \in Budget
  BY BudgetGrows DEF Accept
<1>2. w # Consumer
  BY ConsumerWorks DEF Accept
<1>3. queue' \in Seq(Message)
  BY SharedState
<1> QED
  BY <1>1, <1>2, <1>3, ProcessStep

\* A request that works on the package loads it.
LEMMA PackageLoaded ==
    ASSUME Inv, NEW w \in Workers, NEW e, e = WithPackage(em[w])
    PROVE  /\ e \in EntityManager /\ e.art = em[w].art
           /\ pkg # None => e.pkg # None
           /\ e.pkg # None => pkg # None
           /\ \A t \in Tenants : e.art[t] # None => pkg # None
<1>1. em[w] \in EntityManager /\ Fit(em[w], ctx[w], run[w], pkg) /\ TypeOK
  BY ProcessState DEF Inv
<1> QED
  BY <1>1, WithPackageType DEF Fit

\* packages/{id}/publish.
LEMMA PublishPackageKeepsInv == ASSUME Inv, NEW w \in Workers, PublishPackage(w) PROVE Inv'
<1>1. PICK D \in PublishRequests, t \in PushTenants :
        /\ SetCtx(w, [tenant |-> t, filter |-> None])
        /\ Go(w, [Resting EXCEPT !.pc = "publish", !.from = "publish", !.dests = D, !.home = t])
  BY DEF PublishPackage
<1> DEFINE e == WithPackage(em[w])
           c == [tenant |-> t, filter |-> None]
           r == [Resting EXCEPT !.pc = "publish", !.from = "publish", !.dests = D, !.home = t]
<1>2. /\ Accept(w) /\ pkg # None /\ UNCHANGED <<db, dest, queue>>
      /\ em' = [em EXCEPT ![w] = e] /\ ctx' = [ctx EXCEPT ![w] = c]
      /\ run' = [run EXCEPT ![w] = r]
  BY <1>1 DEF PublishPackage, Keep, SetCtx, Go
<1>3. D \subseteq Destination /\ t \in Tenants
  BY RequestTypes
<1>4. c \in Context /\ r \in Run
  BY <1>3, RestingType DEF Context, Run, Places
<1>5. /\ e \in EntityManager /\ e.pkg # None
      /\ \A u \in Tenants : e.art[u] # None => pkg # None
  BY <1>2, PackageLoaded
<1>6. /\ DbStep /\ dest' \in [Tenants -> Target \cup {None}] /\ pkg' = pkg
  BY <1>2, SharedState DEF db
<1>7. Fit(e, c, r, pkg')
  <2> HIDE DEF e, c
  <2> QED
    BY <1>2, <1>5, <1>6
    DEF Fit, Resting, PackagePlaces, ArticlePlaces, ContextPlaces, LoopPlaces
<1> HIDE DEF e, c, r
<1> QED
  BY <1>2, <1>4, <1>5, <1>6, <1>7, AcceptStep

\* packages/{id}/unpublish.
LEMMA UnpublishPackageKeepsInv ==
    ASSUME Inv, NEW w \in Workers, UnpublishPackage(w) PROVE Inv'
<1>1. PICK T \in UnpublishRequests, t \in PushTenants :
        /\ SetCtx(w, [tenant |-> t, filter |-> None])
        /\ Go(w, [Resting EXCEPT !.pc = "unpublishLoad", !.arts = T])
  BY DEF UnpublishPackage
<1> DEFINE e == WithPackage(em[w])
           c == [tenant |-> t, filter |-> None]
           r == [Resting EXCEPT !.pc = "unpublishLoad", !.arts = T]
<1>2. /\ Accept(w) /\ pkg # None /\ UNCHANGED <<db, dest, queue>>
      /\ em' = [em EXCEPT ![w] = e] /\ ctx' = [ctx EXCEPT ![w] = c]
      /\ run' = [run EXCEPT ![w] = r]
  BY <1>1 DEF UnpublishPackage, Keep, SetCtx, Go
<1>3. T \subseteq Tenants /\ t \in Tenants
  BY RequestTypes
<1>4. c \in Context /\ r \in Run
  BY <1>3, RestingType DEF Context, Run, Places
<1>5. /\ e \in EntityManager /\ e.pkg # None
      /\ \A u \in Tenants : e.art[u] # None => pkg # None
  BY <1>2, PackageLoaded
<1>6. /\ DbStep /\ dest' \in [Tenants -> Target \cup {None}] /\ pkg' = pkg
  BY <1>2, SharedState DEF db
<1>7. Fit(e, c, r, pkg')
  <2> HIDE DEF e, c
  <2> QED
    BY <1>2, <1>5, <1>6
    DEF Fit, Resting, PackagePlaces, ArticlePlaces, ContextPlaces, LoopPlaces
<1> HIDE DEF e, c, r
<1> QED
  BY <1>2, <1>4, <1>5, <1>6, <1>7, AcceptStep

LEMMA UnpublishLoadKeepsInv == ASSUME Inv, NEW w \in Workers, UnpublishLoad(w) PROVE Inv'
<1> DEFINE f == WithArticles(em[w], Existing)
           r == [run[w] EXCEPT !.pc = "unpublish", !.arts = @ \cap Existing]
<1>1. /\ run[w].pc = "unpublishLoad" /\ UNCHANGED <<db, dest, queue, budget>>
      /\ em' = [em EXCEPT ![w] = f] /\ ctx' = [ctx EXCEPT ![w] = ctx[w]]
      /\ run' = [run EXCEPT ![w] = r]
      /\ em[w] \in EntityManager /\ ctx[w] \in Context /\ run[w] \in Run
      /\ Fit(em[w], ctx[w], run[w], pkg)
  BY ProcessState DEF UnpublishLoad, At, Keep, Go
<1>2. r \in Run /\ r.arts \subseteq Existing /\ r.pc = "unpublish"
  BY <1>1 DEF Run, Places
<1>3. /\ f \in EntityManager /\ f.pkg = em[w].pkg
      /\ \A t \in Existing : f.art[t] # None
      /\ \A t \in Tenants : f.art[t] # None => pkg # None
  BY ExistingLoaded DEF Existing
<1> HIDE DEF f, r
<1>4. Fit(f, ctx[w], r, pkg)
  BY <1>1, <1>2, <1>3 DEF Fit, PackagePlaces, ArticlePlaces, ContextPlaces, LoopPlaces, Places
<1> QED
  BY <1>1, <1>2, <1>3, <1>4, QuietStep

\* One article is withdrawn.
LEMMA UnpublishKeepsInv == ASSUME Inv, NEW w \in Workers, Unpublish(w) PROVE Inv'
<1>1. /\ run[w].pc = "unpublish" /\ UNCHANGED <<dest, queue, budget>>
      /\ em[w] \in EntityManager /\ ctx[w] \in Context /\ run[w] \in Run
      /\ Fit(em[w], ctx[w], run[w], pkg) /\ em = [em EXCEPT ![w] = em[w]]
  BY ProcessState DEF Unpublish, At
<1>2. PICK t \in run[w].arts :
        LET e == Withdrawn(em[w], t) IN
          /\ IF IsPublished(em[w], t)
             THEN FlushOf(w, e, Refreshed(TenantSet(t), e, t))
             ELSE UNCHANGED <<db, em>>
          /\ SetCtx(w, TenantSet(t))
          /\ Go(w, [run[w] EXCEPT !.arts = @ \ {t}])
  BY DEF Unpublish
<1> DEFINE c == TenantSet(t)
           e == Withdrawn(em[w], t)
           left == Refreshed(c, e, t)
           r == [run[w] EXCEPT !.arts = @ \ {t}]
<1>3. /\ t \in Tenants /\ em[w].art[t] # None /\ em[w].pkg # None
  BY <1>1 DEF Fit, Run, PackagePlaces, Places
<1>4. e \in EntityManager /\ SameObjects(em[w], e)
  BY <1>1, <1>3, WithdrawnType
<1>5. c \in Context /\ left \in [Entries -> Nat] /\ r \in Run
  BY <1>1, <1>3, ContextType, ItemsType DEF Inv, Run
<1>6. Fit(em[w], c, r, pkg)
  <2> HIDE DEF c
  <2> QED
    BY <1>1 DEF Fit, Run, PackagePlaces, ArticlePlaces, ContextPlaces, LoopPlaces, Places
<1>7. /\ ctx' = [ctx EXCEPT ![w] = c] /\ run' = [run EXCEPT ![w] = r]
      /\ FlushOf(w, e, left) \/ (UNCHANGED db /\ em' = [em EXCEPT ![w] = em[w]])
  BY <1>1, <1>2 DEF SetCtx, Go
<1> HIDE DEF c, e, left, r
<1>8. Fit(e, c, r, pkg)
  BY <1>4, <1>5, <1>6, FitsWith DEF Run
<1>9. CASE FlushOf(w, e, left)
  BY <1>1, <1>4, <1>5, <1>7, <1>8, <1>9, FlushOfStep
<1>10. CASE UNCHANGED db /\ em' = [em EXCEPT ![w] = em[w]]
  BY <1>1, <1>5, <1>6, <1>7, <1>10, QuietStep
<1> QED
  BY <1>7, <1>9, <1>10

LEMMA UnpublishedKeepsInv == ASSUME Inv, NEW w \in Workers, Unpublished(w) PROVE Inv'
<1>1. /\ run[w].pc # "idle" /\ UNCHANGED <<db, dest, queue, budget>>
      /\ em' = [em EXCEPT ![w] = FreshEm] /\ run' = [run EXCEPT ![w] = Resting]
      /\ ctx' = [ctx EXCEPT ![w] = NoContext] /\ ctx[w] \in Context
  BY ProcessState DEF Unpublished, At, Keep, SetCtx, Go
<1>2. NoContext \in Context /\ Fit(FreshEm, NoContext, Resting, pkg)
  BY <1>1, ContextType, RestingFits
<1> QED
  BY <1>1, <1>2, FreshEmType, RestingType, QuietStep

\* PATCH of an article.
LEMMA PatchArticleKeepsInv == ASSUME Inv, NEW w \in Workers, PatchArticle(w) PROVE Inv'
<1>1. PICK q \in ArticleRequests :
        LET t == q.tenant IN
        /\ art[t] # None
        /\ Keep(w, [WithArticles(em[w], {t}) EXCEPT
                      !.art[t] = [art[t] EXCEPT !.status = q.status, !.route = q.route]])
        /\ SetCtx(w, TenantSet(t))
        /\ Go(w, [Resting EXCEPT !.pc = "patch", !.cur = t])
  BY DEF PatchArticle
<1> DEFINE t == q.tenant
           e == WithArticles(em[w], {t})
           a == [art[t] EXCEPT !.status = q.status, !.route = q.route]
           f == [e EXCEPT !.art[t] = a]
           c == TenantSet(t)
           r == [Resting EXCEPT !.pc = "patch", !.cur = t]
<1>2. /\ Accept(w) /\ art[t] # None /\ UNCHANGED <<db, dest, queue>>
      /\ em' = [em EXCEPT ![w] = f] /\ ctx' = [ctx EXCEPT ![w] = c]
      /\ run' = [run EXCEPT ![w] = r]
  BY <1>1 DEF PatchArticle, Keep, SetCtx, Go
<1>3. /\ t \in Tenants /\ t # None /\ q.status \in Statuses /\ q.route \in Routes \cup {None}
  BY RequestTypes, NoneIsNothing
<1>4. a \in Article
  <2>1. art[t] \in Article
    BY <1>2, <1>3 DEF Inv, TypeOK
  <2> QED
    BY <1>3, <2>1 DEF Article
<1>5. /\ e \in EntityManager /\ e.pkg = em[w].pkg /\ e.art[t] # None
      /\ \A u \in Tenants : e.art[u] # None => pkg # None
  <2>1. e = WithArticles(em[w], {t})
    OBVIOUS
  <2> HIDE DEF e, t
  <2> QED
    BY <1>2, <1>3, <2>1, FoundLoaded
<1>6. f \in EntityManager /\ f.pkg = e.pkg /\ SameObjects(e, f)
  <2> HIDE DEF e, a, t
  <2> QED
    BY <1>3, <1>4, <1>5, ArticleSet
<1>7. c \in Context /\ r \in Run /\ (em[w].pkg # None => pkg # None)
  BY <1>3, RestingType, ProcessState DEF Context, TenantSet, Run, Places, Fit
<1>8. /\ DbStep /\ dest' \in [Tenants -> Target \cup {None}] /\ pkg' = pkg
  BY <1>2, SharedState DEF db
<1>9. Fit(e, c, r, pkg)
  <2>1. /\ r.pc = "patch" /\ r.cur = t /\ r.arts = {}
    BY DEF Resting
  <2> HIDE DEF e, c, t, r
  <2> QED
    BY <1>3, <1>5, <1>7, <2>1, ProcessState
    DEF Fit, PackagePlaces, ArticlePlaces, ContextPlaces, LoopPlaces
<1> HIDE DEF t, e, a, f, c, r
<1>10. Fit(f, c, r, pkg')
  BY <1>6, <1>7, <1>8, <1>9, FitsWith DEF Run
<1> QED
  BY <1>2, <1>6, <1>7, <1>8, <1>10, AcceptStep

\* ArticleService::reactOnStatusChange, which finds the package.
LEMMA ReactOnStatusChangeKeepsInv ==
    ASSUME Inv, NEW w \in Workers, ReactOnStatusChange(w) PROVE Inv'
<1> DEFINE t == run[w].cur
           changed == em[w].art[t].status # em[w].art0[t].status
           loaded == WithPackage(em[w])
           e == IF ~changed THEN em[w]
                ELSE PackageStatus(loaded, IF IsPublished(loaded, t) THEN "published"
                                           ELSE "unpublished")
           left == IF changed THEN Refreshed(ctx[w], e, t) ELSE items
<1>1. /\ run[w].pc = "patch" /\ UNCHANGED <<dest, queue, budget>>
      /\ Flush(e, left)
      /\ em' = [em EXCEPT ![w] = FreshEm] /\ run' = [run EXCEPT ![w] = Resting]
      /\ ctx' = [ctx EXCEPT ![w] = NoContext]
  BY DEF ReactOnStatusChange, At, Keep, SetCtx, Go
<1>2. /\ em[w] \in EntityManager /\ ctx[w] \in Context /\ run[w] \in Run
      /\ Fit(em[w], ctx[w], run[w], pkg)
  BY ProcessState
<1>3. t \in Tenants /\ em[w].art[t] # None
  BY <1>1, <1>2 DEF Fit, Run, ArticlePlaces
<1>4. pkg # None
  BY <1>2, <1>3 DEF Fit
<1>5. loaded \in EntityManager /\ loaded.pkg # None
  BY <1>4, PackageLoaded
<1>6. e \in EntityManager
  <2>1. "published" \in Statuses /\ "unpublished" \in Statuses
    BY DEF Statuses
  <2> HIDE DEF loaded, changed, t
  <2> QED
    BY <1>2, <1>5, <2>1, PackageStatusType
<1>7. left \in [Entries -> Nat]
  <2> HIDE DEF e, changed, t
  <2> QED
    BY ItemsType DEF Inv
<1> HIDE DEF t, changed, loaded, e, left
<1>8. DbStep
  BY <1>1, <1>4, <1>6, <1>7, FlushStep
<1>9. NoContext \in Context /\ Fit(FreshEm, NoContext, Resting, pkg')
  BY <1>2, ContextType, RestingFits
<1> QED
  BY <1>1, <1>8, <1>9, FreshEmType, RestingType, HandlerStep

\* PATCH of a package: one statement.
LEMMA PatchPackageKeepsInv == ASSUME Inv, NEW w \in Workers, PatchPackage(w) PROVE Inv'
<1>1. PICK p \in PackageRequests :
        pkg' = [pkg EXCEPT !.pub = p, !.status = IF p = "canceled" THEN "canceled" ELSE @]
  BY DEF PatchPackage
<1>2. pkg \in Package /\ p \in PubStatuses /\ Accept(w) /\ UNCHANGED <<art, items, dest, queue>>
  BY RequestTypes DEF PatchPackage, Inv, TypeOK
<1>3. pkg' \in Package
  BY <1>1, <1>2 DEF Package, Statuses
<1>4. pkg' # None
  BY <1>3, NoneIsNothing
<1>5. DbStep /\ dest' \in [Tenants -> Target \cup {None}]
  BY <1>2, <1>3, <1>4 DEF Inv, TypeOK, DbStep
<1>6. /\ em' = [em EXCEPT ![w] = em[w]] /\ ctx' = [ctx EXCEPT ![w] = ctx[w]]
      /\ run' = [run EXCEPT ![w] = run[w]]
      /\ em[w] \in EntityManager /\ ctx[w] \in Context /\ run[w] \in Run
      /\ Fit(em[w], ctx[w], run[w], pkg)
  BY ProcessState DEF PatchPackage
<1>7. Fit(em[w], ctx[w], run[w], pkg')
  BY <1>4, <1>6 DEF Fit
<1> QED
  BY <1>2, <1>5, <1>6, <1>7, AcceptStep

\* POST organization/destinations.
LEMMA CreateDestinationKeepsInv ==
    ASSUME Inv, NEW w \in Workers, CreateDestination(w) PROVE Inv'
<1>1. PICK d \in DestinationRequests :
        dest' = [dest EXCEPT ![d.tenant] = [route |-> d.route, published |-> d.published]]
  BY DEF CreateDestination
<1>2. d \in Destination
  BY RequestTypes
<1>3. [route |-> d.route, published |-> d.published] \in Target
  BY <1>2 DEF Destination, Target
<1>4. dest' \in [Tenants -> Target \cup {None}]
  BY <1>1, <1>3 DEF Inv, TypeOK
<1>5. Accept(w) /\ UNCHANGED <<db, queue>>
  BY DEF CreateDestination
<1>6. /\ em' = [em EXCEPT ![w] = em[w]] /\ ctx' = [ctx EXCEPT ![w] = ctx[w]]
      /\ run' = [run EXCEPT ![w] = run[w]]
      /\ em[w] \in EntityManager /\ ctx[w] \in Context /\ run[w] \in Run
      /\ Fit(em[w], ctx[w], run[w], pkg) /\ DbStep /\ pkg' = pkg
  BY <1>5, ProcessState, SharedState DEF CreateDestination, db
<1> QED
  BY <1>4, <1>5, <1>6, AcceptStep

-----------------------------------------------------------------------------
(* Failures.                                                               *)

\* A requeued message comes back somewhere in the queue.
LEMMA RequeuedType ==
    ASSUME NEW q \in Seq(Message), NEW p \in Requeued(q)
    PROVE  p \in Seq(Message) /\ p # <<>>
<1>1. PICK i \in 1 .. Len(q) :
        p = SubSeq(q, 2, i) \o <<Head(q)>> \o SubSeq(q, i + 1, Len(q))
  BY DEF Requeued
<1>2. Len(q) \in Nat /\ q \in [1 .. Len(q) -> Message]
  BY LenProperties
<1>3. q # <<>>
  BY <1>1, <1>2, EmptySeq
<1>4. Head(q) \in Message
  BY <1>3, HeadTailProperties
<1> DEFINE a == SubSeq(q, 2, i)
           b == <<Head(q)>>
           c == SubSeq(q, i + 1, Len(q))
<1>5. i \in Int /\ i + 1 \in Int /\ i >= 1 /\ i <= Len(q) /\ Len(q) \in Int /\ 2 \in Int
  BY <1>1, <1>2
<1>6. a \in Seq(Message)
  <2>1. \A j \in 2 .. i : q[j] \in Message
    BY <1>2, <1>5
  <2> QED
    BY <1>5, <2>1, SubSeqProperties
<1>7. c \in Seq(Message)
  <2>1. \A j \in (i + 1) .. Len(q) : q[j] \in Message
    BY <1>2, <1>5
  <2> QED
    BY <1>5, <2>1, SubSeqProperties
<1>8. b \in Seq(Message) /\ b # <<>>
  <2>1. <<>> \in Seq(Message)
    BY EmptySeq
  <2>2. b = Append(<<>>, Head(q))
    OBVIOUS
  <2> QED
    BY <1>4, <2>1, <2>2, AppendProperties
<1> HIDE DEF a, b, c
<1>9. a \o b \in Seq(Message) /\ (a \o b) \o c \in Seq(Message)
  BY <1>6, <1>7, <1>8, ConcatProperties
<1>10. a \o b # <<>> /\ (a \o b) \o c # <<>>
  BY <1>6, <1>7, <1>8, <1>9, ConcatSimplifications
<1>11. p = (a \o b) \o c
  BY <1>1 DEF a, b, c
<1> QED
  BY <1>9, <1>10, <1>11

\* A process starts from nothing; the database stays.
LEMMA RestartStep ==
    ASSUME Inv, NEW w \in Workers, Restart(w), UNCHANGED <<db, dest>>,
           queue' \in Seq(Message), budget' \in Budget,
           w # Consumer /\ queue # <<>> => queue' # <<>>
    PROVE  Inv'
<1>1. /\ em' = [em EXCEPT ![w] = FreshEm] /\ run' = [run EXCEPT ![w] = Resting]
      /\ ctx' = [ctx EXCEPT ![w] = NoContext] /\ ctx[w] \in Context
  BY ProcessState DEF Restart, Keep, SetCtx, Go
<1>2. NoContext \in Context /\ Fit(FreshEm, NoContext, Resting, pkg')
  BY <1>1, ContextType, RestingFits
<1>3. DbStep /\ dest' \in [Tenants -> Target \cup {None}]
  BY SharedState
<1>4. Resting.pc = "idle"
  BY DEF Resting
<1> QED
  BY <1>1, <1>2, <1>3, <1>4, FreshEmType, RestingType, ProcessStep

LEMMA CrashKeepsInv == ASSUME Inv, NEW w \in Workers, Crash(w) PROVE Inv'
<1>1. Restart(w) /\ UNCHANGED <<db, dest, queue>> /\ budget' \in Budget
  BY BudgetGrows DEF Crash
<1>2. queue' \in Seq(Message)
  BY <1>1, SharedState
<1> QED
  BY <1>1, <1>2, RestartStep

LEMMA RejectKeepsInv == ASSUME Inv, Reject PROVE Inv'
<1> DEFINE w == Consumer
<1>1. w \in Workers /\ budget' \in Budget /\ UNCHANGED <<db, dest>>
  BY BudgetGrows, ConsumerWorks DEF Reject
<1>2. queue' \in Seq(Message)
  BY RequeuedType DEF Reject, Inv, TypeOK
<1>3. /\ em' = [em EXCEPT ![w] = em[w]] /\ ctx' = [ctx EXCEPT ![w] = ctx[w]]
      /\ run' = [run EXCEPT ![w] = Resting]
      /\ em[w] \in EntityManager /\ ctx[w] \in Context
      /\ Fit(em[w], ctx[w], run[w], pkg)
  BY <1>1, ProcessState DEF Reject, Go
<1>4. DbStep /\ dest' \in [Tenants -> Target \cup {None}] /\ pkg' = pkg
  BY <1>1, SharedState DEF db
<1>5. Fit(em[w], ctx[w], Resting, pkg')
  BY <1>3, <1>4 DEF Fit, Resting, PackagePlaces, ArticlePlaces, ContextPlaces, LoopPlaces
<1>6. Resting.pc = "idle"
  BY DEF Resting
<1> QED
  BY <1>1, <1>2, <1>3, <1>4, <1>5, <1>6, RestingType, ProcessStep

LEMMA UniqueViolationKeepsInv ==
    ASSUME Inv, NEW w \in Workers, UniqueViolation(w) PROVE Inv'
<1>1. Restart(w) /\ UNCHANGED <<db, dest, budget>>
  BY DEF UniqueViolation
<1>2. queue' \in Seq(Message) /\ (w # Consumer => queue' = queue)
  BY RequeuedType DEF UniqueViolation, Inv, TypeOK
<1>3. budget' \in Budget
  BY <1>1, SharedState
<1> QED
  BY <1>1, <1>2, <1>3, RestartStep

LEMMA NonUniqueResultKeepsInv ==
    ASSUME Inv, NEW w \in Workers, NonUniqueResult(w) PROVE Inv'
<1>1. Restart(w) /\ UNCHANGED <<db, dest, queue, budget>>
  BY DEF NonUniqueResult
<1>2. queue' \in Seq(Message) /\ budget' \in Budget
  BY <1>1, SharedState
<1> QED
  BY <1>1, <1>2, RestartStep

-----------------------------------------------------------------------------
(* The specification.                                                      *)

LEMMA InitInv == Init => Inv
<1> SUFFICES ASSUME Init PROVE Inv
  OBVIOUS
<1>1. dest \in [Tenants -> Target \cup {None}]
  BY ConstantsAssumption DEF Init, ConstantsAssumption
<1>2. queue \in Seq(Message)
  BY EmptySeq DEF Init
<1>3. NoContext \in Context
  BY DEF NoContext, Context
<1>4. budget \in Budget
  BY Bounds DEF Init, Budget
<1>5. pkg = None /\ \A t \in Tenants : art[t] = None
  BY DEF Init, NoArticles
<1>6. /\ art \in [Tenants -> Article \cup {None}] /\ items \in [Entries -> Nat]
  BY DEF Init, NoArticles, NoItems
<1>7. /\ em \in [Workers -> EntityManager] /\ ctx \in [Workers -> Context]
      /\ run \in [Workers -> Run]
  BY <1>3, FreshEmType, RestingType DEF Init
<1>8. TypeOK
  BY <1>1, <1>2, <1>4, <1>5, <1>6, <1>7 DEF TypeOK
<1>9. \A w \in Workers : Fit(em[w], ctx[w], run[w], pkg)
  BY <1>3, RestingFits DEF Init
<1>10. At(Consumer, "idle")
  BY ConsumerWorks DEF Init, At, Resting
<1> QED
  BY <1>5, <1>8, <1>9, <1>10 DEF Inv, Sound

\* Publishing one article, by any process.
LEMMA HandleKeepsInv == ASSUME Inv, NEW w \in Workers, Handle(w) PROVE Inv'
BY PublishKeepsInv, PublishDoneKeepsInv, SaveKeepsInv, ArticleRulesKeepsInv, RuleKeepsInv,
   RulesDoneKeepsInv, RefreshKeepsInv, DispatchKeepsInv, UniqueViolationKeepsInv,
   NonUniqueResultKeepsInv
DEF Handle

\* What the consumer does.
LEMMA ConsumeKeepsInv == ASSUME Inv, Consume PROVE Inv'
BY ConsumerWorks, ReceiveKeepsInv, OnUpdatedKeepsInv, HydrateKeepsInv, HydratedKeepsInv,
   OnCanceledKeepsInv, CancelKeepsInv, CanceledKeepsInv, ProcessRulesKeepsInv,
   PopulateKeepsInv, PopulatedKeepsInv, ProcessedKeepsInv, HandleKeepsInv
DEF Consume

\* What an API process does.
LEMMA ApiKeepsInv == ASSUME Inv, NEW w \in Api, Request(w) \/ Respond(w) PROVE Inv'
<1>1. w \in Workers
  BY DEF Workers
<1> QED
  BY <1>1, PublishPackageKeepsInv, UnpublishPackageKeepsInv, PatchArticleKeepsInv,
     PatchPackageKeepsInv, CreateDestinationKeepsInv, UnpublishLoadKeepsInv,
     UnpublishKeepsInv, UnpublishedKeepsInv, ReactOnStatusChangeKeepsInv, HandleKeepsInv
  DEF Request, Respond

\* The invariant is inductive.
LEMMA NextInv == Inv /\ [Next]_vars => Inv'
<1> SUFFICES ASSUME Inv, [Next]_vars PROVE Inv'
  OBVIOUS
<1>1. CASE Push
  BY <1>1, PushKeepsInv
<1>2. CASE Consume
  BY <1>2, ConsumeKeepsInv
<1>3. CASE \E w \in Api : Request(w) \/ Respond(w)
  BY <1>3, ApiKeepsInv
<1>4. CASE \E w \in Workers : Crash(w)
  BY <1>4, CrashKeepsInv
<1>5. CASE Reject
  BY <1>5, RejectKeepsInv
<1>6. CASE UNCHANGED vars
  BY <1>6 DEF vars, Inv, TypeOK, Sound, At, Fit
<1> QED
  BY <1>1, <1>2, <1>3, <1>4, <1>5, <1>6 DEF Next

LEMMA InvHolds == Spec => []Inv
BY InitInv, NextInv, PTL DEF Spec

\* Every variable keeps its type: rows, entity managers, contexts and the places
\* of all processes, and a queue of messages.
THEOREM TypeCorrect == Spec => []TypeOK
<1>1. Inv => TypeOK
  BY DEF Inv
<1> QED
  BY <1>1, InvHolds, PTL

\* No handler of the consumer or of a request works on an object it has not
\* loaded, without a tenant, or without a message (ContentPushConsumer,
\* ArticlePublisher, PackageStatusListener::getPackage).
THEOREM Soundness == Spec => []Sound
<1>1. Inv => Sound
  BY DEF Inv
<1> QED
  BY <1>1, InvHolds, PTL
=============================================================================
