------------------------------ MODULE StoryProofs ------------------------------
(***************************************************************************)
(* Proofs about the story of Publishing: who cancels its articles, and     *)
(* which of them are public if the package counts as published.            *)
(*                                                                         *)
(* The steps of processes are sorted into a few shapes first: those that   *)
(* touch managed objects, load rows, insert an article, or forget          *)
(* everything.  Each invariant then needs one argument for each shape.     *)
(*                                                                         *)
(* While no request writes an article, the consumer's objects agree with   *)
(* the rows but for its own work, so that what a flush stores is what the  *)
(* listeners made, also after rejected messages.                           *)
(*                                                                         *)
(* The last part is about destinations: they decide whether an article is  *)
(* public, against rules, corrections and rejected messages.               *)
(***************************************************************************)
EXTENDS PublishingProofs

-----------------------------------------------------------------------------
(* What listeners do to the objects of an entity manager.                  *)

\* f holds the objects of e in the same revisions, loaded from the same rows;
\* no article has been canceled and the package has kept its pubStatus.
Touched(e, f) ==
    /\ f.pkg0 = e.pkg0 /\ f.art0 = e.art0
    /\ f.pkg = None <=> e.pkg = None
    /\ e.pkg # None => f.pkg.pub = e.pkg.pub /\ f.pkg.rev = e.pkg.rev
    /\ \A t \in Tenants :
         /\ f.art[t] = None <=> e.art[t] = None
         /\ e.art[t] # None =>
              /\ f.art[t].rev = e.art[t].rev
              /\ f.art[t].status = "canceled" => e.art[t].status = "canceled"

LEMMA TouchedSelf == ASSUME NEW e PROVE Touched(e, e)
BY DEF Touched

LEMMA TouchedTwice ==
    ASSUME NEW e, NEW f, NEW g, Touched(e, f), Touched(f, g)
    PROVE  Touched(e, g)
BY DEF Touched

\* A status but `canceled' is set.
LEMMA TouchedStatus ==
    ASSUME NEW e \in EntityManager, NEW t \in Tenants, e.art[t] # None,
           NEW status \in Statuses \ {"canceled"}
    PROVE  /\ [e EXCEPT !.art[t].status = status] \in EntityManager
           /\ Touched(e, [e EXCEPT !.art[t].status = status])
           /\ [e EXCEPT !.art[t].status = status].pkg = e.pkg
<1> DEFINE a == [e.art[t] EXCEPT !.status = status]
           f == [e EXCEPT !.art[t].status = status]
<1>1. e.art[t] \in Article /\ e.art \in [Tenants -> Article \cup {None}]
  BY DEF EntityManager
<1>2. a \in Article /\ a # None /\ a.rev = e.art[t].rev /\ a.status = status
  BY <1>1, NoneIsNothing DEF Article
<1>3. f \in EntityManager /\ f.pkg = e.pkg
  BY StatusSet
<1>4. f.pkg0 = e.pkg0 /\ f.art0 = e.art0 /\ f.art = [e.art EXCEPT ![t] = a]
  BY DEF EntityManager
<1>5. \A u \in Tenants : f.art[u] = IF u = t THEN a ELSE e.art[u]
  BY <1>1, <1>4
<1> HIDE DEF a, f
<1>6. Touched(e, f)
  BY <1>2, <1>3, <1>4, <1>5 DEF Touched
<1> QED
  BY <1>3, <1>6 DEF f

\* A route is set.
LEMMA TouchedRoute ==
    ASSUME NEW e \in EntityManager, NEW t \in Tenants, e.art[t] # None,
           NEW route \in Routes \cup {None}
    PROVE  /\ [e EXCEPT !.art[t].route = route] \in EntityManager
           /\ Touched(e, [e EXCEPT !.art[t].route = route])
           /\ [e EXCEPT !.art[t].route = route].pkg = e.pkg
<1> DEFINE a == [e.art[t] EXCEPT !.route = route]
           f == [e EXCEPT !.art[t].route = route]
<1>1. e.art[t] \in Article /\ e.art \in [Tenants -> Article \cup {None}]
  BY DEF EntityManager
<1>2. a \in Article /\ a # None /\ a.rev = e.art[t].rev /\ a.status = e.art[t].status
  BY <1>1, NoneIsNothing DEF Article
<1>3. f \in EntityManager /\ f.pkg = e.pkg
  BY RouteSet
<1>4. f.pkg0 = e.pkg0 /\ f.art0 = e.art0 /\ f.art = [e.art EXCEPT ![t] = a]
  BY DEF EntityManager
<1>5. \A u \in Tenants : f.art[u] = IF u = t THEN a ELSE e.art[u]
  BY <1>1, <1>4
<1> HIDE DEF a, f
<1>6. Touched(e, f)
  BY <1>2, <1>3, <1>4, <1>5 DEF Touched
<1> QED
  BY <1>3, <1>6 DEF f

\* PackageStatusListener sets a status of the package.
LEMMA TouchedPackage ==
    ASSUME NEW e \in EntityManager, e.pkg # None, NEW status \in Statuses
    PROVE  /\ PackageStatus(e, status) \in EntityManager
           /\ Touched(e, PackageStatus(e, status))
           /\ PackageStatus(e, status).art = e.art
<1>1. e.pkg \in Package
  BY DEF EntityManager
<1>2. [e.pkg EXCEPT !.status = status] \in Package
  BY <1>1 DEF Package
<1>3. PackageStatus(e, status).pkg.rev = e.pkg.rev /\ PackageStatus(e, status).pkg # None
  BY <1>1, <1>2, NoneIsNothing DEF PackageStatus, EntityManager, Package
<1> QED
  BY <1>3, PackageStatusType DEF Touched

\* swp.article.publish and swp.article.unpublish do no more than that.
LEMMA TouchedAfterPublish ==
    ASSUME NEW e \in EntityManager, NEW t \in Tenants, e.art[t] # None, e.pkg # None
    PROVE  AfterPublish(e, t) \in EntityManager /\ Touched(e, AfterPublish(e, t))
<1> DEFINE f == [e EXCEPT !.art[t].status = "published"]
<1>1. "published" \in Statuses \ {"canceled"} /\ "published" \in Statuses
  BY DEF Statuses
<1>2. f \in EntityManager /\ Touched(e, f) /\ f.pkg = e.pkg
  BY <1>1, TouchedStatus
<1>3. PackageStatus(f, "published") \in EntityManager /\ Touched(f, PackageStatus(f, "published"))
  BY <1>1, <1>2, TouchedPackage
<1> QED
  BY <1>2, <1>3, TouchedSelf, TouchedTwice DEF AfterPublish

LEMMA TouchedWithdrawn ==
    ASSUME NEW e \in EntityManager, NEW t \in Tenants, e.art[t] # None, e.pkg # None
    PROVE  /\ Withdrawn(e, t) \in EntityManager /\ Touched(e, Withdrawn(e, t))
           /\ \A u \in Tenants : Withdrawn(e, t).art[u] # None
                /\ Withdrawn(e, t).art[u].status = "published" => e.art[u].status = "published"
<1> DEFINE f == [e EXCEPT !.art[t].status = "unpublished"]
<1>1. "unpublished" \in Statuses \ {"canceled"} /\ "unpublished" \in Statuses
  BY DEF Statuses
<1>2. f \in EntityManager /\ Touched(e, f) /\ f.pkg = e.pkg
  BY <1>1, TouchedStatus
<1>3. /\ PackageStatus(f, "unpublished") \in EntityManager
      /\ Touched(f, PackageStatus(f, "unpublished"))
      /\ PackageStatus(f, "unpublished").art = f.art
  BY <1>1, <1>2, TouchedPackage
<1>4. \A u \in Tenants : f.art[u] # None /\ f.art[u].status = "published"
                           => e.art[u].status = "published"
  BY DEF EntityManager, Article
<1> QED
  BY <1>2, <1>3, <1>4, TouchedTwice DEF Withdrawn

\* Items to add are no object.
LEMMA TouchedListed ==
    ASSUME NEW w \in Workers, NEW e \in EntityManager, NEW t \in Tenants
    PROVE  Listed(w, e, t) \in EntityManager /\ Touched(e, Listed(w, e, t))
BY ListedType DEF Touched

-----------------------------------------------------------------------------
(* Shapes of steps.                                                        *)

\* Where a request is that publishes no package, and where the consumer is
\* while it handles a killed package that has no destination.
ApiPlaces == {"idle", "unpublishLoad", "unpublish", "patch"}
KillPlaces == {"onUpdated", "onCanceled", "cancel", "processRules", "populate", "processed"}

\* Places inside of a loop over articles: run.arts are those it has still to do.
Looping(r) ==
    \/ r.pc \in {"hydrate", "cancel"}
    \/ r.pc \in {"articleRules", "rule", "refresh", "dispatch"} /\ r.from = "hydrate"

\* The consumer handles a killed package and no destination takes it further.
Killing(r, e) ==
    /\ r.pc \in KillPlaces /\ r.dests = {} /\ e.pkg.pub = "canceled"
    /\ \A t \in Tenants : dest[t] = None

\* A process goes from one place of a handler to another, r.
Handling(w, r) ==
    /\ run' = [run EXCEPT ![w] = r]
    /\ \A v \in Workers \ {w} : ctx'[v] = ctx[v]
    /\ UNCHANGED <<dest, queue, budget>>
    /\ run[w].pc # "idle" /\ r.pc \notin {"idle", "onUpdated", "patch"}
    /\ r.pc = "hydrate" => r.from = "hydrate"
    /\ r.pc = "cancel" => em[w].pkg # None /\ em[w].pkg.pub = "canceled"
    /\ w \in Api /\ run[w].pc \in ApiPlaces => r.pc \in ApiPlaces
    /\ w = Consumer =>
         /\ \/ r.arts = run[w].arts /\ ~(At(w, "onUpdated") /\ em[w].pkg.pub = "usable")
            \/ r.arts = Existing
         /\ \/ Looping(r)
            \/ r.arts = run[w].arts /\ (Looping(run[w]) => r.arts = {})
         /\ Killing(run[w], em[w]) =>
              /\ r.pc \in KillPlaces /\ r.dests = {}
              /\ At(w, "onCanceled") => r.arts = Existing
              /\ At(w, "onUpdated") => r.pc = "onCanceled"

\* Its objects become f, in memory or by a flush. A request that publishes no
\* package publishes no article.
TouchStep(w, f, r) ==
    /\ Handling(w, r) /\ Touched(em[w], f)
    /\ \/ run[w].pc # "save" /\ Keep(w, f) /\ UNCHANGED db
       \/ \E left \in [Entries -> Nat] : FlushOf(w, f, left)
    /\ w = Consumer /\ Killing(run[w], em[w]) => f = em[w]
    /\ w \in Api /\ run[w].pc \in ApiPlaces =>
         \A t \in Tenants : f.art[t] # None /\ f.art[t].status = "published"
                              => em[w].art[t].status = "published"

\* Articles are loaded; if it is to publish one, that is also touched.
LoadStep(w, f, r) ==
    /\ Handling(w, r) /\ Keep(w, f) /\ UNCHANGED db
    /\ run[w].pc # "save"
    /\ \E T \in SUBSET Tenants :
         /\ Touched(WithArticles(em[w], T), f)
         /\ run[w].pc # "publish" => f = WithArticles(em[w], T)

\* An article is created, in memory.
InsertStep(w, f, r) ==
    /\ Handling(w, r) /\ Keep(w, f) /\ UNCHANGED db
    /\ run[w].pc \in {"publish", "populate"} /\ run[w].dests # {}
    /\ r.pc = "save" /\ r.cur \in Tenants /\ art[r.cur] = None
    /\ \E a \in Article :
         /\ a.status = "new" /\ a.rev = em[w].pkg.rev
         /\ f = [em[w] EXCEPT !.art0[r.cur] = None, !.art[r.cur] = a]

\* A process forgets everything: it is done, or it crashes.
ForgetStep(w) ==
    /\ Keep(w, FreshEm) /\ Go(w, Resting)
    /\ \E c \in Context : c.tenant = None /\ SetCtx(w, c)
    /\ UNCHANGED <<db, dest>> /\ budget'.pushes = budget.pushes
    /\ \/ run[w].pc # "idle" /\ UNCHANGED queue
       \/ w = Consumer /\ At(w, "processed") /\ queue' = Tail(queue)
       \/ Conflict(em[w])

Shaped(w) ==
    \/ \E f \in EntityManager, r \in Run :
         TouchStep(w, f, r) \/ LoadStep(w, f, r) \/ InsertStep(w, f, r)
    \/ ForgetStep(w)

\* The contexts of the other processes stay.
LEMMA OtherContexts ==
    ASSUME Inv, NEW w \in Workers, NEW c, ctx' = [ctx EXCEPT ![w] = c] \/ UNCHANGED ctx
    PROVE  \A v \in Workers \ {w} : ctx'[v] = ctx[v]
BY DEF Inv, TypeOK

LEMMA OnUpdatedShape == ASSUME Inv, OnUpdated(Consumer) PROVE Shaped(Consumer)
<1> DEFINE w == Consumer
           f == WithArticles(em[w], Existing)
           r == [run[w] EXCEPT !.pc = "hydrate", !.arts = Existing, !.from = "hydrate"]
           q == [run[w] EXCEPT !.pc = "onCanceled"]
<1>1. /\ run[w].pc = "onUpdated" /\ UNCHANGED <<db, dest, queue, budget>>
      /\ em[w] \in EntityManager /\ run[w] \in Run /\ w \in Workers /\ w \notin Api
      /\ em = [em EXCEPT ![w] = em[w]]
  BY ProcessState, ConsumerWorks DEF OnUpdated, At
<1>2. r \in Run /\ q \in Run /\ r.pc = "hydrate" /\ q.pc = "onCanceled"
      /\ r.arts = Existing /\ q.arts = run[w].arts /\ q.dests = run[w].dests
      /\ r.from = "hydrate"
  BY <1>1 DEF Run, Places, Existing
<1>3. \A v \in Workers \ {w} : ctx'[v] = ctx[v]
  BY <1>1, OtherContexts DEF OnUpdated, SetCtx
<1>4. CASE em[w].pkg.pub = "usable"
  <2>1. f \in EntityManager
    BY <1>1, ExistingLoaded
  <2>2. em' = [em EXCEPT ![w] = f] /\ run' = [run EXCEPT ![w] = r]
    BY <1>4 DEF OnUpdated, Keep, Go
  <2>3. Touched(f, f) /\ Existing \in SUBSET Tenants
    BY TouchedSelf DEF Existing
  <2>4. LoadStep(w, f, r)
    <3> HIDE DEF r, q, w
    <3> QED
      BY <1>1, <1>2, <1>3, <1>4, <2>2, <2>3
      DEF LoadStep, Handling, Looping, Killing, At, Keep
  <2> QED
    BY <1>2, <2>1, <2>4 DEF Shaped
<1>5. CASE em[w].pkg.pub # "usable"
  <2>1. em' = [em EXCEPT ![w] = em[w]] /\ run' = [run EXCEPT ![w] = q]
    BY <1>1, <1>5 DEF OnUpdated, Go
  <2>2. TouchStep(w, em[w], q)
    <3> HIDE DEF r, q, w
    <3> QED
      BY <1>1, <1>2, <1>3, <1>5, <2>1, TouchedSelf
      DEF TouchStep, Handling, Looping, Killing, KillPlaces, At, Keep
  <2> QED
    BY <1>1, <1>2, <2>2 DEF Shaped
<1> QED
  BY <1>4, <1>5

LEMMA HydratedShape == ASSUME Inv, Hydrated(Consumer) PROVE Shaped(Consumer)
<1> DEFINE w == Consumer
           r == [run[w] EXCEPT !.pc = "onCanceled"]
<1>1. /\ run[w].pc = "hydrate" /\ run[w].arts = {}
      /\ UNCHANGED <<db, dest, queue, em, budget>>
      /\ em[w] \in EntityManager /\ run[w] \in Run /\ w \in Workers /\ w \notin Api
      /\ em' = [em EXCEPT ![w] = em[w]] /\ run' = [run EXCEPT ![w] = r]
  BY ProcessState, ConsumerWorks DEF Hydrated, At, Go
<1>2. r \in Run /\ r.pc = "onCanceled" /\ r.arts = run[w].arts
  BY <1>1 DEF Run, Places
<1>3. \A v \in Workers \ {w} : ctx'[v] = ctx[v]
  BY <1>1, OtherContexts DEF Hydrated, SetCtx
<1>4. TouchStep(w, em[w], r)
  <2> HIDE DEF r, w
  <2> QED
    BY <1>1, <1>2, <1>3, TouchedSelf
    DEF TouchStep, Handling, Looping, Killing, KillPlaces, At, Keep
<1> QED
  BY <1>1, <1>2, <1>4 DEF Shaped

LEMMA OnCanceledShape == ASSUME Inv, OnCanceled(Consumer) PROVE Shaped(Consumer)
<1> DEFINE w == Consumer
           f == WithArticles(em[w], Existing)
           r == [run[w] EXCEPT !.pc = "cancel", !.arts = Existing]
           q == [run[w] EXCEPT !.pc = "processRules"]
<1>1. /\ run[w].pc = "onCanceled" /\ UNCHANGED <<db, dest, queue, budget>>
      /\ em[w] \in EntityManager /\ run[w] \in Run /\ w \in Workers /\ w \notin Api
      /\ em = [em EXCEPT ![w] = em[w]] /\ em[w].pkg # None
  BY ProcessState, ConsumerWorks DEF OnCanceled, At, Fit, PackagePlaces, Places
<1>2. r \in Run /\ q \in Run /\ r.pc = "cancel" /\ q.pc = "processRules"
      /\ r.arts = Existing /\ q.arts = run[w].arts
      /\ q.dests = run[w].dests /\ r.dests = run[w].dests
  BY <1>1 DEF Run, Places, Existing
<1>3. \A v \in Workers \ {w} : ctx'[v] = ctx[v]
  BY <1>1, OtherContexts DEF OnCanceled, SetCtx
<1>4. CASE Killed(em[w])
  <2>1. f \in EntityManager
    BY <1>1, ExistingLoaded
  <2>2. em' = [em EXCEPT ![w] = f] /\ run' = [run EXCEPT ![w] = r]
    BY <1>4 DEF OnCanceled, Keep, Go
  <2>3. Touched(f, f) /\ Existing \in SUBSET Tenants
    BY TouchedSelf DEF Existing
  <2>4. LoadStep(w, f, r)
    <3> HIDE DEF r, q, w
    <3> QED
      BY <1>1, <1>2, <1>3, <1>4, <2>2, <2>3
      DEF LoadStep, Handling, Looping, Killing, KillPlaces, At, Keep, Killed
  <2> QED
    BY <1>2, <2>1, <2>4 DEF Shaped
<1>5. CASE ~Killed(em[w])
  <2>1. em' = [em EXCEPT ![w] = em[w]] /\ run' = [run EXCEPT ![w] = q]
    BY <1>1, <1>5 DEF OnCanceled, Go
  <2>2. TouchStep(w, em[w], q)
    <3> HIDE DEF r, q, w
    <3> QED
      BY <1>1, <1>2, <1>3, <1>5, <2>1, TouchedSelf
      DEF TouchStep, Handling, Looping, Killing, KillPlaces, At, Keep, Killed
  <2> QED
    BY <1>1, <1>2, <2>2 DEF Shaped
<1> QED
  BY <1>4, <1>5

LEMMA CanceledShape == ASSUME Inv, Canceled(Consumer) PROVE Shaped(Consumer)
<1> DEFINE w == Consumer
           r == [run[w] EXCEPT !.pc = "processRules"]
<1>1. /\ run[w].pc = "cancel" /\ run[w].arts = {} /\ UNCHANGED <<dest, queue, budget>>
      /\ em[w] \in EntityManager /\ run[w] \in Run /\ w \in Workers /\ w \notin Api
      /\ FlushOf(w, em[w], items) /\ run' = [run EXCEPT ![w] = r]
      /\ items \in [Entries -> Nat]
  BY ProcessState, ConsumerWorks DEF Canceled, At, Go, Inv, TypeOK
<1>2. r \in Run /\ r.pc = "processRules" /\ r.arts = run[w].arts /\ r.dests = run[w].dests
  BY <1>1 DEF Run, Places
<1>3. \A v \in Workers \ {w} : ctx'[v] = ctx[v]
  BY <1>1, OtherContexts DEF Canceled, SetCtx
<1>4. TouchStep(w, em[w], r)
  <2> HIDE DEF r, w
  <2> QED
    BY <1>1, <1>2, <1>3, TouchedSelf
    DEF TouchStep, Handling, Looping, Killing, KillPlaces, At
<1> QED
  BY <1>1, <1>2, <1>4 DEF Shaped

LEMMA ProcessRulesShape == ASSUME Inv, ProcessRules(Consumer) PROVE Shaped(Consumer)
<1> DEFINE w == Consumer
           p == em[w].pkg
           D == {[tenant |-> t, route |-> None, published |-> FALSE] :
                   t \in PopulatedTenants(p)}
           r == [run[w] EXCEPT !.pc = "publish", !.from = "publish",
                   !.dests = MatchedDestinations(p.rev), !.home = ctx[w].tenant]
           q == [run[w] EXCEPT !.pc = "populate", !.from = "populate",
                   !.dests = D, !.home = ctx[w].tenant]
<1>1. /\ run[w].pc = "processRules" /\ UNCHANGED <<db, dest, queue, budget>>
      /\ em' = [em EXCEPT ![w] = em[w]]
      /\ em[w] \in EntityManager /\ ctx[w] \in Context /\ run[w] \in Run
      /\ w \in Workers /\ w \notin Api
  BY ProcessState, ConsumerWorks DEF ProcessRules, At
<1>2. D \subseteq Destination /\ MatchedDestinations(p.rev) \subseteq Destination
  <2>1. /\ MatchedDestinations(p.rev) \subseteq Destination
        /\ Forwarded(p.rev) \subseteq Tenants
    BY MatchedType
  <2>2. PopulatedTenants(p) \subseteq Tenants
    BY <2>1 DEF PopulatedTenants
  <2>3. \A t \in Tenants : [tenant |-> t, route |-> None, published |-> FALSE] \in Destination
    BY DEF Destination
  <2> HIDE DEF p
  <2> QED
    BY <2>1, <2>2, <2>3
<1>3. ctx[w].tenant \in Tenants \cup {None}
  BY <1>1 DEF Context
<1>4. /\ r \in Run /\ r.pc = "publish" /\ r.arts = run[w].arts
      /\ q \in Run /\ q.pc = "populate" /\ q.arts = run[w].arts /\ q.dests = D
  <2> HIDE DEF D, p
  <2> QED
    BY <1>1, <1>2, <1>3 DEF Run, Places
<1>5. p.pub = "canceled" => D = {}
  <2>1. p.pub = "canceled" => PopulatedTenants(p) = {}
    BY DEF PopulatedTenants
  <2> QED
    BY <2>1
<1>6. \A v \in Workers \ {w} : ctx'[v] = ctx[v]
  BY <1>1, OtherContexts DEF ProcessRules, SetCtx
<1>7. \/ (\E t \in Tenants : dest[t] # None) /\ run' = [run EXCEPT ![w] = r]
      \/ run' = [run EXCEPT ![w] = q]
  BY DEF ProcessRules, Go
<1> HIDE DEF w, D, r, q
<1>8. CASE (\E t \in Tenants : dest[t] # None) /\ run' = [run EXCEPT ![w] = r]
  <2>1. TouchStep(w, em[w], r)
    BY <1>1, <1>4, <1>6, <1>8, TouchedSelf
    DEF TouchStep, Handling, Looping, Killing, At, Keep
  <2> QED
    BY <1>1, <1>4, <2>1 DEF Shaped, w
<1>9. CASE run' = [run EXCEPT ![w] = q]
  <2>1. TouchStep(w, em[w], q)
    BY <1>1, <1>4, <1>5, <1>6, <1>9, TouchedSelf
    DEF TouchStep, Handling, Looping, Killing, KillPlaces, At, Keep
  <2> QED
    BY <1>1, <1>4, <2>1 DEF Shaped, w
<1> QED
  BY <1>7, <1>8, <1>9

LEMMA PopulateShape == ASSUME Inv, Populate(Consumer) PROVE Shaped(Consumer)
<1> DEFINE w == Consumer
<1>1. /\ run[w].pc = "populate" /\ UNCHANGED <<db, dest, queue, budget>>
      /\ em[w] \in EntityManager /\ ctx[w] \in Context /\ run[w] \in Run
      /\ Fit(em[w], ctx[w], run[w], pkg) /\ w \in Workers /\ w \notin Api
  BY ProcessState, ConsumerWorks DEF Populate, At
<1>2. PICK d \in run[w].dests :
        LET t == d.tenant
            rest == [run[w] EXCEPT !.dests = @ \ {d}]
        IN /\ SetCtx(w, TenantSet(t))
           /\ IF art[t] # None
              THEN /\ Keep(w, WithArticles(em[w], {t}))
                   /\ Go(w, rest)
              ELSE /\ Keep(w, [em[w] EXCEPT !.art0[t] = None, !.art[t] =
                         [status |-> "new", route |-> None, rev |-> em[w].pkg.rev]])
                   /\ Go(w, [rest EXCEPT !.pc = "save", !.cur = t,
                                         !.created = TRUE, !.wanted = FALSE])
  BY DEF Populate
<1> DEFINE t == d.tenant
           a == [status |-> "new", route |-> None, rev |-> em[w].pkg.rev]
           f == WithArticles(em[w], {t})
           g == [em[w] EXCEPT !.art0[t] = None, !.art[t] = a]
           r == [run[w] EXCEPT !.dests = @ \ {d}]
           q == [r EXCEPT !.pc = "save", !.cur = t, !.created = TRUE, !.wanted = FALSE]
<1>3. t \in Tenants /\ em[w].pkg # None
  BY <1>1 DEF Fit, Run, Destination, PackagePlaces, Places
<1>4. /\ r \in Run /\ r.pc = run[w].pc /\ r.arts = run[w].arts /\ (run[w].dests = {} => r.dests = {})
      /\ q \in Run /\ q.pc = "save" /\ q.cur = t /\ q.arts = run[w].arts
  BY <1>1, <1>3 DEF Run, Places
<1>5. \A v \in Workers \ {w} : ctx'[v] = ctx[v]
  BY <1>1, <1>2, OtherContexts DEF SetCtx
<1>6. CASE art[t] # None
  <2>1. f \in EntityManager
    BY <1>1, <1>3, WithArticlesType DEF Inv
  <2>2. em' = [em EXCEPT ![w] = f] /\ run' = [run EXCEPT ![w] = r]
    BY <1>2, <1>6 DEF Keep, Go
  <2>3. Touched(f, f) /\ {t} \in SUBSET Tenants /\ f = WithArticles(em[w], {t})
    BY <1>3, TouchedSelf
  <2>4. LoadStep(w, f, r)
    <3> HIDE DEF r, q, f, t, w
    <3> QED
      BY <1>1, <1>4, <1>5, <2>2, <2>3
      DEF LoadStep, Handling, Looping, Killing, KillPlaces, At, Keep
  <2> QED
    BY <1>4, <2>1, <2>4 DEF Shaped
<1>7. CASE art[t] = None
  <2>1. a \in Article /\ a.status = "new" /\ a.rev = em[w].pkg.rev
    BY <1>1, <1>3 DEF EntityManager, Package, Article, Statuses
  <2>2. g \in EntityManager
    <3> HIDE DEF a, t
    <3> QED
      BY <1>1, <1>3, <2>1 DEF EntityManager
  <2>3. em' = [em EXCEPT ![w] = g] /\ run' = [run EXCEPT ![w] = q]
    BY <1>2, <1>7 DEF Keep, Go
  <2>4. g = [em[w] EXCEPT !.art0[q.cur] = None, !.art[q.cur] = a]
    BY <1>4
  <2>5. InsertStep(w, g, q)
    <3> HIDE DEF r, q, g, t, a, w
    <3> QED
      BY <1>1, <1>2, <1>3, <1>4, <1>5, <1>7, <2>1, <2>3, <2>4
      DEF InsertStep, Handling, Looping, Killing, KillPlaces, At, Keep
  <2> QED
    BY <1>4, <2>2, <2>5 DEF Shaped
<1> QED
  BY <1>6, <1>7

LEMMA PopulatedShape == ASSUME Inv, Populated(Consumer) PROVE Shaped(Consumer)
<1> DEFINE w == Consumer
           r == [run[w] EXCEPT !.pc = "processed"]
<1>1. /\ run[w].pc = "populate" /\ UNCHANGED <<db, dest, queue, em, budget>>
      /\ em[w] \in EntityManager /\ run[w] \in Run /\ w \in Workers /\ w \notin Api
      /\ em' = [em EXCEPT ![w] = em[w]] /\ run' = [run EXCEPT ![w] = r]
  BY ProcessState, ConsumerWorks DEF Populated, At, Go
<1>2. r \in Run /\ r.pc = "processed" /\ r.arts = run[w].arts /\ r.dests = run[w].dests
  BY <1>1 DEF Run, Places
<1>3. \A v \in Workers \ {w} : ctx'[v] = ctx[v]
  BY <1>1, OtherContexts DEF Populated, SetCtx
<1>4. TouchStep(w, em[w], r)
  <2> HIDE DEF r, w
  <2> QED
    BY <1>1, <1>2, <1>3, TouchedSelf
    DEF TouchStep, Handling, Looping, Killing, KillPlaces, At, Keep
<1> QED
  BY <1>1, <1>2, <1>4 DEF Shaped

LEMMA ProcessedShape == ASSUME Inv, Processed(Consumer) PROVE Shaped(Consumer)
<1> DEFINE c == [ctx[Consumer] EXCEPT !.tenant = None]
<1>1. c \in Context /\ c.tenant = None /\ SetCtx(Consumer, c)
  BY ProcessState, ConsumerWorks DEF Processed, Context
<1> QED
  BY <1>1 DEF Processed, Shaped, ForgetStep

LEMMA PublishShape == ASSUME Inv, NEW w \in Workers, Publish(w) PROVE Shaped(w)
<1>1. /\ run[w].pc = "publish" /\ UNCHANGED <<db, dest, queue, budget>>
      /\ em[w] \in EntityManager /\ ctx[w] \in Context /\ run[w] \in Run
      /\ Fit(em[w], ctx[w], run[w], pkg)
  BY ProcessState DEF Publish, At
<1>2. PICK d \in run[w].dests :
         LET t == d.tenant
             found == art[t] # None
             e == IF found THEN WithArticles(em[w], {t}) ELSE em[w]
         IN /\ SetCtx(w, TenantSet(t))
            /\ Keep(w, IF found THEN [e EXCEPT !.art[t].route = d.route]
                       ELSE [e EXCEPT !.art0[t] = None, !.art[t] =
                               [status |-> "new", route |-> d.route, rev |-> e.pkg.rev]])
            /\ Go(w, [run[w] EXCEPT !.pc = "save", !.cur = t, !.dests = @ \ {d},
                                    !.wanted = d.published, !.created = ~found])
  BY DEF Publish
<1> DEFINE t == d.tenant
           l == WithArticles(em[w], {t})
           f == [l EXCEPT !.art[t].route = d.route]
           a == [status |-> "new", route |-> d.route, rev |-> em[w].pkg.rev]
           g == [em[w] EXCEPT !.art0[t] = None, !.art[t] = a]
           r == [run[w] EXCEPT !.pc = "save", !.cur = t, !.dests = @ \ {d},
                               !.wanted = d.published, !.created = ~(art[t] # None)]
<1>3. t \in Tenants /\ em[w].pkg # None /\ d.route \in Routes \cup {None}
      /\ d.published \in BOOLEAN
  BY <1>1 DEF Fit, Run, Destination, PackagePlaces, Places
<1>4. /\ r \in Run /\ r.pc = "save" /\ r.cur = t /\ r.arts = run[w].arts
      /\ run' = [run EXCEPT ![w] = r]
  BY <1>1, <1>2, <1>3 DEF Run, Places, Go
<1>5. \A v \in Workers \ {w} : ctx'[v] = ctx[v]
  BY <1>1, <1>2, OtherContexts DEF SetCtx
<1>6. CASE art[t] # None
  <2>1. l \in EntityManager /\ l.art[t] # None
    BY <1>1, <1>3, <1>6, FoundLoaded
  <2>2. em' = [em EXCEPT ![w] = f]
    BY <1>2, <1>6 DEF Keep
  <2>3. f \in EntityManager /\ Touched(l, f)
    <3> HIDE DEF l, t
    <3> QED
      BY <1>3, <2>1, TouchedRoute
  <2>4. {t} \in SUBSET Tenants /\ l = WithArticles(em[w], {t})
    BY <1>3
  <2>5. LoadStep(w, f, r)
    <3> HIDE DEF r, f, t, l
    <3> QED
      BY <1>1, <1>4, <1>5, <2>2, <2>3, <2>4, ConsumerWorks
      DEF LoadStep, Handling, Looping, Killing, KillPlaces, ApiPlaces, At, Keep
  <2> QED
    BY <1>4, <2>3, <2>5 DEF Shaped
<1>7. CASE art[t] = None
  <2>1. a \in Article /\ a.status = "new" /\ a.rev = em[w].pkg.rev
    BY <1>1, <1>3 DEF EntityManager, Package, Article, Statuses
  <2>2. g \in EntityManager
    <3> HIDE DEF a, t
    <3> QED
      BY <1>1, <1>3, <2>1 DEF EntityManager
  <2>3. em' = [em EXCEPT ![w] = g]
    BY <1>2, <1>7 DEF Keep
  <2>4. g = [em[w] EXCEPT !.art0[r.cur] = None, !.art[r.cur] = a]
    BY <1>4
  <2>5. InsertStep(w, g, r)
    <3> HIDE DEF r, g, t, a
    <3> QED
      BY <1>1, <1>2, <1>3, <1>4, <1>5, <1>7, <2>1, <2>3, <2>4, ConsumerWorks
      DEF InsertStep, Handling, Looping, Killing, KillPlaces, ApiPlaces, At, Keep
  <2> QED
    BY <1>4, <2>2, <2>5 DEF Shaped
<1> QED
  BY <1>6, <1>7

LEMMA PublishDoneShape == ASSUME Inv, NEW w \in Workers, PublishDone(w) PROVE Shaped(w)
<1> DEFINE r == [run[w] EXCEPT !.pc = "processed"]
<1>1. /\ run[w].pc = "publish" /\ UNCHANGED <<db, dest, queue, budget>>
      /\ em[w] \in EntityManager /\ run[w] \in Run
      /\ em = [em EXCEPT ![w] = em[w]]
  BY ProcessState DEF PublishDone, At
<1>2. r \in Run /\ r.pc = "processed" /\ r.arts = run[w].arts
  BY <1>1 DEF Run, Places
<1>3. \A v \in Workers \ {w} : ctx'[v] = ctx[v]
  BY <1>1, OtherContexts DEF PublishDone, SetCtx
<1>4. CASE w = Consumer
  <2>1. em' = [em EXCEPT ![w] = em[w]] /\ run' = [run EXCEPT ![w] = r]
    BY <1>1, <1>4 DEF PublishDone, Go
  <2>2. TouchStep(w, em[w], r)
    <3> HIDE DEF r
    <3> QED
      BY <1>1, <1>2, <1>3, <1>4, <2>1, TouchedSelf, ConsumerWorks
      DEF TouchStep, Handling, Looping, Killing, KillPlaces, At, Keep
  <2> QED
    BY <1>1, <1>2, <2>2 DEF Shaped
<1>5. CASE w # Consumer
  <2>1. NoContext \in Context /\ NoContext.tenant = None
    BY DEF NoContext, Context
  <2>2. Keep(w, FreshEm) /\ Go(w, Resting) /\ SetCtx(w, NoContext)
    BY <1>5 DEF PublishDone
  <2> QED
    BY <1>1, <2>1, <2>2 DEF Shaped, ForgetStep
<1> QED
  BY <1>4, <1>5

\* Steps between the places where an article is published.
LEMMA LateTouch ==
    ASSUME Inv, NEW w \in Workers, run[w].pc \in LatePlaces,
           NEW f \in EntityManager, Touched(em[w], f), NEW r \in Run,
           run' = [run EXCEPT ![w] = r], r.arts = run[w].arts,
           r.pc \notin {"idle", "onUpdated", "cancel", "patch"}, Looping(run[w]) => Looping(r),
           r.pc = "hydrate" => r.from = "hydrate",
           NEW c, ctx' = [ctx EXCEPT ![w] = c] \/ UNCHANGED ctx,
           UNCHANGED <<dest, queue, budget>>,
           \/ run[w].pc # "save" /\ em' = [em EXCEPT ![w] = f] /\ UNCHANGED db
           \/ \E left \in [Entries -> Nat] : FlushOf(w, f, left)
    PROVE  Shaped(w)
<1>1. \A v \in Workers \ {w} : ctx'[v] = ctx[v]
  BY OtherContexts
<1>2. Handling(w, r)
  BY <1>1 DEF Handling, Looping, Killing, KillPlaces, ApiPlaces, LatePlaces, At
<1>3. TouchStep(w, f, r)
  BY <1>2 DEF TouchStep, Killing, KillPlaces, ApiPlaces, LatePlaces, Keep
<1> QED
  BY <1>3 DEF Shaped

LEMMA SaveShape == ASSUME Inv, NEW w \in Workers, Save(w) PROVE Shaped(w)
<1> DEFINE r == [run[w] EXCEPT !.pc = "articleRules"]
<1>1. run[w].pc = "save" /\ run[w].pc \in LatePlaces
  BY DEF Save, At, LatePlaces
<1>2. /\ em[w] \in EntityManager /\ run[w] \in Run /\ items \in [Entries -> Nat]
      /\ FlushOf(w, em[w], items) /\ run' = [run EXCEPT ![w] = r]
      /\ UNCHANGED <<dest, queue, ctx, budget>>
  BY ProcessState DEF Save, Go, Inv, TypeOK
<1>3. r \in Run /\ r.pc = "articleRules" /\ r.arts = run[w].arts
  BY <1>2 DEF Run, Places
<1>4. ~Looping(run[w])
  BY <1>1 DEF Looping
<1> HIDE DEF r
<1> QED
  BY <1>1, <1>2, <1>3, <1>4, TouchedSelf, LateTouch

LEMMA ArticleRulesShape == ASSUME Inv, NEW w \in Workers, ArticleRules(w) PROVE Shaped(w)
<1> DEFINE q == [run[w] EXCEPT !.pc = IF run[w].created THEN "dispatch" ELSE "refresh"]
           r == [run[w] EXCEPT !.pc = "rule", !.rules = TenantRules[ctx[w].tenant]]
<1>1. run[w].pc = "articleRules" /\ run[w].pc \in LatePlaces
  BY DEF ArticleRules, At, LatePlaces
<1>2. /\ em[w] \in EntityManager /\ run[w] \in Run /\ ctx[w].tenant \in Tenants
      /\ em' = [em EXCEPT ![w] = em[w]] /\ UNCHANGED <<db, dest, queue, budget>>
  BY <1>1, LateState, ProcessState DEF ArticleRules
<1>3. TenantRules[ctx[w].tenant] \in Seq(TenantRule)
  BY <1>2, ConstantsAssumption DEF ConstantsAssumption
<1>4. /\ r \in Run /\ q \in Run /\ r.arts = run[w].arts /\ q.arts = run[w].arts
      /\ r.from = run[w].from /\ q.from = run[w].from
      /\ r.pc = "rule" /\ q.pc \in {"dispatch", "refresh"}
  BY <1>2, <1>3 DEF Run, Places
<1>5. run' = [run EXCEPT ![w] = r] \/ run' = [run EXCEPT ![w] = q]
  BY DEF ArticleRules, Go
<1>6. PICK c : ctx' = [ctx EXCEPT ![w] = c]
  BY DEF ArticleRules, SetCtx
<1> HIDE DEF r, q
<1>7. Looping(run[w]) => Looping(r) /\ Looping(q)
  BY <1>1, <1>4 DEF Looping
<1>8. r.pc \notin {"idle", "onUpdated", "cancel", "patch"} /\ q.pc \notin {"idle", "onUpdated", "cancel", "patch"}
  BY <1>4
<1>9. run[w].pc # "save" /\ Touched(em[w], em[w])
  BY <1>1, TouchedSelf
<1>10. CASE run' = [run EXCEPT ![w] = r]
  BY <1>1, <1>2, <1>4, <1>6, <1>7, <1>8, <1>9, <1>10, LateTouch
<1>11. CASE run' = [run EXCEPT ![w] = q]
  BY <1>1, <1>2, <1>4, <1>6, <1>7, <1>8, <1>9, <1>11, LateTouch
<1> QED
  BY <1>5, <1>10, <1>11

LEMMA RuleShape == ASSUME Inv, NEW w \in Workers, Rule(w) PROVE Shaped(w)
<1> DEFINE t == run[w].cur
           rule == Head(run[w].rules)
           applies == em[w].art[t].rev \in rule.when
           routed == IF applies /\ rule.route # None
                       THEN [em[w] EXCEPT !.art[t].route = rule.route] ELSE em[w]
           e == AfterPublish(routed, t)
           l == Listed(w, e, t)
           u == Unlisted(w, t)
           r == [run[w] EXCEPT !.rules = Tail(@)]
<1>1. run[w].pc = "rule" /\ run[w].pc \in LatePlaces /\ run[w].rules # <<>>
  BY DEF Rule, At, LatePlaces
<1>2. /\ t \in Tenants /\ em[w].art[t] # None /\ em[w].pkg # None
      /\ em[w] \in EntityManager /\ run[w] \in Run
  BY <1>1, LateState
<1>3. rule \in TenantRule /\ Tail(run[w].rules) \in Seq(TenantRule)
  BY <1>1, HeadRule
<1>4. r \in Run /\ r.pc = "rule" /\ r.arts = run[w].arts /\ r.from = run[w].from
  BY <1>1, <1>2, <1>3 DEF Run
<1>5. routed \in EntityManager /\ Touched(em[w], routed) /\ routed.pkg = em[w].pkg
  <2>1. rule.route \in Routes \cup {None}
    BY <1>3 DEF TenantRule
  <2> HIDE DEF t, rule, applies
  <2> QED
    BY <1>2, <2>1, TouchedSelf, TouchedRoute
<1>6. e \in EntityManager /\ Touched(em[w], e)
  <2> HIDE DEF routed, t
  <2>1. routed.art[t] # None /\ routed.pkg # None
    BY <1>2, <1>5 DEF Touched
  <2> QED
    BY <1>2, <1>5, <2>1, TouchedAfterPublish, TouchedTwice
<1>7. l \in EntityManager /\ Touched(em[w], l)
  <2> HIDE DEF e, t
  <2> QED
    BY <1>2, <1>6, TouchedListed, TouchedTwice
<1>8. u \in [Entries -> Nat]
  BY ItemsType DEF Inv
<1>9. PICK c : ctx' = [ctx EXCEPT ![w] = c] \/ UNCHANGED ctx
  BY DEF Rule, SetCtx
<1>10. \/ em' = [em EXCEPT ![w] = routed] /\ UNCHANGED db
       \/ FlushOf(w, e, u)
       \/ em' = [em EXCEPT ![w] = l] /\ UNCHANGED db
  BY DEF Rule, Keep
<1>11. run' = [run EXCEPT ![w] = r] /\ UNCHANGED <<dest, queue, budget>>
  BY DEF Rule, Go
<1> HIDE DEF t, rule, applies, routed, e, l, u, r
<1>12. r.pc \notin {"idle", "onUpdated", "cancel", "patch"} /\ (Looping(run[w]) => Looping(r))
  BY <1>1, <1>4 DEF Looping
<1>13. CASE em' = [em EXCEPT ![w] = routed] /\ UNCHANGED db
  BY <1>1, <1>4, <1>5, <1>9, <1>11, <1>12, <1>13, LateTouch
<1>14. CASE FlushOf(w, e, u)
  BY <1>1, <1>4, <1>6, <1>8, <1>9, <1>11, <1>12, <1>14, LateTouch
<1>15. CASE em' = [em EXCEPT ![w] = l] /\ UNCHANGED db
  BY <1>1, <1>4, <1>7, <1>9, <1>11, <1>12, <1>15, LateTouch
<1> QED
  BY <1>10, <1>13, <1>14, <1>15

LEMMA RulesDoneShape == ASSUME Inv, NEW w \in Workers, RulesDone(w) PROVE Shaped(w)
<1> DEFINE r == [run[w] EXCEPT !.pc = IF run[w].created THEN "dispatch" ELSE "refresh"]
<1>1. run[w].pc = "rule" /\ run[w].pc \in LatePlaces
  BY DEF RulesDone, At, LatePlaces
<1>2. /\ em[w] \in EntityManager /\ run[w] \in Run
      /\ em' = [em EXCEPT ![w] = em[w]] /\ UNCHANGED <<db, dest, queue, budget>>
  BY ProcessState DEF RulesDone
<1>3. /\ r \in Run /\ r.arts = run[w].arts /\ r.from = run[w].from
      /\ r.pc \in {"dispatch", "refresh"}
  BY <1>2 DEF Run, Places
<1>4. run' = [run EXCEPT ![w] = r]
  BY DEF RulesDone, Go
<1>5. PICK c : ctx' = [ctx EXCEPT ![w] = c]
  BY DEF RulesDone, SetCtx
<1> HIDE DEF r
<1>6. r.pc \notin {"idle", "onUpdated", "cancel", "patch"} /\ (Looping(run[w]) => Looping(r))
  BY <1>1, <1>3 DEF Looping
<1>7. run[w].pc # "save" /\ Touched(em[w], em[w])
  BY <1>1, TouchedSelf
<1> QED
  BY <1>1, <1>2, <1>3, <1>4, <1>5, <1>6, <1>7, LateTouch

LEMMA RefreshShape == ASSUME Inv, NEW w \in Workers, Refresh(w) PROVE Shaped(w)
<1> DEFINE left == Refreshed(ctx[w], em[w], run[w].cur)
           r == [run[w] EXCEPT !.pc = IF run[w].from = "hydrate" THEN "hydrate" ELSE "dispatch"]
<1>1. run[w].pc = "refresh" /\ run[w].pc \in LatePlaces
  BY DEF Refresh, At, LatePlaces
<1>2. /\ em[w] \in EntityManager /\ run[w] \in Run /\ left \in [Entries -> Nat]
      /\ FlushOf(w, em[w], left) /\ run' = [run EXCEPT ![w] = r]
      /\ UNCHANGED <<dest, queue, budget>>
  BY ProcessState, ItemsType DEF Refresh, Go, Inv
<1>3. /\ r \in Run /\ r.arts = run[w].arts /\ r.from = run[w].from
      /\ r.pc = IF run[w].from = "hydrate" THEN "hydrate" ELSE "dispatch"
  BY <1>2 DEF Run, Places
<1>4. PICK c : ctx' = [ctx EXCEPT ![w] = c]
  BY DEF Refresh, SetCtx
<1> HIDE DEF r, left
<1>5. r.pc \notin {"idle", "onUpdated", "cancel", "patch"} /\ (Looping(run[w]) => Looping(r))
  BY <1>1, <1>3 DEF Looping
<1> QED
  BY <1>1, <1>2, <1>3, <1>4, <1>5, TouchedSelf, LateTouch

LEMMA DispatchShape == ASSUME Inv, NEW w \in Workers, Dispatch(w) PROVE Shaped(w)
<1> DEFINE t == run[w].cur
           e == AfterPublish(em[w], t)
           l == Listed(w, e, t)
           u == IF MustUnlist(w, e, t) THEN Unlisted(w, t) ELSE items
           r == [run[w] EXCEPT !.pc = run[w].from]
<1>1. run[w].pc = "dispatch" /\ run[w].pc \in LatePlaces
  BY DEF Dispatch, At, LatePlaces
<1>2. /\ t \in Tenants /\ em[w].art[t] # None /\ em[w].pkg # None
      /\ em[w] \in EntityManager /\ run[w] \in Run
      /\ run[w].from \in {"hydrate", "publish", "populate"}
  BY <1>1, LateState
<1>3. /\ run' = [run EXCEPT ![w] = r] /\ UNCHANGED <<dest, queue, budget>>
      /\ FlushOf(w, l, u) \/ FlushOf(w, em[w], items)
  BY DEF Dispatch, Go
<1>4. e \in EntityManager /\ Touched(em[w], e)
  <2> HIDE DEF t
  <2> QED
    BY <1>2, TouchedAfterPublish
<1>5. l \in EntityManager /\ Touched(em[w], l)
  <2> HIDE DEF e, t
  <2> QED
    BY <1>2, <1>4, TouchedListed, TouchedTwice
<1>6. items \in [Entries -> Nat] /\ u \in [Entries -> Nat]
  <2> HIDE DEF e, t
  <2> QED
    BY ItemsType DEF Inv
<1>7. r \in Run /\ r.arts = run[w].arts /\ r.pc = run[w].from /\ r.from = run[w].from
  BY <1>2 DEF Run, Places
<1>8. PICK c : ctx' = [ctx EXCEPT ![w] = c] \/ UNCHANGED ctx
  BY DEF Dispatch, SetCtx
<1> HIDE DEF t, e, l, u, r
<1>9. /\ r.pc \notin {"idle", "onUpdated", "cancel", "patch"}
      /\ (Looping(run[w]) => Looping(r))
      /\ r.pc = "hydrate" => r.from = "hydrate"
  BY <1>1, <1>2, <1>7 DEF Looping
<1>10. CASE FlushOf(w, l, u)
  BY <1>1, <1>3, <1>5, <1>6, <1>7, <1>8, <1>9, <1>10, LateTouch
<1>11. CASE FlushOf(w, em[w], items)
  BY <1>1, <1>2, <1>3, <1>6, <1>7, <1>8, <1>9, <1>11, TouchedSelf, LateTouch
<1> QED
  BY <1>3, <1>10, <1>11

LEMMA RestartShape ==
    ASSUME Inv, NEW w \in Workers,
           Crash(w) \/ UniqueViolation(w) \/ NonUniqueResult(w)
    PROVE  ForgetStep(w)
<1>1. NoContext \in Context /\ NoContext.tenant = None
  BY DEF NoContext, Context
<1>2. /\ Keep(w, FreshEm) /\ Go(w, Resting) /\ SetCtx(w, NoContext)
      /\ UNCHANGED <<db, dest>>
  BY DEF Crash, UniqueViolation, NonUniqueResult, Restart
<1>3. budget'.pushes = budget.pushes
  BY DEF Crash, UniqueViolation, NonUniqueResult, Inv, TypeOK, Budget
<1>4. \/ run[w].pc # "idle" /\ UNCHANGED queue
      \/ Conflict(em[w])
  BY DEF Crash, UniqueViolation, NonUniqueResult, At
<1> QED
  BY <1>1, <1>2, <1>3, <1>4 DEF ForgetStep

LEMMA HandleShape == ASSUME Inv, NEW w \in Workers, Handle(w) PROVE Shaped(w)
<1>1. CASE UniqueViolation(w) \/ NonUniqueResult(w)
  BY <1>1, RestartShape DEF Shaped
<1> QED
  BY <1>1, PublishShape, PublishDoneShape, SaveShape, ArticleRulesShape, RuleShape,
     RulesDoneShape, RefreshShape, DispatchShape
  DEF Handle

\* Requests to unpublish.
LEMMA UnpublishLoadShape == ASSUME Inv, NEW w \in Api, UnpublishLoad(w) PROVE Shaped(w)
<1> DEFINE f == WithArticles(em[w], Existing)
           r == [run[w] EXCEPT !.pc = "unpublish", !.arts = @ \cap Existing]
<1>1. /\ run[w].pc = "unpublishLoad" /\ UNCHANGED <<db, dest, queue, ctx, budget>>
      /\ w \in Workers /\ w # Consumer /\ em[w] \in EntityManager /\ run[w] \in Run
      /\ em' = [em EXCEPT ![w] = f] /\ run' = [run EXCEPT ![w] = r]
  BY ProcessState, ConsumerWorks DEF UnpublishLoad, At, Workers, Keep, Go
<1>2. r \in Run /\ r.pc = "unpublish"
  BY <1>1 DEF Run, Places
<1>3. f \in EntityManager
  BY <1>1, ExistingLoaded
<1>4. Touched(f, f) /\ Existing \in SUBSET Tenants
  BY TouchedSelf DEF Existing
<1>5. LoadStep(w, f, r)
  <2> HIDE DEF r
  <2> QED
    BY <1>1, <1>2, <1>4 DEF LoadStep, Handling, ApiPlaces, At, Keep
<1> QED
  BY <1>2, <1>3, <1>5 DEF Shaped

LEMMA UnpublishShape == ASSUME Inv, NEW w \in Api, Unpublish(w) PROVE Shaped(w)
<1>1. /\ run[w].pc = "unpublish" /\ UNCHANGED <<dest, queue, budget>>
      /\ w \in Workers /\ w # Consumer /\ em[w] \in EntityManager /\ run[w] \in Run
      /\ Fit(em[w], ctx[w], run[w], pkg)
      /\ em = [em EXCEPT ![w] = em[w]]
  BY ProcessState, ConsumerWorks DEF Unpublish, At, Workers
<1>2. PICK t \in run[w].arts :
         LET e == Withdrawn(em[w], t) IN
            /\ IF IsPublished(em[w], t)
               THEN FlushOf(w, e, Refreshed(TenantSet(t), e, t))
               ELSE UNCHANGED <<db, em>>
            /\ SetCtx(w, TenantSet(t))
            /\ Go(w, [run[w] EXCEPT !.arts = @ \ {t}])
  BY DEF Unpublish
<1> DEFINE e == Withdrawn(em[w], t)
           left == Refreshed(TenantSet(t), e, t)
           r == [run[w] EXCEPT !.arts = @ \ {t}]
<1>3. t \in Tenants /\ em[w].art[t] # None /\ em[w].pkg # None
  BY <1>1 DEF Fit, Run, PackagePlaces, Places
<1>4. r \in Run /\ r.pc = "unpublish" /\ run' = [run EXCEPT ![w] = r]
  BY <1>1, <1>2 DEF Run, Go
<1>5. /\ e \in EntityManager /\ Touched(em[w], e)
      /\ \A u \in Tenants : e.art[u] # None /\ e.art[u].status = "published"
                              => em[w].art[u].status = "published"
  BY <1>1, <1>3, TouchedWithdrawn
<1>6. left \in [Entries -> Nat]
  BY ItemsType DEF Inv
<1>7. \A v \in Workers \ {w} : ctx'[v] = ctx[v]
  BY <1>1, <1>2, OtherContexts DEF SetCtx
<1>8. FlushOf(w, e, left) \/ UNCHANGED <<db, em>>
  BY <1>2
<1> HIDE DEF e, left, r
<1>9. Handling(w, r)
  BY <1>1, <1>4, <1>7 DEF Handling, ApiPlaces, At
<1>10. CASE FlushOf(w, e, left)
  <2>1. TouchStep(w, e, r)
    BY <1>1, <1>5, <1>6, <1>9, <1>10 DEF TouchStep
  <2> QED
    BY <1>4, <1>5, <2>1 DEF Shaped
<1>11. CASE UNCHANGED <<db, em>>
  <2>1. TouchStep(w, em[w], r)
    BY <1>1, <1>9, <1>11, TouchedSelf DEF TouchStep, Keep
  <2> QED
    BY <1>1, <1>4, <2>1 DEF Shaped
<1> QED
  BY <1>8, <1>10, <1>11

LEMMA UnpublishedShape == ASSUME Inv, NEW w \in Api, Unpublished(w) PROVE Shaped(w)
<1>1. NoContext \in Context /\ NoContext.tenant = None
  BY DEF NoContext, Context
<1> QED
  BY <1>1 DEF Unpublished, Shaped, ForgetStep, At

-----------------------------------------------------------------------------
(* Steps that have no such shape.                                          *)

\* The consumer stores the package of the first message.
ReceiveStep(f, r) ==
    LET w == Consumer
        e == WithPackage(em[w])
    IN /\ run[w].pc = "idle" /\ queue # <<>>
       /\ FlushOf(w, f, items) /\ Go(w, r)
       /\ \A v \in Workers \ {w} : ctx'[v] = ctx[v]
       /\ UNCHANGED <<dest, queue, budget>>
       /\ r.pc = IF e.pkg = None THEN "processRules" ELSE "onUpdated"
       /\ r.arts = {} /\ r.dests = {}
       /\ f.art = em[w].art /\ f.art0 = em[w].art0 /\ f.pkg0 = e.pkg0
       /\ f.pkg # None /\ f.pkg.pub = Head(queue).pub /\ f.pkg.rev = Head(queue).rev

\* It corrects the article of t.
HydrateStep(t, f, r) ==
    LET w == Consumer IN
    /\ run[w].pc = "hydrate" /\ t \in run[w].arts /\ t \in Tenants
    /\ FlushOf(w, f, items) /\ Go(w, r)
    /\ UNCHANGED <<dest, queue, ctx, budget>>
    /\ r.pc = "articleRules" /\ r.from = run[w].from /\ r.arts = run[w].arts \ {t}
    /\ f.pkg = em[w].pkg /\ f.pkg0 = em[w].pkg0 /\ f.art0 = em[w].art0
    /\ em[w].art[t] # None /\ f.art[t] # None
    /\ f.art[t].rev = em[w].pkg.rev /\ f.art[t].status = em[w].art[t].status
    /\ \A u \in Tenants \ {t} : f.art[u] = em[w].art[u]

\* It cancels the article of t: f is flushed, then the package is marked.
CancelStep(t, f, r) ==
    LET w == Consumer
        g == PackageCanceled(Clean(f))
    IN /\ run[w].pc = "cancel" /\ t \in run[w].arts /\ t \in Tenants
       /\ \E left \in [Entries -> Nat] : Flush(f, left)
       /\ Keep(w, g) /\ Go(w, r)
       /\ \A v \in Workers \ {w} : ctx'[v] = ctx[v]
       /\ UNCHANGED <<dest, queue, budget>>
       /\ r.pc = "cancel" /\ r.arts = run[w].arts \ {t} /\ r.dests = run[w].dests
       /\ f.pkg = em[w].pkg /\ f.pkg0 = em[w].pkg0 /\ f.art0 = em[w].art0
       /\ em[w].art[t] # None /\ f.art[t] # None
       /\ f.art[t].rev = em[w].art[t].rev /\ f.art[t].status = "canceled"
       /\ \A u \in Tenants \ {t} : f.art[u] = em[w].art[u]
       /\ g \in EntityManager /\ g.art = f.art /\ g.art0 = f.art
       /\ g.pkg # None /\ g.pkg0 = f.pkg /\ g.pkg.pub = f.pkg.pub /\ g.pkg.rev = f.pkg.rev

\* A request starts with the package.
OpenStep(w, r) ==
    /\ run[w].pc = "idle"
    /\ Keep(w, WithPackage(em[w])) /\ Go(w, r)
    /\ \A v \in Workers \ {w} : ctx'[v] = ctx[v]
    /\ UNCHANGED <<db, dest, queue>> /\ budget'.pushes = budget.pushes
    /\ (r.pc = "publish" /\ PublishRequests # {}) \/ r.pc = "unpublishLoad"

\* It writes a status and a route into an article; e is what was loaded.
PatchStep(w, q, e, f, r) ==
    /\ run[w].pc = "idle" /\ q.tenant \in Tenants /\ art[q.tenant] # None
    /\ e = WithArticles(em[w], {q.tenant}) /\ e \in EntityManager
    /\ Keep(w, f) /\ Go(w, r)
    /\ \A v \in Workers \ {w} : ctx'[v] = ctx[v]
    /\ UNCHANGED <<db, dest, queue>> /\ budget'.pushes = budget.pushes
    /\ r.pc = "patch" /\ r.arts = {}
    /\ f.pkg = e.pkg /\ f.pkg0 = e.pkg0 /\ f.art0 = e.art0
    /\ e.art[q.tenant] # None /\ f.art[q.tenant] # None
    /\ f.art[q.tenant].status = q.status /\ f.art[q.tenant].rev = art[q.tenant].rev
    /\ \A u \in Tenants \ {q.tenant} : f.art[u] = e.art[u]

\* It stores the article, and the package e holds.
ReactStep(w, e) ==
    /\ run[w].pc = "patch" /\ pkg # None
    /\ \E left \in [Entries -> Nat] : Flush(e, left)
    /\ Keep(w, FreshEm) /\ Go(w, Resting) /\ SetCtx(w, NoContext)
    /\ UNCHANGED <<dest, queue, budget>>
    /\ e.art = em[w].art /\ e.art0 = em[w].art0
    /\ e.pkg # None =>
         /\ e.pkg0 = IF em[w].pkg = None THEN pkg ELSE em[w].pkg0
         /\ e.pkg.pub = IF em[w].pkg = None THEN pkg.pub ELSE em[w].pkg.pub

LEMMA ReceiveHas ==
    ASSUME Inv, Receive
    PROVE  \E f \in EntityManager, r \in Run : ReceiveStep(f, r)
<1> DEFINE w == Consumer
           m == Head(queue)
           e == WithPackage(em[w])
           new == e.pkg = None
           row == [status |-> IF new THEN "new" ELSE e.pkg.status, pub |-> m.pub,
                   rev |-> m.rev]
           f == [e EXCEPT !.pkg = row]
           r == [Resting EXCEPT !.pc = IF new THEN "processRules" ELSE "onUpdated"]
<1>1. /\ w \in Workers /\ TypeOK /\ em[w] \in EntityManager
      /\ e \in EntityManager /\ e.art = em[w].art /\ e.art0 = em[w].art0
  BY ConsumerWorks, ProcessState, WithPackageType DEF Inv
<1>2. queue # <<>> /\ m \in Message
  <2>1. queue # <<>> /\ queue \in Seq(Message)
    BY <1>1 DEF Receive, TypeOK
  <2> QED
    BY <2>1, HeadTailProperties
<1>3. row \in Package /\ row # None
  <2>1. row \in Package
    BY <1>1, <1>2 DEF EntityManager, Message, Package, Statuses
  <2> QED
    BY <2>1, NoneIsNothing
<1>4. /\ f \in EntityManager /\ f.pkg = row /\ f.art = e.art /\ f.art0 = e.art0
      /\ f.pkg0 = e.pkg0
  BY <1>1, <1>3 DEF EntityManager
<1>5. /\ r \in Run /\ r.pc = (IF new THEN "processRules" ELSE "onUpdated")
      /\ r.arts = {} /\ r.dests = {}
  BY RestingType DEF Run, Places, Resting
<1>6. /\ FlushOf(w, f, items) /\ Go(w, r) /\ run[w].pc = "idle"
      /\ UNCHANGED <<dest, queue, budget>>
  BY DEF Receive, At
<1>7. \A v \in Workers \ {w} : ctx'[v] = ctx[v]
  BY <1>1, OtherContexts DEF Receive, SetCtx
<1>8. row.pub = m.pub /\ row.rev = m.rev
  OBVIOUS
<1> HIDE DEF row, f, r
<1> QED
  BY <1>1, <1>2, <1>3, <1>4, <1>5, <1>6, <1>7, <1>8 DEF ReceiveStep

LEMMA HydrateHas ==
    ASSUME Inv, Hydrate(Consumer)
    PROVE  \E t \in Tenants, f \in EntityManager, r \in Run : HydrateStep(t, f, r)
<1> DEFINE w == Consumer
<1>1. /\ run[w].pc = "hydrate" /\ UNCHANGED <<dest, queue, ctx, budget>>
      /\ em[w] \in EntityManager /\ run[w] \in Run /\ w \in Workers
      /\ Fit(em[w], ctx[w], run[w], pkg)
  BY ConsumerWorks, ProcessState DEF Hydrate, At
<1>2. PICK t \in run[w].arts :
        /\ FlushOf(w, [em[w] EXCEPT !.art[t].rev = em[w].pkg.rev], items)
        /\ Go(w, [run[w] EXCEPT !.pc = "articleRules", !.arts = @ \ {t}, !.cur = t,
                                !.wanted = FALSE, !.created = FALSE])
  BY DEF Hydrate
<1> DEFINE f == [em[w] EXCEPT !.art[t].rev = em[w].pkg.rev]
           a == [em[w].art[t] EXCEPT !.rev = em[w].pkg.rev]
           r == [run[w] EXCEPT !.pc = "articleRules", !.arts = @ \ {t}, !.cur = t,
                               !.wanted = FALSE, !.created = FALSE]
<1>3. t \in Tenants /\ em[w].art[t] # None /\ em[w].pkg # None
  BY <1>1 DEF Fit, Run, PackagePlaces, Places
<1>4. em[w].pkg.rev \in Revs
  BY <1>1, <1>3 DEF EntityManager, Package
<1>5. a \in Article /\ a.rev = em[w].pkg.rev /\ a.status = em[w].art[t].status /\ a # None
  <2>1. a \in Article /\ a.rev = em[w].pkg.rev /\ a.status = em[w].art[t].status
    BY <1>1, <1>3, <1>4 DEF EntityManager, Article
  <2> QED
    BY <2>1, NoneIsNothing
<1>6. /\ f \in EntityManager /\ f.pkg = em[w].pkg /\ f.pkg0 = em[w].pkg0
      /\ f.art0 = em[w].art0 /\ f.art = [em[w].art EXCEPT ![t] = a]
      /\ em[w].art \in [Tenants -> Article \cup {None}]
  BY <1>1, <1>3, <1>4, RevSet DEF EntityManager
<1>7. \A u \in Tenants : f.art[u] = IF u = t THEN a ELSE em[w].art[u]
  <2> HIDE DEF f, a
  <2> QED
    BY <1>6
<1>8. r \in Run /\ r.pc = "articleRules" /\ r.from = run[w].from /\ r.arts = run[w].arts \ {t}
  BY <1>1, <1>3 DEF Run, Places
<1>9. FlushOf(w, f, items) /\ Go(w, r)
  BY <1>2
<1> HIDE DEF f, a, r
<1> QED
  BY <1>1, <1>2, <1>3, <1>5, <1>6, <1>7, <1>8, <1>9 DEF HydrateStep

LEMMA CancelHas ==
    ASSUME Inv, Cancel(Consumer)
    PROVE  \E t \in Tenants, f \in EntityManager, r \in Run : CancelStep(t, f, r)
<1> DEFINE w == Consumer
<1>1. /\ run[w].pc = "cancel" /\ UNCHANGED <<dest, queue, budget>>
      /\ em[w] \in EntityManager /\ run[w] \in Run /\ w \in Workers
      /\ Fit(em[w], ctx[w], run[w], pkg)
  BY ConsumerWorks, ProcessState DEF Cancel, At
<1>2. PICK t \in run[w].arts :
        LET e == [em[w] EXCEPT !.art[t].status = "canceled"] IN
        /\ Flush(e, Refreshed(ctx[w], e, t))
        /\ Keep(w, PackageCanceled(Clean(e)))
        /\ Go(w, [run[w] EXCEPT !.arts = @ \ {t}])
  BY DEF Cancel
<1> DEFINE f == [em[w] EXCEPT !.art[t].status = "canceled"]
           a == [em[w].art[t] EXCEPT !.status = "canceled"]
           left == Refreshed(ctx[w], f, t)
           g == PackageCanceled(Clean(f))
           r == [run[w] EXCEPT !.arts = @ \ {t}]
<1>3. t \in Tenants /\ em[w].art[t] # None /\ em[w].pkg # None
  BY <1>1 DEF Fit, Run, PackagePlaces, Places
<1>4. a \in Article /\ a.rev = em[w].art[t].rev /\ a.status = "canceled" /\ a # None
  <2>1. a \in Article /\ a.rev = em[w].art[t].rev /\ a.status = "canceled"
    BY <1>1, <1>3 DEF EntityManager, Article, Statuses
  <2> QED
    BY <2>1, NoneIsNothing
<1>5. /\ f \in EntityManager /\ f.pkg = em[w].pkg /\ f.pkg0 = em[w].pkg0
      /\ f.art0 = em[w].art0 /\ f.art = [em[w].art EXCEPT ![t] = a]
      /\ em[w].art \in [Tenants -> Article \cup {None}]
  <2>1. "canceled" \in Statuses
    BY DEF Statuses
  <2> QED
    BY <1>1, <1>3, <2>1, StatusSet DEF EntityManager
<1>6. \A u \in Tenants : f.art[u] = IF u = t THEN a ELSE em[w].art[u]
  <2> HIDE DEF f, a
  <2> QED
    BY <1>5
<1>7. /\ g \in EntityManager /\ g.art = f.art /\ g.art0 = f.art
      /\ g.pkg # None /\ g.pkg0 = f.pkg /\ g.pkg.pub = f.pkg.pub /\ g.pkg.rev = f.pkg.rev
  <2> HIDE DEF f
  <2>1. /\ Clean(f) \in EntityManager /\ Clean(f).pkg = f.pkg /\ Clean(f).art = f.art
        /\ Clean(f).pkg0 = f.pkg /\ Clean(f).art0 = f.art
    BY <1>5, CleanType DEF Clean, EntityManager
  <2>2. f.pkg # None /\ f.pkg \in Package
    BY <1>3, <1>5 DEF EntityManager
  <2>3. /\ g \in EntityManager /\ g.art = f.art /\ g.art0 = f.art /\ g.pkg0 = f.pkg
        /\ g.pkg.pub = f.pkg.pub /\ g.pkg # None
    BY <2>1, <2>2, PackageCanceledType DEF SameObjects
  <2>4. g.pkg.rev = f.pkg.rev
    BY <2>1, <2>2 DEF PackageCanceled, EntityManager, Package
  <2> QED
    BY <2>3, <2>4
<1>8. r \in Run /\ r.pc = "cancel" /\ r.arts = run[w].arts \ {t} /\ r.dests = run[w].dests
  BY <1>1 DEF Run
<1>9. left \in [Entries -> Nat]
  BY ItemsType DEF Inv
<1>10. Flush(f, left) /\ Keep(w, g) /\ Go(w, r)
  BY <1>2
<1>11. \A v \in Workers \ {w} : ctx'[v] = ctx[v]
  BY <1>1, OtherContexts DEF Cancel, SetCtx
<1> HIDE DEF f, a, r, left
<1> QED
  BY <1>1, <1>2, <1>3, <1>4, <1>5, <1>6, <1>7, <1>8, <1>9, <1>10, <1>11 DEF CancelStep

\* A request that is accepted is no push.
LEMMA AcceptKeepsPushes ==
    ASSUME Inv, NEW w \in Workers, Accept(w)
    PROVE  run[w].pc = "idle" /\ budget'.pushes = budget.pushes
BY DEF Accept, At, Inv, TypeOK, Budget

LEMMA OpenHas ==
    ASSUME Inv, NEW w \in Api, PublishPackage(w) \/ UnpublishPackage(w)
    PROVE  \E r \in Run : OpenStep(w, r)
<1>1. w \in Workers /\ run[w].pc = "idle" /\ budget'.pushes = budget.pushes
  BY AcceptKeepsPushes DEF Workers, PublishPackage, UnpublishPackage
<1>2. /\ \A v \in Workers \ {w} : ctx'[v] = ctx[v]
      /\ Keep(w, WithPackage(em[w])) /\ UNCHANGED <<db, dest, queue>>
  BY <1>1, OtherContexts DEF PublishPackage, UnpublishPackage, SetCtx
<1>3. CASE PublishPackage(w)
  <2>1. PICK D \in PublishRequests, t \in PushTenants :
          Go(w, [Resting EXCEPT !.pc = "publish", !.from = "publish", !.dests = D, !.home = t])
    BY <1>3 DEF PublishPackage
  <2> DEFINE r == [Resting EXCEPT !.pc = "publish", !.from = "publish", !.dests = D, !.home = t]
  <2>2. D \subseteq Destination /\ t \in Tenants
    BY RequestTypes
  <2>3. r \in Run /\ r.pc = "publish"
    BY <2>2, RestingType DEF Run, Places
  <2>4. Go(w, r)
    BY <2>1
  <2> HIDE DEF r
  <2>5. OpenStep(w, r)
    BY <1>1, <1>2, <2>3, <2>4 DEF OpenStep
  <2> QED
    BY <2>3, <2>5
<1>4. CASE UnpublishPackage(w)
  <2>1. PICK T \in UnpublishRequests :
          Go(w, [Resting EXCEPT !.pc = "unpublishLoad", !.arts = T])
    BY <1>4 DEF UnpublishPackage
  <2> DEFINE r == [Resting EXCEPT !.pc = "unpublishLoad", !.arts = T]
  <2>2. T \subseteq Tenants
    BY RequestTypes
  <2>3. r \in Run /\ r.pc = "unpublishLoad"
    BY <2>2, RestingType DEF Run, Places
  <2>4. Go(w, r)
    BY <2>1
  <2> HIDE DEF r
  <2>5. OpenStep(w, r)
    BY <1>1, <1>2, <2>3, <2>4 DEF OpenStep
  <2> QED
    BY <2>3, <2>5
<1> QED
  BY <1>3, <1>4

LEMMA PatchHas ==
    ASSUME Inv, NEW w \in Api, PatchArticle(w)
    PROVE  \E q \in ArticleRequests, e, f \in EntityManager, r \in Run : PatchStep(w, q, e, f, r)
<1>1. PICK q \in ArticleRequests :
        LET t == q.tenant IN
        /\ art[t] # None
        /\ Keep(w, [WithArticles(em[w], {t}) EXCEPT
                      !.art[t] = [art[t] EXCEPT !.status = q.status, !.route = q.route]])
        /\ SetCtx(w, TenantSet(t))
        /\ Go(w, [Resting EXCEPT !.pc = "patch", !.cur = t])
  BY DEF PatchArticle
<1> DEFINE t == q.tenant
           e == WithArticles(em[w], {t})
           a == [art[t] EXCEPT !.status = q.status, !.route = q.route]
           f == [e EXCEPT !.art[t] = a]
           r == [Resting EXCEPT !.pc = "patch", !.cur = t]
<1>2. /\ w \in Workers /\ run[w].pc = "idle" /\ budget'.pushes = budget.pushes
      /\ art[t] # None /\ UNCHANGED <<db, dest, queue>> /\ Keep(w, f) /\ Go(w, r)
  BY <1>1, AcceptKeepsPushes DEF PatchArticle, Workers
<1>3. t \in Tenants /\ q.status \in Statuses /\ q.route \in Routes \cup {None}
  BY RequestTypes
<1>4. a \in Article /\ a.status = q.status /\ a.rev = art[t].rev
  <2>1. art[t] \in Article
    BY <1>2, <1>3 DEF Inv, TypeOK
  <2> QED
    BY <1>3, <2>1 DEF Article
<1>5. e \in EntityManager /\ e.art[t] # None
  <2>1. e = WithArticles(em[w], {t})
    OBVIOUS
  <2> HIDE DEF e, t
  <2> QED
    BY <1>2, <1>3, <2>1, FoundLoaded
<1>6. /\ f \in EntityManager /\ f.pkg = e.pkg /\ f.pkg0 = e.pkg0 /\ f.art0 = e.art0
      /\ f.art = [e.art EXCEPT ![t] = a] /\ a # None
      /\ e.art \in [Tenants -> Article \cup {None}]
  <2> HIDE DEF e, a, t
  <2> QED
    BY <1>3, <1>4, <1>5, ArticleSet DEF EntityManager
<1>7. \A u \in Tenants : f.art[u] = IF u = t THEN a ELSE e.art[u]
  <2> HIDE DEF f, e, a, t
  <2> QED
    BY <1>6
<1>8. r \in Run /\ r.pc = "patch" /\ r.arts = {}
  BY <1>3, RestingType DEF Run, Places, Resting
<1>9. \A v \in Workers \ {w} : ctx'[v] = ctx[v]
  BY <1>1, <1>2, OtherContexts DEF SetCtx
<1>10. e = WithArticles(em[w], {q.tenant}) /\ t = q.tenant
  OBVIOUS
<1> HIDE DEF f, e, a, t, r
<1>11. PatchStep(w, q, e, f, r)
  BY <1>2, <1>3, <1>4, <1>5, <1>6, <1>7, <1>8, <1>9, <1>10 DEF PatchStep
<1> QED
  BY <1>5, <1>6, <1>8, <1>11

LEMMA ReactHas ==
    ASSUME Inv, NEW w \in Api, ReactOnStatusChange(w)
    PROVE  \E e \in EntityManager : ReactStep(w, e)
<1> DEFINE t == run[w].cur
           changed == em[w].art[t].status # em[w].art0[t].status
           loaded == WithPackage(em[w])
           status == IF IsPublished(loaded, t) THEN "published" ELSE "unpublished"
           e == IF ~changed THEN em[w] ELSE PackageStatus(loaded, status)
           left == IF changed THEN Refreshed(ctx[w], e, t) ELSE items
<1>1. /\ w \in Workers /\ run[w].pc = "patch" /\ UNCHANGED <<dest, queue, budget>>
      /\ Flush(e, left) /\ Keep(w, FreshEm) /\ Go(w, Resting) /\ SetCtx(w, NoContext)
  BY DEF ReactOnStatusChange, At, Workers
<1>2. /\ em[w] \in EntityManager /\ run[w] \in Run /\ TypeOK
      /\ Fit(em[w], ctx[w], run[w], pkg)
  BY <1>1, ProcessState DEF Inv
<1>3. pkg # None
  BY <1>1, <1>2 DEF Fit, Run, ArticlePlaces
<1>4. /\ loaded \in EntityManager /\ loaded.pkg # None
      /\ loaded.art = em[w].art /\ loaded.art0 = em[w].art0
      /\ loaded.pkg = IF em[w].pkg = None THEN pkg ELSE em[w].pkg
      /\ loaded.pkg0 = IF em[w].pkg = None THEN pkg ELSE em[w].pkg0
  BY <1>2, <1>3, WithPackageType DEF WithPackage, EntityManager
<1>5. /\ e \in EntityManager /\ e.art = em[w].art /\ e.art0 = em[w].art0
      /\ e.pkg # None =>
           /\ e.pkg0 = IF em[w].pkg = None THEN pkg ELSE em[w].pkg0
           /\ e.pkg.pub = IF em[w].pkg = None THEN pkg.pub ELSE em[w].pkg.pub
  <2>1. status \in Statuses
    BY DEF Statuses
  <2> HIDE DEF loaded, changed, t, status
  <2>2. CASE ~changed
    BY <1>2, <2>2
  <2>3. CASE changed
    BY <1>4, <2>1, <2>3, PackageStatusType
  <2> QED
    BY <2>2, <2>3
<1>6. left \in [Entries -> Nat]
  <2> HIDE DEF e, changed, t
  <2> QED
    BY ItemsType DEF Inv
<1> HIDE DEF e, left
<1>7. ReactStep(w, e)
  BY <1>1, <1>3, <1>5, <1>6 DEF ReactStep
<1> QED
  BY <1>5, <1>7

\* Every step is of one of these shapes.
LEMMA NextShapes ==
    ASSUME Inv, [Next]_vars
    PROVE  \/ Push
           \/ \E f \in EntityManager, r \in Run : ReceiveStep(f, r)
           \/ \E t \in Tenants, f \in EntityManager, r \in Run :
                HydrateStep(t, f, r) \/ CancelStep(t, f, r)
           \/ \E w \in Workers : Shaped(w)
           \/ \E w \in Api :
                \/ \E r \in Run : OpenStep(w, r)
                \/ \E q \in ArticleRequests, e, f \in EntityManager, r \in Run :
                     PatchStep(w, q, e, f, r)
                \/ \E e \in EntityManager : ReactStep(w, e)
                \/ PatchPackage(w)
                \/ CreateDestination(w)
           \/ Reject
           \/ UNCHANGED vars
<1>1. CASE Consume
  <2>1. Hydrate(Consumer) => \E t \in Tenants, f \in EntityManager, r \in Run : HydrateStep(t, f, r)
    BY HydrateHas
  <2>2. Cancel(Consumer) => \E t \in Tenants, f \in EntityManager, r \in Run : CancelStep(t, f, r)
    BY CancelHas
  <2>3. CASE \/ OnUpdated(Consumer) \/ Hydrated(Consumer) \/ OnCanceled(Consumer)
             \/ Canceled(Consumer) \/ ProcessRules(Consumer) \/ Populate(Consumer)
             \/ Populated(Consumer) \/ Processed(Consumer) \/ Handle(Consumer)
    <3>1. Shaped(Consumer)
      BY <2>3, OnUpdatedShape, HydratedShape, OnCanceledShape, CanceledShape,
         ProcessRulesShape, PopulateShape, PopulatedShape, ProcessedShape, HandleShape,
         ConsumerWorks
    <3> QED
      BY <3>1, ConsumerWorks
  <2>4. Receive => \E f \in EntityManager, r \in Run : ReceiveStep(f, r)
    BY ReceiveHas
  <2> QED
    BY <1>1, <2>1, <2>2, <2>3, <2>4 DEF Consume
<1>2. CASE \E w \in Api : Request(w) \/ Respond(w)
  <2>1. PICK w \in Api : Request(w) \/ Respond(w)
    BY <1>2
  <2>2. w \in Workers
    BY DEF Workers
  <2>3. CASE Respond(w)
    <3>1. CASE ReactOnStatusChange(w)
      BY <3>1, ReactHas
    <3>2. CASE UnpublishLoad(w) \/ Unpublish(w) \/ Unpublished(w) \/ Handle(w)
      <4>1. Shaped(w)
        BY <2>2, <3>2, UnpublishLoadShape, UnpublishShape, UnpublishedShape, HandleShape
      <4> QED
        BY <2>2, <4>1
    <3> QED
      BY <2>3, <3>1, <3>2 DEF Respond
  <2>4. CASE Request(w)
    <3>1. CASE PublishPackage(w) \/ UnpublishPackage(w)
      BY <3>1, OpenHas
    <3>2. CASE PatchArticle(w)
      BY <3>2, PatchHas
    <3> QED
      BY <2>4, <3>1, <3>2 DEF Request
  <2> QED
    BY <2>1, <2>3, <2>4
<1>3. CASE \E w \in Workers : Crash(w)
  BY <1>3, RestartShape DEF Shaped
<1> QED
  BY <1>1, <1>2, <1>3 DEF Next

-----------------------------------------------------------------------------
(* What a flush does to the rows.                                          *)

\* The objects of e are loaded or new, and those that were loaded have a row.
Managed(e) ==
    /\ e.pkg # None => e.pkg0 # None /\ e.pkg.pub = e.pkg0.pub
    /\ \A t \in Tenants : e.art0[t] # None => e.art[t] # None /\ art[t] # None

\* Every process keeps that, and a consumer that cancels articles does so for a
\* killed package.
Tracked ==
    /\ \A w \in Workers : Managed(em[w])
    /\ At(Consumer, "cancel") => em[Consumer].pkg.pub = "canceled"

\* The row of a tenant's article is left alone, inserted, or changed where the
\* object was.
LEMMA FlushedArticles ==
    ASSUME Inv, NEW e \in EntityManager, NEW left, Flush(e, left),
           \A t \in Tenants : e.art0[t] # None => e.art[t] # None /\ art[t] # None
    PROVE  \A t \in Tenants :
             /\ art[t] # None \/ e.art[t] # None => art'[t] # None
             /\ e.art[t] = None => art'[t] = art[t]
             /\ e.art[t] # None /\ e.art0[t] = None => art[t] = None /\ art'[t] = e.art[t]
             /\ e.art0[t] # None =>
                  /\ art'[t].status = IF e.art[t].status # e.art0[t].status
                                        THEN e.art[t].status ELSE art[t].status
                  /\ art'[t].rev = IF e.art[t].rev # e.art0[t].rev
                                     THEN e.art[t].rev ELSE art[t].rev
<1> SUFFICES ASSUME NEW t \in Tenants
             PROVE  /\ art[t] # None \/ e.art[t] # None => art'[t] # None
                    /\ e.art[t] = None => art'[t] = art[t]
                    /\ e.art[t] # None /\ e.art0[t] = None => art[t] = None /\ art'[t] = e.art[t]
                    /\ e.art0[t] # None =>
                         /\ art'[t].status = IF e.art[t].status # e.art0[t].status
                                               THEN e.art[t].status ELSE art[t].status
                         /\ art'[t].rev = IF e.art[t].rev # e.art0[t].rev
                                            THEN e.art[t].rev ELSE art[t].rev
  OBVIOUS
<1> DEFINE row == art[t]
           new == e.art[t]
           old == e.art0[t]
<1>1. /\ row \in Article \cup {None} /\ new \in Article \cup {None}
      /\ old \in Article \cup {None}
      /\ art'[t] = MergedArticle(row, new, old)
      /\ old # None => new # None /\ row # None
      /\ ~(new # None /\ old = None /\ row # None)
  BY DEF Flush, Conflict, Inv, TypeOK, EntityManager
<1> HIDE DEF row, new, old
<1>2. CASE new = None
  BY <1>1, <1>2 DEF MergedArticle, row, new, old
<1>3. CASE new # None /\ old = None
  BY <1>1, <1>3 DEF MergedArticle, row, new, old
<1>4. CASE new # None /\ old # None
  <2>1. art'[t] = [status |-> IF new.status # old.status THEN new.status ELSE row.status,
                   route  |-> IF new.route # old.route THEN new.route ELSE row.route,
                   rev    |-> IF new.rev # old.rev THEN new.rev ELSE row.rev]
    BY <1>1, <1>4 DEF MergedArticle
  <2>2. art'[t] \in Article
    BY <1>1, <1>4, <2>1 DEF Article
  <2>3. art'[t] # None
    BY <2>2, NoneIsNothing
  <2> QED
    BY <1>4, <2>1, <2>3 DEF row, new, old
<1> QED
  BY <1>1, <1>2, <1>3, <1>4

\* The package row keeps its pubStatus if the object has.
LEMMA FlushedPackage ==
    ASSUME Inv, NEW e \in EntityManager, NEW left, Flush(e, left), pkg # None,
           e.pkg # None => e.pkg0 # None /\ e.pkg.pub = e.pkg0.pub
    PROVE  pkg' # None /\ pkg'.pub = pkg.pub
<1> DEFINE new == e.pkg
           old == e.pkg0
<1>1. /\ pkg \in Package /\ new \in Package \cup {None} /\ old \in Package \cup {None}
      /\ pkg' = MergedPackage(pkg, new, old)
  BY DEF Flush, Inv, TypeOK, EntityManager
<1>2. CASE new = None
  BY <1>1, <1>2 DEF MergedPackage
<1>3. CASE new # None
  <2>1. pkg' = [status |-> IF new.status # old.status THEN new.status ELSE pkg.status,
                pub    |-> IF new.pub # old.pub THEN new.pub ELSE pkg.pub,
                rev    |-> IF new.rev # old.rev THEN new.rev ELSE pkg.rev]
    BY <1>1, <1>3 DEF MergedPackage
  <2>2. pkg' \in Package
    BY <1>1, <1>3, <2>1 DEF Package
  <2> QED
    BY <1>3, <2>1, <2>2, NoneIsNothing
<1> QED
  BY <1>2, <1>3

\* A flushed entity manager holds what the rows now have.
LEMMA CleanHas ==
    ASSUME NEW e \in EntityManager
    PROVE  /\ Clean(e) \in EntityManager
           /\ Clean(e).pkg = e.pkg /\ Clean(e).pkg0 = e.pkg
           /\ Clean(e).art = e.art /\ Clean(e).art0 = e.art
BY DEF Clean, EntityManager, NoItems

\* Loading finds the rows.
LEMMA LoadedHas ==
    ASSUME Inv, NEW e \in EntityManager, NEW T
    PROVE  /\ WithArticles(e, T) \in EntityManager
           /\ WithArticles(e, T).pkg = e.pkg /\ WithArticles(e, T).pkg0 = e.pkg0
           /\ \A t \in Tenants :
                IF t \in T /\ e.art[t] = None
                THEN WithArticles(e, T).art[t] = art[t] /\ WithArticles(e, T).art0[t] = art[t]
                ELSE /\ WithArticles(e, T).art[t] = e.art[t]
                     /\ WithArticles(e, T).art0[t] = e.art0[t]
BY DEF WithArticles, EntityManager, Inv, TypeOK

\* One process moves.
LEMMA Moved ==
    ASSUME Inv, NEW w \in Workers, NEW f, Keep(w, f), NEW r, Go(w, r)
    PROVE  /\ em'[w] = f /\ run'[w] = r
           /\ \A v \in Workers \ {w} : em'[v] = em[v] /\ run'[v] = run[v]
BY DEF Keep, Go, Inv, TypeOK

LEMMA MovedTracked ==
    ASSUME Inv, Tracked, NEW w \in Workers, NEW f, Keep(w, f), NEW r, Go(w, r),
           f.pkg # None => f.pkg0 # None /\ f.pkg.pub = f.pkg0.pub,
           \A t \in Tenants : art[t] # None => art'[t] # None,
           \A t \in Tenants : f.art0[t] # None => f.art[t] # None /\ art'[t] # None,
           w = Consumer /\ r.pc = "cancel" => f.pkg.pub = "canceled"
    PROVE  Tracked'
<1>1. /\ em'[w] = f /\ run'[w] = r
      /\ \A v \in Workers \ {w} : em'[v] = em[v] /\ run'[v] = run[v]
  BY Moved
<1>2. \A v \in Workers : Managed(em[v])'
  BY <1>1 DEF Tracked, Managed
<1>3. (At(Consumer, "cancel") => em[Consumer].pkg.pub = "canceled")'
  BY <1>1, ConsumerWorks DEF Tracked, At
<1> QED
  BY <1>2, <1>3 DEF Tracked

LEMMA TouchTracked ==
    ASSUME Inv, Tracked, NEW w \in Workers, NEW f \in EntityManager, NEW r \in Run,
           TouchStep(w, f, r)
    PROVE  Tracked'
<1>1. /\ em[w] \in EntityManager /\ Managed(em[w]) /\ Touched(em[w], f) /\ Go(w, r)
      /\ r.pc = "cancel" => em[w].pkg # None /\ em[w].pkg.pub = "canceled"
  BY ProcessState DEF Tracked, TouchStep, Handling, Go
<1>2. r.pc = "cancel" => f.pkg.pub = "canceled"
  BY <1>1 DEF Touched
<1>3. CASE Keep(w, f) /\ UNCHANGED db
  BY <1>1, <1>2, <1>3, MovedTracked DEF Managed, Touched, db
<1>4. CASE \E left \in [Entries -> Nat] : FlushOf(w, f, left)
  <2>1. PICK left \in [Entries -> Nat] : FlushOf(w, f, left)
    BY <1>4
  <2>2. Flush(f, left) /\ Keep(w, Clean(f))
    BY <2>1 DEF FlushOf
  <2>3. \A t \in Tenants : f.art0[t] # None => f.art[t] # None /\ art[t] # None
    BY <1>1 DEF Managed, Touched
  <2>4. \A t \in Tenants : art[t] # None \/ f.art[t] # None => art'[t] # None
    BY <2>2, <2>3, FlushedArticles
  <2> QED
    BY <1>1, <1>2, <2>2, <2>4, CleanHas, MovedTracked
<1> QED
  BY <1>3, <1>4 DEF TouchStep

LEMMA LoadTracked ==
    ASSUME Inv, Tracked, NEW w \in Workers, NEW f \in EntityManager, NEW r \in Run,
           LoadStep(w, f, r)
    PROVE  Tracked'
<1>1. PICK T \in SUBSET Tenants : Touched(WithArticles(em[w], T), f)
  BY DEF LoadStep
<1>2. /\ em[w] \in EntityManager /\ Managed(em[w]) /\ Go(w, r) /\ Keep(w, f) /\ art' = art
      /\ r.pc = "cancel" => em[w].pkg # None /\ em[w].pkg.pub = "canceled"
  BY ProcessState DEF Tracked, LoadStep, Handling, Go, db
<1> DEFINE e == WithArticles(em[w], T)
<1>3. /\ e.pkg = em[w].pkg /\ e.pkg0 = em[w].pkg0
      /\ \A t \in Tenants : IF t \in T /\ em[w].art[t] = None
                            THEN e.art[t] = art[t] /\ e.art0[t] = art[t]
                            ELSE e.art[t] = em[w].art[t] /\ e.art0[t] = em[w].art0[t]
  BY <1>2, LoadedHas
<1>4. Touched(e, f)
  BY <1>1
<1> HIDE DEF e
<1>5. \A t \in Tenants : e.art0[t] # None => e.art[t] # None /\ art[t] # None
  BY <1>2, <1>3 DEF Managed
<1>6. /\ f.pkg # None => f.pkg0 # None /\ f.pkg.pub = f.pkg0.pub
      /\ r.pc = "cancel" => f.pkg.pub = "canceled"
      /\ \A t \in Tenants : f.art0[t] # None => f.art[t] # None /\ art'[t] # None
  BY <1>2, <1>3, <1>4, <1>5 DEF Touched, Managed
<1> QED
  BY <1>2, <1>6, MovedTracked

LEMMA InsertTracked ==
    ASSUME Inv, Tracked, NEW w \in Workers, NEW f \in EntityManager, NEW r \in Run,
           InsertStep(w, f, r)
    PROVE  Tracked'
<1>1. PICK a \in Article : f = [em[w] EXCEPT !.art0[r.cur] = None, !.art[r.cur] = a]
  BY DEF InsertStep
<1>2. /\ em[w] \in EntityManager /\ Managed(em[w]) /\ Go(w, r) /\ Keep(w, f) /\ art' = art
      /\ r.pc = "save" /\ r.cur \in Tenants
  BY ProcessState DEF Tracked, InsertStep, Handling, Go, db
<1>3. /\ f.pkg = em[w].pkg /\ f.pkg0 = em[w].pkg0
      /\ f.art[r.cur] # None /\ f.art0[r.cur] = None
      /\ \A u \in Tenants \ {r.cur} : f.art[u] = em[w].art[u] /\ f.art0[u] = em[w].art0[u]
  <2> DEFINE e == em[w]
             t == r.cur
  <2>1. e \in EntityManager /\ t \in Tenants /\ f = [e EXCEPT !.art0[t] = None, !.art[t] = a]
    BY <1>1, <1>2
  <2>2. /\ f.pkg = e.pkg /\ f.pkg0 = e.pkg0 /\ f.art[t] # None /\ f.art0[t] = None
        /\ \A u \in Tenants \ {t} : f.art[u] = e.art[u] /\ f.art0[u] = e.art0[u]
    <3> HIDE DEF e, t
    <3> QED
      BY <2>1, NoneIsNothing DEF EntityManager
  <2> QED
    BY <2>2
<1>4. /\ f.pkg # None => f.pkg0 # None /\ f.pkg.pub = f.pkg0.pub
      /\ \A t \in Tenants : f.art0[t] # None => f.art[t] # None /\ art'[t] # None
  BY <1>2, <1>3 DEF Managed
<1> QED
  BY <1>2, <1>4, MovedTracked

LEMMA ForgetTracked ==
    ASSUME Inv, Tracked, NEW w \in Workers, ForgetStep(w)
    PROVE  Tracked'
<1>1. FreshEm.pkg = None /\ (\A t \in Tenants : FreshEm.art0[t] = None) /\ Resting.pc = "idle"
  BY DEF FreshEm, NoArticles, Resting
<1> QED
  BY <1>1, MovedTracked DEF ForgetStep, db

LEMMA ShapedTracked == ASSUME Inv, Tracked, NEW w \in Workers, Shaped(w) PROVE Tracked'
BY TouchTracked, LoadTracked, InsertTracked, ForgetTracked DEF Shaped

LEMMA ReceiveTracked ==
    ASSUME Inv, Tracked, NEW f \in EntityManager, NEW r \in Run, ReceiveStep(f, r)
    PROVE  Tracked'
<1>1. /\ Managed(em[Consumer]) /\ Go(Consumer, r) /\ r.pc # "cancel" /\ Consumer \in Workers
      /\ Flush(f, items) /\ Keep(Consumer, Clean(f)) /\ f.art0 = em[Consumer].art0
      /\ f.art = em[Consumer].art
  BY ConsumerWorks DEF Tracked, ReceiveStep, FlushOf
<1>2. \A t \in Tenants : art[t] # None \/ f.art[t] # None => art'[t] # None
  BY <1>1, FlushedArticles DEF Managed
<1> QED
  BY <1>1, <1>2, CleanHas, MovedTracked

LEMMA HydrateTracked ==
    ASSUME Inv, Tracked, NEW t \in Tenants, NEW f \in EntityManager, NEW r \in Run,
           HydrateStep(t, f, r)
    PROVE  Tracked'
<1>1. /\ Managed(em[Consumer]) /\ Go(Consumer, r) /\ r.pc # "cancel" /\ Consumer \in Workers
      /\ Flush(f, items) /\ Keep(Consumer, Clean(f))
  BY ConsumerWorks DEF Tracked, HydrateStep, FlushOf
<1>2. \A u \in Tenants : f.art0[u] # None => f.art[u] # None /\ art[u] # None
  BY <1>1 DEF Managed, HydrateStep
<1>3. \A u \in Tenants : art[u] # None \/ f.art[u] # None => art'[u] # None
  BY <1>1, <1>2, FlushedArticles
<1> QED
  BY <1>1, <1>3, CleanHas, MovedTracked

LEMMA CancelTracked ==
    ASSUME Inv, Tracked, NEW t \in Tenants, NEW f \in EntityManager, NEW r \in Run,
           CancelStep(t, f, r)
    PROVE  Tracked'
<1> DEFINE g == PackageCanceled(Clean(f))
<1>1. /\ Managed(em[Consumer]) /\ Go(Consumer, r) /\ Consumer \in Workers /\ Keep(Consumer, g)
      /\ em[Consumer].pkg.pub = "canceled"
      /\ g.art = f.art /\ g.art0 = f.art /\ g.pkg # None /\ g.pkg0 = f.pkg
      /\ g.pkg.pub = f.pkg.pub /\ f.pkg = em[Consumer].pkg
  BY ConsumerWorks DEF Tracked, CancelStep, At
<1>2. PICK left : Flush(f, left)
  BY DEF CancelStep
<1>3. em[Consumer].pkg # None
  BY ProcessState, ConsumerWorks DEF CancelStep, Fit, PackagePlaces, Places
<1>4. \A u \in Tenants : f.art0[u] # None => f.art[u] # None /\ art[u] # None
  BY <1>1 DEF Managed, CancelStep
<1>5. \A u \in Tenants : art[u] # None \/ f.art[u] # None => art'[u] # None
  BY <1>2, <1>4, FlushedArticles
<1> HIDE DEF g
<1> QED
  BY <1>1, <1>3, <1>5, MovedTracked

LEMMA OpenTracked ==
    ASSUME Inv, Tracked, NEW w \in Api, NEW r \in Run, OpenStep(w, r)
    PROVE  Tracked'
<1> DEFINE e == WithPackage(em[w])
<1>1. /\ w \in Workers /\ w # Consumer /\ em[w] \in EntityManager /\ Managed(em[w])
      /\ Go(w, r) /\ Keep(w, e) /\ art' = art
  BY ConsumerWorks, ProcessState DEF Workers, Tracked, OpenStep, db
<1>2. /\ e.art = em[w].art /\ e.art0 = em[w].art0
      /\ em[w].pkg = None => e.pkg = pkg /\ e.pkg0 = pkg
      /\ em[w].pkg # None => e.pkg = em[w].pkg /\ e.pkg0 = em[w].pkg0
  BY <1>1, WithPackageType DEF WithPackage, EntityManager, Inv
<1> HIDE DEF e
<1> QED
  BY <1>1, <1>2, MovedTracked DEF Managed

LEMMA PatchTracked ==
    ASSUME Inv, Tracked, NEW w \in Api, NEW q \in ArticleRequests,
           NEW e \in EntityManager, NEW f \in EntityManager, NEW r \in Run,
           PatchStep(w, q, e, f, r)
    PROVE  Tracked'
<1>1. /\ w \in Workers /\ w # Consumer /\ em[w] \in EntityManager /\ Managed(em[w])
      /\ Go(w, r) /\ Keep(w, f) /\ art' = art
  BY ConsumerWorks, ProcessState DEF Workers, Tracked, PatchStep, db
<1>2. /\ e.pkg = em[w].pkg /\ e.pkg0 = em[w].pkg0
      /\ \A t \in Tenants : IF t \in {q.tenant} /\ em[w].art[t] = None
                            THEN e.art[t] = art[t] /\ e.art0[t] = art[t]
                            ELSE e.art[t] = em[w].art[t] /\ e.art0[t] = em[w].art0[t]
  BY <1>1, LoadedHas DEF PatchStep
<1>3. \A t \in Tenants : e.art0[t] # None => e.art[t] # None /\ art[t] # None
  BY <1>1, <1>2 DEF Managed
<1>4. /\ f.pkg # None => f.pkg0 # None /\ f.pkg.pub = f.pkg0.pub
      /\ \A t \in Tenants : f.art0[t] # None => f.art[t] # None /\ art'[t] # None
  <2>1. /\ f.pkg = e.pkg /\ f.pkg0 = e.pkg0 /\ f.art0 = e.art0 /\ f.art[q.tenant] # None
        /\ \A u \in Tenants \ {q.tenant} : f.art[u] = e.art[u]
    BY DEF PatchStep
  <2>2. f.pkg # None => f.pkg0 # None /\ f.pkg.pub = f.pkg0.pub
    BY <1>1, <1>2, <2>1 DEF Managed
  <2>3. \A t \in Tenants : f.art0[t] # None => f.art[t] # None /\ art'[t] # None
    BY <1>1, <1>3, <2>1
  <2> QED
    BY <2>2, <2>3
<1> QED
  BY <1>1, <1>4, MovedTracked

LEMMA ReactTracked ==
    ASSUME Inv, Tracked, NEW w \in Api, NEW e \in EntityManager, ReactStep(w, e)
    PROVE  Tracked'
<1>1. /\ w \in Workers /\ Managed(em[w]) /\ Keep(w, FreshEm) /\ Go(w, Resting)
      /\ e.art = em[w].art /\ e.art0 = em[w].art0
  BY DEF Workers, Tracked, ReactStep
<1>2. PICK left : Flush(e, left)
  BY DEF ReactStep
<1>3. \A t \in Tenants : art[t] # None => art'[t] # None
  BY <1>1, <1>2, FlushedArticles DEF Managed
<1>4. FreshEm.pkg = None /\ (\A t \in Tenants : FreshEm.art0[t] = None) /\ Resting.pc = "idle"
  BY DEF FreshEm, NoArticles, Resting
<1> QED
  BY <1>1, <1>3, <1>4, MovedTracked

\* Entity managers track what they load, whatever happens.
LEMMA NextTracked == Inv /\ Tracked /\ [Next]_vars => Tracked'
<1> SUFFICES ASSUME Inv, Tracked, [Next]_vars PROVE Tracked'
  OBVIOUS
<1>1. CASE Push
  BY <1>1 DEF Push, Tracked, Managed, At, db
<1>2. CASE \E w \in Api : PatchPackage(w) \/ CreateDestination(w)
  BY <1>2 DEF PatchPackage, CreateDestination, Tracked, Managed, At, db
<1>3. CASE Reject
  BY <1>3, ConsumerWorks DEF Reject, Go, Resting, Tracked, Managed, At, db, Inv, TypeOK
<1>4. CASE UNCHANGED vars
  BY <1>4 DEF vars, Tracked, Managed, At
<1> QED
  BY <1>1, <1>2, <1>3, <1>4, NextShapes, ShapedTracked, ReceiveTracked, HydrateTracked,
     CancelTracked, OpenTracked, PatchTracked, ReactTracked

LEMMA InitTracked == Init => Tracked
BY ConsumerWorks DEF Init, Tracked, Managed, FreshEm, NoArticles, Resting, At

LEMMA TrackedHolds == Spec => [](Inv /\ Tracked)
BY InitInv, NextInv, InitTracked, NextTracked, PTL DEF Spec

-----------------------------------------------------------------------------
(* Who cancels an article.                                                 *)

\* No editor sets the status `canceled' by hand, or a pubStatus but `canceled'.
NoCancelRequest == \A q \in ArticleRequests : q.status # "canceled"
KillIsFinal == PackageRequests \subseteq {"canceled"}

\* A canceled article was loaded so.
NoneCanceled(e) ==
    \A t \in Tenants : e.art[t] # None /\ e.art[t].status = "canceled"
                         => e.art0[t] # None /\ e.art0[t].status = "canceled"

\* The consumer's package is killed only while its row is.
KillInv ==
    /\ \A w \in Workers : NoneCanceled(em[w])
    /\ em[Consumer].pkg # None /\ em[Consumer].pkg.pub = "canceled"
         => pkg # None /\ pkg.pub = "canceled"

CancelsOfKilled ==
    \A t \in Tenants :
      art'[t] # None /\ art'[t].status = "canceled"
        /\ (art[t] = None \/ art[t].status # "canceled")
      => pkg # None /\ pkg.pub = "canceled"

\* Flushing such objects cancels no row.
LEMMA FlushCancelsNone ==
    ASSUME Inv, NEW e \in EntityManager, NEW left, Flush(e, left), NoneCanceled(e),
           \A t \in Tenants : e.art0[t] # None => e.art[t] # None /\ art[t] # None
    PROVE  CancelsOfKilled
<1>1. ASSUME NEW t \in Tenants, art'[t] # None, art'[t].status = "canceled"
      PROVE  art[t] # None /\ art[t].status = "canceled"
  <2>1. /\ e.art[t] = None => art'[t] = art[t]
        /\ e.art[t] # None /\ e.art0[t] = None => art'[t] = e.art[t]
        /\ e.art0[t] # None =>
             art'[t].status = IF e.art[t].status # e.art0[t].status
                                THEN e.art[t].status ELSE art[t].status
    BY FlushedArticles
  <2> QED
    BY <1>1, <2>1 DEF NoneCanceled
<1> QED
  BY <1>1 DEF CancelsOfKilled

\* The consumer's package and the row after one process has moved.
LEMMA MovedKill ==
    ASSUME Inv, KillInv, NEW w \in Workers, NEW f, Keep(w, f), NEW r, Go(w, r),
           NoneCanceled(f),
           f.pkg # None => (f.pkg.pub = "canceled" <=>
                              em[w].pkg # None /\ em[w].pkg.pub = "canceled") \/ w # Consumer,
           pkg # None => pkg' # None /\ pkg'.pub = pkg.pub
    PROVE  KillInv'
<1>1. em'[w] = f /\ \A v \in Workers \ {w} : em'[v] = em[v]
  BY Moved
<1>2. \A v \in Workers : NoneCanceled(em[v])'
  BY <1>1 DEF KillInv, NoneCanceled
<1>3. (em[Consumer].pkg # None /\ em[Consumer].pkg.pub = "canceled"
         => pkg # None /\ pkg.pub = "canceled")'
  BY <1>1, ConsumerWorks DEF KillInv
<1> QED
  BY <1>2, <1>3 DEF KillInv

LEMMA TouchKill ==
    ASSUME Inv, Tracked, KillInv, NEW w \in Workers, NEW f \in EntityManager, NEW r \in Run,
           TouchStep(w, f, r)
    PROVE  KillInv' /\ CancelsOfKilled
<1>1. /\ em[w] \in EntityManager /\ Managed(em[w]) /\ Touched(em[w], f) /\ Go(w, r)
      /\ NoneCanceled(em[w])
  BY ProcessState DEF Tracked, TouchStep, Handling, Go, KillInv
<1>2. /\ NoneCanceled(f)
      /\ f.pkg # None => em[w].pkg # None /\ f.pkg.pub = em[w].pkg.pub
      /\ f.pkg # None => f.pkg0 # None /\ f.pkg.pub = f.pkg0.pub
      /\ \A t \in Tenants : f.art0[t] # None => f.art[t] # None /\ art[t] # None
  BY <1>1 DEF NoneCanceled, Touched, Managed
<1>3. CASE Keep(w, f) /\ UNCHANGED db
  BY <1>1, <1>2, <1>3, MovedKill DEF CancelsOfKilled, db
<1>4. CASE \E left \in [Entries -> Nat] : FlushOf(w, f, left)
  <2>1. PICK left \in [Entries -> Nat] : Flush(f, left) /\ Keep(w, Clean(f))
    BY <1>4 DEF FlushOf
  <2>2. CancelsOfKilled
    BY <1>2, <2>1, FlushCancelsNone
  <2>3. pkg # None => pkg' # None /\ pkg'.pub = pkg.pub
    BY <1>2, <2>1, FlushedPackage
  <2>4. NoneCanceled(Clean(f)) /\ Clean(f).pkg = f.pkg
    BY CleanHas DEF NoneCanceled
  <2> QED
    BY <1>1, <1>2, <2>1, <2>2, <2>3, <2>4, MovedKill
<1> QED
  BY <1>3, <1>4 DEF TouchStep

LEMMA LoadKill ==
    ASSUME Inv, KillInv, NEW w \in Workers, NEW f \in EntityManager, NEW r \in Run,
           LoadStep(w, f, r)
    PROVE  KillInv' /\ CancelsOfKilled
<1>1. PICK T \in SUBSET Tenants : Touched(WithArticles(em[w], T), f)
  BY DEF LoadStep
<1>2. /\ em[w] \in EntityManager /\ NoneCanceled(em[w]) /\ Go(w, r) /\ Keep(w, f)
      /\ UNCHANGED db
  BY ProcessState DEF KillInv, LoadStep, Handling, Go
<1> DEFINE e == WithArticles(em[w], T)
<1>3. /\ e.pkg = em[w].pkg
      /\ \A t \in Tenants : IF t \in T /\ em[w].art[t] = None
                            THEN e.art[t] = art[t] /\ e.art0[t] = art[t]
                            ELSE e.art[t] = em[w].art[t] /\ e.art0[t] = em[w].art0[t]
  BY <1>2, LoadedHas
<1>4. Touched(e, f)
  BY <1>1
<1> HIDE DEF e
<1>5. NoneCanceled(e)
  BY <1>2, <1>3 DEF NoneCanceled
<1>6. NoneCanceled(f) /\ (f.pkg # None => em[w].pkg # None /\ f.pkg.pub = em[w].pkg.pub)
  BY <1>3, <1>4, <1>5 DEF Touched, NoneCanceled
<1> QED
  BY <1>2, <1>6, MovedKill DEF CancelsOfKilled, db

LEMMA InsertKill ==
    ASSUME Inv, KillInv, NEW w \in Workers, NEW f \in EntityManager, NEW r \in Run,
           InsertStep(w, f, r)
    PROVE  KillInv' /\ CancelsOfKilled
<1>1. PICK a \in Article : a.status = "new" /\ f = [em[w] EXCEPT !.art0[r.cur] = None, !.art[r.cur] = a]
  BY DEF InsertStep
<1>2. /\ em[w] \in EntityManager /\ NoneCanceled(em[w]) /\ Go(w, r) /\ Keep(w, f)
      /\ UNCHANGED db /\ r.cur \in Tenants
  BY ProcessState DEF KillInv, InsertStep, Handling, Go
<1>3. /\ f.pkg = em[w].pkg
      /\ \A u \in Tenants : /\ f.art[u] = IF u = r.cur THEN a ELSE em[w].art[u]
                            /\ u # r.cur => f.art0[u] = em[w].art0[u]
  <2> DEFINE e == em[w]
             t == r.cur
  <2>1. e \in EntityManager /\ t \in Tenants /\ f = [e EXCEPT !.art0[t] = None, !.art[t] = a]
    BY <1>1, <1>2
  <2>2. /\ f.pkg = e.pkg
        /\ \A u \in Tenants : /\ f.art[u] = IF u = t THEN a ELSE e.art[u]
                              /\ u # t => f.art0[u] = e.art0[u]
    <3> HIDE DEF e, t
    <3> QED
      BY <2>1 DEF EntityManager
  <2> QED
    BY <2>2
<1>4. NoneCanceled(f)
  BY <1>1, <1>2, <1>3 DEF NoneCanceled
<1> QED
  BY <1>2, <1>3, <1>4, MovedKill DEF CancelsOfKilled, db

LEMMA ForgetKill ==
    ASSUME Inv, KillInv, NEW w \in Workers, ForgetStep(w)
    PROVE  KillInv' /\ CancelsOfKilled
<1>1. FreshEm.pkg = None /\ NoneCanceled(FreshEm)
  BY DEF FreshEm, NoArticles, NoneCanceled
<1> QED
  BY <1>1, MovedKill DEF ForgetStep, CancelsOfKilled, db

LEMMA ShapedKill ==
    ASSUME Inv, Tracked, KillInv, NEW w \in Workers, Shaped(w)
    PROVE  KillInv' /\ CancelsOfKilled
BY TouchKill, LoadKill, InsertKill, ForgetKill DEF Shaped

\* The row takes the revision and the pubStatus of the message.
LEMMA ReceivedRow ==
    ASSUME Inv, NEW f \in EntityManager, NEW r \in Run, ReceiveStep(f, r)
    PROVE  /\ pkg' # None
           /\ IF em[Consumer].pkg = None THEN f.pkg0 = pkg ELSE f.pkg0 = em[Consumer].pkg0
           /\ pkg'.pub = IF f.pkg0 = None \/ pkg = None \/ f.pkg.pub # f.pkg0.pub
                           THEN f.pkg.pub ELSE pkg.pub
           /\ pkg'.rev = IF f.pkg0 = None \/ pkg = None \/ f.pkg.rev # f.pkg0.rev
                           THEN f.pkg.rev ELSE pkg.rev
<1> DEFINE new == f.pkg
           old == f.pkg0
<1>1. /\ pkg \in Package \cup {None} /\ new \in Package /\ old \in Package \cup {None}
      /\ pkg' = MergedPackage(pkg, new, old) /\ new # None
  BY DEF ReceiveStep, FlushOf, Flush, Inv, TypeOK, EntityManager
<1>2. IF em[Consumer].pkg = None THEN f.pkg0 = pkg ELSE f.pkg0 = em[Consumer].pkg0
  BY ProcessState, ConsumerWorks DEF ReceiveStep, WithPackage, EntityManager
<1>3. CASE old = None \/ pkg = None
  <2>1. pkg' = new
    BY <1>1, <1>3 DEF MergedPackage
  <2> QED
    BY <1>1, <1>2, <1>3, <2>1
<1>4. CASE old # None /\ pkg # None
  <2>1. pkg' = [status |-> IF new.status # old.status THEN new.status ELSE pkg.status,
                pub    |-> IF new.pub # old.pub THEN new.pub ELSE pkg.pub,
                rev    |-> IF new.rev # old.rev THEN new.rev ELSE pkg.rev]
    BY <1>1, <1>4 DEF MergedPackage
  <2>2. pkg' \in Package
    BY <1>1, <1>4, <2>1 DEF Package
  <2> QED
    BY <1>2, <1>4, <2>1, <2>2, NoneIsNothing
<1> QED
  BY <1>3, <1>4

LEMMA ReceiveKill ==
    ASSUME Inv, Tracked, KillInv, NEW f \in EntityManager, NEW r \in Run, ReceiveStep(f, r)
    PROVE  KillInv' /\ CancelsOfKilled
<1>1. /\ Consumer \in Workers /\ Managed(em[Consumer]) /\ NoneCanceled(em[Consumer])
      /\ Go(Consumer, r) /\ Flush(f, items) /\ Keep(Consumer, Clean(f))
      /\ f.art0 = em[Consumer].art0 /\ f.art = em[Consumer].art
  BY ConsumerWorks DEF Tracked, KillInv, ReceiveStep, FlushOf
<1>2. NoneCanceled(f) /\ \A t \in Tenants : f.art0[t] # None => f.art[t] # None /\ art[t] # None
  BY <1>1 DEF NoneCanceled, Managed
<1>3. CancelsOfKilled
  BY <1>1, <1>2, FlushCancelsNone
<1>4. /\ Clean(f).pkg = f.pkg /\ Clean(f).art = Clean(f).art0
  BY CleanHas
<1>5. f.pkg.pub = "canceled" => pkg' # None /\ pkg'.pub = "canceled"
  BY <1>1, ReceivedRow DEF KillInv, Managed
<1>6. /\ em'[Consumer] = Clean(f)
      /\ \A v \in Workers \ {Consumer} : em'[v] = em[v]
  BY <1>1, Moved
<1>7. \A v \in Workers : NoneCanceled(em[v])'
  BY <1>4, <1>6 DEF KillInv, NoneCanceled
<1> QED
  BY <1>3, <1>4, <1>5, <1>6, <1>7 DEF KillInv

LEMMA HydrateKill ==
    ASSUME Inv, Tracked, KillInv, NEW t \in Tenants, NEW f \in EntityManager, NEW r \in Run,
           HydrateStep(t, f, r)
    PROVE  KillInv' /\ CancelsOfKilled
<1>1. /\ Consumer \in Workers /\ Managed(em[Consumer]) /\ NoneCanceled(em[Consumer])
      /\ Go(Consumer, r) /\ Flush(f, items) /\ Keep(Consumer, Clean(f))
  BY ConsumerWorks DEF Tracked, KillInv, HydrateStep, FlushOf
<1>2. /\ \A u \in Tenants : f.art0[u] # None => f.art[u] # None /\ art[u] # None
      /\ f.pkg = em[Consumer].pkg /\ f.pkg0 = em[Consumer].pkg0
      /\ NoneCanceled(f)
  BY <1>1 DEF Managed, HydrateStep, NoneCanceled
<1>3. CancelsOfKilled
  BY <1>1, <1>2, FlushCancelsNone
<1>4. pkg # None => pkg' # None /\ pkg'.pub = pkg.pub
  BY <1>1, <1>2, FlushedPackage DEF Managed
<1>5. NoneCanceled(Clean(f)) /\ Clean(f).pkg = f.pkg
  BY CleanHas DEF NoneCanceled
<1> QED
  BY <1>1, <1>2, <1>3, <1>4, <1>5, MovedKill

LEMMA CancelKill ==
    ASSUME Inv, Tracked, KillInv, NEW t \in Tenants, NEW f \in EntityManager, NEW r \in Run,
           CancelStep(t, f, r)
    PROVE  KillInv' /\ CancelsOfKilled
<1> DEFINE g == PackageCanceled(Clean(f))
<1>1. /\ Managed(em[Consumer]) /\ Go(Consumer, r) /\ Consumer \in Workers /\ Keep(Consumer, g)
      /\ em[Consumer].pkg.pub = "canceled"
      /\ g.art = g.art0 /\ g.pkg.pub = f.pkg.pub
      /\ f.pkg = em[Consumer].pkg /\ f.pkg0 = em[Consumer].pkg0
  BY ConsumerWorks DEF Tracked, CancelStep, At
<1>2. PICK left : Flush(f, left)
  BY DEF CancelStep
<1>3. em[Consumer].pkg # None
  BY ProcessState, ConsumerWorks DEF CancelStep, Fit, PackagePlaces, Places
<1>4. pkg # None /\ pkg.pub = "canceled"
  BY <1>1, <1>3 DEF KillInv
<1>5. pkg' # None /\ pkg'.pub = pkg.pub
  BY <1>1, <1>2, <1>4, FlushedPackage DEF Managed
<1>6. NoneCanceled(g)
  BY <1>1 DEF NoneCanceled
<1> HIDE DEF g
<1>7. KillInv'
  BY <1>1, <1>3, <1>5, <1>6, MovedKill
<1> QED
  BY <1>4, <1>7 DEF CancelsOfKilled

LEMMA OpenKill ==
    ASSUME Inv, KillInv, NEW w \in Api, NEW r \in Run, OpenStep(w, r)
    PROVE  KillInv' /\ CancelsOfKilled
<1> DEFINE e == WithPackage(em[w])
<1>1. /\ w \in Workers /\ w # Consumer /\ em[w] \in EntityManager /\ NoneCanceled(em[w])
      /\ Go(w, r) /\ Keep(w, e) /\ UNCHANGED db
  BY ConsumerWorks, ProcessState DEF Workers, KillInv, OpenStep
<1>2. e.art = em[w].art /\ e.art0 = em[w].art0
  BY <1>1, WithPackageType DEF Inv
<1> HIDE DEF e
<1>3. NoneCanceled(e)
  BY <1>1, <1>2 DEF NoneCanceled
<1> QED
  BY <1>1, <1>3, MovedKill DEF CancelsOfKilled, db

LEMMA PatchKill ==
    ASSUME Inv, KillInv, NoCancelRequest, NEW w \in Api, NEW q \in ArticleRequests,
           NEW e \in EntityManager, NEW f \in EntityManager, NEW r \in Run,
           PatchStep(w, q, e, f, r)
    PROVE  KillInv' /\ CancelsOfKilled
<1>1. /\ w \in Workers /\ w # Consumer /\ em[w] \in EntityManager /\ NoneCanceled(em[w])
      /\ Go(w, r) /\ Keep(w, f) /\ UNCHANGED db
  BY ConsumerWorks, ProcessState DEF Workers, KillInv, PatchStep
<1>2. \A t \in Tenants : IF t \in {q.tenant} /\ em[w].art[t] = None
                         THEN e.art[t] = art[t] /\ e.art0[t] = art[t]
                         ELSE e.art[t] = em[w].art[t] /\ e.art0[t] = em[w].art0[t]
  BY <1>1, LoadedHas DEF PatchStep
<1>3. NoneCanceled(e)
  BY <1>1, <1>2 DEF NoneCanceled
<1>4. /\ f.art0 = e.art0 /\ f.art[q.tenant].status = q.status
      /\ \A u \in Tenants \ {q.tenant} : f.art[u] = e.art[u]
  BY DEF PatchStep
<1>5. NoneCanceled(f)
  BY <1>3, <1>4 DEF NoneCanceled, NoCancelRequest
<1> QED
  BY <1>1, <1>5, MovedKill DEF CancelsOfKilled, db

LEMMA ReactKill ==
    ASSUME Inv, Tracked, KillInv, NEW w \in Api, NEW e \in EntityManager, ReactStep(w, e)
    PROVE  KillInv' /\ CancelsOfKilled
<1>1. /\ w \in Workers /\ w # Consumer /\ Managed(em[w]) /\ NoneCanceled(em[w])
      /\ Keep(w, FreshEm) /\ Go(w, Resting) /\ pkg # None
      /\ e.art = em[w].art /\ e.art0 = em[w].art0
      /\ e.pkg # None =>
           /\ e.pkg0 = IF em[w].pkg = None THEN pkg ELSE em[w].pkg0
           /\ e.pkg.pub = IF em[w].pkg = None THEN pkg.pub ELSE em[w].pkg.pub
  BY ConsumerWorks DEF Workers, Tracked, KillInv, ReactStep
<1>2. PICK left : Flush(e, left)
  BY DEF ReactStep
<1>3. NoneCanceled(e) /\ \A t \in Tenants : e.art0[t] # None => e.art[t] # None /\ art[t] # None
  BY <1>1 DEF NoneCanceled, Managed
<1>4. CancelsOfKilled
  BY <1>2, <1>3, FlushCancelsNone
<1>5. e.pkg # None => e.pkg0 # None /\ e.pkg.pub = e.pkg0.pub
  BY <1>1 DEF Managed
<1>6. pkg' # None /\ pkg'.pub = pkg.pub
  BY <1>1, <1>2, <1>5, FlushedPackage
<1>7. FreshEm.pkg = None /\ NoneCanceled(FreshEm)
  BY DEF FreshEm, NoArticles, NoneCanceled
<1> QED
  BY <1>1, <1>4, <1>6, <1>7, MovedKill

LEMMA NextKill ==
    ASSUME NoCancelRequest, KillIsFinal
    PROVE  Inv /\ Tracked /\ KillInv /\ [Next]_vars => KillInv' /\ CancelsOfKilled
<1> SUFFICES ASSUME Inv, Tracked, KillInv, [Next]_vars PROVE KillInv' /\ CancelsOfKilled
  OBVIOUS
<1>1. CASE Push
  BY <1>1 DEF Push, KillInv, NoneCanceled, CancelsOfKilled, db
<1>2. CASE \E w \in Api : PatchPackage(w)
  <2>1. pkg \in Package
    BY <1>2 DEF PatchPackage, Inv, TypeOK
  <2>2. pkg' \in Package /\ pkg'.pub = "canceled" /\ UNCHANGED <<art, em>>
    BY <1>2, <2>1 DEF PatchPackage, KillIsFinal, Package, Statuses, PubStatuses
  <2>3. pkg' # None
    BY <2>2, NoneIsNothing
  <2> QED
    BY <2>2, <2>3 DEF KillInv, NoneCanceled, CancelsOfKilled
<1>3. CASE \E w \in Api : CreateDestination(w)
  BY <1>3 DEF CreateDestination, KillInv, NoneCanceled, CancelsOfKilled, db
<1>4. CASE Reject
  BY <1>4 DEF Reject, KillInv, NoneCanceled, CancelsOfKilled, db
<1>5. CASE UNCHANGED vars
  BY <1>5 DEF vars, KillInv, NoneCanceled, CancelsOfKilled
<1> QED
  BY <1>1, <1>2, <1>3, <1>4, <1>5, NextShapes, ShapedKill, ReceiveKill, HydrateKill,
     CancelKill, OpenKill, PatchKill, ReactKill

\* Without such requests an article is canceled only while its package is killed:
\* by CanceledPackageListener, never by a correction, a rule or a lost update.
THEOREM CancelsOnlyKilled ==
    ASSUME NoCancelRequest, KillIsFinal
    PROVE  Spec => CancelOnlyKilled
<1>1. Init => KillInv
  BY ConsumerWorks DEF Init, KillInv, NoneCanceled, FreshEm, NoArticles
<1>2. Inv /\ Tracked /\ KillInv /\ [Next]_vars => KillInv' /\ CancelsOfKilled
  BY NextKill
<1>3. Spec => [][CancelsOfKilled]_vars
  BY <1>1, <1>2, TrackedHolds, PTL DEF Spec
<1> QED
  BY <1>3 DEF CancelOnlyKilled, CancelsOfKilled

-----------------------------------------------------------------------------
(* Objects of a process, field by field.                                   *)

Public(a) == a # None /\ a.status = "published"

LEMMA OnlyConsumer ==
    ASSUME Inv, NEW f, Keep(Consumer, f), NEW r, Go(Consumer, r)
    PROVE  /\ em'[Consumer] = f /\ run'[Consumer] = r
           /\ \A w \in Api : em'[w] = em[w] /\ run'[w] = run[w]
BY Moved, ConsumerWorks DEF Workers

LEMMA CleanLists ==
    ASSUME NEW e \in EntityManager
    PROVE  Clean(e).adds = NoItems /\ Clean(e).art = e.art /\ Clean(e).art0 = e.art
BY DEF Clean, EntityManager

\* One field of one article is set.
LEMMA StatusPut ==
    ASSUME NEW e \in EntityManager, NEW t \in Tenants, e.art[t] # None,
           NEW status \in Statuses
    PROVE  LET f == [e EXCEPT !.art[t].status = status] IN
           /\ f \in EntityManager /\ f.pkg = e.pkg /\ f.pkg0 = e.pkg0
           /\ f.art0 = e.art0 /\ f.adds = e.adds
           /\ \A u \in Tenants \ {t} : f.art[u] = e.art[u]
           /\ f.art[t] # None /\ f.art[t].status = status
           /\ f.art[t].route = e.art[t].route /\ f.art[t].rev = e.art[t].rev
<1> DEFINE a == [e.art[t] EXCEPT !.status = status]
           f == [e EXCEPT !.art[t].status = status]
<1>1. e.art[t] \in Article /\ e.art \in [Tenants -> Article \cup {None}]
  BY DEF EntityManager
<1>2. /\ a \in Article /\ a # None /\ a.status = status
      /\ a.route = e.art[t].route /\ a.rev = e.art[t].rev
  BY <1>1, NoneIsNothing DEF Article
<1>3. /\ f.pkg = e.pkg /\ f.pkg0 = e.pkg0 /\ f.art0 = e.art0 /\ f.adds = e.adds
      /\ f.art = [e.art EXCEPT ![t] = a] /\ f \in EntityManager
  BY StatusSet DEF EntityManager
<1> HIDE DEF a, f
<1>4. /\ \A u \in Tenants \ {t} : f.art[u] = e.art[u]
      /\ f.art[t] # None /\ f.art[t].status = status
      /\ f.art[t].route = e.art[t].route /\ f.art[t].rev = e.art[t].rev
  BY <1>1, <1>2, <1>3
<1> QED
  BY <1>3, <1>4 DEF f

LEMMA RoutePut ==
    ASSUME NEW e \in EntityManager, NEW t \in Tenants, e.art[t] # None,
           NEW route \in Routes \cup {None}
    PROVE  LET f == [e EXCEPT !.art[t].route = route] IN
           /\ f \in EntityManager /\ f.pkg = e.pkg /\ f.pkg0 = e.pkg0
           /\ f.art0 = e.art0 /\ f.adds = e.adds
           /\ \A u \in Tenants \ {t} : f.art[u] = e.art[u]
           /\ f.art[t] # None /\ f.art[t].route = route
           /\ f.art[t].status = e.art[t].status /\ f.art[t].rev = e.art[t].rev
<1> DEFINE a == [e.art[t] EXCEPT !.route = route]
           f == [e EXCEPT !.art[t].route = route]
<1>1. e.art[t] \in Article /\ e.art \in [Tenants -> Article \cup {None}]
  BY DEF EntityManager
<1>2. /\ a \in Article /\ a # None /\ a.route = route
      /\ a.status = e.art[t].status /\ a.rev = e.art[t].rev
  BY <1>1, NoneIsNothing DEF Article
<1>3. /\ f.pkg = e.pkg /\ f.pkg0 = e.pkg0 /\ f.art0 = e.art0 /\ f.adds = e.adds
      /\ f.art = [e.art EXCEPT ![t] = a] /\ f \in EntityManager
  BY RouteSet DEF EntityManager
<1> HIDE DEF a, f
<1>4. /\ \A u \in Tenants \ {t} : f.art[u] = e.art[u]
      /\ f.art[t] # None /\ f.art[t].route = route
      /\ f.art[t].status = e.art[t].status /\ f.art[t].rev = e.art[t].rev
  BY <1>1, <1>2, <1>3
<1> QED
  BY <1>3, <1>4 DEF f

\* PackageStatusListener leaves the articles alone.
LEMMA PackagePut ==
    ASSUME NEW e \in EntityManager, e.pkg # None, NEW status \in Statuses
    PROVE  /\ PackageStatus(e, status) \in EntityManager
           /\ PackageStatus(e, status).art = e.art /\ PackageStatus(e, status).art0 = e.art0
           /\ PackageStatus(e, status).adds = e.adds
<1>1. PackageStatus(e, status).adds = e.adds
  BY DEF PackageStatus, EntityManager
<1> QED
  BY <1>1, PackageStatusType

LEMMA PublishedHas ==
    ASSUME NEW e \in EntityManager, NEW t \in Tenants, e.art[t] # None, e.pkg # None,
           NEW f, f = AfterPublish(e, t)
    PROVE  /\ f \in EntityManager /\ f.art0 = e.art0 /\ f.adds = e.adds
           /\ \A u \in Tenants \ {t} : f.art[u] = e.art[u]
           /\ Public(f.art[t])
           /\ f.art[t].route = e.art[t].route /\ f.art[t].rev = e.art[t].rev
<1> DEFINE g == [e EXCEPT !.art[t].status = "published"]
<1>1. "published" \in Statuses
  BY DEF Statuses
<1>2. /\ g \in EntityManager /\ g.pkg = e.pkg
      /\ g.art0 = e.art0 /\ g.adds = e.adds
      /\ \A u \in Tenants \ {t} : g.art[u] = e.art[u]
      /\ g.art[t] # None /\ g.art[t].status = "published"
      /\ g.art[t].route = e.art[t].route /\ g.art[t].rev = e.art[t].rev
  BY <1>1, StatusPut
<1>3. /\ PackageStatus(g, "published") \in EntityManager
      /\ PackageStatus(g, "published").art = g.art
      /\ PackageStatus(g, "published").art0 = g.art0
      /\ PackageStatus(g, "published").adds = g.adds
  <2> HIDE DEF g
  <2> QED
    BY <1>1, <1>2, PackagePut
<1>4. f = IF IsPublished(e, t) THEN e ELSE PackageStatus(g, "published")
  BY DEF AfterPublish
<1> HIDE DEF g
<1> QED
  BY <1>2, <1>3, <1>4 DEF Public, IsPublished

-----------------------------------------------------------------------------
(* The consumer as the only process that writes articles.                  *)

\* No request publishes, unpublishes or patches an article.
NoArticleRequests ==
    PublishRequests = {} /\ UnpublishRequests = {} /\ ArticleRequests = {}

\* The row of t with the changes that e holds in memory.
Seen(e, t) == IF e.art[t] = None THEN art[t] ELSE e.art[t]

\* The articles of e were loaded from the rows as they are.
Synced(e) == \A t \in Tenants : e.art[t] # None => e.art0[t] = art[t]

\* What is new in memory, as place r of the handler, is about to be inserted.
Unsaved(e, r) ==
    \A t \in Tenants : e.art[t] # None /\ art[t] = None =>
        r.pc = "idle" \/ (r.pc = "save" /\ r.cur = t)

Lone ==
    /\ Synced(em[Consumer]) /\ Unsaved(em[Consumer], run[Consumer])
    /\ \A w \in Api : At(w, "idle") /\ em[w] = FreshEm

See(t) == Seen(em[Consumer], t)

\* Work in memory makes f out of e: it creates no article, changes those of T,
\* withdraws none, and publishes the package only with one of them.
Mem(e, f, T) ==
    /\ f \in EntityManager /\ Synced(f) /\ f.pkg0 = e.pkg0
    /\ f.pkg = None <=> e.pkg = None
    /\ e.pkg # None => f.pkg.pub = e.pkg.pub
    /\ \/ f.pkg.status = e.pkg.status
       \/ f.pkg.status = "published" /\ \E t \in Tenants : Public(Seen(f, t))
    /\ \A t \in Tenants : /\ t \notin T => Seen(f, t) = Seen(e, t)
                          /\ Seen(f, t) # None <=> Seen(e, t) # None
                          /\ Public(Seen(e, t)) => Public(Seen(f, t))

\* The consumer works in memory, and may flush what it has done.
Works(T) ==
    LET e == em[Consumer]
        f == em'[Consumer]
    IN /\ f.pkg = None <=> e.pkg = None
       /\ e.pkg # None => f.pkg.pub = e.pkg.pub
       /\ \/ f.pkg.status = e.pkg.status
          \/ f.pkg.status = "published" /\ \E t \in Tenants : Public(See(t)')
       /\ \A t \in Tenants : /\ t \notin T => See(t)' = See(t)
                             /\ See(t) # None => See(t)' # None
                             /\ Public(See(t)) => Public(See(t)')
       /\ \/ UNCHANGED <<pkg, art>> /\ f.pkg0 = e.pkg0
          \/ /\ \A t \in Tenants : art'[t] = See(t)'
             /\ f.pkg0 = f.pkg /\ (pkg # None => pkg' # None)
             /\ e.pkg # None /\ e.pkg0 # None /\ pkg # None =>
                  \/ pkg'.status = f.pkg.status
                  \/ f.pkg.status = e.pkg0.status /\ pkg'.status = pkg.status
       /\ Lone'

\* An article that was loaded as it is becomes what the object is.
LEMMA FlushSeen ==
    ASSUME Inv, NEW f \in EntityManager, NEW left, Flush(f, left), Synced(f)
    PROVE  \A t \in Tenants : art'[t] = Seen(f, t)
<1> SUFFICES ASSUME NEW t \in Tenants PROVE art'[t] = Seen(f, t)
  OBVIOUS
<1> DEFINE new == f.art[t]
           row == art[t]
<1>1. /\ art'[t] = MergedArticle(row, new, f.art0[t])
      /\ new \in Article \cup {None} /\ row \in Article \cup {None}
      /\ new # None => f.art0[t] = row
  BY DEF Flush, Inv, TypeOK, EntityManager, Synced
<1> HIDE DEF new, row
<1>2. CASE new = None
  BY <1>1, <1>2 DEF MergedArticle, Seen, new, row
<1>3. CASE new # None /\ row = None
  BY <1>1, <1>3 DEF MergedArticle, Seen, new, row
<1>4. CASE new # None /\ row # None
  <2>1. art'[t] = [status |-> IF new.status # row.status THEN new.status ELSE row.status,
                   route  |-> IF new.route # row.route THEN new.route ELSE row.route,
                   rev    |-> IF new.rev # row.rev THEN new.rev ELSE row.rev]
    BY <1>1, <1>4 DEF MergedArticle
  <2>2. new \in Article /\ art'[t] = [status |-> new.status, route |-> new.route, rev |-> new.rev]
    BY <1>1, <1>4, <2>1
  <2>3. art'[t] = new
    BY <2>2 DEF Article
  <2> QED
    BY <1>4, <2>3 DEF Seen, new
<1> QED
  BY <1>2, <1>3, <1>4

\* Only the fields of the package that changed are written.
LEMMA FlushStatus ==
    ASSUME Inv, NEW f \in EntityManager, NEW left, Flush(f, left), pkg # None
    PROVE  /\ pkg' # None
           /\ f.pkg = None => pkg' = pkg
           /\ f.pkg # None /\ f.pkg0 # None =>
                pkg'.status = IF f.pkg.status # f.pkg0.status THEN f.pkg.status ELSE pkg.status
<1> DEFINE new == f.pkg
           old == f.pkg0
<1>1. /\ pkg \in Package /\ new \in Package \cup {None} /\ old \in Package \cup {None}
      /\ pkg' = MergedPackage(pkg, new, old)
  BY DEF Flush, Inv, TypeOK, EntityManager
<1> HIDE DEF new, old
<1>2. CASE new = None
  BY <1>1, <1>2 DEF MergedPackage, new, old
<1>3. CASE new # None /\ old = None
  BY <1>1, <1>3 DEF MergedPackage, new, old
<1>4. CASE new # None /\ old # None
  <2>1. pkg' = [status |-> IF new.status # old.status THEN new.status ELSE pkg.status,
                pub    |-> IF new.pub # old.pub THEN new.pub ELSE pkg.pub,
                rev    |-> IF new.rev # old.rev THEN new.rev ELSE pkg.rev]
    BY <1>1, <1>4 DEF MergedPackage
  <2>2. pkg' \in Package
    BY <1>1, <1>4, <2>1 DEF Package
  <2>3. pkg' # None
    BY <2>2, NoneIsNothing
  <2> QED
    BY <1>4, <2>1, <2>3 DEF new, old
<1> QED
  BY <1>2, <1>3, <1>4

\* Work that is only kept in memory ...
LEMMA KeepsWork ==
    ASSUME Inv, Lone, NEW f, NEW T, Mem(em[Consumer], f, T), Keep(Consumer, f),
           run[Consumer].pc \notin {"idle", "save"}, NEW r, Go(Consumer, r), UNCHANGED db
    PROVE  Works(T)
<1>1. /\ em'[Consumer] = f /\ run'[Consumer] = r
      /\ \A w \in Api : em'[w] = em[w] /\ run'[w] = run[w]
  BY OnlyConsumer
<1>2. \A t \in Tenants : See(t)' = Seen(f, t)
  BY <1>1 DEF See, Seen, db
<1>3. Unsaved(f, r)
  BY DEF Lone, Mem, Unsaved, Seen
<1>4. Lone'
  BY <1>1, <1>3 DEF Lone, Mem, Synced, Unsaved, At, db
<1> QED
  BY <1>1, <1>2, <1>4 DEF Works, Mem, See, db

\* ... and work that is flushed.
LEMMA StoresWork ==
    ASSUME Inv, Lone, NEW f, NEW T, Mem(em[Consumer], f, T), NEW left,
           FlushOf(Consumer, f, left), NEW r, Go(Consumer, r)
    PROVE  Works(T) /\ \A t \in Tenants : art'[t] = See(t)'
<1>1. /\ f \in EntityManager /\ Flush(f, left) /\ Keep(Consumer, Clean(f))
      /\ Clean(f).art = f.art /\ Clean(f).art0 = f.art
      /\ Clean(f).pkg = f.pkg /\ Clean(f).pkg0 = f.pkg
  BY CleanHas, CleanLists DEF FlushOf, Mem
<1>2. /\ em'[Consumer] = Clean(f) /\ run'[Consumer] = r
      /\ \A w \in Api : em'[w] = em[w] /\ run'[w] = run[w]
  BY <1>1, OnlyConsumer
<1>3. \A t \in Tenants : art'[t] = Seen(f, t)
  BY <1>1, FlushSeen DEF Mem
<1>4. \A t \in Tenants : See(t)' = Seen(f, t)
  BY <1>1, <1>2, <1>3 DEF See, Seen
<1>5. Lone'
  BY <1>1, <1>2, <1>3 DEF Lone, Synced, Unsaved, At, Seen
<1>6. /\ pkg # None => pkg' # None
      /\ em[Consumer].pkg # None /\ em[Consumer].pkg0 # None /\ pkg # None =>
           \/ pkg'.status = f.pkg.status
           \/ f.pkg.status = em[Consumer].pkg0.status /\ pkg'.status = pkg.status
  BY <1>1, FlushStatus DEF Mem
<1> QED
  BY <1>1, <1>2, <1>3, <1>4, <1>5, <1>6 DEF Works, Mem, See

\* What the listeners of the consumer do is such work.
LEMMA MemSelf ==
    ASSUME NEW e \in EntityManager, Synced(e), NEW T
    PROVE  Mem(e, e, T)
BY DEF Mem

LEMMA MemTwice ==
    ASSUME NEW e, NEW f, NEW g, NEW T, Mem(e, f, T), Mem(f, g, T)
    PROVE  Mem(e, g, T)
BY DEF Mem

LEMMA MemLoad ==
    ASSUME Inv, NEW e \in EntityManager, Synced(e), NEW T, NEW U
    PROVE  Mem(e, WithArticles(e, T), U)
<1> DEFINE f == WithArticles(e, T)
<1>1. f \in EntityManager /\ f.pkg = e.pkg /\ f.pkg0 = e.pkg0
  BY WithArticlesType DEF Inv
<1>2. \A t \in Tenants :
        IF t \in T /\ e.art[t] = None
        THEN f.art[t] = art[t] /\ f.art0[t] = art[t]
        ELSE f.art[t] = e.art[t] /\ f.art0[t] = e.art0[t]
  BY LoadedHas
<1> HIDE DEF f
<1>3. Synced(f) /\ \A t \in Tenants : Seen(f, t) = Seen(e, t)
  BY <1>2 DEF Synced, Seen
<1> QED
  BY <1>1, <1>3 DEF Mem, f

LEMMA MemTouch ==
    ASSUME NEW e \in EntityManager, Synced(e), NEW f \in EntityManager, NEW t \in Tenants,
           e.art[t] # None, f.art[t] # None, \A u \in Tenants \ {t} : f.art[u] = e.art[u],
           f.art0 = e.art0, f.pkg0 = e.pkg0, f.pkg = None <=> e.pkg = None,
           e.pkg # None => f.pkg.pub = e.pkg.pub,
           Public(e.art[t]) => Public(f.art[t]),
           \/ f.pkg.status = e.pkg.status
           \/ f.pkg.status = "published" /\ Public(f.art[t])
    PROVE  Mem(e, f, {t})
<1>1. Synced(f)
  BY DEF Synced
<1>2. \A u \in Tenants : IF u = t THEN Seen(e, u) = e.art[t] /\ Seen(f, u) = f.art[t]
                         ELSE Seen(f, u) = Seen(e, u)
  BY DEF Seen
<1> QED
  BY <1>1, <1>2 DEF Mem

LEMMA MemRoute ==
    ASSUME NEW e \in EntityManager, Synced(e), NEW t \in Tenants, e.art[t] # None,
           NEW route \in Routes \cup {None}
    PROVE  Mem(e, [e EXCEPT !.art[t].route = route], {t})
<1> DEFINE f == [e EXCEPT !.art[t].route = route]
<1>1. /\ f \in EntityManager /\ f.pkg = e.pkg /\ f.pkg0 = e.pkg0 /\ f.art0 = e.art0
      /\ \A u \in Tenants \ {t} : f.art[u] = e.art[u]
      /\ f.art[t] # None /\ f.art[t].status = e.art[t].status
  BY RoutePut
<1> HIDE DEF f
<1>2. Mem(e, f, {t})
  BY <1>1, MemTouch DEF Public
<1> QED
  BY <1>2 DEF f

LEMMA MemRev ==
    ASSUME NEW e \in EntityManager, Synced(e), NEW t \in Tenants, e.art[t] # None,
           NEW rev \in Revs
    PROVE  LET f == [e EXCEPT !.art[t].rev = rev] IN
           /\ Mem(e, f, {t}) /\ f.art[t] # None
           /\ f.art[t].route = e.art[t].route /\ f.art[t].status = e.art[t].status
<1> DEFINE a == [e.art[t] EXCEPT !.rev = rev]
           f == [e EXCEPT !.art[t].rev = rev]
<1>1. e.art[t] \in Article /\ e.art \in [Tenants -> Article \cup {None}]
  BY DEF EntityManager
<1>2. a # None /\ a.status = e.art[t].status /\ a.route = e.art[t].route
  <2>1. a \in Article /\ a.status = e.art[t].status /\ a.route = e.art[t].route
    BY <1>1 DEF Article
  <2> QED
    BY <2>1, NoneIsNothing
<1>3. /\ f \in EntityManager /\ f.pkg = e.pkg /\ f.pkg0 = e.pkg0 /\ f.art0 = e.art0
      /\ f.art = [e.art EXCEPT ![t] = a]
  BY RevSet DEF EntityManager
<1> HIDE DEF a, f
<1>4. f.art[t] = a /\ \A u \in Tenants \ {t} : f.art[u] = e.art[u]
  BY <1>1, <1>3
<1>5. Mem(e, f, {t})
  BY <1>2, <1>3, <1>4, MemTouch DEF Public
<1> QED
  BY <1>2, <1>4, <1>5 DEF f

LEMMA MemPublish ==
    ASSUME NEW e \in EntityManager, Synced(e), NEW t \in Tenants, e.art[t] # None,
           e.pkg # None
    PROVE  Mem(e, AfterPublish(e, t), {t})
<1> DEFINE f == AfterPublish(e, t)
<1>1. /\ f \in EntityManager /\ f.art0 = e.art0
      /\ \A u \in Tenants \ {t} : f.art[u] = e.art[u]
      /\ Public(f.art[t])
  BY PublishedHas
<1>2. /\ f.pkg0 = e.pkg0 /\ f.pkg # None /\ f.pkg.pub = e.pkg.pub
      /\ f.pkg.status \in {e.pkg.status, "published"}
  <2> DEFINE g == [e EXCEPT !.art[t].status = "published"]
  <2>1. "published" \in Statuses
    BY DEF Statuses
  <2>2. g \in EntityManager /\ g.pkg = e.pkg /\ g.pkg0 = e.pkg0
    BY <2>1, StatusPut
  <2>3. f = IF IsPublished(e, t) THEN e ELSE PackageStatus(g, "published")
    BY DEF AfterPublish
  <2> HIDE DEF f, g
  <2>4. /\ PackageStatus(g, "published").pkg0 = g.pkg0
        /\ PackageStatus(g, "published").pkg # None
        /\ PackageStatus(g, "published").pkg.pub = g.pkg.pub
    BY <2>1, <2>2, PackageStatusType DEF SameObjects
  <2>5. PackageStatus(g, "published").pkg.status \in {g.pkg.status, "published"}
    BY <2>2 DEF PackageStatus, EntityManager, Package
  <2> QED
    BY <2>2, <2>3, <2>4, <2>5
<1> HIDE DEF f
<1>3. f.art[t] # None
  BY <1>1 DEF Public
<1>4. Mem(e, f, {t})
  BY <1>1, <1>2, <1>3, MemTouch
<1> QED
  BY <1>4 DEF f

LEMMA MemListed ==
    ASSUME NEW w \in Workers, NEW e \in EntityManager, Synced(e), NEW t \in Tenants, NEW T
    PROVE  Mem(e, Listed(w, e, t), T)
<1>1. /\ Listed(w, e, t) \in EntityManager
      /\ Listed(w, e, t).pkg = e.pkg /\ Listed(w, e, t).pkg0 = e.pkg0
      /\ Listed(w, e, t).art = e.art /\ Listed(w, e, t).art0 = e.art0
  BY ListedType
<1>2. Synced(Listed(w, e, t)) /\ \A u \in Tenants : Seen(Listed(w, e, t), u) = Seen(e, u)
  BY <1>1 DEF Synced, Seen
<1> QED
  BY <1>1, <1>2 DEF Mem

-----------------------------------------------------------------------------
(* The steps of the consumer are such work.                                *)

LEMMA LoneState ==
    ASSUME Inv, Lone
    PROVE  /\ em[Consumer] \in EntityManager /\ Synced(em[Consumer])
           /\ run[Consumer] \in Run /\ ctx[Consumer] \in Context
           /\ Fit(em[Consumer], ctx[Consumer], run[Consumer], pkg)
           /\ Keep(Consumer, em[Consumer]) <=> UNCHANGED em
BY ConsumerWorks, ProcessState DEF Lone, Keep

\* It goes on to another place.
LEMMA StaysWorks ==
    ASSUME Inv, Lone, UNCHANGED <<db, em>>, run[Consumer].pc \notin {"idle", "save"},
           NEW r, Go(Consumer, r)
    PROVE  Works({})
BY LoneState, MemSelf, KeepsWork

LEMMA GoesWorks ==
    ASSUME Inv, Lone,
           \/ Hydrated(Consumer) \/ ProcessRules(Consumer) \/ Populated(Consumer)
           \/ PublishDone(Consumer) \/ ArticleRules(Consumer) \/ RulesDone(Consumer)
    PROVE  Works({})
<1>1. UNCHANGED <<db, em>> /\ run[Consumer].pc \notin {"idle", "save"}
  BY DEF Hydrated, ProcessRules, Populated, PublishDone, ArticleRules, RulesDone, At
<1>2. \E r : Go(Consumer, r)
  <2>1. ProcessRules(Consumer) => \E r : Go(Consumer, r)
    BY DEF ProcessRules
  <2>2. ArticleRules(Consumer) => \E r : Go(Consumer, r)
    BY DEF ArticleRules
  <2>3. RulesDone(Consumer) => \E r : Go(Consumer, r)
    BY DEF RulesDone
  <2> QED
    BY <2>1, <2>2, <2>3 DEF Hydrated, Populated, PublishDone
<1> QED
  BY <1>1, <1>2, StaysWorks

\* It loads the articles of all tenants.
LEMMA LoadsWorks ==
    ASSUME Inv, Lone, OnUpdated(Consumer) \/ OnCanceled(Consumer)
    PROVE  Works({})
<1> DEFINE w == Consumer
           f == WithArticles(em[w], Existing)
<1>1. run[w].pc \notin {"idle", "save"} /\ UNCHANGED db
  BY DEF OnUpdated, OnCanceled, At
<1>2. \/ Keep(w, f) /\ \E r : Go(w, r)
      \/ UNCHANGED em /\ \E r : Go(w, r)
  BY DEF OnUpdated, OnCanceled
<1>3. Mem(em[w], f, {})
  BY LoneState, MemLoad DEF Inv
<1> HIDE DEF f
<1>4. CASE Keep(w, f) /\ \E r : Go(w, r)
  BY <1>1, <1>3, <1>4, KeepsWork
<1>5. CASE UNCHANGED em /\ \E r : Go(w, r)
  BY <1>1, <1>5, StaysWorks
<1> QED
  BY <1>2, <1>4, <1>5

\* It flushes what it has.
LEMMA SavesWorks ==
    ASSUME Inv, Lone, Save(Consumer) \/ Canceled(Consumer) \/ Refresh(Consumer)
    PROVE  Works({}) /\ \A t \in Tenants : art'[t] = See(t)'
<1>1. \E left, r : FlushOf(Consumer, em[Consumer], left) /\ Go(Consumer, r)
  BY DEF Save, Canceled, Refresh
<1>2. PICK left, r : FlushOf(Consumer, em[Consumer], left) /\ Go(Consumer, r)
  BY <1>1
<1>3. Mem(em[Consumer], em[Consumer], {})
  BY LoneState, MemSelf
<1> QED
  BY <1>2, <1>3, StoresWork

\* It corrects an article.
LEMMA HydrateWorks ==
    ASSUME Inv, Lone, Hydrate(Consumer)
    PROVE  \E t \in run[Consumer].arts \cap Tenants :
             /\ run'[Consumer].cur = t
             /\ Works({t}) /\ \A u \in Tenants : art'[u] = See(u)'
             /\ See(t) # None
             /\ See(t)'.route = See(t).route /\ See(t)'.status = See(t).status
<1> DEFINE w == Consumer
<1>1. /\ run[w].pc = "hydrate" /\ em[w] \in EntityManager /\ run[w] \in Run
      /\ Fit(em[w], ctx[w], run[w], pkg) /\ Synced(em[w])
  BY LoneState DEF Hydrate, At
<1>2. PICK t \in run[w].arts :
        /\ FlushOf(w, [em[w] EXCEPT !.art[t].rev = em[w].pkg.rev], items)
        /\ Go(w, [run[w] EXCEPT !.pc = "articleRules", !.arts = @ \ {t}, !.cur = t,
                                !.wanted = FALSE, !.created = FALSE])
  BY DEF Hydrate
<1> DEFINE f == [em[w] EXCEPT !.art[t].rev = em[w].pkg.rev]
           r == [run[w] EXCEPT !.pc = "articleRules", !.arts = @ \ {t}, !.cur = t,
                               !.wanted = FALSE, !.created = FALSE]
<1>3. t \in Tenants /\ em[w].art[t] # None /\ em[w].pkg # None
  BY <1>1 DEF Fit, Run, PackagePlaces, Places
<1>4. em[w].pkg.rev \in Revs
  BY <1>1, <1>3 DEF EntityManager, Package
<1>5. /\ Mem(em[w], f, {t}) /\ f.art[t] # None
      /\ f.art[t].route = em[w].art[t].route /\ f.art[t].status = em[w].art[t].status
  BY <1>1, <1>3, <1>4, MemRev
<1>6. FlushOf(w, f, items) /\ Go(w, r) /\ r.cur = t
  BY <1>1, <1>2 DEF Run
<1> HIDE DEF f, r
<1>7. Works({t}) /\ \A u \in Tenants : art'[u] = See(u)'
  BY <1>5, <1>6, StoresWork
<1>8. run'[w].cur = t
  BY <1>6, OnlyConsumer DEF FlushOf
<1>9. em'[w].art[t] = f.art[t]
  <2>1. Keep(w, Clean(f)) /\ f \in EntityManager
    BY <1>5, <1>6 DEF FlushOf, Mem
  <2> QED
    BY <1>6, <2>1, OnlyConsumer, CleanHas
<1>10. See(t) # None /\ See(t)'.route = See(t).route /\ See(t)'.status = See(t).status
  BY <1>3, <1>5, <1>9 DEF See, Seen
<1> QED
  BY <1>3, <1>7, <1>8, <1>10

\* It creates an article.
LEMMA CreatesWork ==
    ASSUME Inv, Lone, NEW t \in Tenants, art[t] = None, NEW a, a # None,
           NEW f, f = [em[Consumer] EXCEPT !.art0[t] = None, !.art[t] = a],
           run[Consumer].pc \notin {"idle", "save"}, NEW r, r.pc = "save", r.cur = t,
           Keep(Consumer, f), Go(Consumer, r), UNCHANGED db
    PROVE  Works({t}) /\ See(t) = None /\ See(t)' = a
<1> DEFINE e == em[Consumer]
<1>1. /\ f.pkg = e.pkg /\ f.pkg0 = e.pkg0 /\ f.art[t] = a /\ f.art0[t] = None
      /\ \A u \in Tenants \ {t} : f.art[u] = e.art[u] /\ f.art0[u] = e.art0[u]
  BY LoneState DEF EntityManager
<1>2. e.art[t] = None
  BY DEF Lone, Unsaved
<1> HIDE DEF e
<1>3. /\ em'[Consumer] = f /\ run'[Consumer] = r
      /\ \A w \in Api : em'[w] = em[w] /\ run'[w] = run[w]
  BY OnlyConsumer
<1>4. \A u \in Tenants : See(u)' = IF u = t THEN a ELSE See(u)
  BY <1>1, <1>3 DEF See, Seen, db, e
<1>5. See(t) = None
  BY <1>2 DEF See, Seen, e
<1>6. Synced(f) /\ Unsaved(f, r)
  BY <1>1, LoneState DEF Synced, Unsaved, Lone, e
<1>7. Lone'
  BY <1>3, <1>6 DEF Lone, Synced, Unsaved, At, db
<1> QED
  BY <1>1, <1>3, <1>4, <1>5, <1>7 DEF Works, Public, db, e

\* It creates the article of a tenant, unless there is one.
LEMMA PopulateWorks ==
    ASSUME Inv, Lone, Populate(Consumer)
    PROVE  \E T : Works(T)
<1> DEFINE w == Consumer
<1>1. /\ run[w].pc = "populate" /\ UNCHANGED db
      /\ em[w] \in EntityManager /\ run[w] \in Run /\ Fit(em[w], ctx[w], run[w], pkg)
      /\ Synced(em[w])
  BY LoneState DEF Populate, At
<1>2. PICK d \in run[w].dests :
        LET t == d.tenant
            rest == [run[w] EXCEPT !.dests = @ \ {d}]
        IN IF art[t] # None
           THEN /\ Keep(w, WithArticles(em[w], {t}))
                /\ Go(w, rest)
           ELSE /\ Keep(w, [em[w] EXCEPT !.art0[t] = None, !.art[t] =
                      [status |-> "new", route |-> None, rev |-> em[w].pkg.rev]])
                /\ Go(w, [rest EXCEPT !.pc = "save", !.cur = t,
                                      !.created = TRUE, !.wanted = FALSE])
  BY DEF Populate
<1> DEFINE t == d.tenant
           a == [status |-> "new", route |-> None, rev |-> em[w].pkg.rev]
           f == WithArticles(em[w], {t})
           g == [em[w] EXCEPT !.art0[t] = None, !.art[t] = a]
           r == [run[w] EXCEPT !.dests = @ \ {d}]
           q == [r EXCEPT !.pc = "save", !.cur = t, !.created = TRUE, !.wanted = FALSE]
<1>3. t \in Tenants /\ em[w].pkg # None
  BY <1>1 DEF Fit, Run, Destination, PackagePlaces, Places
<1>4. q.pc = "save" /\ q.cur = t
  BY <1>1 DEF Run
<1>5. CASE art[t] # None
  <2>1. Keep(w, f) /\ Go(w, r) /\ Mem(em[w], f, {})
    BY <1>1, <1>2, <1>5, MemLoad
  <2> HIDE DEF f, r
  <2> QED
    BY <1>1, <2>1, KeepsWork
<1>6. CASE art[t] = None
  <2>1. Keep(w, g) /\ Go(w, q)
    BY <1>2, <1>6
  <2>2. a # None
    <3>1. a \in Article
      BY <1>1, <1>3 DEF EntityManager, Package, Article, Statuses
    <3> QED
      BY <3>1, NoneIsNothing
  <2>3. g = [em[w] EXCEPT !.art0[t] = None, !.art[t] = a]
    OBVIOUS
  <2> HIDE DEF q, a, t, g
  <2> QED
    BY <1>1, <1>3, <1>4, <1>6, <2>1, <2>2, <2>3, CreatesWork
<1> QED
  BY <1>5, <1>6

\* It gives the article of a destination the route, and creates it before if it
\* has to; that publishes nothing.
LEMMA PublishWorks ==
    ASSUME Inv, Lone, Publish(Consumer)
    PROVE  \E d \in run[Consumer].dests :
             /\ d.tenant \in Tenants /\ run'[Consumer].cur = d.tenant
             /\ Works({d.tenant})
             /\ See(d.tenant)' # None /\ See(d.tenant)'.route = d.route
             /\ Public(See(d.tenant)') => Public(See(d.tenant))
             /\ run'[Consumer] =
                  [run[Consumer] EXCEPT !.pc = "save", !.cur = d.tenant, !.dests = @ \ {d},
                                        !.wanted = d.published, !.created = art[d.tenant] = None]
             /\ ctx'[Consumer] = TenantSet(d.tenant)
<1> DEFINE w == Consumer
<1>1. /\ run[w].pc = "publish" /\ UNCHANGED db
      /\ em[w] \in EntityManager /\ run[w] \in Run /\ Fit(em[w], ctx[w], run[w], pkg)
      /\ Synced(em[w])
  BY LoneState DEF Publish, At
<1>2. PICK d \in run[w].dests :
        LET t == d.tenant
            found == art[t] # None
            e == IF found THEN WithArticles(em[w], {t}) ELSE em[w]
        IN /\ SetCtx(w, TenantSet(t))
           /\ Keep(w, IF found THEN [e EXCEPT !.art[t].route = d.route]
                      ELSE [e EXCEPT !.art0[t] = None, !.art[t] =
                              [status |-> "new", route |-> d.route, rev |-> e.pkg.rev]])
           /\ Go(w, [run[w] EXCEPT !.pc = "save", !.cur = t, !.dests = @ \ {d},
                                   !.wanted = d.published, !.created = ~found])
  BY DEF Publish
<1> DEFINE t == d.tenant
           a == [status |-> "new", route |-> d.route, rev |-> em[w].pkg.rev]
           e == WithArticles(em[w], {t})
           f == [e EXCEPT !.art[t].route = d.route]
           g == [em[w] EXCEPT !.art0[t] = None, !.art[t] = a]
           r == [run[w] EXCEPT !.pc = "save", !.cur = t, !.dests = @ \ {d},
                               !.wanted = d.published, !.created = art[t] = None]
<1>3. t \in Tenants /\ d.route \in Routes \cup {None} /\ em[w].pkg # None
  BY <1>1 DEF Fit, Run, Destination, PackagePlaces, Places
<1>4. r.pc = "save" /\ r.cur = t /\ Go(w, r)
  BY <1>1, <1>2 DEF Run
<1>5. ctx'[w] = TenantSet(t)
  BY <1>2, ConsumerWorks DEF SetCtx, Inv, TypeOK
<1>6. CASE art[t] # None
  <2>1. Keep(w, f)
    BY <1>2, <1>6
  <2> HIDE DEF t
  <2>2. /\ Mem(em[w], e, {t}) /\ e.art[t] # None /\ e \in EntityManager /\ Synced(e)
        /\ e.art[t] = See(t)
    <3>1. Mem(em[w], e, {t})
      BY <1>1, MemLoad
    <3>2. e.art[t] = IF em[w].art[t] = None THEN art[t] ELSE em[w].art[t]
      BY <1>1, <1>3, LoadedHas
    <3> HIDE DEF e
    <3> QED
      BY <1>6, <3>1, <3>2 DEF Mem, See, Seen
  <2>3. f = [e EXCEPT !.art[t].route = d.route]
    OBVIOUS
  <2> HIDE DEF e, f
  <2>4. Mem(e, f, {t})
    BY <1>3, <2>2, <2>3, MemRoute
  <2>5. /\ f.art[t] # None /\ f.art[t].route = d.route
         /\ f.art[t].status = e.art[t].status
    BY <1>3, <2>2, <2>3, RoutePut
  <2>6. Mem(em[w], f, {t})
    BY <2>2, <2>4, MemTwice
  <2> HIDE DEF r
  <2>7. Works({t}) /\ em'[w] = f /\ run'[w] = r
    BY <1>1, <1>4, <2>1, <2>6, KeepsWork, OnlyConsumer
  <2>8. See(t)' = f.art[t]
    BY <2>5, <2>7 DEF See, Seen
  <2>9. See(t)' # None /\ See(t)'.route = d.route /\ (Public(See(t)') => Public(See(t)))
    BY <2>2, <2>5, <2>8 DEF Public
  <2> QED
    BY <1>3, <1>4, <1>5, <2>7, <2>9 DEF r, t
<1>7. CASE art[t] = None
  <2>1. Keep(w, g) /\ a # None
    <3>1. a \in Article
      BY <1>1, <1>3 DEF EntityManager, Package, Article, Statuses
    <3> QED
      BY <1>2, <1>7, <3>1, NoneIsNothing
  <2>2. g = [em[w] EXCEPT !.art0[t] = None, !.art[t] = a] /\ a.route = d.route /\ a.status = "new"
    OBVIOUS
  <2> HIDE DEF r, g, a
  <2>3. Works({t}) /\ See(t)' = a
    BY <1>1, <1>3, <1>4, <1>7, <2>1, <2>2, CreatesWork
  <2>4. run'[w] = r
    BY <1>4, <2>1, OnlyConsumer
  <2>5. See(t)' # None /\ See(t)'.route = d.route /\ ~Public(See(t)')
    BY <2>1, <2>2, <2>3 DEF Public
  <2> QED
    BY <1>3, <1>4, <1>5, <2>3, <2>4, <2>5 DEF r
<1> QED
  BY <1>6, <1>7

\* A rule routes the article at hand, or publishes it.
LEMMA RuleWorks ==
    ASSUME Inv, Lone, Rule(Consumer)
    PROVE  Works({run[Consumer].cur})
<1> DEFINE w == Consumer
           t == run[w].cur
           rule == Head(run[w].rules)
           applies == em[w].art[t].rev \in rule.when
           routed == IF applies /\ rule.route # None
                       THEN [em[w] EXCEPT !.art[t].route = rule.route] ELSE em[w]
           e == AfterPublish(routed, t)
           r == [run[w] EXCEPT !.rules = Tail(@)]
<1>1. /\ run[w].pc = "rule" /\ run[w].pc \in LatePlaces /\ run[w].rules # <<>>
      /\ em[w] \in EntityManager /\ Synced(em[w])
  BY LoneState DEF Rule, At, LatePlaces
<1>2. t \in Tenants /\ em[w].art[t] # None /\ em[w].pkg # None
  BY <1>1, LateState, ConsumerWorks
<1>3. rule \in TenantRule
  BY <1>1, HeadRule, ConsumerWorks
<1>4. Mem(em[w], routed, {t}) /\ routed.art[t] # None /\ routed.pkg # None
  <2>1. rule.route \in Routes \cup {None}
    BY <1>3 DEF TenantRule
  <2>2. routed = IF applies /\ rule.route # None
                   THEN [em[w] EXCEPT !.art[t].route = rule.route] ELSE em[w]
    OBVIOUS
  <2> HIDE DEF t, rule, applies, routed
  <2>3. CASE applies /\ rule.route # None
    <3>1. routed = [em[w] EXCEPT !.art[t].route = rule.route]
      BY <2>2, <2>3
    <3>2. routed.art[t] # None /\ routed.pkg = em[w].pkg
      BY <1>1, <1>2, <2>1, <3>1, RoutePut
    <3> QED
      BY <1>1, <1>2, <2>1, <3>1, <3>2, MemRoute
  <2>4. CASE ~(applies /\ rule.route # None)
    BY <1>1, <1>2, <2>2, <2>4, MemSelf
  <2> QED
    BY <2>3, <2>4
<1>5. Mem(em[w], e, {t}) /\ Mem(em[w], Listed(w, e, t), {t})
  <2>1. routed \in EntityManager /\ Synced(routed)
    BY <1>4 DEF Mem
  <2> HIDE DEF routed, t
  <2>2. Mem(routed, e, {t})
    BY <1>2, <1>4, <2>1, MemPublish
  <2>3. e \in EntityManager /\ Synced(e)
    BY <2>2 DEF Mem
  <2> HIDE DEF e
  <2>4. Mem(e, Listed(w, e, t), {t})
    BY <1>2, <2>3, MemListed, ConsumerWorks
  <2>5. Mem(em[w], e, {t})
    BY <1>4, <2>2, MemTwice
  <2> QED
    BY <2>4, <2>5, MemTwice
<1>6. \/ Keep(w, routed) /\ UNCHANGED db
      \/ FlushOf(w, e, Unlisted(w, t))
      \/ Keep(w, Listed(w, e, t)) /\ UNCHANGED db
  BY DEF Rule
<1>7. Go(w, r)
  BY DEF Rule
<1> HIDE DEF routed, e, r, t
<1>8. Works({t})
  BY <1>1, <1>4, <1>5, <1>6, <1>7, KeepsWork, StoresWork
<1> QED
  BY <1>8 DEF t

\* The article at hand is published, if it is to be.
LEMMA DispatchWorks ==
    ASSUME Inv, Lone, Dispatch(Consumer)
    PROVE  \E t \in Tenants :
             /\ run[Consumer].cur = t /\ run'[Consumer].cur = t
             /\ Works({t}) /\ \A u \in Tenants : art'[u] = See(u)'
             /\ See(t) # None /\ See(t)'.route = See(t).route
             /\ IF run[Consumer].wanted THEN Public(See(t)') ELSE See(t)' = See(t)
<1> DEFINE w == Consumer
<1>1. /\ run[w].pc \in LatePlaces
      /\ em[w] \in EntityManager /\ Synced(em[w])
  BY LoneState DEF Dispatch, At, LatePlaces
<1>2. PICK t \in Tenants : t = run[w].cur /\ em[w].art[t] # None /\ em[w].pkg # None
  BY <1>1, LateState, ConsumerWorks
<1> DEFINE e == AfterPublish(em[w], t)
           f == Listed(w, e, t)
           r == [run[w] EXCEPT !.pc = run[w].from]
<1>3. Go(w, r) /\ r.cur = t
  BY <1>2, LoneState DEF Dispatch, Run
<1>4. See(t) = em[w].art[t]
  BY <1>2 DEF See, Seen
<1>5. /\ run[w].wanted => \E left : FlushOf(w, f, left)
      /\ ~run[w].wanted => FlushOf(w, em[w], items)
  BY <1>2 DEF Dispatch
<1>6. Mem(em[w], f, {t}) /\ Public(f.art[t]) /\ f.art[t].route = em[w].art[t].route
  <2>1. Mem(em[w], e, {t})
    BY <1>1, <1>2, MemPublish
  <2>2. Public(e.art[t]) /\ e.art[t].route = em[w].art[t].route
    BY <1>1, <1>2, PublishedHas
  <2>3. e \in EntityManager /\ Synced(e)
    BY <2>1 DEF Mem
  <2> HIDE DEF e
  <2>4. Mem(e, f, {t}) /\ f.art = e.art
    BY <1>2, <2>3, MemListed, ListedType, ConsumerWorks
  <2> HIDE DEF f
  <2> QED
    BY <2>1, <2>2, <2>4, MemTwice
<1> HIDE DEF e, f, r
<1>7. run'[w].cur = t
  BY <1>3, <1>5, OnlyConsumer DEF FlushOf
<1>8. CASE run[w].wanted
  <2>1. PICK left : FlushOf(w, f, left)
    BY <1>5, <1>8
  <2>2. Works({t}) /\ \A u \in Tenants : art'[u] = See(u)'
    BY <1>3, <1>6, <2>1, StoresWork
  <2>3. em'[w].art[t] = f.art[t]
    <3>1. Keep(w, Clean(f)) /\ f \in EntityManager
      BY <1>6, <2>1 DEF FlushOf, Mem
    <3> QED
      BY <1>3, <3>1, OnlyConsumer, CleanHas
  <2>4. See(t)' = f.art[t]
    BY <1>6, <2>3 DEF See, Seen, Public
  <2> QED
    BY <1>2, <1>4, <1>6, <1>8, <1>7, <2>2, <2>4
<1>9. CASE ~run[w].wanted
  <2>1. Mem(em[w], em[w], {}) /\ FlushOf(w, em[w], items)
    BY <1>1, <1>5, <1>9, MemSelf
  <2>2. Works({}) /\ \A u \in Tenants : art'[u] = See(u)'
    BY <1>3, <2>1, StoresWork
  <2>3. Works({t}) /\ See(t)' = See(t)
    BY <1>2, <2>2 DEF Works
  <2> QED
    BY <1>2, <1>4, <1>9, <1>7, <2>2, <2>3
<1> QED
  BY <1>8, <1>9

\* A message is received: the package is stored, with whatever is left of a
\* message that was rejected.
LEMMA ReceiveLone ==
    ASSUME Inv, Tracked, Lone, Receive
    PROVE  LET e == em[Consumer]
               f == em'[Consumer]
           IN /\ Lone' /\ queue # <<>>
              /\ \A t \in Tenants : art'[t] = See(t)' /\ See(t)' = See(t)
              /\ pkg' # None /\ f.pkg # None /\ f.pkg0 = f.pkg /\ f.pkg.pub = Head(queue).pub
              /\ run'[Consumer] = [Resting EXCEPT !.pc = IF pkg = None THEN "processRules"
                                                                       ELSE "onUpdated"]
              /\ pkg = None => f.pkg.status = "new" /\ pkg'.status = "new"
              /\ pkg # None /\ e.pkg = None =>
                   f.pkg.status = pkg.status /\ pkg'.status = pkg.status
              /\ e.pkg # None =>
                   /\ pkg # None /\ f.pkg.status = e.pkg.status
                   /\ pkg'.status = IF e.pkg.status # e.pkg0.status THEN e.pkg.status
                                                                    ELSE pkg.status
<1> DEFINE w == Consumer
           m == Head(queue)
           e == WithPackage(em[w])
           new == e.pkg = None
           row == [status |-> IF new THEN "new" ELSE e.pkg.status, pub |-> m.pub,
                   rev |-> m.rev]
           f == [e EXCEPT !.pkg = row]
           r == [Resting EXCEPT !.pc = IF new THEN "processRules" ELSE "onUpdated"]
<1>1. /\ em[w] \in EntityManager /\ e \in EntityManager
      /\ e.art = em[w].art /\ e.art0 = em[w].art0
      /\ FlushOf(w, f, items) /\ Go(w, r) /\ queue # <<>> /\ pkg \in Package \cup {None}
      /\ Fit(em[w], ctx[w], run[w], pkg) /\ Synced(em[w])
  BY LoneState, WithPackageType DEF Inv, TypeOK, Receive
<1>2. /\ e.pkg = IF em[w].pkg = None THEN pkg ELSE em[w].pkg
      /\ e.pkg0 = IF em[w].pkg = None THEN pkg ELSE em[w].pkg0
      /\ new <=> pkg = None
      /\ em[w].pkg # None => pkg # None /\ em[w].pkg0 # None
  BY <1>1, ConsumerWorks DEF WithPackage, EntityManager, Fit, Tracked, Managed
<1>3. row \in Package
  <2>1. queue \in Seq(Message)
    BY DEF Inv, TypeOK
  <2>2. m \in Message
    BY <1>1, <2>1, HeadTailProperties
  <2> QED
    BY <1>1, <2>2 DEF EntityManager, Message, Package, Statuses
<1>4. /\ row # None /\ row.pub = m.pub
      /\ row.status = IF pkg = None THEN "new" ELSE e.pkg.status
  BY <1>2, <1>3, NoneIsNothing
<1>5. /\ f \in EntityManager /\ f.pkg = row /\ f.pkg0 = e.pkg0
      /\ f.art = em[w].art /\ f.art0 = em[w].art0
  <2> HIDE DEF row, e
  <2> QED
    BY <1>1, <1>3 DEF EntityManager
<1>6. r = [Resting EXCEPT !.pc = IF pkg = None THEN "processRules" ELSE "onUpdated"]
  BY <1>2
<1> HIDE DEF f, r, e, row, m
<1>7. /\ Keep(w, Clean(f)) /\ Flush(f, items)
      /\ Clean(f).art = f.art /\ Clean(f).art0 = f.art
      /\ Clean(f).pkg = f.pkg /\ Clean(f).pkg0 = f.pkg
  BY <1>1, <1>5, CleanHas, CleanLists DEF FlushOf
<1>8. /\ em'[w] = Clean(f) /\ run'[w] = r
      /\ \A v \in Api : em'[v] = em[v] /\ run'[v] = run[v]
  BY <1>1, <1>7, OnlyConsumer
<1>9. Synced(f) /\ \A t \in Tenants : Seen(f, t) = See(t)
  BY <1>1, <1>5 DEF Synced, See, Seen
<1>10. \A t \in Tenants : art'[t] = Seen(f, t)
  BY <1>5, <1>7, <1>9, FlushSeen
<1>11. \A t \in Tenants : art'[t] = See(t)' /\ See(t)' = See(t)
  BY <1>7, <1>8, <1>9, <1>10 DEF See, Seen
<1>12. Lone'
  BY <1>7, <1>8, <1>10 DEF Lone, Synced, Unsaved, At, Seen
<1>13. /\ pkg' # None
       /\ pkg = None => pkg' = row
       /\ pkg # None => pkg'.status = IF row.status # e.pkg0.status THEN row.status ELSE pkg.status
  <2>1. CASE pkg = None
    <3>1. pkg' = MergedPackage(pkg, f.pkg, f.pkg0)
      BY <1>7 DEF Flush
    <3> QED
      BY <1>4, <1>5, <2>1, <3>1 DEF MergedPackage
  <2>2. CASE pkg # None
    BY <1>2, <1>4, <1>5, <1>7, <2>2, FlushStatus
  <2> QED
    BY <2>1, <2>2
<1> QED
  BY <1>1, <1>2, <1>4, <1>5, <1>6, <1>7, <1>8, <1>11, <1>12, <1>13 DEF m

\* An article is canceled, and the package marked in memory.
LEMMA CancelLone ==
    ASSUME Inv, Tracked, Lone, Cancel(Consumer)
    PROVE  /\ Lone' /\ \A t \in Tenants : art'[t] = See(t)'
           /\ \A t \in Tenants : /\ See(t) # None => See(t)' # None
                                 /\ Public(See(t)') => Public(See(t))
           /\ \E t \in Tenants : art'[t] # None
           /\ pkg # None /\ pkg' # None /\ em[Consumer].pkg # None
           /\ pkg'.status = IF em[Consumer].pkg.status # em[Consumer].pkg0.status
                            THEN em[Consumer].pkg.status ELSE pkg.status
           /\ em'[Consumer].pkg # None /\ em'[Consumer].pkg0 = em[Consumer].pkg
           /\ em'[Consumer].pkg.status = "canceled"
           /\ em'[Consumer].pkg.pub = em[Consumer].pkg.pub
           /\ em[Consumer].pkg.pub = "canceled"
           /\ At(Consumer, "cancel") /\ At(Consumer, "cancel")' /\ UNCHANGED queue
<1> DEFINE w == Consumer
<1>1. PICK t \in Tenants, f \in EntityManager, r \in Run : CancelStep(t, f, r)
  BY CancelHas
<1> DEFINE g == PackageCanceled(Clean(f))
<1>2. /\ run[w].pc = "cancel" /\ r.pc = "cancel" /\ UNCHANGED queue
      /\ Keep(w, g) /\ Go(w, r)
      /\ f.pkg = em[w].pkg /\ f.pkg0 = em[w].pkg0 /\ f.art0 = em[w].art0
      /\ em[w].art[t] # None /\ f.art[t] # None /\ f.art[t].status = "canceled"
      /\ \A u \in Tenants \ {t} : f.art[u] = em[w].art[u]
      /\ g.art = f.art /\ g.art0 = f.art /\ g.pkg # None /\ g.pkg0 = f.pkg
      /\ g.pkg.pub = f.pkg.pub
  BY <1>1 DEF CancelStep
<1>3. PICK left : Flush(f, left)
  BY <1>1 DEF CancelStep
<1>4. /\ em[w] \in EntityManager /\ Synced(em[w]) /\ em[w].pkg # None /\ pkg # None
      /\ em[w].pkg.pub = "canceled" /\ em[w].pkg0 # None
  BY <1>2, LoneState, ConsumerWorks DEF Fit, PackagePlaces, Places, Tracked, Managed, At
<1>5. g.pkg.status = "canceled"
  <2>1. Clean(f).pkg = f.pkg /\ Clean(f) \in EntityManager
    BY CleanHas
  <2> QED
    BY <1>2, <1>4, <2>1 DEF PackageCanceled, EntityManager, Package
<1> HIDE DEF g
<1>6. /\ em'[w] = g /\ run'[w] = r
      /\ \A v \in Api : em'[v] = em[v] /\ run'[v] = run[v]
  BY <1>2, OnlyConsumer
<1>7. Synced(f) /\ \A u \in Tenants : /\ See(u) # None => Seen(f, u) # None
                                      /\ Public(Seen(f, u)) => Public(See(u))
  BY <1>2, <1>4 DEF Synced, See, Seen, Public
<1>8. \A u \in Tenants : art'[u] = Seen(f, u)
  BY <1>3, <1>7, FlushSeen
<1>9. \A u \in Tenants : See(u)' = Seen(f, u)
  BY <1>2, <1>6, <1>8 DEF See, Seen
<1>10. Lone'
  BY <1>2, <1>6, <1>8 DEF Lone, Synced, Unsaved, At, Seen
<1>11. /\ pkg' # None
       /\ pkg'.status = IF em[w].pkg.status # em[w].pkg0.status THEN em[w].pkg.status ELSE pkg.status
  BY <1>2, <1>3, <1>4, FlushStatus
<1>12. art'[t] # None
  BY <1>2, <1>8 DEF Seen
<1> QED
  BY <1>2, <1>4, <1>5, <1>6, <1>7, <1>8, <1>9, <1>10, <1>11, <1>12 DEF At

\* The consumer is done with a message, or starts anew.
Forgetting == Processed(Consumer) \/ Crash(Consumer) \/ NonUniqueResult(Consumer)

LEMMA ForgetLone ==
    ASSUME Inv, Lone, Forgetting
    PROVE  /\ Lone' /\ em'[Consumer] = FreshEm /\ run'[Consumer] = Resting
           /\ UNCHANGED <<pkg, art, dest>> /\ \A t \in Tenants : See(t)' = art[t]
           /\ \/ UNCHANGED queue
              \/ queue' = Tail(queue) /\ run[Consumer].pc = "processed"
<1>1. /\ Keep(Consumer, FreshEm) /\ Go(Consumer, Resting) /\ UNCHANGED <<pkg, art, dest>>
      /\ \/ UNCHANGED queue
         \/ queue' = Tail(queue) /\ run[Consumer].pc = "processed"
  BY DEF Forgetting, Processed, Crash, NonUniqueResult, Restart, At, db
<1>2. /\ em'[Consumer] = FreshEm /\ run'[Consumer] = Resting
      /\ \A w \in Api : em'[w] = em[w] /\ run'[w] = run[w]
  BY <1>1, OnlyConsumer
<1>3. \A t \in Tenants : FreshEm.art[t] = None
  BY DEF FreshEm, NoArticles
<1>4. \A t \in Tenants : See(t)' = art[t]
  BY <1>1, <1>2, <1>3 DEF See, Seen
<1>5. Lone'
  BY <1>1, <1>2, <1>3 DEF Lone, Synced, Unsaved, At
<1> QED
  BY <1>1, <1>2, <1>4, <1>5

\* The steps in which it works.
Working ==
    \/ OnUpdated(Consumer) \/ Hydrate(Consumer) \/ Hydrated(Consumer)
    \/ OnCanceled(Consumer) \/ Canceled(Consumer)
    \/ ProcessRules(Consumer) \/ Populate(Consumer) \/ Populated(Consumer)
    \/ Publish(Consumer) \/ PublishDone(Consumer) \/ Save(Consumer)
    \/ ArticleRules(Consumer) \/ Rule(Consumer) \/ RulesDone(Consumer)
    \/ Refresh(Consumer) \/ Dispatch(Consumer)

LEMMA WorkingWorks ==
    ASSUME Inv, Lone, Working
    PROVE  \E T : Works(T)
BY GoesWorks, LoadsWorks, SavesWorks, HydrateWorks, PopulateWorks, PublishWorks, RuleWorks,
   DispatchWorks
DEF Working

LEMMA WorkingGoes ==
    ASSUME Working
    PROVE  UNCHANGED <<dest, queue>> /\ run[Consumer].pc \notin {"idle", "patch"}
<1>1. ArticleRules(Consumer) \/ Rule(Consumer) \/ RulesDone(Consumer)
        => UNCHANGED <<dest, queue>> /\ run[Consumer].pc \notin {"idle", "patch"}
  BY DEF ArticleRules, Rule, RulesDone, At
<1>2. Publish(Consumer) \/ PublishDone(Consumer) \/ Save(Consumer)
        => UNCHANGED <<dest, queue>> /\ run[Consumer].pc \notin {"idle", "patch"}
  BY DEF Publish, PublishDone, Save, At
<1>3. Refresh(Consumer) \/ Dispatch(Consumer)
        => UNCHANGED <<dest, queue>> /\ run[Consumer].pc \notin {"idle", "patch"}
  BY DEF Refresh, Dispatch, At
<1>4. ProcessRules(Consumer) \/ Populate(Consumer) \/ Populated(Consumer)
        => UNCHANGED <<dest, queue>> /\ run[Consumer].pc \notin {"idle", "patch"}
  BY DEF ProcessRules, Populate, Populated, At
<1>5. OnUpdated(Consumer) \/ Hydrate(Consumer) \/ Hydrated(Consumer)
        => UNCHANGED <<dest, queue>> /\ run[Consumer].pc \notin {"idle", "patch"}
  BY DEF OnUpdated, Hydrate, Hydrated, At
<1>6. OnCanceled(Consumer) \/ Canceled(Consumer)
        => UNCHANGED <<dest, queue>> /\ run[Consumer].pc \notin {"idle", "patch"}
  BY DEF OnCanceled, Canceled, At
<1> QED
  BY <1>1, <1>2, <1>3, <1>4, <1>5, <1>6 DEF Working

\* No insert of the consumer meets a row, and requests that write no article rest.
LEMMA LoneSteps ==
    ASSUME NoArticleRequests
    PROVE  Inv /\ Lone /\ [Next]_vars =>
             \/ Push \/ Receive \/ Working \/ Cancel(Consumer) \/ Forgetting \/ Reject
             \/ \E w \in Api : PatchPackage(w) \/ CreateDestination(w)
             \/ UNCHANGED vars
<1> SUFFICES ASSUME Inv, Lone, [Next]_vars
             PROVE  \/ Push \/ Receive \/ Working \/ Cancel(Consumer) \/ Forgetting \/ Reject
                    \/ \E w \in Api : PatchPackage(w) \/ CreateDestination(w)
                    \/ UNCHANGED vars
  OBVIOUS
<1>1. ~UniqueViolation(Consumer)
  BY DEF Lone, Synced, UniqueViolation, Conflict
<1>2. Consume => Receive \/ Working \/ Cancel(Consumer) \/ Forgetting
  BY <1>1 DEF Consume, Handle, Working, Forgetting
<1>3. ASSUME NEW w \in Api
      PROVE  ~Respond(w) /\ ~Crash(w)
  <2>1. run[w].pc = "idle" /\ em[w] = FreshEm
    BY DEF Lone, At
  <2>2. ~UniqueViolation(w)
    BY <2>1 DEF UniqueViolation, Conflict, FreshEm, NoArticles
  <2>3. ~Handle(w)
    BY <2>1, <2>2 DEF Handle, Publish, PublishDone, Save, ArticleRules, Rule, RulesDone,
       Refresh, Dispatch, NonUniqueResult, At
  <2> QED
    BY <2>1, <2>3 DEF Respond, UnpublishLoad, Unpublish, Unpublished, ReactOnStatusChange,
       Crash, At
<1>4. ASSUME NEW w \in Api, Request(w)
      PROVE  PatchPackage(w) \/ CreateDestination(w)
  BY <1>4 DEF Request, PublishPackage, UnpublishPackage, PatchArticle, NoArticleRequests
<1>5. (\E w \in Workers : Crash(w)) => Forgetting
  BY <1>3 DEF Workers, Forgetting
<1> QED
  BY <1>2, <1>3, <1>4, <1>5 DEF Next

LEMMA NextLone ==
    ASSUME NoArticleRequests
    PROVE  Inv /\ Tracked /\ Lone /\ [Next]_vars => Lone'
<1> SUFFICES ASSUME Inv, Tracked, Lone, [Next]_vars PROVE Lone'
  OBVIOUS
<1>1. CASE \/ Push \/ \E w \in Api : PatchPackage(w) \/ CreateDestination(w)
           \/ UNCHANGED vars
  <2>1. UNCHANGED <<art, em, run>>
    BY <1>1 DEF Push, PatchPackage, CreateDestination, vars, db
  <2> QED
    BY <2>1 DEF Lone, Synced, Unsaved, At
<1>2. CASE Reject
  <2>1. UNCHANGED <<art, em>> /\ Go(Consumer, Resting)
    BY <1>2 DEF Reject, db
  <2>2. run'[Consumer] = Resting /\ \A w \in Api : run'[w] = run[w]
    BY <2>1, LoneState, OnlyConsumer
  <2> QED
    BY <2>1, <2>2 DEF Lone, Synced, Unsaved, At, Resting
<1>3. CASE Working
  BY <1>3, WorkingWorks DEF Works
<1> QED
  BY <1>1, <1>2, <1>3, LoneSteps, ReceiveLone, CancelLone, ForgetLone

-----------------------------------------------------------------------------
(* A package that counts as published has a public article.                *)

\* A kill is in the queue and has yet to mark the package.
Ahead(i) ==
    /\ queue[i].pub = "canceled"
    /\ i = 1 => \/ run[Consumer].pc \in {"idle", "onUpdated", "onCanceled"}
                \/ /\ run[Consumer].pc = "cancel"
                   /\ run[Consumer].arts # {} \/ em[Consumer].pkg.status = "canceled"
KillAhead == Existing # {} /\ \E i \in DOMAIN queue : Ahead(i)

\* Rows and objects of packages that count as published; in memory the consumer
\* withdraws nothing.
ShownPackage ==
    /\ ~At(Consumer, "idle") => em[Consumer].pkg.pub = Head(queue).pub
    /\ em[Consumer].pkg # None => pkg.status \in {em[Consumer].pkg0.status, "canceled"}
    /\ \A t \in Tenants : Public(art[t]) => Public(See(t))
    /\ pkg # None /\ pkg.status = "published" =>
         KillAhead \/ \E t \in Tenants : Public(art[t])
    /\ em[Consumer].pkg # None /\ em[Consumer].pkg.status = "published" =>
         KillAhead \/ \E t \in Tenants : Public(See(t))

\* Where the consumer is when it looks at a kill.
LEMMA WorkingAt ==
    ASSUME Working
    PROVE  /\ run[Consumer].pc = "onUpdated" => OnUpdated(Consumer)
           /\ run[Consumer].pc = "onCanceled" => OnCanceled(Consumer)
           /\ run[Consumer].pc = "cancel" => Canceled(Consumer)
<1>1. ArticleRules(Consumer) \/ Rule(Consumer) \/ RulesDone(Consumer) \/ Refresh(Consumer)
        => run[Consumer].pc \notin {"onUpdated", "onCanceled", "cancel"}
  BY DEF ArticleRules, Rule, RulesDone, Refresh, At
<1>2. Publish(Consumer) \/ PublishDone(Consumer) \/ Save(Consumer) \/ Dispatch(Consumer)
        => run[Consumer].pc \notin {"onUpdated", "onCanceled", "cancel"}
  BY DEF Publish, PublishDone, Save, Dispatch, At
<1>3. ProcessRules(Consumer) \/ Populate(Consumer) \/ Populated(Consumer)
        => run[Consumer].pc \notin {"onUpdated", "onCanceled", "cancel"}
  BY DEF ProcessRules, Populate, Populated, At
<1>4. Hydrate(Consumer) \/ Hydrated(Consumer)
        => run[Consumer].pc \notin {"onUpdated", "onCanceled", "cancel"}
  BY DEF Hydrate, Hydrated, At
<1>5. /\ OnUpdated(Consumer) => run[Consumer].pc = "onUpdated"
      /\ OnCanceled(Consumer) => run[Consumer].pc = "onCanceled"
      /\ Canceled(Consumer) => run[Consumer].pc = "cancel"
  BY DEF OnUpdated, OnCanceled, Canceled, At
<1> QED
  BY <1>1, <1>2, <1>3, <1>4, <1>5 DEF Working

LEMMA HeadOf ==
    ASSUME Inv, queue # <<>>
    PROVE  1 \in DOMAIN queue /\ Head(queue) = queue[1]
<1>1. queue \in Seq(Message)
  BY DEF Inv, TypeOK
<1> QED
  BY <1>1

\* A kill that is ahead stays so, until the package is marked.
LEMMA AheadWorks ==
    ASSUME Inv, Lone, ShownPackage, KillAhead, Working
    PROVE  KillAhead' \/ (pkg'.status = "canceled" /\ em'[Consumer].pkg.status = "canceled")
<1> DEFINE w == Consumer
<1>1. PICK T : Works(T)
  BY WorkingWorks
<1>2. UNCHANGED <<dest, queue>> /\ run[w].pc \notin {"idle", "patch"}
  BY WorkingGoes
<1>3. PICK t \in Tenants : art[t] # None
  BY DEF KillAhead, Existing
<1>4. See(t) # None
  BY <1>3 DEF See, Seen
<1>5. Existing' # {}
  <2>1. art'[t] # None
    BY <1>1, <1>3, <1>4 DEF Works
  <2> QED
    BY <2>1 DEF Existing
<1>6. PICK i \in DOMAIN queue : Ahead(i)
  BY DEF KillAhead
<1>7. CASE i # 1
  <2>1. Ahead(i)'
    BY <1>2, <1>6, <1>7 DEF Ahead
  <2> QED
    BY <1>2, <1>5, <2>1 DEF KillAhead
<1>8. CASE i = 1
  <2>1. /\ queue # <<>> /\ Head(queue) = queue[1] /\ queue[1].pub = "canceled"
        /\ em[w].pkg.pub = "canceled" /\ em[w].pkg # None /\ pkg # None
        /\ em[w] \in EntityManager /\ run[w] \in Run
    <3>1. queue # <<>> /\ queue[1].pub = "canceled"
      BY <1>2, <1>6, <1>8 DEF Inv, Sound, At, Ahead
    <3>2. em[w].pkg # None /\ pkg # None
      BY <1>2, LoneState DEF Fit, PackagePlaces, Run
    <3> QED
      BY <1>2, <3>1, <3>2, HeadOf, LoneState DEF ShownPackage, At
  <2>2. Ahead(1)' => KillAhead'
    BY <1>2, <1>5, <1>6, <1>8 DEF KillAhead
  <2>3. CASE run[w].pc = "onUpdated"
    <3>1. OnUpdated(w)
      BY <2>3, WorkingAt
    <3>2. Go(w, [run[w] EXCEPT !.pc = "onCanceled"]) /\ UNCHANGED em
      BY <2>1, <3>1 DEF OnUpdated
    <3>3. run'[w].pc = "onCanceled"
      BY <2>1, <3>2, ConsumerWorks DEF Go, Inv, TypeOK, Run
    <3> QED
      BY <1>2, <2>1, <2>2, <3>3 DEF Ahead
  <2>4. CASE run[w].pc = "onCanceled"
    <3>1. OnCanceled(w)
      BY <2>4, WorkingAt
    <3>2. Go(w, [run[w] EXCEPT !.pc = "cancel", !.arts = Existing])
      BY <2>1, <3>1 DEF OnCanceled, Killed
    <3>3. run'[w].pc = "cancel" /\ run'[w].arts = Existing
      BY <2>1, <3>2, ConsumerWorks DEF Go, Inv, TypeOK, Run
    <3>4. Existing # {}
      BY <1>3 DEF Existing
    <3> QED
      BY <1>2, <2>1, <2>2, <3>3, <3>4 DEF Ahead
  <2>5. CASE run[w].pc = "cancel"
    <3>1. Canceled(w)
      BY <2>5, WorkingAt
    <3>2. /\ em[w].pkg.status = "canceled" /\ FlushOf(w, em[w], items)
          /\ pkg.status \in {em[w].pkg0.status, "canceled"} /\ \E r : Go(w, r)
      BY <1>6, <1>8, <2>1, <2>5, <3>1 DEF Canceled, Ahead, ShownPackage
    <3>3. Flush(em[w], items) /\ Keep(w, Clean(em[w]))
      BY <3>2 DEF FlushOf
    <3>4. em'[w].pkg.status = "canceled"
      BY <2>1, <3>2, <3>3, OnlyConsumer, CleanHas
    <3>5. pkg'.status = "canceled"
      <4>1. CASE em[w].pkg0 # None
        BY <2>1, <3>2, <3>3, <4>1, FlushStatus
      <4>2. CASE em[w].pkg0 = None
        BY <2>1, <3>2, <3>3, <4>2 DEF Flush, MergedPackage
      <4> QED
        BY <4>1, <4>2
    <3> QED
      BY <3>4, <3>5
  <2> QED
    BY <1>2, <1>6, <1>8, <2>3, <2>4, <2>5 DEF Ahead
<1> QED
  BY <1>7, <1>8

LEMMA WorkingShows ==
    ASSUME Inv, Tracked, Lone, ShownPackage, Working
    PROVE  ShownPackage'
<1> DEFINE e == em[Consumer]
           f == em'[Consumer]
<1>1. PICK T : Works(T)
  BY WorkingWorks
<1>2. UNCHANGED <<dest, queue>> /\ run[Consumer].pc \notin {"idle", "patch"}
  BY WorkingGoes
<1>3. e.pkg # None /\ pkg # None /\ e.pkg0 # None
  BY <1>2, LoneState, ConsumerWorks DEF Fit, PackagePlaces, Run, Tracked, Managed
<1>4. KillAhead => KillAhead' \/ (pkg'.status = "canceled" /\ f.pkg.status = "canceled")
  BY AheadWorks
<1>5. /\ f.pkg # None /\ f.pkg.pub = e.pkg.pub
      /\ \/ f.pkg.status = e.pkg.status
         \/ f.pkg.status = "published" /\ \E t \in Tenants : Public(See(t)')
      /\ \A t \in Tenants : Public(See(t)) => Public(See(t)')
      /\ \/ UNCHANGED <<pkg, art>> /\ f.pkg0 = e.pkg0
         \/ /\ \A t \in Tenants : art'[t] = See(t)'
            /\ f.pkg0 = f.pkg
            /\ \/ pkg'.status = f.pkg.status
               \/ f.pkg.status = e.pkg0.status /\ pkg'.status = pkg.status
  BY <1>1, <1>3 DEF Works
<1> HIDE DEF e, f
<1>6. f.pkg.status = "published" => KillAhead' \/ \E t \in Tenants : Public(See(t)')
  BY <1>3, <1>4, <1>5 DEF ShownPackage, e
<1>7. pkg'.status = "published" => KillAhead' \/ \E t \in Tenants : Public(art'[t])
  <2>1. CASE UNCHANGED <<pkg, art>>
    BY <1>3, <1>4, <2>1 DEF ShownPackage
  <2>2. CASE \A t \in Tenants : art'[t] = See(t)'
    BY <1>3, <1>4, <1>5, <1>6, <2>2 DEF ShownPackage
  <2> QED
    BY <1>5, <2>1, <2>2
<1>8. \A t \in Tenants : Public(art'[t]) => Public(See(t)')
  BY <1>5 DEF ShownPackage
<1>9. pkg'.status \in {f.pkg0.status, "canceled"}
  BY <1>3, <1>5 DEF ShownPackage, e
<1>10. f.pkg.pub = Head(queue').pub
  BY <1>2, <1>5 DEF ShownPackage, At, e
<1> QED
  BY <1>6, <1>7, <1>8, <1>9, <1>10 DEF ShownPackage, f

LEMMA ReceiveShows ==
    ASSUME Inv, Tracked, Lone, ShownPackage, Receive
    PROVE  ShownPackage'
<1> DEFINE e == em[Consumer]
           f == em'[Consumer]
<1>1. /\ queue # <<>> /\ UNCHANGED queue /\ run[Consumer].pc = "idle"
      /\ \A t \in Tenants : art'[t] = See(t)' /\ See(t)' = See(t)
      /\ pkg' # None /\ f.pkg # None /\ f.pkg0 = f.pkg /\ f.pkg.pub = Head(queue).pub
      /\ run'[Consumer].pc = IF pkg = None THEN "processRules" ELSE "onUpdated"
      /\ pkg = None => f.pkg.status = "new" /\ pkg'.status = "new"
      /\ pkg # None /\ e.pkg = None => f.pkg.status = pkg.status /\ pkg'.status = pkg.status
      /\ e.pkg # None =>
           /\ pkg # None /\ f.pkg.status = e.pkg.status
           /\ pkg'.status = IF e.pkg.status # e.pkg0.status THEN e.pkg.status ELSE pkg.status
  <2>1. Resting.pc = "idle" /\ \A p : [Resting EXCEPT !.pc = p].pc = p
    BY DEF Resting
  <2> QED
    BY <2>1, ReceiveLone DEF Receive, At
<1>2. pkg # None /\ KillAhead => KillAhead'
  <2> SUFFICES ASSUME pkg # None, KillAhead PROVE KillAhead'
    OBVIOUS
  <2>1. PICK t \in Tenants, i \in DOMAIN queue : art[t] # None /\ Ahead(i)
    BY DEF KillAhead, Existing
  <2>2. art'[t] # None
    BY <1>1, <2>1 DEF See, Seen
  <2>3. Ahead(i)'
    BY <1>1, <2>1 DEF Ahead
  <2> QED
    BY <1>1, <2>1, <2>2, <2>3 DEF KillAhead, Existing
<1> HIDE DEF e, f
<1>3. f.pkg.status = "published" => KillAhead' \/ \E t \in Tenants : Public(See(t)')
  BY <1>1, <1>2 DEF ShownPackage, e
<1>4. pkg'.status = "published" => KillAhead' \/ \E t \in Tenants : Public(art'[t])
  BY <1>1, <1>2, <1>3 DEF ShownPackage
<1>5. pkg'.status \in {f.pkg0.status, "canceled"}
  BY <1>1 DEF ShownPackage, e
<1> QED
  BY <1>1, <1>3, <1>4, <1>5 DEF ShownPackage, f

LEMMA CancelShows ==
    ASSUME Inv, Tracked, Lone, ShownPackage, Cancel(Consumer)
    PROVE  ShownPackage'
<1> DEFINE e == em[Consumer]
           f == em'[Consumer]
<1>1. /\ \A t \in Tenants : art'[t] = See(t)'
      /\ \E t \in Tenants : art'[t] # None
      /\ pkg # None /\ pkg' # None /\ e.pkg # None
      /\ pkg'.status = IF e.pkg.status # e.pkg0.status THEN e.pkg.status ELSE pkg.status
      /\ f.pkg # None /\ f.pkg0 = e.pkg /\ f.pkg.status = "canceled"
      /\ f.pkg.pub = e.pkg.pub /\ e.pkg.pub = "canceled"
      /\ run[Consumer].pc = "cancel" /\ run'[Consumer].pc = "cancel" /\ UNCHANGED queue
  BY CancelLone DEF At
<1>2. e.pkg.pub = Head(queue).pub /\ queue # <<>>
  BY <1>1 DEF ShownPackage, Inv, Sound, At
<1>3. KillAhead'
  <2>1. 1 \in DOMAIN queue /\ Head(queue) = queue[1]
    BY <1>2, HeadOf
  <2>2. Ahead(1)'
    BY <1>1, <1>2, <2>1 DEF Ahead
  <2> QED
    BY <1>1, <2>1, <2>2 DEF KillAhead, Existing
<1>4. pkg'.status \in {f.pkg0.status, "canceled"}
  BY <1>1 DEF ShownPackage
<1> HIDE DEF e, f
<1> QED
  BY <1>1, <1>2, <1>3, <1>4 DEF ShownPackage, At, f

\* A kill that is queued behind the first message, or while the consumer rests, is
\* ahead.
LEMMA AheadShows ==
    ASSUME ShownPackage, UNCHANGED art,
           \A t \in Tenants : Public(art[t]) => Public(See(t)'),
           pkg' # None /\ pkg'.status = "published" => pkg # None /\ pkg.status = "published",
           em'[Consumer].pkg # None =>
             /\ em'[Consumer] = em[Consumer]
             /\ pkg'.status \in {em[Consumer].pkg0.status, "canceled"},
           ~At(Consumer, "idle")' =>
             /\ ~At(Consumer, "idle") /\ Head(queue') = Head(queue)
             /\ em'[Consumer] = em[Consumer],
           \A i \in DOMAIN queue : Ahead(i) => \E j \in DOMAIN queue' : Ahead(j)'
    PROVE  ShownPackage'
<1>1. KillAhead => KillAhead'
  BY DEF KillAhead, Existing
<1>2. em'[Consumer].pkg # None => \A t \in Tenants : See(t)' = See(t)
  BY DEF See, Seen
<1>3. pkg' # None /\ pkg'.status = "published" => KillAhead' \/ \E t \in Tenants : Public(art'[t])
  BY <1>1 DEF ShownPackage
<1>4. em'[Consumer].pkg # None /\ em'[Consumer].pkg.status = "published" =>
        KillAhead' \/ \E t \in Tenants : Public(See(t)')
  BY <1>1, <1>2 DEF ShownPackage
<1> QED
  BY <1>3, <1>4 DEF ShownPackage, At

\* Where messages are after the first was put back into the queue.
LEMMA RequeuedAt ==
    ASSUME NEW q \in Seq(Message), NEW p \in Requeued(q)
    PROVE  /\ Len(q) \in Nat /\ DOMAIN q = 1 .. Len(q) /\ DOMAIN p = 1 .. Len(q)
           /\ \E k \in 1 .. Len(q) :
                \A j \in 1 .. Len(q) : p[j] = IF j <= k - 1 THEN q[j + 1]
                                             ELSE IF j = k THEN q[1] ELSE q[j]
<1>1. PICK k \in 1 .. Len(q) :
        p = SubSeq(q, 2, k) \o <<Head(q)>> \o SubSeq(q, k + 1, Len(q))
  BY DEF Requeued
<1>2. /\ Len(q) \in Nat /\ q \in [1 .. Len(q) -> Message] /\ q # <<>>
      /\ DOMAIN q = 1 .. Len(q) /\ Head(q) = q[1] /\ Head(q) \in Message
  BY <1>1
<1> DEFINE a == SubSeq(q, 2, k)
           b == <<Head(q)>>
           c == SubSeq(q, k + 1, Len(q))
<1>3. k \in Int /\ k + 1 \in Int /\ k >= 1 /\ k <= Len(q) /\ Len(q) \in Int /\ 2 \in Int
  BY <1>1, <1>2
<1>4. a \in Seq(Message) /\ Len(a) = k - 1 /\ \A j \in 1 .. k - 1 : a[j] = q[j + 1]
  <2>1. \A j \in 2 .. k : q[j] \in Message
    BY <1>2, <1>3
  <2>2. /\ a \in Seq(Message) /\ Len(a) = IF 2 <= k THEN k - 2 + 1 ELSE 0
        /\ \A j \in 1 .. k - 2 + 1 : a[j] = q[2 + j - 1]
    BY <1>3, <2>1, SubSeqProperties
  <2> HIDE DEF a
  <2> QED
    BY <1>3, <2>2
<1>5. /\ c \in Seq(Message) /\ Len(c) = Len(q) - k
      /\ \A j \in 1 .. Len(q) - k : c[j] = q[k + j]
  <2>1. \A j \in (k + 1) .. Len(q) : q[j] \in Message
    BY <1>2, <1>3
  <2>2. /\ c \in Seq(Message) /\ Len(c) = IF k + 1 <= Len(q) THEN Len(q) - (k + 1) + 1 ELSE 0
        /\ \A j \in 1 .. Len(q) - (k + 1) + 1 : c[j] = q[(k + 1) + j - 1]
    BY <1>3, <2>1, SubSeqProperties
  <2> HIDE DEF c
  <2> QED
    BY <1>3, <2>2
<1>6. b \in Seq(Message) /\ Len(b) = 1 /\ b[1] = q[1]
  BY <1>2
<1> DEFINE d == a \o b
<1> HIDE DEF a, b, c
<1>7. /\ d \in Seq(Message) /\ Len(d) = k
      /\ \A j \in 1 .. k : d[j] = IF j <= k - 1 THEN a[j] ELSE b[j - (k - 1)]
  <2>1. /\ d \in Seq(Message) /\ Len(d) = Len(a) + Len(b)
        /\ \A j \in 1 .. Len(a) + Len(b) :
             d[j] = IF j <= Len(a) THEN a[j] ELSE b[j - Len(a)]
    BY <1>4, <1>6, ConcatProperties
  <2> HIDE DEF d
  <2>2. Len(a) = k - 1 /\ Len(a) + Len(b) = k
    BY <1>3, <1>4, <1>6
  <2> QED
    BY <2>1, <2>2
<1>8. /\ p \in Seq(Message) /\ Len(p) = Len(q)
      /\ \A j \in 1 .. Len(q) : p[j] = IF j <= k THEN d[j] ELSE c[j - k]
  <2>1. p = d \o c
    BY <1>1 DEF a, b, c
  <2> HIDE DEF d
  <2>2. /\ d \o c \in Seq(Message) /\ Len(d \o c) = Len(d) + Len(c)
        /\ \A j \in 1 .. Len(d) + Len(c) :
             (d \o c)[j] = IF j <= Len(d) THEN d[j] ELSE c[j - Len(d)]
    BY <1>5, <1>7, ConcatProperties
  <2>3. Len(d) = k /\ Len(d) + Len(c) = Len(q)
    BY <1>3, <1>5, <1>7
  <2> QED
    BY <2>1, <2>2, <2>3
<1> HIDE DEF d
<1>9. DOMAIN p = 1 .. Len(q)
  BY <1>8
<1>10. ASSUME NEW j \in 1 .. Len(q)
       PROVE  p[j] = IF j <= k - 1 THEN q[j + 1] ELSE IF j = k THEN q[1] ELSE q[j]
  <2>1. CASE j <= k - 1
    <3>1. j \in 1 .. k - 1 /\ j \in 1 .. k /\ j <= k
      BY <1>3, <2>1
    <3> QED
      BY <1>4, <1>7, <1>8, <2>1, <3>1
  <2>2. CASE j = k
    <3>1. ~(j <= k - 1) /\ j \in 1 .. k /\ j <= k /\ j - (k - 1) = 1
      BY <1>3, <2>2
    <3> QED
      BY <1>6, <1>7, <1>8, <2>2, <3>1
  <2>3. CASE j > k
    <3>1. j - k \in 1 .. Len(q) - k /\ k + (j - k) = j /\ ~(j <= k) /\ ~(j <= k - 1) /\ j # k
      BY <1>2, <1>3, <2>3
    <3> QED
      BY <1>5, <1>8, <3>1
  <2> QED
    BY <1>2, <1>3, <2>1, <2>2, <2>3
<1> QED
  BY <1>2, <1>9, <1>10

\* No message is lost when one is put back into the queue, and none comes up.
LEMMA RequeuedHas ==
    ASSUME NEW q \in Seq(Message), NEW p \in Requeued(q), NEW i \in DOMAIN q
    PROVE  \E j \in DOMAIN p : p[j] = q[i]
<1>1. /\ Len(q) \in Nat /\ DOMAIN q = 1 .. Len(q) /\ DOMAIN p = 1 .. Len(q)
      /\ i \in 1 .. Len(q)
  BY RequeuedAt
<1>2. PICK k \in 1 .. Len(q) :
        \A j \in 1 .. Len(q) : p[j] = IF j <= k - 1 THEN q[j + 1]
                                     ELSE IF j = k THEN q[1] ELSE q[j]
  BY RequeuedAt
<1>3. CASE i = 1
  <2>1. ~(k <= k - 1)
    BY <1>1
  <2> QED
    BY <1>1, <1>2, <1>3, <2>1
<1>4. CASE i # 1 /\ i <= k
  <2>1. i - 1 \in 1 .. Len(q) /\ i - 1 <= k - 1 /\ (i - 1) + 1 = i
    BY <1>1, <1>4
  <2> QED
    BY <1>1, <1>2, <2>1
<1>5. CASE i > k
  <2>1. ~(i <= k - 1) /\ i # k
    BY <1>1, <1>5
  <2> QED
    BY <1>1, <1>2, <2>1
<1> QED
  BY <1>1, <1>3, <1>4, <1>5

LEMMA RequeuedFrom ==
    ASSUME NEW q \in Seq(Message), NEW p \in Requeued(q), NEW j \in DOMAIN p
    PROVE  \E i \in DOMAIN q : p[j] = q[i]
<1>1. /\ Len(q) \in Nat /\ DOMAIN q = 1 .. Len(q) /\ DOMAIN p = 1 .. Len(q)
      /\ j \in 1 .. Len(q)
  BY RequeuedAt
<1>2. PICK k \in 1 .. Len(q) :
        p[j] = IF j <= k - 1 THEN q[j + 1] ELSE IF j = k THEN q[1] ELSE q[j]
  BY <1>1, RequeuedAt
<1>3. CASE j <= k - 1
  <2>1. j + 1 \in 1 .. Len(q)
    BY <1>1, <1>3
  <2> QED
    BY <1>1, <1>2, <1>3, <2>1
<1>4. CASE j > k - 1
  <2>1. 1 \in 1 .. Len(q)
    BY <1>1
  <2>2. ~(j <= k - 1)
    BY <1>1, <1>4
  <2> QED
    BY <1>1, <1>2, <2>1, <2>2
<1> QED
  BY <1>1, <1>3, <1>4

LEMMA QueueShows ==
    ASSUME Inv, Tracked, Lone, ShownPackage, Push \/ Reject
    PROVE  ShownPackage'
<1>1. UNCHANGED <<pkg, art, em>> /\ queue \in Seq(Message)
  BY DEF Push, Reject, db, Inv, TypeOK
<1>2. \A t \in Tenants : See(t)' = See(t)
  BY <1>1 DEF See, Seen
<1>3. CASE Push
  <2>1. PICK m : queue' = Append(queue, m)
    BY <1>3 DEF Push
  <2>2. UNCHANGED run
    BY <1>3 DEF Push
  <2>3. /\ \A i \in DOMAIN queue : i \in DOMAIN queue' /\ queue'[i] = queue[i]
        /\ queue # <<>> => Head(queue') = Head(queue)
    BY <1>1, <2>1
  <2>4. \A i \in DOMAIN queue : Ahead(i) => Ahead(i)'
    BY <1>1, <2>2, <2>3 DEF Ahead
  <2>5. ~At(Consumer, "idle") => queue # <<>>
    BY DEF Inv, Sound
  <2>6. ~At(Consumer, "idle")' => ~At(Consumer, "idle") /\ Head(queue') = Head(queue)
    BY <2>2, <2>3, <2>5 DEF At
  <2> QED
    BY <1>1, <1>2, <2>3, <2>4, <2>6, AheadShows DEF ShownPackage
<1>4. CASE Reject
  <2>1. queue' \in Requeued(queue) /\ Go(Consumer, Resting)
    BY <1>4 DEF Reject
  <2>2. run'[Consumer].pc = "idle"
    BY <1>1, <2>1, LoneState, OnlyConsumer DEF Resting
  <2>3. \A i \in DOMAIN queue : Ahead(i) => \E j \in DOMAIN queue' : Ahead(j)'
    BY <1>1, <2>1, <2>2, RequeuedHas DEF Ahead
  <2> QED
    BY <1>1, <1>2, <2>2, <2>3, AheadShows DEF ShownPackage, At
<1> QED
  BY <1>3, <1>4

LEMMA ForgetShows ==
    ASSUME Inv, Tracked, Lone, ShownPackage, Forgetting
    PROVE  ShownPackage'
<1>1. /\ em'[Consumer].pkg = None /\ run'[Consumer].pc = "idle"
      /\ UNCHANGED <<pkg, art>> /\ \A t \in Tenants : See(t)' = art[t]
      /\ \/ UNCHANGED queue
         \/ queue' = Tail(queue) /\ run[Consumer].pc = "processed"
  BY ForgetLone DEF FreshEm, Resting
<1>2. \A i \in DOMAIN queue : Ahead(i) => \E j \in DOMAIN queue' : Ahead(j)'
  <2>1. CASE UNCHANGED queue
    BY <1>1, <2>1 DEF Ahead
  <2>2. CASE queue' = Tail(queue) /\ run[Consumer].pc = "processed"
    <3> SUFFICES ASSUME NEW i \in DOMAIN queue, Ahead(i)
                 PROVE  \E j \in DOMAIN queue' : Ahead(j)'
      OBVIOUS
    <3>1. i # 1 /\ queue[i].pub = "canceled"
      BY <2>2 DEF Ahead
    <3>2. queue \in Seq(Message) /\ queue # <<>>
      BY <2>2 DEF Inv, TypeOK, Sound, At
    <3>3. i - 1 \in DOMAIN queue' /\ queue'[i - 1] = queue[i]
      BY <2>2, <3>1, <3>2
    <3> QED
      BY <1>1, <3>1, <3>3 DEF Ahead
  <2> QED
    BY <1>1, <2>1, <2>2
<1> QED
  BY <1>1, <1>2, AheadShows DEF At

LEMMA RequestShows ==
    ASSUME Inv, Tracked, Lone, ShownPackage,
           \/ \E w \in Api : PatchPackage(w) \/ CreateDestination(w)
           \/ UNCHANGED vars
    PROVE  ShownPackage'
<1>1. UNCHANGED <<art, queue, em, run>>
  BY DEF PatchPackage, CreateDestination, vars, db
<1>2. \A i \in DOMAIN queue : Ahead(i) => Ahead(i)'
  BY <1>1 DEF Ahead
<1>3. \A t \in Tenants : See(t)' = See(t)
  BY <1>1 DEF See, Seen
<1>4. em[Consumer].pkg # None => pkg # None
  BY LoneState DEF Fit
<1>5. /\ pkg' # None /\ pkg'.status = "published" => pkg # None /\ pkg.status = "published"
      /\ pkg # None => pkg'.status \in {pkg.status, "canceled"}
  <2>1. CASE \E w \in Api : PatchPackage(w)
    <3>1. pkg \in Package /\ \E p, s : /\ pkg' = [pkg EXCEPT !.pub = p, !.status = s]
                                       /\ s \in {pkg.status, "canceled"}
      BY <2>1 DEF PatchPackage, Inv, TypeOK
    <3> QED
      BY <3>1, NoneIsNothing DEF Package
  <2>2. CASE UNCHANGED pkg
    BY <2>2
  <2> QED
    BY <2>1, <2>2 DEF CreateDestination, vars, db
<1> QED
  BY <1>1, <1>2, <1>3, <1>4, <1>5, AheadShows DEF ShownPackage, At

LEMMA NextShown ==
    ASSUME NoArticleRequests
    PROVE  Inv /\ Tracked /\ Lone /\ ShownPackage /\ [Next]_vars => Lone' /\ ShownPackage'
BY NextLone, LoneSteps, WorkingShows, ReceiveShows, CancelShows, QueueShows, ForgetShows,
   RequestShows

LEMMA InitLone == Init => Lone /\ ShownPackage
<1> SUFFICES ASSUME Init PROVE Lone /\ ShownPackage
  OBVIOUS
<1>1. /\ em[Consumer] = FreshEm /\ run[Consumer] = Resting /\ pkg = None
      /\ \A w \in Api : em[w] = FreshEm /\ run[w] = Resting
      /\ \A t \in Tenants : art[t] = None
  BY ConsumerWorks DEF Init, Workers, NoArticles
<1>2. FreshEm.pkg = None /\ Resting.pc = "idle" /\ \A t \in Tenants : FreshEm.art[t] = None
  BY DEF FreshEm, Resting, NoArticles
<1> QED
  BY <1>1, <1>2 DEF Lone, Synced, Unsaved, At, ShownPackage, See, Seen, Public

LEMMA ShownQuiet == ShownPackage => PackageShowsArticles
<1> SUFFICES ASSUME ShownPackage, Quiet, pkg # None, pkg.status = "published"
             PROVE  \E t \in Existing : art[t].status = "published"
  BY DEF PackageShowsArticles
<1>1. DOMAIN queue = {}
  BY DEF Quiet
<1>2. PICK t \in Tenants : Public(art[t])
  BY <1>1 DEF ShownPackage, KillAhead
<1> QED
  BY <1>2 DEF Public, Existing

\* Where the consumer alone writes articles, a package counts as published only if
\* one of its articles is, once all is done: over corrections, kills and
\* redeliveries, crashes between any two flushes, messages that are rejected with
\* half of their work kept in memory, and editors who patch the package meanwhile.
THEOREM ShowsArticles ==
    ASSUME NoArticleRequests
    PROVE  Spec => []PackageShowsArticles
<1>1. Init => Lone /\ ShownPackage
  BY InitLone
<1>2. Inv /\ Tracked /\ Lone /\ ShownPackage /\ [Next]_vars => Lone' /\ ShownPackage'
  BY NextShown
<1>3. Spec => [](Lone /\ ShownPackage)
  BY <1>1, <1>2, TrackedHolds, PTL DEF Spec
<1> QED
  BY <1>3, ShownQuiet, PTL

-----------------------------------------------------------------------------
(* A destination decides.                                                  *)

\* The destinations are those set up before the first push.
DestinationsStand == DestinationRequests = {}

\* A destination that keeps its article back is safe from the rules of other
\* tenants: those that receive pushes have destinations of their own.
Drafts == \E t \in Tenants : InitialDest[t] # None /\ ~InitialDest[t].published
DraftsGuarded == Drafts => \A t \in PushTenants : InitialDest[t] # None

Placed(t) == dest[t] # None

\* Where an article is at hand, and where that is the article of a destination or
\* one is left to do.
Late == {"save", "articleRules", "rule", "refresh", "dispatch"}
Placing(r) == r.from = "publish" /\ r.pc \in Late \cup {"publish"}

\* The article of t is as its destination wants it.
Settled(t) ==
    /\ art[t] # None
    /\ art[t].route = dest[t].route
    /\ dest[t].published <=> Public(art[t])

\* A correction creates nothing. Where articles are kept back it stays in the
\* context of a tenant that has a destination, so that no rules are run.
Correcting ==
    LET r == run[Consumer]
    IN /\ r.pc = "hydrate" => r.from = "hydrate"
       /\ r.pc \in Late /\ r.from = "hydrate" =>
            r.pc \in {"articleRules", "rule", "refresh"} /\ ~r.created
       /\ Drafts /\ (r.pc \in {"onUpdated", "hydrate"} \/ (r.pc \in Late /\ r.from = "hydrate")) =>
            Placed(ctx[Consumer].tenant) /\ r.pc # "rule"

\* The article at hand is the tenant's of the context, and on its way to what the
\* destination wants.
AtHand ==
    LET r == run[Consumer]
    IN r.pc \in Late /\ r.from = "publish" =>
         /\ ctx[Consumer].tenant = r.cur
         /\ Placed(r.cur) => /\ r.pc # "rule"
                             /\ See(r.cur) # None /\ See(r.cur).route = dest[r.cur].route
                             /\ r.wanted = dest[r.cur].published

\* The destinations that are left are those of the table; the others are settled.
Progress ==
    LET r == run[Consumer]
    IN /\ r.pc = "publish" => r.from = "publish"
       /\ Placing(r) =>
            /\ \A d \in r.dests : Placed(d.tenant) =>
                 d.route = dest[d.tenant].route /\ d.published = dest[d.tenant].published
            /\ \A t \in Tenants : Placed(t) =>
                 \/ \E d \in r.dests : d.tenant = t
                 \/ r.pc \in Late /\ r.cur = t
                 \/ Settled(t)
       /\ \/ r.pc = "processed"
          \/ r.pc = "idle" /\ queue = <<>> /\ pkg # None
          => \A t \in Tenants : Placed(t) => Settled(t)

\* No article that is to be kept back is public, and none changes in memory but the
\* one at hand.
Kept ==
    /\ \A t \in Tenants : Placed(t) /\ ~dest[t].published => ~Public(art[t]) /\ ~Public(See(t))
    /\ \A t \in Tenants : ~At(Consumer, "idle") /\ See(t) # art[t] =>
         run[Consumer].pc \in Late /\ run[Consumer].cur = t

DestInv ==
    /\ dest = InitialDest
    /\ Drafts => \A i \in DOMAIN queue : Placed(queue[i].tenant)
    /\ run[Consumer].pc # "populate"
    /\ run[Consumer].pc \in Late => run[Consumer].from # "populate"
    /\ Correcting /\ AtHand /\ Progress /\ Kept

\* What a step of the consumer leaves in its context and at its place.
LEMMA ConsumerAt ==
    ASSUME Inv, NEW r, Go(Consumer, r)
    PROVE  run'[Consumer] = r
BY ConsumerWorks DEF Go, Inv, TypeOK

LEMMA ConsumerCtx ==
    ASSUME Inv, NEW c, SetCtx(Consumer, c)
    PROVE  ctx'[Consumer] = c
BY ConsumerWorks DEF SetCtx, Inv, TypeOK

LEMMA FilterOnly ==
    ASSUME NEW c \in Context
    PROVE  Enabled(c).tenant = c.tenant /\ Disabled(c).tenant = c.tenant
BY DEF Enabled, Disabled, Context

\* The article at hand, and for whom it is made.
LEMMA LateFrom ==
    ASSUME Inv, Lone, DestInv, run[Consumer].pc \in Late
    PROVE  /\ run[Consumer].from \in {"hydrate", "publish"}
           /\ run[Consumer].cur \in Tenants
<1>1. run[Consumer] \in Run /\ Fit(em[Consumer], ctx[Consumer], run[Consumer], pkg)
  BY LoneState
<1>2. run[Consumer].pc \in LoopPlaces /\ run[Consumer].pc \in ArticlePlaces
  BY DEF Late, LoopPlaces, ArticlePlaces
<1> QED
  BY <1>1, <1>2 DEF DestInv, Fit, Run

\* Articles that the step does not work on are kept as they are.
LEMMA KeptWorks ==
    ASSUME Inv, Lone, Kept, UNCHANGED dest, ~At(Consumer, "idle"), NEW T, Works(T),
           \A t \in T \cap Tenants : Placed(t) /\ ~dest[t].published => ~Public(See(t)'),
           \/ \A t \in Tenants : art'[t] = See(t)'
           \/ /\ run[Consumer].pc \in Late =>
                   run'[Consumer].pc \in Late /\ run'[Consumer].cur = run[Consumer].cur
              /\ \A t \in T \cap Tenants : run'[Consumer].pc \in Late /\ run'[Consumer].cur = t
    PROVE  Kept'
<1>1. \A t \in Tenants : t \notin T => See(t)' = See(t)
  BY DEF Works
<1>2. UNCHANGED art \/ \A t \in Tenants : art'[t] = See(t)'
  BY DEF Works
<1>3. ASSUME NEW t \in Tenants, Placed(t), ~dest[t].published
      PROVE  ~Public(art'[t]) /\ ~Public(See(t)')
  <2>1. ~Public(See(t)')
    BY <1>1, <1>3 DEF Kept
  <2> QED
    BY <1>2, <1>3, <2>1 DEF Kept
<1>4. ASSUME NEW t \in Tenants, See(t)' # art'[t]
      PROVE  run'[Consumer].pc \in Late /\ run'[Consumer].cur = t
  <2>1. UNCHANGED art /\ ~\A u \in Tenants : art'[u] = See(u)'
    BY <1>2, <1>4
  <2>2. CASE t \in T
    BY <2>1, <2>2
  <2>3. CASE t \notin T
    BY <1>1, <1>4, <2>1, <2>3 DEF Kept
  <2> QED
    BY <2>2, <2>3
<1> QED
  BY <1>3, <1>4 DEF Kept, Placed

\* An article that is neither worked on nor at hand stays settled.
LEMMA RestsSettled ==
    ASSUME Inv, Lone, Kept, UNCHANGED dest, ~At(Consumer, "idle"), NEW T, Works(T),
           NEW t \in Tenants, t \notin T, ~(run[Consumer].pc \in Late /\ run[Consumer].cur = t)
    PROVE  art'[t] = art[t] /\ (Settled(t) => Settled(t)')
<1>1. See(t)' = See(t) /\ See(t) = art[t]
  BY DEF Works, Kept
<1>2. UNCHANGED art \/ art'[t] = See(t)'
  BY DEF Works
<1>3. art'[t] = art[t]
  BY <1>1, <1>2
<1> QED
  BY <1>3 DEF Settled

\* Before the destinations are looked at there is little to keep.
LEMMA EarlyDest ==
    ASSUME DestInv, UNCHANGED dest, Kept',
           Drafts => \A i \in DOMAIN queue' : dest[queue'[i].tenant] # None,
           run'[Consumer].pc \in {"onUpdated", "hydrate", "onCanceled", "cancel", "processRules"},
           run'[Consumer].pc = "hydrate" => run'[Consumer].from = "hydrate",
           Drafts /\ run'[Consumer].pc \in {"onUpdated", "hydrate"} =>
             dest[ctx'[Consumer].tenant] # None
    PROVE  DestInv'
<1>1. run'[Consumer].pc \notin Late \cup {"publish", "processed", "idle", "populate", "rule"}
  BY DEF Late
<1>2. (dest = InitialDest)' /\ (Drafts => \A i \in DOMAIN queue : Placed(queue[i].tenant))'
  BY DEF DestInv, Placed, Drafts
<1>3. Correcting'
  BY <1>1 DEF Correcting, Placed, Drafts, Late
<1>4. AtHand' /\ Progress'
  BY <1>1 DEF AtHand, Progress, Placing, Late
<1> QED
  BY <1>1, <1>2, <1>3, <1>4 DEF DestInv, Late

\* A correction or a kill begins, or a correction ends, in the context it was in.
LEMMA TurnsDest ==
    ASSUME Inv, Tracked, Lone, DestInv, OnUpdated(Consumer) \/ Hydrated(Consumer) \/ OnCanceled(Consumer)
    PROVE  DestInv'
<1> DEFINE w == Consumer
<1>1. /\ run[w].pc \in {"onUpdated", "hydrate", "onCanceled"} /\ UNCHANGED <<dest, queue>>
      /\ run[w] \in Run /\ ctx[w] \in Context
  BY LoneState DEF OnUpdated, Hydrated, OnCanceled, At
<1>2. Works({})
  BY LoadsWorks, GoesWorks
<1>3. run[w].pc \notin Late /\ ~At(w, "idle")
  BY <1>1 DEF Late, At
<1>4. Kept'
  BY <1>1, <1>2, <1>3, KeptWorks DEF DestInv
<1>5. \E r \in Run : /\ Go(w, r)
                     /\ \/ r.pc \in {"onCanceled", "cancel", "processRules"}
                        \/ r.pc = "hydrate" /\ r.from = "hydrate" /\ run[w].pc = "onUpdated"
                           /\ SetCtx(w, Disabled(ctx[w]))
  <2>1. Existing \in SUBSET Tenants
    BY DEF Existing
  <2>2. CASE OnUpdated(w)
    <3>1. CASE em[w].pkg.pub = "usable"
      <4> DEFINE r == [run[w] EXCEPT !.pc = "hydrate", !.arts = Existing, !.from = "hydrate"]
      <4>1. r \in Run /\ r.pc = "hydrate" /\ r.from = "hydrate"
        BY <1>1, <2>1 DEF Run, Places
      <4> QED
        BY <2>2, <3>1, <4>1 DEF OnUpdated, At
    <3>2. CASE em[w].pkg.pub # "usable"
      <4> DEFINE r == [run[w] EXCEPT !.pc = "onCanceled"]
      <4>1. r \in Run /\ r.pc = "onCanceled"
        BY <1>1 DEF Run, Places
      <4> QED
        BY <2>2, <3>2, <4>1 DEF OnUpdated
    <3> QED
      BY <3>1, <3>2
  <2>3. CASE Hydrated(w)
    <3> DEFINE r == [run[w] EXCEPT !.pc = "onCanceled"]
    <3>1. r \in Run /\ r.pc = "onCanceled"
      BY <1>1 DEF Run, Places
    <3> QED
      BY <2>3, <3>1 DEF Hydrated
  <2>4. CASE OnCanceled(w)
    <3>1. CASE Killed(em[w])
      <4> DEFINE r == [run[w] EXCEPT !.pc = "cancel", !.arts = Existing]
      <4>1. r \in Run /\ r.pc = "cancel"
        BY <1>1, <2>1 DEF Run, Places
      <4> QED
        BY <2>4, <3>1, <4>1 DEF OnCanceled
    <3>2. CASE ~Killed(em[w])
      <4> DEFINE r == [run[w] EXCEPT !.pc = "processRules"]
      <4>1. r \in Run /\ r.pc = "processRules"
        BY <1>1 DEF Run, Places
      <4> QED
        BY <2>4, <3>2, <4>1 DEF OnCanceled
    <3> QED
      BY <3>1, <3>2
  <2> QED
    BY <2>2, <2>3, <2>4
<1>6. PICK r \in Run :
        /\ Go(w, r)
        /\ \/ r.pc \in {"onCanceled", "cancel", "processRules"}
           \/ r.pc = "hydrate" /\ r.from = "hydrate" /\ run[w].pc = "onUpdated"
              /\ SetCtx(w, Disabled(ctx[w]))
  BY <1>5
<1>7. run'[w] = r
  BY <1>6, ConsumerAt
<1>8. Drafts /\ r.pc = "hydrate" => dest[ctx'[w].tenant] # None
  <2> SUFFICES ASSUME Drafts, r.pc = "hydrate"
               PROVE  dest[ctx'[w].tenant] # None
    OBVIOUS
  <2>1. ctx'[w] = Disabled(ctx[w]) /\ run[w].pc = "onUpdated"
    BY <1>6, ConsumerCtx
  <2>2. Placed(ctx[w].tenant)
    BY <2>1 DEF DestInv, Correcting
  <2> QED
    BY <1>1, <2>1, <2>2, FilterOnly DEF Placed
<1>9. Drafts => \A i \in DOMAIN queue' : dest[queue'[i].tenant] # None
  BY <1>1 DEF DestInv, Placed
<1> QED
  BY <1>1, <1>4, <1>6, <1>7, <1>8, <1>9, EarlyDest

\* Kills go through all articles, and none becomes public by that.
LEMMA KillsDest ==
    ASSUME Inv, Tracked, Lone, DestInv, Cancel(Consumer) \/ Canceled(Consumer)
    PROVE  DestInv'
<1> DEFINE w == Consumer
<1>1. run[w].pc = "cancel" /\ UNCHANGED <<dest, queue>> /\ run[w] \in Run
  BY LoneState DEF Cancel, Canceled, At
<1>2. /\ \A t \in Tenants : art'[t] = See(t)'
      /\ \A t \in Tenants : Public(See(t)') => Public(See(t))
  <2>1. CASE Cancel(w)
    BY <2>1, CancelLone
  <2>2. CASE Canceled(w)
    <3>1. Works({}) /\ \A t \in Tenants : art'[t] = See(t)'
      BY <2>2, SavesWorks
    <3> QED
      BY <3>1 DEF Works
  <2> QED
    BY <2>1, <2>2
<1>3. Kept'
  BY <1>1, <1>2 DEF DestInv, Kept, Placed
<1>4. run'[w].pc \in {"cancel", "processRules"}
  <2>1. CASE Cancel(w)
    <3>1. At(w, "cancel")'
      BY <2>1, CancelLone
    <3> QED
      BY <3>1 DEF At
  <2>2. CASE Canceled(w)
    <3>1. Go(w, [run[w] EXCEPT !.pc = "processRules"])
      BY <2>2 DEF Canceled
    <3> QED
      BY <1>1, <3>1, ConsumerAt DEF Run
  <2> QED
    BY <2>1, <2>2
<1>5. Drafts => \A i \in DOMAIN queue' : dest[queue'[i].tenant] # None
  BY <1>1 DEF DestInv, Placed
<1> QED
  BY <1>1, <1>3, <1>4, <1>5, EarlyDest

\* A message is handled in the context of the tenant it came through.
LEMMA ReceiveDest ==
    ASSUME Inv, Tracked, Lone, DestInv, Receive
    PROVE  DestInv'
<1> DEFINE w == Consumer
<1>1. UNCHANGED <<dest, queue>> /\ SetCtx(w, TenantSet(Head(queue).tenant)) /\ queue # <<>>
  BY DEF Receive
<1>2. /\ \A t \in Tenants : art'[t] = See(t)' /\ See(t)' = See(t)
      /\ run'[w] = [Resting EXCEPT !.pc = IF pkg = None THEN "processRules" ELSE "onUpdated"]
  BY ReceiveLone
<1>3. run'[w].pc \in {"processRules", "onUpdated"}
  BY <1>2 DEF Resting
<1>4. Kept'
  BY <1>1, <1>2 DEF DestInv, Kept, Placed
<1>5. Drafts => dest[ctx'[w].tenant] # None
  <2>1. ctx'[w] = TenantSet(Head(queue).tenant)
    BY <1>1, ConsumerCtx
  <2> QED
    BY <1>1, <2>1, HeadOf DEF DestInv, Placed, TenantSet
<1>6. Drafts => \A i \in DOMAIN queue' : dest[queue'[i].tenant] # None
  BY <1>1 DEF DestInv, Placed
<1> QED
  BY <1>1, <1>3, <1>4, <1>5, <1>6, EarlyDest

\* An article is being corrected.
LEMMA CorrectsDest ==
    ASSUME DestInv, UNCHANGED <<dest, queue>>, Kept',
           run'[Consumer].pc \in {"articleRules", "rule", "refresh"},
           run'[Consumer].from = "hydrate", ~run'[Consumer].created,
           Drafts => dest[ctx'[Consumer].tenant] # None /\ run'[Consumer].pc # "rule"
    PROVE  DestInv'
<1>1. run'[Consumer].pc \notin {"publish", "processed", "idle", "populate", "onUpdated", "hydrate"}
  OBVIOUS
<1>2. (dest = InitialDest)' /\ (Drafts => \A i \in DOMAIN queue : Placed(queue[i].tenant))'
  BY DEF DestInv, Placed, Drafts
<1>3. Correcting'
  BY <1>1 DEF Correcting, Placed, Drafts, Late
<1>4. AtHand' /\ Progress'
  BY <1>1 DEF AtHand, Progress, Placing, Late
<1> QED
  BY <1>1, <1>2, <1>3, <1>4 DEF DestInv, Late

LEMMA HydrateDest ==
    ASSUME Inv, Tracked, Lone, DestInv, Hydrate(Consumer)
    PROVE  DestInv'
<1> DEFINE w == Consumer
<1>1. /\ run[w].pc = "hydrate" /\ run[w] \in Run /\ UNCHANGED <<dest, queue, ctx>>
      /\ ~At(w, "idle") /\ run[w].pc \notin Late
  BY LoneState DEF Hydrate, At, Late
<1>2. PICK t \in Tenants :
        /\ Works({t}) /\ \A u \in Tenants : art'[u] = See(u)'
        /\ See(t) # None
        /\ See(t)'.route = See(t).route /\ See(t)'.status = See(t).status
  BY HydrateWorks
<1>3. Placed(t) /\ ~dest[t].published => ~Public(See(t)')
  BY <1>2 DEF DestInv, Kept, Public
<1>4. Kept'
  BY <1>1, <1>2, <1>3, KeptWorks DEF DestInv
<1>5. PICK u : Go(w, [run[w] EXCEPT !.pc = "articleRules", !.arts = @ \ {u}, !.cur = u,
                                    !.wanted = FALSE, !.created = FALSE])
  BY DEF Hydrate
<1>6. run'[w].pc = "articleRules" /\ run'[w].from = run[w].from /\ ~run'[w].created
  BY <1>1, <1>5, ConsumerAt DEF Run
<1>7. run[w].from = "hydrate" /\ (Drafts => dest[ctx'[w].tenant] # None)
  BY <1>1 DEF DestInv, Correcting, Placed
<1> QED
  BY <1>1, <1>4, <1>6, <1>7, CorrectsDest

\* An article is being published to a destination.
LEMMA PlacesDest ==
    ASSUME Inv, Lone, DestInv, UNCHANGED <<dest, queue>>,
           run[Consumer].pc \in Late, run[Consumer].from = "publish", NEW T, Works(T),
           \A t \in T \cap Tenants : t = run[Consumer].cur /\ ~Placed(t),
           run'[Consumer].pc \in Late, run'[Consumer].from = "publish",
           run'[Consumer].cur = run[Consumer].cur, run'[Consumer].dests = run[Consumer].dests,
           run'[Consumer].wanted = run[Consumer].wanted,
           ctx'[Consumer].tenant = ctx[Consumer].tenant,
           Placed(run[Consumer].cur) => run'[Consumer].pc # "rule"
    PROVE  DestInv'
<1> DEFINE w == Consumer
<1>1. PICK c \in Tenants : c = run[w].cur
  BY LateFrom
<1>2. ~At(w, "idle")
  BY DEF At, Late
<1>3. Kept'
  BY <1>2, KeptWorks DEF DestInv
<1>4. run'[w].pc \notin {"publish", "processed", "idle", "populate", "onUpdated", "hydrate"}
  BY DEF Late
<1>5. (dest = InitialDest)' /\ (Drafts => \A i \in DOMAIN queue : Placed(queue[i].tenant))'
  BY DEF DestInv, Placed, Drafts
<1>6. Correcting'
  BY <1>4 DEF Correcting, Placed, Drafts, Late
<1>7. AtHand'
  <2>1. /\ ctx'[w].tenant = c
        /\ Placed(c) => See(c) # None /\ See(c).route = dest[c].route
                        /\ run[w].wanted = dest[c].published
    BY <1>1 DEF DestInv, AtHand
  <2>2. Placed(c) => See(c)' = See(c)
    BY <1>1 DEF Works
  <2> QED
    BY <1>1, <2>1, <2>2 DEF AtHand, Placed, See, Seen
<1>8. Progress'
  <2>1. /\ \A d \in run[w].dests : Placed(d.tenant) =>
             d.route = dest[d.tenant].route /\ d.published = dest[d.tenant].published
        /\ \A t \in Tenants : Placed(t) =>
             \/ \E d \in run[w].dests : d.tenant = t
             \/ c = t
             \/ Settled(t)
    BY <1>1 DEF DestInv, Progress, Placing
  <2>2. ASSUME NEW t \in Tenants, t # c, Settled(t) PROVE Settled(t)'
    BY <1>1, <1>2, <2>2, RestsSettled DEF DestInv
  <2> QED
    BY <1>1, <1>4, <2>1, <2>2 DEF Progress, Placing, Placed
<1> QED
  BY <1>3, <1>4, <1>5, <1>6, <1>7, <1>8 DEF DestInv

\* The article is stored, its rules are run or skipped, and its lists looked at.
LEMMA SaveDest ==
    ASSUME Inv, Lone, DestInv, Save(Consumer)
    PROVE  DestInv'
<1> DEFINE w == Consumer
<1>1. /\ run[w].pc = "save" /\ run[w].pc \in Late /\ run[w] \in Run /\ UNCHANGED <<dest, queue, ctx>>
      /\ Go(w, [run[w] EXCEPT !.pc = "articleRules"])
  BY LoneState DEF Save, At, Late
<1>2. run'[w] = [run[w] EXCEPT !.pc = "articleRules"]
  BY <1>1, ConsumerAt
<1>3. run[w].from = "publish"
  BY <1>1, LateFrom DEF DestInv, Correcting
<1>4. Works({})
  BY SavesWorks
<1> QED
  BY <1>1, <1>2, <1>3, <1>4, PlacesDest DEF Run, Late

LEMMA ArticleRulesDest ==
    ASSUME Inv, Lone, DestInv, ArticleRules(Consumer)
    PROVE  DestInv'
<1> DEFINE w == Consumer
<1>1. /\ run[w].pc = "articleRules" /\ run[w].pc \in Late /\ run[w] \in Run
      /\ UNCHANGED <<dest, queue>> /\ ctx[w] \in Context /\ ~At(w, "idle")
  BY LoneState DEF ArticleRules, At, Late
<1>2. Works({})
  BY GoesWorks
<1>3. ctx'[w].tenant = ctx[w].tenant
  <2>1. ctx'[w] = Enabled(ctx[w]) \/ ctx'[w] = ctx[w]
    BY ConsumerCtx DEF ArticleRules
  <2> QED
    BY <1>1, <2>1, FilterOnly
<1>4. /\ run'[w].from = run[w].from /\ run'[w].cur = run[w].cur /\ run'[w].dests = run[w].dests
      /\ run'[w].wanted = run[w].wanted /\ run'[w].created = run[w].created
      /\ run'[w].pc \in {"dispatch", "refresh", "rule"}
      /\ dest[ctx[w].tenant] # None => run'[w].pc # "rule"
      /\ ~run[w].created => run'[w].pc # "dispatch"
  <2>1. CASE RulesSkipped(w)
    <3>1. run'[w] = [run[w] EXCEPT !.pc = IF run[w].created THEN "dispatch" ELSE "refresh"]
      BY <2>1, ConsumerAt DEF ArticleRules
    <3> QED
      BY <1>1, <3>1 DEF Run
  <2>2. CASE ~RulesSkipped(w)
    <3>1. run'[w] = [run[w] EXCEPT !.pc = "rule", !.rules = TenantRules[ctx[w].tenant]]
      BY <2>2, ConsumerAt DEF ArticleRules
    <3>2. dest[ctx[w].tenant] = None
      BY <2>2 DEF RulesSkipped
    <3> QED
      BY <1>1, <3>1, <3>2 DEF Run
  <2> QED
    BY <2>1, <2>2
<1>5. CASE run[w].from = "publish"
  <2>1. Placed(run[w].cur) => run'[w].pc # "rule"
    BY <1>1, <1>4, <1>5 DEF DestInv, AtHand, Placed
  <2> QED
    BY <1>1, <1>2, <1>3, <1>4, <1>5, <2>1, PlacesDest DEF Late
<1>6. CASE run[w].from = "hydrate"
  <2>1. ~run[w].created /\ (Drafts => dest[ctx[w].tenant] # None)
    BY <1>1, <1>6 DEF DestInv, Correcting, Placed
  <2>2. run'[w].pc \in Late
    BY <1>4 DEF Late
  <2>3. Kept'
    BY <1>1, <1>2, <1>4, <2>2, KeptWorks DEF DestInv
  <2> QED
    BY <1>1, <1>3, <1>4, <1>6, <2>1, <2>3, CorrectsDest
<1> QED
  BY <1>1, <1>5, <1>6, LateFrom

\* Rules move or publish the article at hand only, which is of no destination.
LEMMA RuleDest ==
    ASSUME Inv, Lone, DestInv, Rule(Consumer)
    PROVE  DestInv'
<1> DEFINE w == Consumer
<1>1. /\ run[w].pc = "rule" /\ run[w].pc \in Late /\ run[w] \in Run
      /\ UNCHANGED <<dest, queue>> /\ ctx[w] \in Context /\ ~At(w, "idle")
      /\ Go(w, [run[w] EXCEPT !.rules = Tail(@)])
  BY LoneState DEF Rule, At, Late
<1>2. Works({run[w].cur})
  BY RuleWorks
<1>3. ctx'[w].tenant = ctx[w].tenant
  <2>1. ctx'[w] = Disabled(ctx[w]) \/ ctx'[w] = ctx[w]
    BY ConsumerCtx DEF Rule
  <2> QED
    BY <1>1, <2>1, FilterOnly
<1>4. /\ run'[w].from = run[w].from /\ run'[w].cur = run[w].cur /\ run'[w].dests = run[w].dests
      /\ run'[w].wanted = run[w].wanted /\ run'[w].created = run[w].created
      /\ run'[w].pc = run[w].pc
  <2>1. run'[w] = [run[w] EXCEPT !.rules = Tail(@)]
    BY <1>1, ConsumerAt
  <2> QED
    BY <1>1, <2>1 DEF Run
<1>5. CASE run[w].from = "publish"
  <2>1. ~Placed(run[w].cur)
    BY <1>1, <1>5 DEF DestInv, AtHand
  <2> QED
    BY <1>1, <1>2, <1>3, <1>4, <1>5, <2>1, PlacesDest
<1>6. CASE run[w].from = "hydrate"
  <2>1. ~run[w].created /\ ~Drafts /\ dest = InitialDest
    BY <1>1, <1>6 DEF DestInv, Correcting
  <2>2. \A t \in Tenants : ~(Placed(t) /\ ~dest[t].published)
    BY <2>1 DEF Drafts, Placed
  <2>3. Kept'
    BY <1>1, <1>2, <1>4, <2>2, KeptWorks DEF DestInv
  <2> QED
    BY <1>1, <1>4, <1>6, <2>1, <2>3, CorrectsDest
<1> QED
  BY <1>1, <1>5, <1>6, LateFrom

LEMMA RulesDoneDest ==
    ASSUME Inv, Lone, DestInv, RulesDone(Consumer)
    PROVE  DestInv'
<1> DEFINE w == Consumer
<1>1. /\ run[w].pc = "rule" /\ run[w].pc \in Late /\ run[w] \in Run
      /\ UNCHANGED <<dest, queue>> /\ ctx[w] \in Context /\ ~At(w, "idle")
  BY LoneState DEF RulesDone, At, Late
<1>2. Works({})
  BY GoesWorks
<1>3. ctx'[w].tenant = ctx[w].tenant
  <2>1. ctx'[w] = Disabled(ctx[w]) \/ ctx'[w] = Enabled(ctx[w])
    BY ConsumerCtx DEF RulesDone
  <2> QED
    BY <1>1, <2>1, FilterOnly
<1>4. /\ run'[w].from = run[w].from /\ run'[w].cur = run[w].cur /\ run'[w].dests = run[w].dests
      /\ run'[w].wanted = run[w].wanted /\ run'[w].created = run[w].created
      /\ run'[w].pc = IF run[w].created THEN "dispatch" ELSE "refresh"
  <2>1. run'[w] = [run[w] EXCEPT !.pc = IF run[w].created THEN "dispatch" ELSE "refresh"]
    BY ConsumerAt DEF RulesDone
  <2> QED
    BY <1>1, <2>1 DEF Run
<1>5. CASE run[w].from = "publish"
  BY <1>1, <1>2, <1>3, <1>4, <1>5, PlacesDest DEF Late
<1>6. CASE run[w].from = "hydrate"
  <2>1. ~run[w].created /\ ~Drafts
    BY <1>1, <1>6 DEF DestInv, Correcting
  <2>2. run'[w].pc \in Late
    BY <1>4 DEF Late
  <2>3. Kept'
    BY <1>1, <1>2, <1>4, <2>2, KeptWorks DEF DestInv
  <2> QED
    BY <1>1, <1>4, <1>6, <2>1, <2>3, CorrectsDest
<1> QED
  BY <1>1, <1>5, <1>6, LateFrom

LEMMA RefreshDest ==
    ASSUME Inv, Lone, DestInv, Refresh(Consumer)
    PROVE  DestInv'
<1> DEFINE w == Consumer
<1>1. /\ run[w].pc = "refresh" /\ run[w].pc \in Late /\ run[w] \in Run
      /\ UNCHANGED <<dest, queue>> /\ ctx[w] \in Context /\ ~At(w, "idle")
      /\ SetCtx(w, Enabled(ctx[w]))
      /\ Go(w, [run[w] EXCEPT !.pc = IF run[w].from = "hydrate" THEN "hydrate" ELSE "dispatch"])
  BY LoneState DEF Refresh, At, Late
<1>2. Works({}) /\ \A t \in Tenants : art'[t] = See(t)'
  BY SavesWorks
<1>3. ctx'[w].tenant = ctx[w].tenant
  BY <1>1, ConsumerCtx, FilterOnly
<1>4. /\ run'[w].from = run[w].from /\ run'[w].cur = run[w].cur /\ run'[w].dests = run[w].dests
      /\ run'[w].wanted = run[w].wanted
      /\ run'[w].pc = IF run[w].from = "hydrate" THEN "hydrate" ELSE "dispatch"
  <2>1. run'[w] = [run[w] EXCEPT !.pc = IF run[w].from = "hydrate" THEN "hydrate" ELSE "dispatch"]
    BY <1>1, ConsumerAt
  <2> QED
    BY <1>1, <2>1 DEF Run
<1>5. CASE run[w].from = "publish"
  BY <1>1, <1>2, <1>3, <1>4, <1>5, PlacesDest DEF Late
<1>6. CASE run[w].from = "hydrate"
  <2>1. Kept'
    BY <1>1, <1>2, KeptWorks DEF DestInv
  <2>2. Drafts => dest[ctx'[w].tenant] # None
    BY <1>1, <1>3, <1>6 DEF DestInv, Correcting, Placed
  <2>3. Drafts => \A i \in DOMAIN queue' : dest[queue'[i].tenant] # None
    BY <1>1 DEF DestInv, Placed
  <2> QED
    BY <1>1, <1>4, <1>6, <2>1, <2>2, <2>3, EarlyDest
<1> QED
  BY <1>1, <1>5, <1>6, LateFrom

\* Some tenant has a destination, so that nothing is populated.
Directed == \E t \in Tenants : InitialDest[t] # None

\* The destinations to publish to are those of the table, and those that rules name
\* for other tenants.
LEMMA MatchedFrom ==
    ASSUME NEW rev
    PROVE  /\ \A d \in MatchedDestinations(rev) : dest[d.tenant] # None =>
                d.route = dest[d.tenant].route /\ d.published = dest[d.tenant].published
           /\ \A t \in Tenants : dest[t] # None =>
                \E d \in MatchedDestinations(rev) : d.tenant = t
<1>1. \A t : RuleDestination(t, rev).tenant = t
  BY DEF RuleDestination
<1>2. ASSUME NEW d \in MatchedDestinations(rev), dest[d.tenant] # None
      PROVE  d.route = dest[d.tenant].route /\ d.published = dest[d.tenant].published
  <2>1. CASE \E t \in Tenants : d = [tenant |-> t, route |-> dest[t].route,
                                     published |-> dest[t].published]
    BY <2>1
  <2>2. CASE \E t \in Tenants : dest[t] = None /\ d = RuleDestination(t, rev)
    BY <1>1, <1>2, <2>2
  <2> QED
    BY <1>1, <1>2, <2>1, <2>2 DEF MatchedDestinations
<1>3. ASSUME NEW t \in Tenants, dest[t] # None
      PROVE  \E d \in MatchedDestinations(rev) : d.tenant = t
  <2> DEFINE d == [tenant |-> t, route |-> dest[t].route, published |-> dest[t].published]
  <2>1. d \in MatchedDestinations(rev) /\ d.tenant = t
    BY <1>3 DEF MatchedDestinations
  <2> QED
    BY <2>1
<1> QED
  BY <1>2, <1>3

LEMMA ProcessRulesDest ==
    ASSUME Inv, Lone, DestInv, Directed, ProcessRules(Consumer)
    PROVE  DestInv'
<1> DEFINE w == Consumer
           D == MatchedDestinations(em[w].pkg.rev)
<1>1. /\ run[w].pc = "processRules" /\ run[w].pc \notin Late /\ run[w] \in Run
      /\ UNCHANGED <<dest, queue>> /\ ~At(w, "idle")
  BY LoneState DEF ProcessRules, At, Late
<1>2. Works({})
  BY GoesWorks
<1>3. Kept'
  BY <1>1, <1>2, KeptWorks DEF DestInv
<1>4. Go(w, [run[w] EXCEPT !.pc = "publish", !.from = "publish", !.dests = D,
                           !.home = ctx[w].tenant])
  BY DEF ProcessRules, Directed, DestInv
<1>5. run'[w].pc = "publish" /\ run'[w].from = "publish" /\ run'[w].dests = D
  <2> HIDE DEF D
  <2> QED
    BY <1>1, <1>4, ConsumerAt DEF Run
<1>6. /\ \A d \in D : dest[d.tenant] # None =>
           d.route = dest[d.tenant].route /\ d.published = dest[d.tenant].published
      /\ \A t \in Tenants : dest[t] # None => \E d \in D : d.tenant = t
  BY MatchedFrom
<1> HIDE DEF D
<1>7. (dest = InitialDest)' /\ (Drafts => \A i \in DOMAIN queue : Placed(queue[i].tenant))'
  BY <1>1 DEF DestInv, Placed, Drafts
<1>8. Correcting' /\ AtHand'
  BY <1>5 DEF Correcting, AtHand, Late
<1>9. Progress'
  BY <1>1, <1>5, <1>6 DEF Progress, Placing, Placed
<1> QED
  BY <1>3, <1>5, <1>7, <1>8, <1>9 DEF DestInv, Late

\* The next destination.
LEMMA PublishDest ==
    ASSUME Inv, Lone, DestInv, Publish(Consumer)
    PROVE  DestInv'
<1> DEFINE w == Consumer
<1>1. /\ run[w].pc = "publish" /\ run[w].pc \notin Late /\ run[w] \in Run
      /\ UNCHANGED <<dest, queue>> /\ ~At(w, "idle")
  BY LoneState DEF Publish, At, Late
<1>2. PICK d \in run[w].dests :
        /\ d.tenant \in Tenants
        /\ Works({d.tenant})
        /\ See(d.tenant)' # None /\ See(d.tenant)'.route = d.route
        /\ Public(See(d.tenant)') => Public(See(d.tenant))
        /\ run'[w] = [run[w] EXCEPT !.pc = "save", !.cur = d.tenant, !.dests = @ \ {d},
                                    !.wanted = d.published, !.created = art[d.tenant] = None]
        /\ ctx'[w] = TenantSet(d.tenant)
  BY PublishWorks
<1>3. PICK t \in Tenants : t = d.tenant
  BY <1>2
<1>4. /\ run'[w].pc = "save" /\ run'[w].cur = t /\ run'[w].dests = run[w].dests \ {d}
      /\ run'[w].wanted = d.published /\ run'[w].from = run[w].from
      /\ ctx'[w].tenant = t /\ run'[w].pc \in Late
  BY <1>1, <1>2, <1>3 DEF Run, TenantSet, Late
<1>5. run[w].from = "publish"
  BY <1>1 DEF DestInv, Progress
<1>6. /\ \A c \in run[w].dests : Placed(c.tenant) =>
           c.route = dest[c.tenant].route /\ c.published = dest[c.tenant].published
      /\ \A u \in Tenants : Placed(u) => (\E c \in run[w].dests : c.tenant = u) \/ Settled(u)
  BY <1>1, <1>5 DEF DestInv, Progress, Placing
<1>7. Placed(t) /\ ~dest[t].published => ~Public(See(t)')
  <2>1. Public(See(t)') => Public(See(t))
    BY <1>2, <1>3 DEF See, Seen
  <2> QED
    BY <2>1 DEF DestInv, Kept
<1>8. Works({t})
  BY <1>2, <1>3
<1>9. Kept'
  BY <1>1, <1>4, <1>7, <1>8, KeptWorks DEF DestInv
<1>10. (dest = InitialDest)' /\ (Drafts => \A i \in DOMAIN queue : Placed(queue[i].tenant))'
  BY <1>1 DEF DestInv, Placed, Drafts
<1>11. Correcting'
  BY <1>4, <1>5 DEF Correcting
<1>12. AtHand'
  <2>1. See(t)' # None /\ See(t)'.route = d.route
    BY <1>2, <1>3 DEF See, Seen
  <2>2. Placed(t) => d.route = dest[t].route /\ d.published = dest[t].published
    BY <1>2, <1>3, <1>6
  <2> QED
    BY <1>1, <1>4, <2>1, <2>2 DEF AtHand, Placed, See, Seen
<1>13. Progress'
  <2>1. ASSUME NEW u \in Tenants, u # t, Settled(u) PROVE Settled(u)'
    BY <1>1, <1>8, <2>1, RestsSettled DEF DestInv
  <2>2. ASSUME NEW u \in Tenants, Placed(u)
        PROVE  (\E c \in run'[w].dests : c.tenant = u) \/ u = t \/ Settled(u)'
    BY <1>3, <1>4, <1>6, <2>1, <2>2
  <2> QED
    BY <1>1, <1>4, <1>5, <1>6, <2>2 DEF Progress, Placing, Placed
<1> QED
  BY <1>4, <1>5, <1>9, <1>10, <1>11, <1>12, <1>13 DEF DestInv

\* All destinations are settled.
LEMMA PublishDoneDest ==
    ASSUME Inv, Lone, DestInv, PublishDone(Consumer)
    PROVE  DestInv'
<1> DEFINE w == Consumer
<1>1. /\ run[w].pc = "publish" /\ run[w].pc \notin Late /\ run[w] \in Run /\ run[w].dests = {}
      /\ UNCHANGED <<dest, queue>> /\ ~At(w, "idle")
      /\ Go(w, [run[w] EXCEPT !.pc = "processed"])
  BY LoneState DEF PublishDone, At, Late
<1>2. Works({})
  BY GoesWorks
<1>3. run'[w].pc = "processed"
  BY <1>1, ConsumerAt DEF Run
<1>4. Kept'
  BY <1>1, <1>2, KeptWorks DEF DestInv
<1>5. ASSUME NEW t \in Tenants, Placed(t) PROVE Settled(t)'
  <2>1. Settled(t)
    BY <1>1, <1>5 DEF DestInv, Progress, Placing
  <2> QED
    BY <1>1, <1>2, <2>1, RestsSettled DEF DestInv
<1>6. (dest = InitialDest)' /\ (Drafts => \A i \in DOMAIN queue : Placed(queue[i].tenant))'
  BY <1>1 DEF DestInv, Placed, Drafts
<1>7. Correcting' /\ AtHand'
  BY <1>3 DEF Correcting, AtHand, Late
<1>8. Progress'
  BY <1>1, <1>3, <1>5 DEF Progress, Placing, Placed, Late
<1> QED
  BY <1>3, <1>4, <1>6, <1>7, <1>8 DEF DestInv, Late

\* The article at hand is published if its destination says so, and stored.
LEMMA DispatchDest ==
    ASSUME Inv, Lone, DestInv, Dispatch(Consumer)
    PROVE  DestInv'
<1> DEFINE w == Consumer
<1>1. /\ run[w].pc = "dispatch" /\ run[w].pc \in Late /\ run[w] \in Run
      /\ UNCHANGED <<dest, queue>> /\ ~At(w, "idle")
      /\ Go(w, [run[w] EXCEPT !.pc = run[w].from])
  BY LoneState DEF Dispatch, At, Late
<1>2. run[w].from = "publish"
  BY <1>1, LateFrom DEF DestInv, Correcting
<1>3. run'[w].pc = "publish" /\ run'[w].from = "publish" /\ run'[w].dests = run[w].dests
  BY <1>1, <1>2, ConsumerAt DEF Run
<1>4. PICK t \in Tenants :
        /\ run[w].cur = t
        /\ Works({t}) /\ \A u \in Tenants : art'[u] = See(u)'
        /\ See(t) # None /\ See(t)'.route = See(t).route
        /\ IF run[w].wanted THEN Public(See(t)') ELSE See(t)' = See(t)
  BY DispatchWorks
<1>5. Placed(t) => See(t).route = dest[t].route /\ run[w].wanted = dest[t].published
  BY <1>1, <1>2, <1>4 DEF DestInv, AtHand
<1>6. Placed(t) /\ ~dest[t].published => ~Public(See(t)')
  BY <1>4, <1>5 DEF DestInv, Kept
<1>7. Kept'
  BY <1>1, <1>4, <1>6, KeptWorks DEF DestInv
<1>8. Placed(t) => Settled(t)'
  <2>1. art'[t] = See(t)' /\ See(t)' # None
    BY <1>4 DEF Works
  <2>2. Placed(t) => art'[t].route = dest[t].route
    BY <1>4, <1>5, <2>1
  <2>3. Placed(t) /\ dest[t].published => Public(art'[t])
    BY <1>4, <1>5, <2>1
  <2> QED
    BY <1>1, <1>6, <2>1, <2>2, <2>3 DEF Settled, Public
<1>9. Progress'
  <2>1. /\ \A d \in run[w].dests : Placed(d.tenant) =>
             d.route = dest[d.tenant].route /\ d.published = dest[d.tenant].published
        /\ \A u \in Tenants : Placed(u) =>
             (\E d \in run[w].dests : d.tenant = u) \/ u = t \/ Settled(u)
    BY <1>1, <1>2, <1>4 DEF DestInv, Progress, Placing
  <2>2. ASSUME NEW u \in Tenants, u # t, Settled(u) PROVE Settled(u)'
    BY <1>1, <1>4, <2>2, RestsSettled DEF DestInv
  <2> QED
    BY <1>1, <1>3, <1>8, <2>1, <2>2 DEF Progress, Placing, Placed
<1>10. (dest = InitialDest)' /\ (Drafts => \A i \in DOMAIN queue : Placed(queue[i].tenant))'
  BY <1>1 DEF DestInv, Placed, Drafts
<1>11. Correcting' /\ AtHand'
  BY <1>3 DEF Correcting, AtHand, Late
<1> QED
  BY <1>3, <1>7, <1>9, <1>10, <1>11 DEF DestInv, Late

LEMMA WorkingDest ==
    ASSUME Inv, Tracked, Lone, DestInv, Directed, Working
    PROVE  DestInv'
<1>1. ~Populate(Consumer) /\ ~Populated(Consumer)
  BY DEF Populate, Populated, At, DestInv
<1> QED
  BY <1>1, TurnsDest, HydrateDest, KillsDest, ProcessRulesDest, PublishDest, PublishDoneDest,
     SaveDest, ArticleRulesDest, RuleDest, RulesDoneDest, RefreshDest, DispatchDest DEF Working

\* The consumer rests: what was in memory does not count.
LEMMA RestsDest ==
    ASSUME DestInv, UNCHANGED <<art, dest>>, run'[Consumer].pc = "idle",
           \A t \in Tenants : See(t)' \in {art[t], See(t)},
           Drafts => \A i \in DOMAIN queue' : dest[queue'[i].tenant] # None,
           queue' = <<>> /\ pkg' # None => \A t \in Tenants : Placed(t) => Settled(t)
    PROVE  DestInv'
<1>1. (dest = InitialDest)' /\ (Drafts => \A i \in DOMAIN queue : Placed(queue[i].tenant))'
  BY DEF DestInv, Placed, Drafts
<1>2. Correcting' /\ AtHand'
  BY DEF Correcting, AtHand, Late
<1>3. Progress'
  BY DEF Progress, Placing, Late, Placed, Settled
<1>4. Kept'
  BY DEF DestInv, Kept, At, Placed
<1> QED
  BY <1>1, <1>2, <1>3, <1>4 DEF DestInv, Late

LEMMA ForgetDest ==
    ASSUME Inv, Tracked, Lone, DestInv, Forgetting
    PROVE  DestInv'
<1> DEFINE w == Consumer
<1>1. /\ run'[w] = Resting /\ UNCHANGED <<pkg, art, dest>> /\ \A t \in Tenants : See(t)' = art[t]
      /\ \/ UNCHANGED queue
         \/ queue' = Tail(queue) /\ run[w].pc = "processed"
  BY ForgetLone
<1>2. run'[w].pc = "idle"
  BY <1>1 DEF Resting
<1>3. queue \in Seq(Message) /\ queue # <<>>
  <2>1. ~At(w, "idle")
    BY DEF Forgetting, Processed, Crash, NonUniqueResult, At
  <2> QED
    BY <2>1 DEF Inv, TypeOK, Sound
<1>4. Drafts => \A i \in DOMAIN queue' : dest[queue'[i].tenant] # None
  <2>1. CASE UNCHANGED queue
    BY <2>1 DEF DestInv, Placed
  <2>2. CASE queue' = Tail(queue)
    <3>1. \A i \in DOMAIN queue' : i + 1 \in DOMAIN queue /\ queue'[i] = queue[i + 1]
      BY <1>3, <2>2
    <3> QED
      BY <3>1 DEF DestInv, Placed
  <2> QED
    BY <1>1, <2>1, <2>2
<1>5. queue' = <<>> /\ pkg' # None => \A t \in Tenants : Placed(t) => Settled(t)
  BY <1>1, <1>3 DEF DestInv, Progress
<1> QED
  BY <1>1, <1>2, <1>4, <1>5, RestsDest

\* Messages come from tenants that may push, and go back into the queue.
LEMMA QueueDest ==
    ASSUME DraftsGuarded, Inv, Tracked, Lone, DestInv, Push \/ Reject
    PROVE  DestInv'
<1> DEFINE w == Consumer
<1>1. UNCHANGED <<pkg, art, em, ctx, dest>> /\ queue \in Seq(Message)
  BY DEF Push, Reject, db, Inv, TypeOK
<1>2. \A t \in Tenants : See(t)' = See(t) /\ (Settled(t)' <=> Settled(t))
  BY <1>1 DEF See, Seen, Settled
<1>3. CASE Push
  <2>1. PICK p \in PushStatuses, t \in PushTenants :
          queue' = Append(queue, [rev |-> budget.pushes + 1, pub |-> p, tenant |-> t])
    BY <1>3 DEF Push
  <2>2. UNCHANGED run
    BY <1>3 DEF Push
  <2> DEFINE m == [rev |-> budget.pushes + 1, pub |-> p, tenant |-> t]
  <2>3. m.tenant = t
    OBVIOUS
  <2> HIDE DEF m
  <2>4. queue' # <<>> /\ \A i \in DOMAIN queue' : \/ i \in DOMAIN queue /\ queue'[i] = queue[i]
                                                  \/ queue'[i] = m
    BY <1>1, <2>1 DEF m
  <2>5. Drafts => dest[t] # None
    BY <2>1 DEF DraftsGuarded, DestInv
  <2>6. Drafts => \A i \in DOMAIN queue' : dest[queue'[i].tenant] # None
    BY <2>3, <2>4, <2>5 DEF DestInv, Placed
  <2>7. (dest = InitialDest)' /\ (Drafts => \A i \in DOMAIN queue : Placed(queue[i].tenant))'
    BY <1>1, <2>6 DEF DestInv, Placed, Drafts
  <2>8. Correcting' /\ AtHand'
    BY <1>1, <2>2 DEF DestInv, Correcting, AtHand, Drafts, Placed, See, Seen
  <2>9. Progress'
    BY <1>1, <1>2, <2>2, <2>4 DEF DestInv, Progress, Placing, Placed
  <2>10. Kept'
    BY <1>1, <1>2, <2>2 DEF DestInv, Kept, Placed, At
  <2> QED
    BY <2>2, <2>7, <2>8, <2>9, <2>10 DEF DestInv
<1>4. CASE Reject
  <2>1. queue' \in Requeued(queue) /\ Go(w, Resting)
    BY <1>4 DEF Reject
  <2>2. run'[w].pc = "idle"
    BY <2>1, ConsumerAt DEF Resting
  <2>3. Drafts => \A j \in DOMAIN queue' : dest[queue'[j].tenant] # None
    BY <1>1, <2>1, RequeuedFrom DEF DestInv, Placed
  <2>4. queue' # <<>>
    <3>1. DOMAIN queue' = 1 .. Len(queue) /\ Len(queue) \in Nat /\ 1 .. Len(queue) # {}
      BY <1>1, <2>1, RequeuedAt
    <3> QED
      BY <3>1
  <2> QED
    BY <1>1, <1>2, <2>2, <2>3, <2>4, RestsDest
<1> QED
  BY <1>3, <1>4

\* Requests that write no article and no destination.
LEMMA RequestDest ==
    ASSUME DestinationsStand, Inv, Tracked, Lone, DestInv,
           \/ \E w \in Api : PatchPackage(w) \/ CreateDestination(w)
           \/ UNCHANGED vars
    PROVE  DestInv'
<1>1. /\ UNCHANGED <<art, dest, queue, em, ctx, run>>
      /\ pkg' # None => pkg # None
  <2>1. \A w \in Api : ~CreateDestination(w)
    BY DEF CreateDestination, DestinationsStand
  <2>2. CASE \E w \in Api : PatchPackage(w)
    BY <2>2 DEF PatchPackage
  <2>3. CASE UNCHANGED vars
    BY <2>3 DEF vars, db
  <2> QED
    BY <2>1, <2>2, <2>3
<1>2. \A t \in Tenants : See(t)' = See(t) /\ (Settled(t)' <=> Settled(t))
  BY <1>1 DEF See, Seen, Settled
<1>3. (dest = InitialDest)' /\ (Drafts => \A i \in DOMAIN queue : Placed(queue[i].tenant))'
  BY <1>1 DEF DestInv, Placed, Drafts
<1>4. Correcting' /\ AtHand'
  BY <1>1 DEF DestInv, Correcting, AtHand, Drafts, Placed, See, Seen
<1>5. Progress'
  BY <1>1, <1>2 DEF DestInv, Progress, Placing, Placed
<1>6. Kept'
  BY <1>1, <1>2 DEF DestInv, Kept, Placed, At
<1> QED
  BY <1>1, <1>3, <1>4, <1>5, <1>6 DEF DestInv

LEMMA NextDestInv ==
    ASSUME NoArticleRequests, DestinationsStand, DraftsGuarded, Directed
    PROVE  Inv /\ Tracked /\ Lone /\ DestInv /\ [Next]_vars => DestInv'
BY LoneSteps, WorkingDest, ReceiveDest, KillsDest, QueueDest, ForgetDest, RequestDest

LEMMA InitDestInv == Init => DestInv
<1> SUFFICES ASSUME Init PROVE DestInv
  OBVIOUS
<1>1. /\ em[Consumer] = FreshEm /\ run[Consumer] = Resting /\ pkg = None
      /\ \A t \in Tenants : art[t] = None
      /\ dest = InitialDest /\ DOMAIN queue = {}
  BY ConsumerWorks DEF Init, Workers, NoArticles
<1>2. Resting.pc = "idle" /\ \A t \in Tenants : FreshEm.art[t] = None
  BY DEF FreshEm, Resting, NoArticles
<1> QED
  BY <1>1, <1>2 DEF DestInv, Correcting, AtHand, Progress, Placing, Late, Kept, At, See, Seen,
                    Public

\* Where there are no destinations none comes up.
LEMMA NextUndirected ==
    ASSUME NoArticleRequests, DestinationsStand
    PROVE  Inv /\ Tracked /\ Lone /\ [Next]_vars => UNCHANGED dest
<1>1. Push \/ Receive \/ Cancel(Consumer) \/ Reject \/ UNCHANGED vars => UNCHANGED dest
  BY DEF Push, Receive, Cancel, Reject, vars
<1>2. (\E w \in Api : PatchPackage(w) \/ CreateDestination(w)) => UNCHANGED dest
  BY DEF PatchPackage, CreateDestination, DestinationsStand
<1>3. Inv /\ Lone /\ Forgetting => UNCHANGED dest
  BY ForgetLone
<1> QED
  BY <1>1, <1>2, <1>3, LoneSteps, WorkingGoes

LEMMA DestQuiet == DestInv => DestinationDecides
<1> SUFFICES ASSUME DestInv, Quiet, pkg # None, NEW t \in Tenants, dest[t] # None
             PROVE  /\ art[t] # None
                    /\ art[t].route = dest[t].route
                    /\ dest[t].published <=> art[t].status = "published"
  BY DEF DestinationDecides
<1>1. At(Consumer, "idle") /\ queue = <<>>
  BY ConsumerWorks DEF Quiet
<1>2. Settled(t)
  BY <1>1 DEF DestInv, Progress, Placed, At
<1> QED
  BY <1>2 DEF Settled, Public

\* Destinations that stand before the first push decide: whatever the rules of their
\* tenants and of others are, and over corrections, kills, crashes and rejected
\* messages with half of their work kept in memory, the story ends up on the route of
\* each, published where it says so. The rules of other tenants can publish
\* articles that are kept back, unless whoever receives pushes has a destination.
THEOREM DestinationsDecide ==
    ASSUME NoArticleRequests, DestinationsStand, DraftsGuarded
    PROVE  Spec => []DestinationDecides
<1>1. Spec => [](Inv /\ Tracked /\ Lone)
  <2>1. Init => Lone /\ ShownPackage
    BY InitLone
  <2>2. Inv /\ Tracked /\ Lone /\ ShownPackage /\ [Next]_vars => Lone' /\ ShownPackage'
    BY NextShown
  <2> QED
    BY <2>1, <2>2, TrackedHolds, PTL DEF Spec
<1>2. CASE Directed
  <2>1. Inv /\ Tracked /\ Lone /\ DestInv /\ [Next]_vars => DestInv'
    BY <1>2, NextDestInv
  <2> QED
    BY <1>1, <2>1, InitDestInv, DestQuiet, PTL DEF Spec
<1>3. CASE ~Directed
  <2>1. Init => dest = InitialDest
    BY DEF Init
  <2>2. Inv /\ Tracked /\ Lone /\ dest = InitialDest /\ [Next]_vars => (dest = InitialDest)'
    BY NextUndirected
  <2>3. dest = InitialDest => DestinationDecides
    BY <1>3 DEF Directed, DestinationDecides
  <2> QED
    BY <1>1, <2>1, <2>2, <2>3, PTL DEF Spec
<1> QED
  BY <1>2, <1>3

=============================================================================
