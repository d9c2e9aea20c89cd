---------------------------- MODULE OutcomeProofs ----------------------------
(***************************************************************************)
(* Proofs about Publishing: in which state a push leaves the articles and  *)
(* the lists.                                                              *)
(*                                                                         *)
(* While messages are neither rejected nor published from by requests, the *)
(* queue is in order and the consumer's objects are those of its message;  *)
(* that makes every article show the last revision, a killed story leave   *)
(* none public, and, with one tenant, its automatic list hold the public   *)
(* articles it asks for, no others, and each of them once.                 *)
(***************************************************************************)
EXTENDS StoryProofs

-----------------------------------------------------------------------------
(* What a process remembers while it rests.                                *)

\* No exception leaves the consumer running in the middle of a message.
NoFailures == MaxFailures = 0

\* ContextForgotten again, as a state predicate to induct on.
Rested(w) == At(w, "idle") => ctx[w].tenant = None /\ em[w] = FreshEm

LEMMA MovedRested ==
    ASSUME Inv, \A v \in Workers : Rested(v), NEW w \in Workers, Go(w, run'[w]),
           \A v \in Workers \ {w} : ctx'[v] = ctx[v] /\ em'[v] = em[v],
           run'[w].pc # "idle" \/ (ctx'[w].tenant = None /\ em'[w] = FreshEm)
    PROVE  \A v \in Workers : Rested(v)'
BY DEF Rested, At, Go, Inv, TypeOK

LEMMA ShapedRested ==
    ASSUME Inv, \A v \in Workers : Rested(v), NEW w \in Workers, Shaped(w)
    PROVE  \A v \in Workers : Rested(v)'
<1>1. ASSUME NEW f \in EntityManager, NEW r \in Run,
             TouchStep(w, f, r) \/ LoadStep(w, f, r) \/ InsertStep(w, f, r)
      PROVE  \A v \in Workers : Rested(v)'
  <2>1. Handling(w, r) /\ \E e : Keep(w, e)
    BY <1>1 DEF TouchStep, LoadStep, InsertStep, FlushOf
  <2>2. PICK e : Keep(w, e)
    BY <2>1
  <2>3. Go(w, r) /\ r.pc # "idle" /\ \A v \in Workers \ {w} : ctx'[v] = ctx[v]
    BY <2>1 DEF Handling, Go
  <2> QED
    BY <2>2, <2>3, Moved, MovedRested
<1>2. CASE ForgetStep(w)
  <2>1. PICK c \in Context : c.tenant = None /\ SetCtx(w, c)
    BY <1>2 DEF ForgetStep
  <2>2. Keep(w, FreshEm) /\ Go(w, Resting)
    BY <1>2 DEF ForgetStep
  <2>3. ctx'[w] = c /\ \A v \in Workers \ {w} : ctx'[v] = ctx[v]
    BY <2>1 DEF SetCtx, Inv, TypeOK
  <2> QED
    BY <2>1, <2>2, <2>3, Moved, MovedRested
<1> QED
  BY <1>1, <1>2 DEF Shaped

LEMMA NextRested ==
    ASSUME NoFailures
    PROVE  Inv /\ (\A w \in Workers : Rested(w)) /\ [Next]_vars => \A w \in Workers : Rested(w)'
<1> SUFFICES ASSUME Inv, \A w \in Workers : Rested(w), [Next]_vars
             PROVE  \A w \in Workers : Rested(w)'
  OBVIOUS
<1>1. CASE Push \/ UNCHANGED vars \/ \E w \in Api : PatchPackage(w) \/ CreateDestination(w)
  BY <1>1 DEF Push, PatchPackage, CreateDestination, vars, Rested, At
<1>2. ~Reject
  BY Bounds DEF Reject, NoFailures, Inv, TypeOK, Budget
<1>3. ASSUME NEW f \in EntityManager, NEW r \in Run, ReceiveStep(f, r)
      PROVE  \A w \in Workers : Rested(w)'
  <2>1. /\ Keep(Consumer, Clean(f)) /\ Go(Consumer, r) /\ r.pc # "idle"
        /\ \A v \in Workers \ {Consumer} : ctx'[v] = ctx[v]
    BY <1>3 DEF ReceiveStep, FlushOf
  <2> QED
    BY <2>1, ConsumerWorks, Moved, MovedRested
<1>4. ASSUME NEW t \in Tenants, NEW f \in EntityManager, NEW r \in Run, HydrateStep(t, f, r)
      PROVE  \A w \in Workers : Rested(w)'
  <2>1. /\ Keep(Consumer, Clean(f)) /\ Go(Consumer, r) /\ r.pc # "idle" /\ UNCHANGED ctx
    BY <1>4 DEF HydrateStep, FlushOf
  <2> QED
    BY <2>1, ConsumerWorks, Moved, MovedRested
<1>5. ASSUME NEW t \in Tenants, NEW f \in EntityManager, NEW r \in Run, CancelStep(t, f, r)
      PROVE  \A w \in Workers : Rested(w)'
  <2>1. /\ Keep(Consumer, PackageCanceled(Clean(f))) /\ Go(Consumer, r) /\ r.pc # "idle"
        /\ \A v \in Workers \ {Consumer} : ctx'[v] = ctx[v]
    BY <1>5 DEF CancelStep
  <2> QED
    BY <2>1, ConsumerWorks, Moved, MovedRested
<1>6. ASSUME NEW w \in Api, NEW r \in Run, OpenStep(w, r)
      PROVE  \A v \in Workers : Rested(v)'
  <2>1. /\ Keep(w, WithPackage(em[w])) /\ Go(w, r) /\ r.pc # "idle" /\ w \in Workers
        /\ \A v \in Workers \ {w} : ctx'[v] = ctx[v]
    BY <1>6 DEF OpenStep, Workers
  <2> QED
    BY <2>1, Moved, MovedRested
<1>7. ASSUME NEW w \in Api, NEW q, NEW e, NEW f, NEW r, PatchStep(w, q, e, f, r)
      PROVE  \A v \in Workers : Rested(v)'
  <2>1. /\ Keep(w, f) /\ Go(w, r) /\ r.pc # "idle" /\ w \in Workers
        /\ \A v \in Workers \ {w} : ctx'[v] = ctx[v]
    BY <1>7 DEF PatchStep, Workers
  <2> QED
    BY <2>1, Moved, MovedRested
<1>8. ASSUME NEW w \in Api, NEW e, ReactStep(w, e)
      PROVE  \A v \in Workers : Rested(v)'
  <2>1. Keep(w, FreshEm) /\ Go(w, Resting) /\ SetCtx(w, NoContext) /\ w \in Workers
    BY <1>8 DEF ReactStep, Workers
  <2>2. ctx'[w].tenant = None /\ \A v \in Workers \ {w} : ctx'[v] = ctx[v]
    BY <2>1 DEF SetCtx, NoContext, Inv, TypeOK
  <2> QED
    BY <2>1, <2>2, Moved, MovedRested
<1> QED
  BY <1>1, <1>2, <1>3, <1>4, <1>5, <1>6, <1>7, <1>8, NextShapes, ShapedRested

LEMMA RestedHolds ==
    ASSUME NoFailures
    PROVE  Spec => [](\A w \in Workers : Rested(w))
<1> DEFINE I == \A w \in Workers : Rested(w)
<1>1. Init => I
  BY DEF Init, Rested, NoContext
<1>2. Inv /\ I /\ [Next]_vars => I'
  BY NextRested
<1> HIDE DEF I
<1>3. Spec => []I
  BY <1>1, <1>2, InitInv, NextInv, PTL DEF Spec
<1> QED
  BY <1>3 DEF I

\* If no exception leaves a message half done, a process that rests has forgotten
\* whom it worked for, also after it published, crashed or lost a race on an index.
THEOREM ForgetsContext == ASSUME NoFailures PROVE Spec => []ContextForgotten
<1>1. (\A w \in Workers : Rested(w)) => ContextForgotten
  BY DEF Rested, ContextForgotten
<1> QED
  BY <1>1, RestedHolds, PTL

-----------------------------------------------------------------------------
(* The consumer and its message.                                           *)

\* No request publishes the package.
NoPublishRequest == PublishRequests = {}

\* An object that was loaded has the revision it was loaded with, which for the
\* consumer is still that of the row; only the consumer creates an article, and
\* until it is saved no other has. Requests are at places of their own, and the
\* consumer has articles left to do only inside of a loop.
Held(w) ==
    /\ \A t \in Tenants : em[w].art0[t] # None => em[w].art[t].rev = em[w].art0[t].rev
    /\ \A t \in Tenants : em[w].art[t] # None /\ em[w].art0[t] = None =>
         /\ w = Consumer /\ At(w, "save") /\ run[w].cur = t
         /\ art[t] = None /\ em[w].art[t].rev = em[w].pkg.rev
    /\ w \in Api => run[w].pc \in ApiPlaces
    /\ w = Consumer =>
         /\ \A t \in Tenants : em[w].art0[t] # None => art[t].rev = em[w].art0[t].rev
         /\ run[w].arts = {} \/ Looping(run[w])
         /\ run[w].pc # "patch"
         /\ At(w, "hydrate") => run[w].from = "hydrate"

\* Revisions wait in the order in which they were pushed.
Ordered == \A i \in 1 .. Len(queue) : queue[i].rev = (budget.pushes - Len(queue)) + i

\* The consumer's package is that of the message it works on.
Current ==
    ~At(Consumer, "idle") =>
      /\ em[Consumer].pkg.rev = Head(queue).rev
      /\ em[Consumer].pkg.pub = Head(queue).pub

Steady ==
    /\ \A w \in Workers : Held(w) /\ Rested(w)
    /\ Ordered
    /\ Current

\* f has the articles of e, in their revisions.
SameRevs(e, f) ==
    /\ f.art0 = e.art0
    /\ \A t \in Tenants :
         /\ f.art[t] = None <=> e.art[t] = None
         /\ e.art[t] # None => f.art[t].rev = e.art[t].rev

\* No row is inserted, removed or given another revision ...
RevsStay ==
    \A t \in Tenants : /\ art'[t] = None <=> art[t] = None
                       /\ art[t] # None => art'[t].rev = art[t].rev

\* ... but for one that the consumer inserts, in the revision of its message.
RevsStayBut(e) ==
    \A t \in Tenants : /\ art[t] # None => art'[t] # None /\ art'[t].rev = art[t].rev
                       /\ art[t] = None /\ art'[t] # None => art'[t].rev = e.pkg.rev

\* At every place but `idle' the consumer has its package.
LEMMA ConsumerPackage ==
    ASSUME Inv, Steady, ~At(Consumer, "idle")
    PROVE  em[Consumer].pkg # None /\ pkg # None /\ queue # <<>>
BY ConsumerWorks, ProcessState DEF Steady, Held, At, Inv, Sound, Fit, PackagePlaces, Run

\* A flush of such objects changes no revision.
LEMMA FlushedRevs ==
    ASSUME Inv, Tracked, Steady, NEW w \in Workers, NEW f \in EntityManager,
           SameRevs(em[w], f), NEW left, Flush(f, left)
    PROVE  /\ RevsStayBut(em[w])
           /\ w # Consumer \/ ~At(w, "save") => RevsStay
           /\ w = Consumer => \A t \in Tenants :
                f.art[t] # None => art'[t].rev = f.art[t].rev
<1>1. Held(w) /\ Managed(em[w])
  BY DEF Steady, Tracked
<1>2. \A t \in Tenants : f.art0[t] # None => f.art[t] # None /\ art[t] # None
  BY <1>1 DEF SameRevs, Managed
<1>3. \A t \in Tenants :
        /\ art[t] # None \/ f.art[t] # None => art'[t] # None
        /\ f.art[t] = None => art'[t] = art[t]
        /\ f.art[t] # None /\ f.art0[t] = None => art[t] = None /\ art'[t] = f.art[t]
        /\ f.art0[t] # None =>
             art'[t].rev = IF f.art[t].rev # f.art0[t].rev THEN f.art[t].rev ELSE art[t].rev
  BY <1>2, FlushedArticles
<1>4. \A t \in Tenants :
        /\ f.art0[t] # None => f.art[t].rev = f.art0[t].rev
        /\ f.art[t] # None /\ f.art0[t] = None =>
             w = Consumer /\ At(w, "save") /\ f.art[t].rev = em[w].pkg.rev
        /\ w = Consumer /\ f.art0[t] # None => art[t].rev = f.art0[t].rev
  BY <1>1, <1>2 DEF SameRevs, Held
<1> QED
  BY <1>2, <1>3, <1>4 DEF RevsStayBut, RevsStay

\* What one process does leaves the others steady: requests do not touch what
\* the consumer relies on.
LEMMA OthersHeld ==
    ASSUME Inv, Tracked, Steady, NEW w \in Workers, NEW f, Keep(w, f), NEW r, Go(w, r),
           w # Consumer => RevsStay
    PROVE  \A v \in Workers \ {w} : Held(v)'
<1> SUFFICES ASSUME NEW v \in Workers \ {w} PROVE Held(v)'
  OBVIOUS
<1>1. em'[v] = em[v] /\ run'[v] = run[v] /\ Held(v)
  BY Moved DEF Steady
<1>2. CASE v = Consumer
  <2>1. /\ RevsStay /\ em'[Consumer] = em[Consumer] /\ run'[Consumer] = run[Consumer]
        /\ Held(Consumer) /\ \A t \in Tenants : em[Consumer].art0[t] # None => art[t] # None
    BY <1>1, <1>2 DEF Tracked, Managed
  <2> QED
    BY <1>2, <2>1 DEF Held, RevsStay, At
<1>3. CASE v # Consumer
  BY <1>1, <1>3 DEF Held, At
<1> QED
  BY <1>2, <1>3

\* The queue does not change.
LEMMA SameQueue ==
    ASSUME Inv, Steady, UNCHANGED queue, budget'.pushes = budget.pushes,
           NEW w \in Workers, NEW f, Keep(w, f), NEW r, Go(w, r),
           w = Consumer => \/ r.pc = "idle"
                           \/ f.pkg.rev = Head(queue).rev /\ f.pkg.pub = Head(queue).pub
    PROVE  Ordered' /\ Current'
<1>1. /\ em'[w] = f /\ run'[w] = r
      /\ \A v \in Workers \ {w} : em'[v] = em[v] /\ run'[v] = run[v]
  BY Moved
<1>2. Current'
  BY <1>1, ConsumerWorks DEF Steady, Current, At
<1>3. Ordered'
  BY DEF Steady, Ordered
<1> QED
  BY <1>2, <1>3

LEMMA TouchedRevs ==
    ASSUME NEW e, NEW f, Touched(e, f)
    PROVE  SameRevs(e, f)
BY DEF Touched, SameRevs

\* Where the consumer's handlers go.
LEMMA HandlingPlaces ==
    ASSUME Steady, NEW w \in Workers, NEW r \in Run, Handling(w, r)
    PROVE  /\ w \in Api => r.pc \in ApiPlaces
           /\ w = Consumer => /\ r.arts = {} \/ Looping(r)
                              /\ r.pc # "patch"
                              /\ r.pc = "hydrate" => r.from = "hydrate"
BY DEF Steady, Held, Handling

LEMMA TouchSteady ==
    ASSUME Inv, Tracked, Steady, NEW w \in Workers, NEW f \in EntityManager, NEW r \in Run,
           TouchStep(w, f, r)
    PROVE  Steady'
<1>1. /\ em[w] \in EntityManager /\ Managed(em[w]) /\ Touched(em[w], f) /\ SameRevs(em[w], f)
      /\ Go(w, r) /\ Handling(w, r) /\ Held(w) /\ UNCHANGED queue /\ budget'.pushes = budget.pushes
      /\ r.pc # "idle" /\ run[w].pc # "idle"
  BY ProcessState, TouchedRevs DEF Tracked, TouchStep, Handling, Go, Steady
<1>2. Shaped(w)
  BY DEF Shaped
<1>3. \A v \in Workers : Rested(v)'
  BY <1>2, ShapedRested DEF Steady
<1>4. /\ w \in Api => r.pc \in ApiPlaces
      /\ w = Consumer => /\ r.arts = {} \/ Looping(r)
                         /\ r.pc # "patch"
                         /\ r.pc = "hydrate" => r.from = "hydrate"
  BY <1>1, HandlingPlaces
<1>5. w = Consumer => f.pkg.rev = Head(queue).rev /\ f.pkg.pub = Head(queue).pub
  <2>1. w = Consumer => /\ em[w].pkg.rev = Head(queue).rev /\ em[w].pkg.pub = Head(queue).pub
                        /\ em[w].pkg # None
    BY <1>1, ConsumerPackage DEF Steady, Current, At
  <2> QED
    BY <1>1, <2>1 DEF Touched
<1>6. CASE run[w].pc # "save" /\ Keep(w, f) /\ UNCHANGED db
  <2>1. em'[w] = f /\ run'[w] = r
    BY <1>1, <1>6, Moved
  <2>2. Held(w)'
    BY <1>1, <1>4, <1>6, <2>1 DEF Held, SameRevs, Managed, At, db
  <2>3. \A v \in Workers \ {w} : Held(v)'
    BY <1>1, <1>6, OthersHeld DEF RevsStay, db
  <2>4. Ordered' /\ Current'
    BY <1>1, <1>5, <1>6, SameQueue
  <2> QED
    BY <1>3, <2>2, <2>3, <2>4 DEF Steady
<1>7. CASE \E left \in [Entries -> Nat] : FlushOf(w, f, left)
  <2>1. PICK left : Flush(f, left) /\ Keep(w, Clean(f))
    BY <1>7 DEF FlushOf
  <2>2. em'[w] = Clean(f) /\ run'[w] = r
    BY <1>1, <2>1, Moved
  <2>3. /\ Clean(f).art0 = f.art /\ Clean(f).art = f.art /\ Clean(f).pkg = f.pkg
    BY CleanHas
  <2>4. w # Consumer => ~At(w, "save")
    BY <1>1 DEF Held, Workers, At, ApiPlaces
  <2>5. /\ w # Consumer => RevsStay
        /\ w = Consumer => \A t \in Tenants : f.art[t] # None => art'[t].rev = f.art[t].rev
    BY <1>1, <2>1, <2>4, FlushedRevs
  <2>6. Held(w)'
    BY <1>4, <2>2, <2>3, <2>5 DEF Held, At
  <2>7. \A v \in Workers \ {w} : Held(v)'
    BY <1>1, <2>1, <2>5, OthersHeld
  <2>8. Ordered' /\ Current'
    BY <1>1, <1>5, <2>1, <2>3, SameQueue
  <2> QED
    BY <1>3, <2>6, <2>7, <2>8 DEF Steady
<1> QED
  BY <1>6, <1>7 DEF TouchStep

LEMMA LoadSteady ==
    ASSUME Inv, Tracked, Steady, NEW w \in Workers, NEW f \in EntityManager, NEW r \in Run,
           LoadStep(w, f, r)
    PROVE  Steady'
<1>1. PICK T \in SUBSET Tenants : Touched(WithArticles(em[w], T), f)
  BY DEF LoadStep
<1>2. /\ em[w] \in EntityManager /\ Managed(em[w]) /\ Keep(w, f) /\ UNCHANGED db
      /\ Go(w, r) /\ Handling(w, r) /\ Held(w) /\ UNCHANGED queue /\ budget'.pushes = budget.pushes
      /\ r.pc # "idle" /\ run[w].pc \notin {"idle", "save"}
  BY ProcessState DEF Tracked, LoadStep, Handling, Go, Steady
<1>3. \A v \in Workers : Rested(v)'
  <2>1. Shaped(w)
    BY DEF Shaped
  <2> QED
    BY <2>1, ShapedRested DEF Steady
<1>4. /\ w \in Api => r.pc \in ApiPlaces
      /\ w = Consumer => /\ r.arts = {} \/ Looping(r)
                         /\ r.pc # "patch"
                         /\ r.pc = "hydrate" => r.from = "hydrate"
  BY <1>2, HandlingPlaces
<1> DEFINE e == WithArticles(em[w], T)
<1>5. /\ e.pkg = em[w].pkg
      /\ \A t \in Tenants : IF t \in T /\ em[w].art[t] = None
                            THEN e.art[t] = art[t] /\ e.art0[t] = art[t]
                            ELSE e.art[t] = em[w].art[t] /\ e.art0[t] = em[w].art0[t]
  BY <1>2, LoadedHas
<1>6. Touched(e, f)
  BY <1>1
<1> HIDE DEF e
<1>7. w = Consumer => f.pkg.rev = Head(queue).rev /\ f.pkg.pub = Head(queue).pub
  <2>1. w = Consumer => /\ em[w].pkg.rev = Head(queue).rev /\ em[w].pkg.pub = Head(queue).pub
                        /\ em[w].pkg # None
    BY <1>2, ConsumerPackage DEF Steady, Current, At
  <2> QED
    BY <1>5, <1>6, <2>1 DEF Touched
<1>8. /\ \A t \in Tenants : e.art[t] # None => e.art0[t] # None
      /\ \A t \in Tenants : e.art0[t] # None => e.art[t] # None /\ e.art[t].rev = e.art0[t].rev
      /\ w = Consumer => \A t \in Tenants : e.art0[t] # None => art[t].rev = e.art0[t].rev
  BY <1>2, <1>5 DEF Held, Managed, At
<1>9. em'[w] = f /\ run'[w] = r
  BY <1>2, Moved
<1>10. /\ \A t \in Tenants : f.art[t] # None => f.art0[t] # None
       /\ \A t \in Tenants : f.art0[t] # None => f.art[t].rev = f.art0[t].rev
       /\ w = Consumer => \A t \in Tenants : f.art0[t] # None => art[t].rev = f.art0[t].rev
  BY <1>6, <1>8 DEF Touched
<1>11. Held(w)'
  BY <1>2, <1>4, <1>9, <1>10 DEF Held, At, db
<1>12. \A v \in Workers \ {w} : Held(v)'
  BY <1>2, OthersHeld DEF RevsStay, db
<1>13. Ordered' /\ Current'
  BY <1>2, <1>7, SameQueue
<1> QED
  BY <1>3, <1>11, <1>12, <1>13 DEF Steady

LEMMA InsertSteady ==
    ASSUME Inv, Tracked, Steady, NEW w \in Workers, NEW f \in EntityManager, NEW r \in Run,
           InsertStep(w, f, r)
    PROVE  Steady'
<1>1. PICK a \in Article : /\ a.rev = em[w].pkg.rev
                           /\ f = [em[w] EXCEPT !.art0[r.cur] = None, !.art[r.cur] = a]
  BY DEF InsertStep
<1>2. /\ em[w] \in EntityManager /\ Held(w) /\ Go(w, r) /\ Keep(w, f) /\ Handling(w, r)
      /\ UNCHANGED <<db, queue>> /\ budget'.pushes = budget.pushes
      /\ r.cur \in Tenants /\ r.pc = "save" /\ art[r.cur] = None
      /\ run[w].pc \in {"publish", "populate"}
  BY ProcessState DEF InsertStep, Handling, Go, Steady
<1>3. w = Consumer
  BY <1>2 DEF Held, Workers, ApiPlaces
<1>4. \A v \in Workers : Rested(v)'
  <2>1. Shaped(w)
    BY DEF Shaped
  <2> QED
    BY <2>1, ShapedRested DEF Steady
<1>5. /\ f.pkg = em[w].pkg
      /\ \A u \in Tenants : /\ f.art[u] = IF u = r.cur THEN a ELSE em[w].art[u]
                            /\ f.art0[u] = IF u = r.cur THEN None ELSE em[w].art0[u]
  <2> DEFINE e == em[w]
             t == r.cur
  <2>1. e \in EntityManager /\ t \in Tenants /\ f = [e EXCEPT !.art0[t] = None, !.art[t] = a]
    BY <1>1, <1>2
  <2>2. /\ f.pkg = e.pkg
        /\ \A u \in Tenants : /\ f.art[u] = IF u = t THEN a ELSE e.art[u]
                              /\ f.art0[u] = IF u = t THEN None ELSE e.art0[u]
    <3> HIDE DEF e, t
    <3> QED
      BY <2>1 DEF EntityManager
  <2> QED
    BY <2>2
<1>6. w \notin Api /\ (r.arts = {} \/ Looping(r))
  BY <1>2, <1>3, ConsumerWorks, HandlingPlaces
<1>7. em'[w] = f /\ run'[w] = r
  BY <1>2, Moved
<1>8. Held(w)'
  BY <1>1, <1>2, <1>3, <1>5, <1>6, <1>7 DEF Held, At, db
<1>9. \A v \in Workers \ {w} : Held(v)'
  BY <1>2, <1>3, OthersHeld
<1>10. Ordered' /\ Current'
  <2>1. f.pkg.rev = Head(queue).rev /\ f.pkg.pub = Head(queue).pub
    BY <1>2, <1>3, <1>5 DEF Steady, Current, At
  <2> QED
    BY <1>2, <2>1, SameQueue
<1> QED
  BY <1>4, <1>8, <1>9, <1>10 DEF Steady

\* Nobody else inserts the article that the consumer creates.
LEMMA NoConflict == ASSUME Steady, NEW w \in Workers PROVE ~Conflict(em[w])
BY DEF Steady, Held, Conflict

\* The first message is acknowledged.
LEMMA TailOrdered ==
    ASSUME Inv, Ordered, queue # <<>>, queue' = Tail(queue), budget'.pushes = budget.pushes
    PROVE  Ordered'
<1> DEFINE n == Len(queue)
           p == budget.pushes
<1>1. queue \in Seq(Message) /\ p \in Nat
  BY Bounds DEF Inv, TypeOK, Budget
<1>2. /\ n \in Nat /\ n # 0 /\ Len(Tail(queue)) = n - 1
      /\ \A i \in 1 .. n - 1 : Tail(queue)[i] = queue[i + 1]
  BY <1>1
<1>3. \A i \in 1 .. n : queue[i].rev = (p - n) + i
  BY DEF Ordered
<1> HIDE DEF n, p
<1>4. \A i \in 1 .. n - 1 : Tail(queue)[i].rev = (p - (n - 1)) + i
  <2> SUFFICES ASSUME NEW i \in 1 .. n - 1
               PROVE  Tail(queue)[i].rev = (p - (n - 1)) + i
    OBVIOUS
  <2>1. i + 1 \in 1 .. n /\ (p - n) + (i + 1) = (p - (n - 1)) + i
    BY <1>1, <1>2
  <2> QED
    BY <1>2, <1>3, <2>1
<1> QED
  BY <1>2, <1>4 DEF Ordered, p

LEMMA ForgetSteady ==
    ASSUME Inv, Tracked, Steady, NEW w \in Workers, ForgetStep(w)
    PROVE  Steady'
<1>1. /\ Keep(w, FreshEm) /\ Go(w, Resting) /\ UNCHANGED db /\ budget'.pushes = budget.pushes
      /\ \/ run[w].pc # "idle" /\ UNCHANGED queue
         \/ w = Consumer /\ At(w, "processed") /\ queue' = Tail(queue)
  BY NoConflict DEF ForgetStep
<1>2. em'[w] = FreshEm /\ run'[w] = Resting
  BY <1>1, Moved
<1>3. \A v \in Workers : Rested(v)'
  <2>1. Shaped(w)
    BY DEF Shaped
  <2> QED
    BY <2>1, ShapedRested DEF Steady
<1>4. Held(w)'
  BY <1>2 DEF Held, FreshEm, NoArticles, Resting, ApiPlaces, Looping, At
<1>5. \A v \in Workers \ {w} : Held(v)'
  BY <1>1, OthersHeld DEF RevsStay, db
<1>6. Resting.pc = "idle"
  BY DEF Resting
<1>7. CASE UNCHANGED queue
  BY <1>1, <1>3, <1>4, <1>5, <1>6, <1>7, SameQueue DEF Steady
<1>8. CASE w = Consumer /\ At(w, "processed") /\ queue' = Tail(queue)
  <2>1. queue # <<>>
    BY <1>8, ConsumerPackage DEF At
  <2>2. Ordered'
    BY <1>1, <1>8, <2>1, TailOrdered DEF Steady
  <2>3. Current'
    BY <1>2, <1>6, <1>8 DEF Current, At
  <2> QED
    BY <1>3, <1>4, <1>5, <2>2, <2>3 DEF Steady
<1> QED
  BY <1>1, <1>7, <1>8

LEMMA ShapedSteady == ASSUME Inv, Tracked, Steady, NEW w \in Workers, Shaped(w) PROVE Steady'
BY TouchSteady, LoadSteady, InsertSteady, ForgetSteady DEF Shaped

\* The consumer, between messages, holds nothing.
LEMMA ReceiveSteady ==
    ASSUME Inv, Tracked, Steady, NEW f \in EntityManager, NEW r \in Run, ReceiveStep(f, r),
           \A v \in Workers : Rested(v)'
    PROVE  Steady'
<1>1. /\ em[Consumer] = FreshEm /\ Go(Consumer, r) /\ Keep(Consumer, Clean(f))
      /\ f.art = em[Consumer].art /\ Consumer \notin Api /\ Consumer \in Workers
      /\ r.pc \notin {"idle", "patch", "hydrate"} /\ r.arts = {}
      /\ f.pkg.pub = Head(queue).pub /\ f.pkg.rev = Head(queue).rev
      /\ UNCHANGED queue /\ budget'.pushes = budget.pushes
  BY ConsumerWorks DEF ReceiveStep, FlushOf, Steady, Rested, At
<1>2. Clean(f).art = f.art /\ Clean(f).art0 = f.art /\ Clean(f).pkg = f.pkg
  BY CleanHas
<1>3. em'[Consumer] = Clean(f) /\ run'[Consumer] = r
  BY <1>1, Moved
<1>4. \A t \in Tenants : f.art[t] = None
  BY <1>1 DEF FreshEm, NoArticles
<1>5. Held(Consumer)'
  BY <1>1, <1>2, <1>3, <1>4 DEF Held, At
<1>6. \A v \in Workers \ {Consumer} : Held(v)'
  BY <1>1, OthersHeld
<1>7. Ordered' /\ Current'
  BY <1>1, <1>2, SameQueue
<1> QED
  BY <1>5, <1>6, <1>7 DEF Steady

\* A correction gives the object and the row the revision of the package.
LEMMA HydratedRevs ==
    ASSUME Inv, Tracked, Steady, NEW t \in Tenants, NEW f \in EntityManager, NEW r \in Run,
           HydrateStep(t, f, r)
    PROVE  \A u \in Tenants :
             /\ f.art[u] # None => art'[u].rev = f.art[u].rev
             /\ art'[u] # None => IF u = t THEN art'[u].rev = em[Consumer].pkg.rev
                                  ELSE art[u] # None /\ art'[u].rev = art[u].rev
<1>1. /\ Held(Consumer) /\ Managed(em[Consumer]) /\ Flush(f, items)
      /\ run[Consumer].pc = "hydrate" /\ f.art0 = em[Consumer].art0
      /\ f.art[t] # None /\ f.art[t].rev = em[Consumer].pkg.rev /\ em[Consumer].art[t] # None
      /\ \A u \in Tenants \ {t} : f.art[u] = em[Consumer].art[u]
  BY ConsumerWorks DEF HydrateStep, FlushOf, Steady, Tracked
<1>2. \A u \in Tenants : f.art0[u] # None => f.art[u] # None /\ art[u] # None
  BY <1>1 DEF Managed
<1>3. \A u \in Tenants :
        /\ f.art[u] # None => f.art0[u] # None
        /\ f.art0[u] # None => art[u].rev = f.art0[u].rev
        /\ f.art0[u] # None /\ u # t => f.art[u].rev = f.art0[u].rev
  BY <1>1, ConsumerWorks DEF Held, At
<1>4. \A u \in Tenants :
        /\ f.art[u] = None => art'[u] = art[u]
        /\ f.art0[u] # None =>
             art'[u].rev = IF f.art[u].rev # f.art0[u].rev THEN f.art[u].rev ELSE art[u].rev
  BY <1>1, <1>2, FlushedArticles
<1> QED
  BY <1>1, <1>2, <1>3, <1>4

LEMMA HydrateSteady ==
    ASSUME Inv, Tracked, Steady, NEW t \in Tenants, NEW f \in EntityManager, NEW r \in Run,
           HydrateStep(t, f, r), \A v \in Workers : Rested(v)'
    PROVE  Steady'
<1>1. /\ Held(Consumer) /\ Go(Consumer, r) /\ Flush(f, items) /\ Keep(Consumer, Clean(f))
      /\ Consumer \notin Api /\ Consumer \in Workers
      /\ run[Consumer].pc = "hydrate" /\ r.pc = "articleRules" /\ r.from = run[Consumer].from
      /\ f.pkg = em[Consumer].pkg /\ UNCHANGED queue /\ budget'.pushes = budget.pushes
  BY ConsumerWorks DEF HydrateStep, FlushOf, Steady
<1>2. Looping(r) /\ r.pc \notin {"patch", "hydrate"}
  BY <1>1 DEF Held, Looping, At
<1>3. Clean(f).art = f.art /\ Clean(f).art0 = f.art /\ Clean(f).pkg = f.pkg
  BY CleanHas
<1>4. em'[Consumer] = Clean(f) /\ run'[Consumer] = r
  BY <1>1, Moved
<1>5. \A u \in Tenants : f.art[u] # None => art'[u].rev = f.art[u].rev
  BY HydratedRevs
<1>6. Held(Consumer)'
  BY <1>1, <1>2, <1>3, <1>4, <1>5 DEF Held, At
<1>7. \A v \in Workers \ {Consumer} : Held(v)'
  BY <1>1, OthersHeld
<1>8. Ordered' /\ Current'
  <2>1. f.pkg.pub = Head(queue).pub /\ f.pkg.rev = Head(queue).rev
    BY <1>1 DEF Steady, Current, At
  <2> QED
    BY <1>1, <1>3, <2>1, SameQueue
<1> QED
  BY <1>6, <1>7, <1>8 DEF Steady

LEMMA CancelSteady ==
    ASSUME Inv, Tracked, Steady, NEW t \in Tenants, NEW f \in EntityManager, NEW r \in Run,
           CancelStep(t, f, r), \A v \in Workers : Rested(v)'
    PROVE  Steady' /\ RevsStay
<1> DEFINE g == PackageCanceled(Clean(f))
<1>1. /\ Held(Consumer) /\ Go(Consumer, r) /\ Keep(Consumer, g)
      /\ Consumer \notin Api /\ Consumer \in Workers
      /\ run[Consumer].pc = "cancel" /\ r.pc = "cancel"
      /\ UNCHANGED queue /\ budget'.pushes = budget.pushes
      /\ f.pkg = em[Consumer].pkg /\ g.art = f.art /\ g.art0 = f.art
      /\ g.pkg.pub = f.pkg.pub /\ g.pkg.rev = f.pkg.rev
  BY ConsumerWorks DEF CancelStep, Steady
<1>2. PICK left : Flush(f, left)
  BY DEF CancelStep
<1>3. SameRevs(em[Consumer], f)
  BY DEF CancelStep, SameRevs
<1>4. RevsStay /\ \A u \in Tenants : f.art[u] # None => art'[u].rev = f.art[u].rev
  BY <1>1, <1>2, <1>3, FlushedRevs DEF At
<1>5. em'[Consumer] = g /\ run'[Consumer] = r
  BY <1>1, Moved
<1> HIDE DEF g
<1>6. Held(Consumer)'
  BY <1>1, <1>4, <1>5 DEF Held, At, Looping
<1>7. \A v \in Workers \ {Consumer} : Held(v)'
  BY <1>1, OthersHeld
<1>8. Ordered' /\ Current'
  <2>1. f.pkg.pub = Head(queue).pub /\ f.pkg.rev = Head(queue).rev
    BY <1>1 DEF Steady, Current, At
  <2> QED
    BY <1>1, <2>1, SameQueue
<1> QED
  BY <1>4, <1>6, <1>7, <1>8 DEF Steady

\* Requests: they start with nothing but what they load.
LEMMA OpenSteady ==
    ASSUME NoPublishRequest, Inv, Tracked, Steady, NEW w \in Api, NEW r \in Run,
           OpenStep(w, r), \A v \in Workers : Rested(v)'
    PROVE  Steady'
<1> DEFINE e == WithPackage(em[w])
<1>1. /\ w \in Workers /\ w # Consumer /\ em[w] = FreshEm /\ em[w] \in EntityManager
      /\ Go(w, r) /\ Keep(w, e) /\ UNCHANGED <<db, queue>> /\ budget'.pushes = budget.pushes
      /\ r.pc = "unpublishLoad"
  BY ConsumerWorks, ProcessState
  DEF Workers, OpenStep, NoPublishRequest, Steady, Rested, At
<1>2. e.art = em[w].art /\ e.art0 = em[w].art0
  BY <1>1, WithPackageType DEF Inv
<1> HIDE DEF e
<1>3. em'[w] = e /\ run'[w] = r
  BY <1>1, Moved
<1>4. Held(w)'
  BY <1>1, <1>2, <1>3 DEF Held, FreshEm, NoArticles, ApiPlaces
<1>5. \A v \in Workers \ {w} : Held(v)'
  BY <1>1, OthersHeld DEF RevsStay, db
<1>6. Ordered' /\ Current'
  BY <1>1, SameQueue
<1> QED
  BY <1>4, <1>5, <1>6 DEF Steady

LEMMA PatchSteady ==
    ASSUME Inv, Tracked, Steady, NEW w \in Api, NEW q \in ArticleRequests,
           NEW e \in EntityManager, NEW f \in EntityManager, NEW r \in Run,
           PatchStep(w, q, e, f, r), \A v \in Workers : Rested(v)'
    PROVE  Steady'
<1>1. /\ w \in Workers /\ w # Consumer /\ em[w] = FreshEm /\ em[w] \in EntityManager
      /\ Go(w, r) /\ Keep(w, f) /\ UNCHANGED <<db, queue>> /\ budget'.pushes = budget.pushes
      /\ r.pc = "patch" /\ art[q.tenant] # None
  BY ConsumerWorks, ProcessState DEF Workers, PatchStep, Steady, Rested, At
<1>2. \A t \in Tenants : em[w].art[t] = None /\ em[w].art0[t] = None
  BY <1>1 DEF FreshEm, NoArticles
<1>3. \A t \in Tenants : IF t = q.tenant
                         THEN e.art[t] = art[t] /\ e.art0[t] = art[t]
                         ELSE e.art[t] = None /\ e.art0[t] = None
  <2>1. \A t \in Tenants : IF t \in {q.tenant} /\ em[w].art[t] = None
                         THEN e.art[t] = art[t] /\ e.art0[t] = art[t]
                         ELSE e.art[t] = em[w].art[t] /\ e.art0[t] = em[w].art0[t]
    BY <1>1, LoadedHas DEF PatchStep
  <2> QED
    BY <1>2, <2>1
<1>4. /\ f.art0 = e.art0 /\ f.art[q.tenant].rev = art[q.tenant].rev
      /\ \A u \in Tenants \ {q.tenant} : f.art[u] = e.art[u]
  BY DEF PatchStep
<1>5. em'[w] = f /\ run'[w] = r
  BY <1>1, Moved
<1>6. Held(w)'
  BY <1>1, <1>3, <1>4, <1>5 DEF Held, ApiPlaces
<1>7. \A v \in Workers \ {w} : Held(v)'
  BY <1>1, OthersHeld DEF RevsStay, db
<1>8. Ordered' /\ Current'
  BY <1>1, SameQueue
<1> QED
  BY <1>6, <1>7, <1>8 DEF Steady

LEMMA ReactSteady ==
    ASSUME Inv, Tracked, Steady, NEW w \in Api, NEW e \in EntityManager, ReactStep(w, e),
           \A v \in Workers : Rested(v)'
    PROVE  Steady' /\ RevsStay
<1>1. /\ w \in Workers /\ w # Consumer /\ Keep(w, FreshEm) /\ Go(w, Resting)
      /\ SameRevs(em[w], e) /\ UNCHANGED queue /\ budget'.pushes = budget.pushes
  BY ConsumerWorks DEF Workers, ReactStep, SameRevs
<1>2. PICK left : Flush(e, left)
  BY DEF ReactStep
<1>3. RevsStay
  BY <1>1, <1>2, FlushedRevs
<1>4. em'[w] = FreshEm /\ run'[w] = Resting
  BY <1>1, Moved
<1>5. Held(w)'
  BY <1>1, <1>4 DEF Held, FreshEm, NoArticles, Resting, ApiPlaces
<1>6. \A v \in Workers \ {w} : Held(v)'
  BY <1>1, <1>3, OthersHeld
<1>7. Ordered' /\ Current'
  BY <1>1, SameQueue
<1> QED
  BY <1>3, <1>5, <1>6, <1>7 DEF Steady

\* A push goes to the end of the queue.
LEMMA PushSteady ==
    ASSUME Inv, Steady, Push, \A v \in Workers : Rested(v)'
    PROVE  Steady'
<1>1. PICK p \in PushStatuses, t \in PushTenants :
        queue' = Append(queue, [rev |-> budget.pushes + 1, pub |-> p, tenant |-> t])
  BY DEF Push
<1> DEFINE m == [rev |-> budget.pushes + 1, pub |-> p, tenant |-> t]
           n == Len(queue)
           b == budget.pushes
<1>2. queue \in Seq(Message) /\ b \in Nat /\ budget'.pushes = b + 1 /\ n \in Nat
  BY Bounds DEF Inv, TypeOK, Budget, Push
<1>3. m \in Message
  <2>1. b + 1 \in Revs
    BY <1>2, Bounds DEF Push, Revs
  <2> QED
    BY <2>1, RequestTypes DEF Message
<1>4. queue' = Append(queue, m)
  BY <1>1
<1>5. m.rev = b + 1
  OBVIOUS
<1> HIDE DEF m, b
<1>6. Len(queue') = n + 1 /\ queue'[n + 1] = m /\ \A i \in 1 .. n : queue'[i] = queue[i]
  BY <1>2, <1>3, <1>4
<1>7. \A i \in 1 .. n : queue[i].rev = (b - n) + i
  BY DEF Steady, Ordered, b
<1>8. Ordered'
  <2>1. ASSUME NEW i \in 1 .. n + 1
        PROVE  queue'[i].rev = ((b + 1) - (n + 1)) + i
    <3>1. CASE i = n + 1
      BY <1>2, <1>5, <1>6, <3>1
    <3>2. CASE i # n + 1
      <4>1. i \in 1 .. n /\ ((b + 1) - (n + 1)) + i = (b - n) + i
        BY <1>2, <3>2
      <4> QED
        BY <1>6, <1>7, <4>1
    <3> QED
      BY <3>1, <3>2
  <2> QED
    BY <1>2, <1>6, <2>1 DEF Ordered
<1>9. Current'
  <2>1. ~At(Consumer, "idle") => Head(queue') = Head(queue)
    <3>1. ~At(Consumer, "idle") => n # 0
      BY <1>2, ConsumerPackage
    <3> QED
      BY <1>2, <1>3, <1>4, <1>6, <3>1
  <2> QED
    BY <2>1 DEF Steady, Current, At, Push
<1>10. \A v \in Workers : Held(v)'
  BY DEF Push, Steady, Held, At, db
<1> QED
  BY <1>8, <1>9, <1>10 DEF Steady

LEMMA NextSteady ==
    ASSUME NoFailures, NoPublishRequest
    PROVE  Inv /\ Tracked /\ Steady /\ [Next]_vars => Steady'
<1> SUFFICES ASSUME Inv, Tracked, Steady, [Next]_vars PROVE Steady'
  OBVIOUS
<1>1. \A v \in Workers : Rested(v)'
  BY NextRested DEF Steady
<1>2. CASE \E w \in Api : PatchPackage(w) \/ CreateDestination(w)
  <2>1. UNCHANGED <<art, queue, em, run>> /\ budget'.pushes = budget.pushes
    BY <1>2, AcceptKeepsPushes DEF PatchPackage, CreateDestination, db, Workers
  <2> QED
    BY <1>1, <2>1 DEF Steady, Held, Ordered, Current, At
<1>3. ~Reject
  BY Bounds DEF Reject, NoFailures, Inv, TypeOK, Budget
<1>4. CASE UNCHANGED vars
  BY <1>1, <1>4 DEF vars, Steady, Held, Ordered, Current, At
<1> QED
  BY <1>1, <1>2, <1>3, <1>4, NextShapes, PushSteady, ShapedSteady, ReceiveSteady,
     HydrateSteady, CancelSteady, OpenSteady, PatchSteady, ReactSteady

LEMMA InitSteady == Init => Steady
<1> SUFFICES ASSUME Init PROVE Steady
  OBVIOUS
<1>1. \A w \in Workers : Held(w) /\ Rested(w)
  BY DEF Init, Held, Rested, FreshEm, NoArticles, NoContext, Resting, ApiPlaces, At
<1>2. Ordered /\ Current
  BY ConsumerWorks DEF Init, Ordered, Current, At, Resting
<1> QED
  BY <1>1, <1>2 DEF Steady

LEMMA SteadyHolds ==
    ASSUME NoFailures, NoPublishRequest
    PROVE  Spec => [](Inv /\ Tracked /\ Steady)
<1>1. Inv /\ Tracked /\ Steady /\ [Next]_vars => Steady'
  BY NextSteady
<1> QED
  BY <1>1, InitSteady, TrackedHolds, PTL DEF Spec

-----------------------------------------------------------------------------
(* The message and the row of the package.                                 *)

\* The row of the package keeps its pubStatus.
PubStays == pkg # None => pkg' # None /\ pkg'.pub = pkg.pub

\* A consumer that is at work was so before, with the same message.
Onward == ~At(Consumer, "idle")' => ~At(Consumer, "idle") /\ Head(queue') = Head(queue)

\* While a message is handled, the row has pubStatus s only if the message has.
Row(s) ==
    ~At(Consumer, "idle") /\ pkg # None /\ pkg.pub = s => Head(queue).pub = s

LEMMA FlushedPub ==
    ASSUME Inv, NEW e \in EntityManager, NEW left, Flush(e, left),
           e.pkg # None => e.pkg0 # None /\ e.pkg.pub = e.pkg0.pub
    PROVE  PubStays
BY FlushedPackage DEF PubStays

LEMMA ShapedGoes ==
    ASSUME Inv, Tracked, Steady, NEW w \in Workers, Shaped(w)
    PROVE  PubStays /\ Onward
<1>1. ASSUME NEW f \in EntityManager, NEW r \in Run,
             TouchStep(w, f, r) \/ LoadStep(w, f, r) \/ InsertStep(w, f, r)
      PROVE  PubStays /\ Onward
  <2>1. Handling(w, r) /\ UNCHANGED queue /\ Go(w, r) /\ (\E e : Keep(w, e))
        /\ run[w].pc # "idle"
    BY <1>1 DEF TouchStep, LoadStep, InsertStep, FlushOf, Handling, Go
  <2>2. \A v \in Workers \ {w} : run'[v] = run[v]
    BY <2>1, Moved
  <2>3. Onward
    BY <2>1, <2>2, ConsumerWorks DEF Onward, At
  <2>4. CASE UNCHANGED db
    BY <2>3, <2>4 DEF db, PubStays
  <2>5. CASE Touched(em[w], f) /\ \E left \in [Entries -> Nat] : FlushOf(w, f, left)
    <3>1. f.pkg # None => f.pkg0 # None /\ f.pkg.pub = f.pkg0.pub
      BY <2>5 DEF Tracked, Managed, Touched
    <3> QED
      BY <2>3, <2>5, <3>1, FlushedPub DEF FlushOf
  <2> QED
    BY <1>1, <2>3, <2>4, <2>5 DEF TouchStep, LoadStep, InsertStep
<1>2. CASE ForgetStep(w)
  <2>1. Keep(w, FreshEm) /\ Go(w, Resting) /\ UNCHANGED db
    BY <1>2 DEF ForgetStep
  <2>2. run'[w] = Resting /\ \A v \in Workers \ {w} : run'[v] = run[v]
    BY <2>1, Moved
  <2>3. w = Consumer \/ UNCHANGED queue
    BY <1>2, NoConflict DEF ForgetStep
  <2> QED
    BY <2>1, <2>2, <2>3, ConsumerWorks DEF db, PubStays, Onward, At, Resting
<1> QED
  BY <1>1, <1>2 DEF Shaped

LEMMA PushedHead ==
    ASSUME Inv, Steady, Push
    PROVE  queue' # <<>> /\ Onward
<1>1. PICK m : queue' = Append(queue, m)
  BY DEF Push
<1>2. queue \in Seq(Message) /\ UNCHANGED run
  BY DEF Inv, TypeOK, Push
<1>3. queue' # <<>> /\ (queue # <<>> => Head(queue') = Head(queue))
  BY <1>1, <1>2
<1> QED
  BY <1>2, <1>3, ConsumerPackage DEF Onward, At

\* Only a message and a PATCH of the package change its pubStatus.
LEMMA NextGoes ==
    ASSUME NoFailures, Inv, Tracked, Steady, [Next]_vars
    PROVE  \/ PubStays /\ Onward
           \/ \E f \in EntityManager, r \in Run : ReceiveStep(f, r)
           \/ (\E w \in Api : PatchPackage(w)) /\ Onward
<1>1. CASE Push
  BY <1>1, PushedHead DEF Push, PubStays, db
<1>2. ASSUME NEW t \in Tenants, NEW f \in EntityManager, NEW r \in Run,
             HydrateStep(t, f, r) \/ CancelStep(t, f, r)
      PROVE  PubStays /\ Onward
  <2>1. /\ f.pkg = em[Consumer].pkg /\ f.pkg0 = em[Consumer].pkg0
        /\ \E left \in [Entries -> Nat] : Flush(f, left)
        /\ run[Consumer].pc # "idle" /\ UNCHANGED queue
    BY <1>2 DEF HydrateStep, CancelStep, FlushOf, Inv, TypeOK
  <2>2. f.pkg # None => f.pkg0 # None /\ f.pkg.pub = f.pkg0.pub
    BY <2>1, ConsumerWorks DEF Tracked, Managed
  <2> QED
    BY <2>1, <2>2, FlushedPub DEF Onward, At
<1>3. ASSUME NEW w \in Api, NEW f, NEW r, Keep(w, f), Go(w, r), UNCHANGED <<db, queue>>
      PROVE  PubStays /\ Onward
  <2>1. w \in Workers /\ w # Consumer
    BY ConsumerWorks DEF Workers
  <2>2. Onward
    BY <1>3, <2>1, Moved, ConsumerWorks DEF Onward, At
  <2> QED
    BY <1>3, <2>2 DEF PubStays, db
<1>4. ASSUME NEW w \in Api, CreateDestination(w) \/ PatchPackage(w)
      PROVE  Onward /\ (PatchPackage(w) \/ PubStays)
  BY <1>4 DEF CreateDestination, PatchPackage, Onward, PubStays, At, db
<1>5. ASSUME NEW w \in Api, NEW q, NEW e, NEW f, NEW r, PatchStep(w, q, e, f, r)
      PROVE  PubStays /\ Onward
  BY <1>3, <1>5 DEF PatchStep
<1>6. ASSUME NEW w \in Api, NEW r, OpenStep(w, r)
      PROVE  PubStays /\ Onward
  BY <1>3, <1>6 DEF OpenStep
<1>7. ASSUME NEW w \in Api, NEW e \in EntityManager, ReactStep(w, e)
      PROVE  PubStays /\ Onward
  <2>1. /\ w \in Workers \ {Consumer} /\ Keep(w, FreshEm) /\ Go(w, Resting) /\ UNCHANGED queue
        /\ \E left \in [Entries -> Nat] : Flush(e, left)
    BY <1>7, ConsumerWorks DEF Workers, ReactStep
  <2>2. e.pkg # None => e.pkg0 # None /\ e.pkg.pub = e.pkg0.pub
    BY <1>7, <2>1 DEF ReactStep, Tracked, Managed
  <2>3. Onward
    BY <2>1, Moved, ConsumerWorks DEF Onward, At
  <2> QED
    BY <2>1, <2>2, <2>3, FlushedPub
<1>8. ~Reject
  BY Bounds DEF Reject, NoFailures, Inv, TypeOK, Budget
<1>9. CASE UNCHANGED vars
  BY <1>9 DEF vars, PubStays, Onward, At
<1> QED
  BY <1>1, <1>2, <1>4, <1>5, <1>6, <1>7, <1>8, <1>9, NextShapes, ShapedGoes

\* The consumer, between messages, finds the row itself.
LEMMA ReceivedPub ==
    ASSUME Inv, Tracked, Steady, NEW f \in EntityManager, NEW r \in Run, ReceiveStep(f, r)
    PROVE  pkg' # None /\ pkg'.pub = Head(queue).pub
<1>1. em[Consumer] = FreshEm /\ f.pkg.pub = Head(queue).pub
  BY ConsumerWorks DEF ReceiveStep, Steady, Rested, At
<1>2. em[Consumer].pkg = None
  BY <1>1 DEF FreshEm
<1>3. f.pkg0 = pkg
  BY <1>2, ReceivedRow
<1> QED
  BY <1>1, <1>3, ReceivedRow

LEMMA NextRow ==
    ASSUME NoFailures, NEW s, s \notin PackageRequests,
           Inv, Tracked, Steady, Row(s), [Next]_vars
    PROVE  Row(s)'
<1>1. CASE PubStays /\ Onward
  BY <1>1, ConsumerPackage DEF PubStays, Onward, Row
<1>2. ASSUME NEW f \in EntityManager, NEW r \in Run, ReceiveStep(f, r)
      PROVE  Row(s)'
  BY <1>2, ReceivedPub DEF Row, ReceiveStep
<1>3. CASE (\E w \in Api : PatchPackage(w)) /\ Onward
  <2>1. PICK p \in PackageRequests :
          pkg' = [pkg EXCEPT !.pub = p, !.status = IF p = "canceled" THEN "canceled" ELSE @]
    BY <1>3 DEF PatchPackage
  <2>2. pkg \in Package
    BY <1>3 DEF PatchPackage, Inv, TypeOK
  <2>3. pkg'.pub # s
    BY <2>1, <2>2 DEF Package
  <2> QED
    BY <2>3 DEF Row
<1> QED
  BY <1>1, <1>2, <1>3, NextGoes

-----------------------------------------------------------------------------
(* Every article shows the last revision.                                  *)

\* No request makes a withheld or killed package usable again.
NoRevival == "usable" \notin PackageRequests

\* The loop over the articles has corrected those that are not left to do; it
\* corrects none of a package that is not usable.
Corrected ==
    ~At(Consumer, "idle") /\ ~At(Consumer, "onUpdated") /\ Head(queue).pub = "usable" =>
        \A t \in Existing \ run[Consumer].arts : art[t].rev = Head(queue).rev

\* FreshContent, also while requests are handled.
Fresh ==
    At(Consumer, "idle") /\ queue = <<>> /\ pkg # None /\ pkg.pub = "usable" =>
        \A t \in Existing : art[t].rev = budget.pushes

FreshInv == Row("usable") /\ Corrected /\ Fresh

\* A step that is not the consumer's.
LEMMA OtherFresh ==
    ASSUME Inv, Steady, FreshInv, RevsStay, Onward, run'[Consumer] = run[Consumer],
           pkg # None /\ pkg'.pub = "usable" => pkg.pub = "usable",
           queue' # <<>> \/ (UNCHANGED queue /\ budget'.pushes = budget.pushes)
    PROVE  Corrected' /\ Fresh'
<1>1. Existing' = Existing /\ \A t \in Existing : art'[t].rev = art[t].rev
  BY DEF RevsStay, Existing
<1>2. Corrected'
  BY <1>1 DEF FreshInv, Corrected, Onward, At
<1>3. Fresh'
  <2>1. Existing # {} => pkg # None
    BY DEF Existing, Inv, Sound
  <2> QED
    BY <1>1, <2>1 DEF FreshInv, Fresh, At
<1> QED
  BY <1>2, <1>3

\* The consumer goes on with its message: what is left to do stays, or it is
\* all that exists.
LEMMA HandledFresh ==
    ASSUME Inv, Steady, FreshInv, NEW r, Handling(Consumer, r),
           RevsStayBut(em[Consumer]), NEW f, Keep(Consumer, f)
    PROVE  Corrected' /\ Fresh'
<1>1. /\ run[Consumer].pc # "idle" /\ r.pc # "idle" /\ r.pc # "onUpdated" /\ UNCHANGED queue
      /\ run'[Consumer] = r
      /\ \/ r.arts = run[Consumer].arts /\ ~(At(Consumer, "onUpdated") /\ em[Consumer].pkg.pub = "usable")
         \/ r.arts = Existing
  BY ConsumerWorks, Moved DEF Handling, Go
<1>2. em[Consumer].pkg.rev = Head(queue).rev /\ em[Consumer].pkg.pub = Head(queue).pub
  BY <1>1 DEF Steady, Current, At
<1>3. ASSUME Head(queue).pub = "usable", NEW t \in Existing', t \notin r.arts
      PROVE  art'[t].rev = Head(queue).rev
  <2>1. t \in Tenants /\ art'[t] # None
    BY <1>3 DEF Existing
  <2>2. CASE art[t] = None
    BY <1>2, <2>1, <2>2 DEF RevsStayBut
  <2>3. CASE art[t] # None
    <3>1. t \in Existing /\ art'[t].rev = art[t].rev
      BY <2>1, <2>3 DEF Existing, RevsStayBut
    <3>2. r.arts = run[Consumer].arts /\ ~At(Consumer, "onUpdated")
      BY <1>1, <1>2, <1>3, <3>1
    <3> QED
      BY <1>1, <1>3, <3>1, <3>2 DEF FreshInv, Corrected, At
  <2> QED
    BY <2>2, <2>3
<1> QED
  BY <1>1, <1>3 DEF Corrected, Fresh, At

\* It acknowledges its message, or crashes.
LEMMA ForgetFresh ==
    ASSUME Inv, Steady, FreshInv, ForgetStep(Consumer)
    PROVE  Corrected' /\ Fresh'
<1>1. /\ UNCHANGED db /\ budget'.pushes = budget.pushes
      /\ run'[Consumer] = Resting
      /\ \/ run[Consumer].pc # "idle" /\ UNCHANGED queue
         \/ At(Consumer, "processed") /\ queue' = Tail(queue)
  BY ConsumerWorks, NoConflict, Moved DEF ForgetStep
<1>2. run'[Consumer].pc = "idle"
  BY <1>1 DEF Resting
<1>3. ~At(Consumer, "idle") /\ queue # <<>> /\ pkg # None
  BY <1>1, ConsumerPackage DEF At
<1>4. Fresh'
  <2> SUFFICES ASSUME queue' = <<>>, pkg.pub = "usable", NEW t \in Existing
               PROVE  art[t].rev = budget.pushes
    BY <1>1 DEF Fresh, Existing, db
  <2>1. At(Consumer, "processed") /\ Tail(queue) = <<>>
    BY <1>1, <1>3
  <2>2. run[Consumer].arts = {}
    BY <2>1, ConsumerWorks DEF Steady, Held, Looping, At
  <2>3. art[t].rev = Head(queue).rev
    BY <1>3, <2>1, <2>2 DEF FreshInv, Row, Corrected, At
  <2>4. Head(queue).rev = budget.pushes
    <3>1. queue \in Seq(Message) /\ budget.pushes \in Nat
      BY Bounds DEF Inv, TypeOK, Budget
    <3>2. Len(queue) = 1 /\ Head(queue) = queue[1]
      <4>1. Len(queue) \in Nat /\ Len(queue) # 0 /\ Len(Tail(queue)) = Len(queue) - 1
        BY <1>3, <3>1
      <4> QED
        BY <2>1, <3>1, <4>1
    <3>3. queue[1].rev = (budget.pushes - 1) + 1
      BY <3>2 DEF Steady, Ordered
    <3> QED
      BY <3>1, <3>2, <3>3
  <2> QED
    BY <2>3, <2>4
<1> QED
  BY <1>2, <1>4 DEF Corrected, At

LEMMA ShapedFresh ==
    ASSUME Inv, Tracked, Steady, FreshInv, NEW w \in Workers, Shaped(w)
    PROVE  Corrected' /\ Fresh'
<1>1. PubStays /\ Onward
  BY ShapedGoes
<1>2. ASSUME NEW f \in EntityManager, NEW r \in Run,
             TouchStep(w, f, r) \/ LoadStep(w, f, r) \/ InsertStep(w, f, r)
      PROVE  Corrected' /\ Fresh'
  <2>1. /\ Handling(w, r) /\ Go(w, r) /\ UNCHANGED queue /\ budget'.pushes = budget.pushes
        /\ \E e : Keep(w, e)
    BY <1>2 DEF TouchStep, LoadStep, InsertStep, FlushOf, Handling, Go
  <2>2. RevsStayBut(em[w]) /\ (w # Consumer => RevsStay)
    <3>1. CASE UNCHANGED db
      BY <3>1 DEF db, RevsStayBut, RevsStay
    <3>2. CASE TouchStep(w, f, r) /\ ~UNCHANGED db
      <4>1. PICK left : Flush(f, left)
        BY <3>2 DEF TouchStep, FlushOf
      <4> QED
        BY <3>2, <4>1, TouchedRevs, FlushedRevs DEF TouchStep
    <3> QED
      BY <1>2, <3>1, <3>2 DEF LoadStep, InsertStep
  <2>3. CASE w = Consumer
    BY <2>1, <2>2, <2>3, HandledFresh
  <2>4. CASE w # Consumer
    <3>1. run'[Consumer] = run[Consumer]
      BY <2>1, <2>4, Moved, ConsumerWorks
    <3> QED
      BY <1>1, <2>1, <2>2, <2>4, <3>1, OtherFresh DEF PubStays
  <2> QED
    BY <2>3, <2>4
<1>3. CASE ForgetStep(w) /\ w = Consumer
  BY <1>3, ForgetFresh
<1>4. CASE ForgetStep(w) /\ w # Consumer
  <2>1. /\ RevsStay /\ UNCHANGED queue /\ budget'.pushes = budget.pushes
        /\ Keep(w, FreshEm) /\ Go(w, Resting)
    BY <1>4, NoConflict DEF ForgetStep, RevsStay, db
  <2>2. run'[Consumer] = run[Consumer]
    BY <1>4, <2>1, Moved, ConsumerWorks
  <2> QED
    BY <1>1, <2>1, <2>2, OtherFresh DEF PubStays
<1> QED
  BY <1>2, <1>3, <1>4 DEF Shaped

\* A first revision finds no article, a later one has them corrected first.
LEMMA ReceiveFresh ==
    ASSUME Inv, Tracked, Steady, NEW f \in EntityManager, NEW r \in Run, ReceiveStep(f, r)
    PROVE  Corrected' /\ Fresh'
<1>1. /\ em[Consumer] = FreshEm /\ Go(Consumer, r) /\ Keep(Consumer, Clean(f))
      /\ Flush(f, items) /\ f.art = em[Consumer].art /\ f.art0 = em[Consumer].art0
      /\ UNCHANGED queue /\ queue # <<>>
      /\ r.pc = IF WithPackage(em[Consumer]).pkg = None THEN "processRules" ELSE "onUpdated"
  BY ConsumerWorks DEF ReceiveStep, FlushOf, Steady, Rested, At
<1>2. run'[Consumer] = r
  BY <1>1, Moved, ConsumerWorks
<1>3. WithPackage(em[Consumer]).pkg = pkg
  BY <1>1, ProcessState, ConsumerWorks DEF WithPackage, FreshEm, EntityManager
<1>4. r.pc # "onUpdated" => Existing' = {}
  <2>1. \A t \in Tenants : f.art[t] = None /\ f.art0[t] = None
    BY <1>1 DEF FreshEm, NoArticles
  <2>2. \A t \in Tenants : art'[t] = art[t]
    BY <1>1, <2>1, FlushedArticles
  <2>3. pkg = None => \A t \in Tenants : art[t] = None
    BY DEF Inv, Sound
  <2> QED
    BY <1>1, <1>3, <2>2, <2>3 DEF Existing
<1> QED
  BY <1>1, <1>2, <1>4 DEF Corrected, Fresh, At

LEMMA HydrateFresh ==
    ASSUME Inv, Tracked, Steady, FreshInv,
           NEW t \in Tenants, NEW f \in EntityManager, NEW r \in Run, HydrateStep(t, f, r)
    PROVE  Corrected' /\ Fresh'
<1>1. /\ run'[Consumer] = r /\ run[Consumer].pc = "hydrate" /\ r.pc = "articleRules"
      /\ r.arts = run[Consumer].arts \ {t} /\ UNCHANGED queue
  BY ConsumerWorks, Moved DEF HydrateStep, FlushOf
<1>2. em[Consumer].pkg.rev = Head(queue).rev
  BY <1>1 DEF Steady, Current, At
<1>3. ASSUME Head(queue).pub = "usable", NEW u \in Existing', u \notin r.arts
      PROVE  art'[u].rev = Head(queue).rev
  <2>1. /\ u \in Tenants
        /\ IF u = t THEN art'[u].rev = em[Consumer].pkg.rev
           ELSE art[u] # None /\ art'[u].rev = art[u].rev
    BY <1>3, HydratedRevs DEF Existing
  <2>2. u # t => u \in Existing \ run[Consumer].arts
    BY <1>1, <1>3, <2>1 DEF Existing
  <2> QED
    BY <1>1, <1>2, <1>3, <2>1, <2>2 DEF FreshInv, Corrected, At
<1> QED
  BY <1>1, <1>3 DEF Corrected, Fresh, At

LEMMA CancelFresh ==
    ASSUME Inv, Tracked, Steady,
           NEW t \in Tenants, NEW f \in EntityManager, NEW r \in Run, CancelStep(t, f, r)
    PROVE  Corrected' /\ Fresh'
<1>1. /\ run'[Consumer] = r /\ run[Consumer].pc = "cancel" /\ r.pc = "cancel" /\ UNCHANGED queue
  BY ConsumerWorks, Moved DEF CancelStep
<1>2. Head(queue).pub = "canceled"
  BY <1>1 DEF Steady, Current, Tracked, At
<1> QED
  BY <1>1, <1>2 DEF Corrected, Fresh, At

LEMMA NextFresh ==
    ASSUME NoFailures, NoPublishRequest, NoRevival
    PROVE  Inv /\ Tracked /\ Steady /\ FreshInv /\ [Next]_vars => FreshInv'
<1> SUFFICES ASSUME Inv, Tracked, Steady, FreshInv, [Next]_vars PROVE FreshInv'
  OBVIOUS
<1>1. Row("usable")'
  BY NextRow DEF FreshInv, NoRevival
<1>2. Corrected' /\ Fresh'
  <2>1. \A v \in Workers : Rested(v)'
    BY NextRested DEF Steady
  <2>2. CASE Push
    BY <2>2, PushedHead, OtherFresh DEF Push, RevsStay, db
  <2>3. ASSUME NEW w \in Api, NEW f, NEW r, Keep(w, f), Go(w, r), UNCHANGED <<db, queue>>,
               budget'.pushes = budget.pushes
        PROVE  Corrected' /\ Fresh'
    <3>1. run'[Consumer] = run[Consumer]
      BY <2>3, Moved, ConsumerWorks DEF Workers
    <3> QED
      BY <2>3, <3>1, OtherFresh DEF Onward, RevsStay, At, db
  <2>4. ASSUME NEW w \in Api, NEW e \in EntityManager, ReactStep(w, e)
        PROVE  Corrected' /\ Fresh'
    <3>1. RevsStay
      BY <2>1, <2>4, ReactSteady
    <3>2. /\ w \in Workers /\ w # Consumer /\ Managed(em[w]) /\ UNCHANGED <<queue, budget>>
          /\ Keep(w, FreshEm) /\ Go(w, Resting) /\ \E left : Flush(e, left)
      BY <2>4, ConsumerWorks DEF ReactStep, Workers, Tracked
    <3>3. run'[Consumer] = run[Consumer]
      BY <3>2, Moved, ConsumerWorks
    <3>4. PubStays
      BY <2>4, <3>2, FlushedPub DEF ReactStep, Managed
    <3> QED
      BY <3>1, <3>2, <3>3, <3>4, OtherFresh DEF Onward, PubStays, At
  <2>5. CASE \E w \in Api : CreateDestination(w)
    BY <2>5, OtherFresh, AcceptKeepsPushes DEF CreateDestination, RevsStay, Onward, At, db, Workers
  <2>6. CASE \E w \in Api : PatchPackage(w)
    <3>1. PICK w \in Api : PatchPackage(w)
      BY <2>6
    <3>2. PICK p \in PackageRequests :
            pkg' = [pkg EXCEPT !.pub = p, !.status = IF p = "canceled" THEN "canceled" ELSE @]
      BY <3>1 DEF PatchPackage
    <3>3. pkg \in Package
      BY <3>1 DEF PatchPackage, Inv, TypeOK
    <3>4. pkg'.pub # "usable"
      BY <3>2, <3>3 DEF Package, NoRevival
    <3> QED
      BY <3>1, <3>4, OtherFresh, AcceptKeepsPushes DEF PatchPackage, RevsStay, Onward, At, Workers
  <2>7. ~Reject
    BY Bounds DEF Reject, NoFailures, Inv, TypeOK, Budget
  <2>8. CASE UNCHANGED vars
    BY <2>8 DEF vars, FreshInv, Corrected, Fresh, Existing, At
  <2>9. ASSUME NEW w \in Api, NEW r, OpenStep(w, r)
        PROVE  Corrected' /\ Fresh'
    BY <2>3, <2>9 DEF OpenStep
  <2>10. ASSUME NEW w \in Api, NEW q, NEW e, NEW f, NEW r, PatchStep(w, q, e, f, r)
         PROVE  Corrected' /\ Fresh'
    BY <2>3, <2>10 DEF PatchStep
  <2> QED
    BY <2>2, <2>4, <2>5, <2>6, <2>7, <2>8, <2>9, <2>10, NextShapes, ShapedFresh,
       ReceiveFresh, HydrateFresh, CancelFresh
<1> QED
  BY <1>1, <1>2 DEF FreshInv

\* Every usable package that is done shows its last revision in all of its articles,
\* however often the correction of them was interrupted by crashes and whatever
\* editors did to the articles meanwhile; only requests that publish the package
\* (from what they loaded before) and rejected messages (out of order) are left out.
THEOREM CorrectsAll ==
    ASSUME NoFailures, NoPublishRequest, NoRevival
    PROVE  Spec => []FreshContent
<1>1. Init => FreshInv
  <2> SUFFICES ASSUME Init PROVE FreshInv
    OBVIOUS
  <2>1. At(Consumer, "idle") /\ pkg = None
    BY ConsumerWorks DEF Init, At, Resting
  <2> QED
    BY <2>1 DEF FreshInv, Row, Corrected, Fresh
<1>2. Inv /\ Tracked /\ Steady /\ FreshInv /\ [Next]_vars => FreshInv'
  BY NextFresh
<1>3. FreshInv => FreshContent
  BY ConsumerWorks DEF FreshInv, Fresh, FreshContent, Quiet
<1>4. Spec => []FreshInv
  BY <1>1, <1>2, SteadyHolds, PTL DEF Spec
<1> QED
  BY <1>3, <1>4, PTL

-----------------------------------------------------------------------------
(* A killed story stays down.                                              *)

\* No destination publishes the story whatever its pubStatus, and no request kills
\* a package without its articles or publishes one of them again.
NoDestinations == DestinationRequests = {} /\ \A t \in Tenants : InitialDest[t] = None
NoKillRequest == "canceled" \notin PackageRequests
NoArticlePublishRequest == \A q \in ArticleRequests : q.status # "published"

\* A public article was loaded so.
Unpublishing(e) == \A t \in Tenants : Public(e.art[t]) => Public(e.art0[t])

\* A flush publishes nothing ...
NonePublished == \A t \in Tenants : Public(art'[t]) => Public(art[t])

\* ... and its rows are not public where the objects are not.
HiddenRows(e) ==
    \A t \in Tenants : e.art0[t] # None /\ ~Public(e.art0[t]) => ~Public(art[t])

\* While it handles a killed package the consumer publishes nothing, and it has
\* canceled all articles but those it has left to do.
KillsAll ==
    ~At(Consumer, "idle") /\ Head(queue).pub = "canceled" =>
        /\ run[Consumer].pc \in KillPlaces /\ run[Consumer].dests = {}
        /\ Unpublishing(em[Consumer]) /\ HiddenRows(em[Consumer])
        /\ run[Consumer].pc \notin {"onUpdated", "onCanceled"} =>
             \A t \in Tenants \ run[Consumer].arts : ~Public(art[t])

\* KilledStaysDown, also while requests are handled.
Down ==
    At(Consumer, "idle") /\ queue = <<>> /\ pkg # None /\ pkg.pub = "canceled" =>
        \A t \in Tenants : ~Public(art[t])

\* Requests publish no article.
RequestsUnpublish == \A w \in Api : Unpublishing(em[w])

DownInv ==
    /\ \A t \in Tenants : dest[t] = None
    /\ RequestsUnpublish
    /\ Row("canceled") /\ KillsAll /\ Down

LEMMA FlushHides ==
    ASSUME Inv, NEW e \in EntityManager, NEW left, Flush(e, left), Unpublishing(e),
           \A t \in Tenants : e.art0[t] # None => e.art[t] # None /\ art[t] # None
    PROVE  /\ NonePublished
           /\ HiddenRows(e) => \A t \in Tenants :
                e.art[t] # None /\ ~Public(e.art[t]) => ~Public(art'[t])
<1>1. \A t \in Tenants :
        /\ art[t] # None \/ e.art[t] # None => art'[t] # None
        /\ e.art[t] = None => art'[t] = art[t]
        /\ e.art[t] # None /\ e.art0[t] = None => art[t] = None /\ art'[t] = e.art[t]
        /\ e.art0[t] # None =>
             art'[t].status = IF e.art[t].status # e.art0[t].status
                                THEN e.art[t].status ELSE art[t].status
  BY FlushedArticles
<1> QED
  BY <1>1 DEF NonePublished, HiddenRows, Unpublishing, Public

\* A step that is not the consumer's.
LEMMA OtherDown ==
    ASSUME Inv, Steady, DownInv, NonePublished, Onward,
           run'[Consumer] = run[Consumer], em'[Consumer] = em[Consumer],
           pkg # None /\ pkg'.pub = "canceled" => pkg.pub = "canceled",
           queue' # <<>> \/ UNCHANGED queue
    PROVE  KillsAll' /\ Down'
<1>1. KillsAll'
  BY DEF DownInv, KillsAll, NonePublished, Onward, HiddenRows, Unpublishing, At
<1>2. Down'
  <2>1. pkg = None => \A t \in Tenants : ~Public(art[t])
    BY DEF Inv, Sound, Public
  <2> QED
    BY <2>1 DEF DownInv, Down, NonePublished, At
<1> QED
  BY <1>1, <1>2

\* The consumer goes on with a killed package, whose articles it has as f.
LEMMA HandledDown ==
    ASSUME Inv, Steady, DownInv, NEW r, Handling(Consumer, r),
           NEW f, Keep(Consumer, f),
           Killing(run[Consumer], em[Consumer]) =>
             NonePublished /\ Unpublishing(f) /\ HiddenRows(f)'
    PROVE  KillsAll' /\ Down'
<1>1. /\ run[Consumer].pc # "idle" /\ r.pc # "idle" /\ UNCHANGED queue
      /\ run'[Consumer] = r /\ em'[Consumer] = f
      /\ r.arts = run[Consumer].arts \/ r.arts = Existing
      /\ Killing(run[Consumer], em[Consumer]) =>
           /\ r.pc \in KillPlaces /\ r.dests = {}
           /\ At(Consumer, "onCanceled") => r.arts = Existing
           /\ At(Consumer, "onUpdated") => r.pc = "onCanceled"
  BY ConsumerWorks, Moved DEF Handling, Go
<1>2. em[Consumer].pkg.pub = Head(queue).pub
  BY <1>1 DEF Steady, Current, At
<1>3. ASSUME Head(queue).pub = "canceled"
      PROVE  /\ r.pc \in KillPlaces /\ r.dests = {}
             /\ Unpublishing(f) /\ HiddenRows(f)'
             /\ r.pc \notin {"onUpdated", "onCanceled"} =>
                  \A t \in Tenants \ r.arts : ~Public(art'[t])
  <2>1. Killing(run[Consumer], em[Consumer])
    BY <1>1, <1>2, <1>3 DEF DownInv, KillsAll, Killing, At
  <2>2. ASSUME r.pc \notin {"onUpdated", "onCanceled"}, NEW t \in Tenants \ r.arts
        PROVE  ~Public(art[t])
    <3>1. CASE r.arts = Existing
      BY <2>2, <3>1 DEF Existing, Public
    <3>2. CASE r.arts = run[Consumer].arts /\ ~At(Consumer, "onCanceled")
      BY <1>1, <1>3, <2>1, <2>2, <3>2 DEF DownInv, KillsAll, At
    <3> QED
      BY <1>1, <2>1, <3>1, <3>2
  <2> QED
    BY <1>1, <1>3, <2>1, <2>2 DEF NonePublished
<1>4. em'[Consumer] = f /\ (~At(Consumer, "idle"))'
  BY <1>1 DEF At
<1>5. Unpublishing(f) => Unpublishing(em[Consumer])'
  BY <1>4 DEF Unpublishing
<1>6. HiddenRows(f)' => HiddenRows(em[Consumer])'
  BY <1>4 DEF HiddenRows
<1> QED
  BY <1>1, <1>3, <1>4, <1>5, <1>6 DEF KillsAll, Down

LEMMA ForgetDown ==
    ASSUME Inv, Steady, DownInv, ForgetStep(Consumer)
    PROVE  KillsAll' /\ Down'
<1>1. /\ UNCHANGED db /\ run'[Consumer] = Resting
      /\ \/ run[Consumer].pc # "idle" /\ UNCHANGED queue
         \/ At(Consumer, "processed") /\ queue' = Tail(queue)
  BY ConsumerWorks, NoConflict, Moved DEF ForgetStep
<1>2. run'[Consumer].pc = "idle"
  BY <1>1 DEF Resting
<1>3. ~At(Consumer, "idle") /\ queue # <<>> /\ pkg # None
  BY <1>1, ConsumerPackage DEF At
<1>4. Down'
  <2> SUFFICES ASSUME queue' = <<>>, pkg.pub = "canceled", NEW t \in Tenants
               PROVE  ~Public(art[t])
    BY <1>1 DEF Down, db
  <2>1. At(Consumer, "processed")
    BY <1>1, <1>3
  <2>2. run[Consumer].arts = {}
    BY <2>1, ConsumerWorks DEF Steady, Held, Looping, At
  <2> QED
    BY <1>3, <2>1, <2>2 DEF DownInv, Row, KillsAll, At
<1> QED
  BY <1>2, <1>4 DEF KillsAll, At

LEMMA TouchDown ==
    ASSUME Inv, Tracked, Steady, DownInv, NEW w \in Workers,
           NEW f \in EntityManager, NEW r \in Run, TouchStep(w, f, r)
    PROVE  /\ KillsAll' /\ Down'
           /\ w \in Api => Unpublishing(em[w])'
<1>1. /\ Handling(w, r) /\ Go(w, r) /\ Touched(em[w], f) /\ Managed(em[w]) /\ UNCHANGED queue
      /\ w = Consumer /\ Killing(run[w], em[w]) => f = em[w]
      /\ w \in Api => run[w].pc \in ApiPlaces /\ Unpublishing(em[w])
      /\ run[w].pc # "idle"
  BY DEF TouchStep, Handling, Go, Tracked, Steady, Held, DownInv, RequestsUnpublish
<1>2. w \in Api => Unpublishing(f)
  BY <1>1 DEF TouchStep, Touched, Unpublishing, Public
<1>3. w = Consumer /\ Killing(run[w], em[w]) => Unpublishing(f) /\ HiddenRows(f)
  <2>1. w = Consumer /\ Killing(run[w], em[w]) => Head(queue).pub = "canceled"
    BY <1>1 DEF Steady, Current, Killing, At
  <2> QED
    BY <1>1, <2>1 DEF DownInv, KillsAll, At
<1>4. PubStays /\ Onward
  BY ShapedGoes DEF Shaped
<1>5. CASE Keep(w, f) /\ UNCHANGED db
  <2>1. em'[w] = f /\ NonePublished
    BY <1>1, <1>5, Moved DEF NonePublished, db
  <2>2. w \in Api => Unpublishing(em[w])'
    BY <1>2, <2>1 DEF Unpublishing
  <2>3. HiddenRows(f) => HiddenRows(f)'
    BY <1>5 DEF HiddenRows, db
  <2>4. CASE w = Consumer
    BY <1>1, <1>3, <1>5, <2>1, <2>2, <2>3, <2>4, HandledDown
  <2>5. CASE w # Consumer
    <3>1. em'[Consumer] = em[Consumer] /\ run'[Consumer] = run[Consumer]
      BY <1>1, <1>5, <2>5, Moved, ConsumerWorks
    <3> QED
      BY <1>1, <1>4, <2>1, <2>2, <3>1, OtherDown DEF PubStays
  <2> QED
    BY <2>4, <2>5
<1>6. CASE \E left \in [Entries -> Nat] : FlushOf(w, f, left)
  <2>1. PICK left : Flush(f, left) /\ Keep(w, Clean(f))
    BY <1>6 DEF FlushOf
  <2>2. Clean(f).art = f.art /\ Clean(f).art0 = f.art
    BY CleanHas
  <2>3. \A t \in Tenants : f.art0[t] # None => f.art[t] # None /\ art[t] # None
    BY <1>1 DEF Managed, Touched
  <2>4. em'[w] = Clean(f)
    BY <1>1, <2>1, Moved
  <2>5. Unpublishing(Clean(f))
    BY <2>2 DEF Unpublishing
  <2>6. w \in Api => Unpublishing(em[w])'
    BY <2>4, <2>5 DEF Unpublishing
  <2>7. CASE w = Consumer
    <3>1. ASSUME Killing(run[w], em[w])
          PROVE  NonePublished /\ HiddenRows(Clean(f))'
      <4>1. NonePublished /\ \A t \in Tenants :
              f.art[t] # None /\ ~Public(f.art[t]) => ~Public(art'[t])
        BY <1>3, <2>1, <2>3, <2>7, <3>1, FlushHides
      <4> QED
        BY <2>2, <4>1 DEF HiddenRows
    <3> QED
      BY <1>1, <2>1, <2>5, <2>6, <2>7, <3>1, HandledDown
  <2>8. CASE w # Consumer
    <3>1. em'[Consumer] = em[Consumer] /\ run'[Consumer] = run[Consumer]
      BY <1>1, <2>1, <2>8, Moved, ConsumerWorks
    <3>2. NonePublished
      BY <1>2, <2>1, <2>3, <2>8, FlushHides DEF Workers
    <3> QED
      BY <1>1, <1>4, <2>6, <3>1, <3>2, OtherDown DEF PubStays
  <2> QED
    BY <2>7, <2>8
<1> QED
  BY <1>5, <1>6 DEF TouchStep

LEMMA LoadDown ==
    ASSUME Inv, Tracked, Steady, DownInv, NEW w \in Workers,
           NEW f \in EntityManager, NEW r \in Run, LoadStep(w, f, r)
    PROVE  /\ KillsAll' /\ Down'
           /\ w \in Api => Unpublishing(em[w])'
<1>1. PICK T \in SUBSET Tenants :
        run[w].pc # "publish" => f = WithArticles(em[w], T)
  BY DEF LoadStep
<1>2. /\ em[w] \in EntityManager /\ Handling(w, r) /\ Go(w, r) /\ Keep(w, f) /\ UNCHANGED <<db, queue>>
      /\ w \in Api => run[w].pc \in ApiPlaces /\ Unpublishing(em[w])
      /\ run[w].pc # "idle"
  BY ProcessState DEF LoadStep, Handling, Go, Steady, Held, DownInv, RequestsUnpublish
<1>3. w = Consumer /\ Killing(run[w], em[w]) => Unpublishing(em[w]) /\ HiddenRows(em[w])
  <2>1. w = Consumer /\ Killing(run[w], em[w]) => Head(queue).pub = "canceled"
    BY <1>2 DEF Steady, Current, Killing, At
  <2> QED
    BY <1>2, <2>1 DEF DownInv, KillsAll, At
<1>4. ASSUME run[w].pc # "publish"
      PROVE  /\ Unpublishing(em[w]) => Unpublishing(f)
             /\ HiddenRows(em[w]) => HiddenRows(f)
  <2>1. \A t \in Tenants : IF t \in T /\ em[w].art[t] = None
                           THEN f.art[t] = art[t] /\ f.art0[t] = art[t]
                           ELSE f.art[t] = em[w].art[t] /\ f.art0[t] = em[w].art0[t]
    BY <1>1, <1>2, <1>4, LoadedHas
  <2> QED
    BY <2>1 DEF Unpublishing, HiddenRows
<1>5. em'[w] = f /\ NonePublished /\ PubStays /\ Onward
  BY <1>2, Moved, ShapedGoes DEF NonePublished, db, Shaped
<1>6. w \in Api => Unpublishing(em[w])'
  BY <1>2, <1>4, <1>5 DEF ApiPlaces, Unpublishing
<1>7. CASE w = Consumer
  <2>1. Killing(run[w], em[w]) => Unpublishing(f) /\ HiddenRows(f)
    BY <1>3, <1>4, <1>7 DEF Killing, KillPlaces
  <2>2. HiddenRows(f) => HiddenRows(f)'
    BY <1>2 DEF HiddenRows, db
  <2> QED
    BY <1>2, <1>5, <1>6, <1>7, <2>1, <2>2, HandledDown
<1>8. CASE w # Consumer
  <2>1. em'[Consumer] = em[Consumer] /\ run'[Consumer] = run[Consumer]
    BY <1>2, <1>8, Moved, ConsumerWorks
  <2> QED
    BY <1>2, <1>5, <1>6, <2>1, OtherDown DEF PubStays
<1> QED
  BY <1>7, <1>8

LEMMA InsertDown ==
    ASSUME Inv, Tracked, Steady, DownInv, NEW w \in Workers,
           NEW f \in EntityManager, NEW r \in Run, InsertStep(w, f, r)
    PROVE  /\ KillsAll' /\ Down'
           /\ w \in Api => Unpublishing(em[w])'
<1>1. /\ Handling(w, r) /\ Keep(w, f) /\ run[w].dests # {}
      /\ run[w].pc \in {"publish", "populate"} /\ (w \in Api => run[w].pc \in ApiPlaces)
  BY DEF InsertStep, Steady, Held
<1>2. w = Consumer /\ w \notin Api
  BY <1>1, ConsumerWorks DEF Workers, ApiPlaces
<1>3. ~Killing(run[w], em[w])
  BY <1>1 DEF Killing
<1> QED
  BY <1>1, <1>2, <1>3, HandledDown

LEMMA ShapedDown ==
    ASSUME Inv, Tracked, Steady, DownInv, NEW w \in Workers, Shaped(w)
    PROVE  /\ KillsAll' /\ Down'
           /\ w \in Api => Unpublishing(em[w])'
<1>1. CASE ForgetStep(w) /\ w = Consumer
  BY <1>1, ForgetDown, ConsumerWorks
<1>2. CASE ForgetStep(w) /\ w # Consumer
  <2>1. /\ NonePublished /\ UNCHANGED queue /\ Keep(w, FreshEm) /\ Go(w, Resting)
    BY <1>2, NoConflict DEF ForgetStep, NonePublished, db
  <2>2. /\ em'[Consumer] = em[Consumer] /\ run'[Consumer] = run[Consumer] /\ em'[w] = FreshEm
    BY <1>2, <2>1, Moved, ConsumerWorks
  <2>3. Unpublishing(em[w])'
    BY <2>2 DEF FreshEm, NoArticles, Unpublishing
  <2>4. PubStays /\ Onward
    BY ShapedGoes
  <2> QED
    BY <2>1, <2>2, <2>3, <2>4, OtherDown DEF PubStays
<1> QED
  BY <1>1, <1>2, TouchDown, LoadDown, InsertDown DEF Shaped

\* No article is there if the package is new; otherwise they are loaded first.
LEMMA ReceiveDown ==
    ASSUME Inv, Tracked, Steady, DownInv, NEW f \in EntityManager, NEW r \in Run,
           ReceiveStep(f, r)
    PROVE  KillsAll' /\ Down'
<1>1. /\ em[Consumer] = FreshEm /\ Go(Consumer, r) /\ Keep(Consumer, Clean(f))
      /\ Flush(f, items) /\ f.art = em[Consumer].art /\ f.art0 = em[Consumer].art0
      /\ UNCHANGED queue /\ queue # <<>> /\ r.dests = {}
      /\ r.pc = IF WithPackage(em[Consumer]).pkg = None THEN "processRules" ELSE "onUpdated"
  BY ConsumerWorks DEF ReceiveStep, FlushOf, Steady, Rested, At
<1>2. run'[Consumer] = r /\ em'[Consumer] = Clean(f) /\ Clean(f).art = f.art /\ Clean(f).art0 = f.art
  BY <1>1, Moved, ConsumerWorks, CleanHas
<1>3. WithPackage(em[Consumer]).pkg = pkg
  BY <1>1, ProcessState, ConsumerWorks DEF WithPackage, FreshEm, EntityManager
<1>4. \A t \in Tenants : f.art[t] = None /\ f.art0[t] = None
  BY <1>1 DEF FreshEm, NoArticles
<1>5. r.pc # "onUpdated" => \A t \in Tenants : ~Public(art'[t])
  <2>1. \A t \in Tenants : art'[t] = art[t]
    BY <1>1, <1>4, FlushedArticles
  <2>2. pkg = None => \A t \in Tenants : art[t] = None
    BY DEF Inv, Sound
  <2> QED
    BY <1>1, <1>3, <2>1, <2>2 DEF Public
<1>6. Unpublishing(em[Consumer])' /\ HiddenRows(em[Consumer])'
  BY <1>2, <1>4 DEF Unpublishing, HiddenRows, Public
<1>7. r.pc \in KillPlaces /\ r.pc # "idle"
  BY <1>1 DEF KillPlaces
<1> QED
  BY <1>1, <1>2, <1>5, <1>6, <1>7 DEF KillsAll, Down, At

LEMMA HydrateDown ==
    ASSUME Inv, Tracked, Steady, DownInv,
           NEW t \in Tenants, NEW f \in EntityManager, NEW r \in Run, HydrateStep(t, f, r)
    PROVE  KillsAll' /\ Down'
<1>1. /\ run'[Consumer] = r /\ run[Consumer].pc = "hydrate" /\ r.pc = "articleRules"
      /\ UNCHANGED queue
  BY ConsumerWorks, Moved DEF HydrateStep, FlushOf
<1>2. Head(queue).pub # "canceled"
  BY <1>1 DEF DownInv, KillsAll, KillPlaces, At
<1> QED
  BY <1>1, <1>2 DEF KillsAll, Down, At

LEMMA CancelDown ==
    ASSUME Inv, Tracked, Steady, DownInv,
           NEW t \in Tenants, NEW f \in EntityManager, NEW r \in Run, CancelStep(t, f, r)
    PROVE  KillsAll' /\ Down'
<1> DEFINE g == PackageCanceled(Clean(f))
           e == em[Consumer]
<1>1. /\ run'[Consumer] = r /\ em'[Consumer] = g
      /\ run[Consumer].pc = "cancel" /\ r.pc = "cancel" /\ UNCHANGED queue
      /\ r.arts = run[Consumer].arts \ {t} /\ r.dests = run[Consumer].dests
      /\ f.art0 = e.art0 /\ f.art[t] # None /\ f.art[t].status = "canceled"
      /\ \A u \in Tenants \ {t} : f.art[u] = e.art[u]
      /\ e.art[t] # None /\ g.art = f.art /\ g.art0 = f.art
  BY ConsumerWorks, Moved DEF CancelStep
<1>2. PICK left : Flush(f, left)
  BY DEF CancelStep
<1>3. Managed(e) /\ Head(queue).pub = "canceled"
  BY <1>1, ConsumerWorks DEF Steady, Current, Tracked, At
<1>4. /\ Unpublishing(e) /\ HiddenRows(e) /\ run[Consumer].dests = {}
      /\ \A u \in Tenants \ run[Consumer].arts : ~Public(art[u])
  BY <1>1, <1>3 DEF DownInv, KillsAll, At
<1> HIDE DEF g, e
<1>5. /\ Unpublishing(f) /\ HiddenRows(f)
      /\ \A u \in Tenants : f.art0[u] # None => f.art[u] # None /\ art[u] # None
      /\ ~Public(f.art[t])
  BY <1>1, <1>3, <1>4 DEF Unpublishing, HiddenRows, Managed, Public
<1>6. NonePublished /\ \A u \in Tenants : f.art[u] # None /\ ~Public(f.art[u]) => ~Public(art'[u])
  BY <1>2, <1>5, FlushHides
<1>7. \A u \in Tenants \ r.arts : ~Public(art'[u])
  BY <1>1, <1>4, <1>5, <1>6 DEF NonePublished
<1>8. Unpublishing(em[Consumer])' /\ HiddenRows(em[Consumer])'
  BY <1>1, <1>6 DEF Unpublishing, HiddenRows
<1> QED
  BY <1>1, <1>4, <1>7, <1>8 DEF KillsAll, Down, KillPlaces, At

LEMMA ShapedMoves ==
    ASSUME NEW w \in Workers, Shaped(w)
    PROVE  UNCHANGED dest /\ \E f, r : Keep(w, f) /\ Go(w, r)
<1>1. ASSUME NEW f \in EntityManager, NEW r \in Run,
             TouchStep(w, f, r) \/ LoadStep(w, f, r) \/ InsertStep(w, f, r)
      PROVE  UNCHANGED dest /\ \E g, q : Keep(w, g) /\ Go(w, q)
  <2>1. Handling(w, r) /\ \E g : Keep(w, g)
    BY <1>1 DEF TouchStep, LoadStep, InsertStep, FlushOf
  <2> QED
    BY <2>1 DEF Handling, Go
<1>2. ForgetStep(w) => UNCHANGED dest /\ Keep(w, FreshEm) /\ Go(w, Resting)
  BY DEF ForgetStep
<1> QED
  BY <1>1, <1>2 DEF Shaped

\* No destination appears.
LEMMA NextDest ==
    ASSUME NoDestinations, Inv, [Next]_vars
    PROVE  UNCHANGED dest
<1>1. \A w \in Workers : Shaped(w) => UNCHANGED dest
  BY ShapedMoves
<1>2. \A w : ~CreateDestination(w)
  BY DEF CreateDestination, NoDestinations
<1>3. \A t, f, r : ReceiveStep(f, r) \/ HydrateStep(t, f, r) \/ CancelStep(t, f, r)
                     => UNCHANGED dest
  BY DEF ReceiveStep, HydrateStep, CancelStep
<1>4. \A w, q, e, f, r : OpenStep(w, r) \/ PatchStep(w, q, e, f, r) \/ ReactStep(w, e)
                           => UNCHANGED dest
  BY DEF OpenStep, PatchStep, ReactStep
<1>5. Push \/ Reject \/ UNCHANGED vars \/ (\E w \in Api : PatchPackage(w)) => UNCHANGED dest
  BY DEF Push, Reject, vars, PatchPackage
<1> QED
  BY <1>1, <1>2, <1>3, <1>4, <1>5, NextShapes

LEMMA NextDown ==
    ASSUME NoFailures, NoPublishRequest, NoDestinations, NoKillRequest,
           NoArticlePublishRequest
    PROVE  Inv /\ Tracked /\ Steady /\ DownInv /\ [Next]_vars => DownInv'
<1> SUFFICES ASSUME Inv, Tracked, Steady, DownInv, [Next]_vars PROVE DownInv'
  OBVIOUS
<1>1. Row("canceled")' /\ \A t \in Tenants : dest'[t] = None
  BY NextRow, NextDest DEF DownInv, NoKillRequest
<1>2. RequestsUnpublish
  BY DEF DownInv
<1>3. ASSUME NEW w \in Workers, NEW f, Keep(w, f), NEW r, Go(w, r),
             w \in Api => Unpublishing(em[w])'
      PROVE  RequestsUnpublish'
  BY <1>2, <1>3, Moved DEF Workers, RequestsUnpublish, Unpublishing
<1>4. ASSUME NEW w \in Api, NEW f, NEW r, Keep(w, f), Go(w, r), UNCHANGED queue,
             Unpublishing(f), NonePublished, PubStays
      PROVE  KillsAll' /\ Down' /\ RequestsUnpublish'
  <2>1. /\ w \in Workers /\ em'[w] = f
        /\ run'[Consumer] = run[Consumer] /\ em'[Consumer] = em[Consumer]
    BY <1>4, Moved, ConsumerWorks DEF Workers
  <2>2. Unpublishing(em[w])'
    BY <1>4, <2>1 DEF Unpublishing
  <2> QED
    BY <1>3, <1>4, <2>1, <2>2, OtherDown DEF Onward, PubStays, At
<1>5. ASSUME NEW w \in Workers, Shaped(w)
      PROVE  KillsAll' /\ Down' /\ RequestsUnpublish'
  <2>1. \E f, r : Keep(w, f) /\ Go(w, r)
    BY <1>5, ShapedMoves
  <2> QED
    BY <1>3, <1>5, <2>1, ShapedDown
<1>6. ASSUME NEW f, NEW r, Keep(Consumer, f), Go(Consumer, r)
      PROVE  RequestsUnpublish'
  BY <1>2, <1>6, Moved, ConsumerWorks DEF Workers, RequestsUnpublish, Unpublishing
<1>7. ASSUME NEW f \in EntityManager, NEW r \in Run, ReceiveStep(f, r)
      PROVE  KillsAll' /\ Down' /\ RequestsUnpublish'
  <2>1. RequestsUnpublish'
    BY <1>6, <1>7 DEF ReceiveStep, FlushOf
  <2> QED
    BY <1>7, <2>1, ReceiveDown
<1>8. ASSUME NEW t \in Tenants, NEW f \in EntityManager, NEW r \in Run,
             HydrateStep(t, f, r) \/ CancelStep(t, f, r)
      PROVE  KillsAll' /\ Down' /\ RequestsUnpublish'
  <2>1. RequestsUnpublish'
    BY <1>6, <1>8 DEF HydrateStep, CancelStep, FlushOf
  <2> QED
    BY <1>8, <2>1, HydrateDown, CancelDown
<1>9. ASSUME NEW w \in Api, NEW r \in Run, OpenStep(w, r)
      PROVE  KillsAll' /\ Down' /\ RequestsUnpublish'
  <2>1. w \in Workers /\ em[w] \in EntityManager /\ Unpublishing(em[w])
    BY ProcessState DEF Workers, DownInv, RequestsUnpublish
  <2>2. Unpublishing(WithPackage(em[w]))
    BY <2>1, WithPackageType DEF Inv, Unpublishing
  <2> QED
    BY <1>4, <1>9, <2>2 DEF OpenStep, NonePublished, PubStays, db
<1>10. ASSUME NEW w \in Api, NEW q \in ArticleRequests, NEW e \in EntityManager,
              NEW f \in EntityManager, NEW r \in Run, PatchStep(w, q, e, f, r)
       PROVE  KillsAll' /\ Down' /\ RequestsUnpublish'
  <2>1. w \in Workers /\ em[w] \in EntityManager /\ Unpublishing(em[w])
    BY ProcessState DEF Workers, DownInv, RequestsUnpublish
  <2>2. \A t \in Tenants : IF t \in {q.tenant} /\ em[w].art[t] = None
                           THEN e.art[t] = art[t] /\ e.art0[t] = art[t]
                           ELSE e.art[t] = em[w].art[t] /\ e.art0[t] = em[w].art0[t]
    BY <1>10, <2>1, LoadedHas DEF PatchStep
  <2>3. /\ f.art0 = e.art0 /\ f.art[q.tenant].status = q.status
        /\ \A u \in Tenants \ {q.tenant} : f.art[u] = e.art[u]
    BY <1>10 DEF PatchStep
  <2>4. Unpublishing(f)
    BY <2>1, <2>2, <2>3 DEF Unpublishing, Public, NoArticlePublishRequest
  <2> QED
    BY <1>4, <1>10, <2>4 DEF PatchStep, NonePublished, PubStays, db
<1>11. ASSUME NEW w \in Api, NEW e \in EntityManager, ReactStep(w, e)
       PROVE  KillsAll' /\ Down' /\ RequestsUnpublish'
  <2>1. /\ w \in Workers /\ Managed(em[w]) /\ Unpublishing(em[w])
        /\ e.art = em[w].art /\ e.art0 = em[w].art0
    BY <1>11 DEF Workers, Tracked, DownInv, RequestsUnpublish, ReactStep
  <2>2. PICK left : Flush(e, left)
    BY <1>11 DEF ReactStep
  <2>3. Unpublishing(e) /\ \A t \in Tenants : e.art0[t] # None => e.art[t] # None /\ art[t] # None
    BY <2>1 DEF Unpublishing, Managed
  <2>4. NonePublished
    BY <2>2, <2>3, FlushHides
  <2>5. PubStays
    BY <1>11, <2>1, <2>2, FlushedPub DEF ReactStep, Managed
  <2>6. Unpublishing(FreshEm)
    BY DEF Unpublishing, FreshEm, NoArticles
  <2> QED
    BY <1>4, <1>11, <2>4, <2>5, <2>6 DEF ReactStep
<1>12. ASSUME Push
       PROVE  KillsAll' /\ Down' /\ RequestsUnpublish'
  <2>1. KillsAll' /\ Down'
    BY <1>12, PushedHead, OtherDown DEF Push, NonePublished, db
  <2> QED
    BY <1>2, <1>12, <2>1 DEF Push, RequestsUnpublish, Unpublishing
<1>13. ASSUME NEW w \in Api, PatchPackage(w)
       PROVE  KillsAll' /\ Down' /\ RequestsUnpublish'
  <2>1. PICK p \in PackageRequests :
          pkg' = [pkg EXCEPT !.pub = p, !.status = IF p = "canceled" THEN "canceled" ELSE @]
    BY <1>13 DEF PatchPackage
  <2>2. pkg \in Package
    BY <1>13 DEF PatchPackage, Inv, TypeOK
  <2>3. pkg'.pub # "canceled"
    BY <2>1, <2>2 DEF Package, NoKillRequest
  <2>4. KillsAll' /\ Down'
    BY <1>13, <2>3, OtherDown DEF PatchPackage, NonePublished, Onward, At
  <2> QED
    BY <1>2, <1>13, <2>4 DEF PatchPackage, RequestsUnpublish, Unpublishing
<1>14. ~Reject /\ \A w : ~CreateDestination(w)
  BY Bounds DEF Reject, NoFailures, Inv, TypeOK, Budget, CreateDestination, NoDestinations
<1>15. ASSUME UNCHANGED vars
       PROVE  KillsAll' /\ Down' /\ RequestsUnpublish'
  BY <1>2, <1>15
  DEF vars, DownInv, KillsAll, Down, RequestsUnpublish, Unpublishing, HiddenRows, At
<1>16. KillsAll' /\ Down' /\ RequestsUnpublish'
  BY <1>5, <1>7, <1>8, <1>9, <1>10, <1>11, <1>12, <1>13, <1>14, <1>15, NextShapes
<1> QED
  BY <1>1, <1>16 DEF DownInv

\* A killed story stays down: once it is processed none of its articles is public,
\* however its handling was interrupted and whatever was unpublished or patched
\* meanwhile, if no destination is set up for it (with one it is published again,
\* ProcessOrganizationRulesSubscriber) and no request publishes it by hand.
THEOREM KeepsKilledDown ==
    ASSUME NoFailures, NoPublishRequest, NoDestinations, NoKillRequest,
           NoArticlePublishRequest
    PROVE  Spec => []KilledStaysDown
<1>1. Init => DownInv
  <2> SUFFICES ASSUME Init PROVE DownInv
    OBVIOUS
  <2>1. At(Consumer, "idle") /\ pkg = None /\ \A t \in Tenants : dest[t] = None
    BY ConsumerWorks DEF Init, At, Resting, NoDestinations
  <2>2. RequestsUnpublish
    BY DEF Init, Workers, RequestsUnpublish, Unpublishing, FreshEm, NoArticles
  <2> QED
    BY <2>1, <2>2 DEF DownInv, Row, KillsAll, Down
<1>2. Inv /\ Tracked /\ Steady /\ DownInv /\ [Next]_vars => DownInv'
  BY NextDown
<1>3. DownInv => KilledStaysDown
  BY ConsumerWorks DEF DownInv, Down, KilledStaysDown, Quiet, Existing, Public
<1>4. Spec => []DownInv
  BY <1>1, <1>2, SteadyHolds, PTL DEF Spec
<1> QED
  BY <1>3, <1>4, PTL

-----------------------------------------------------------------------------
(* What the consumer does to the articles it holds, if no destination is   *)
(* set up: em'[Consumer] and run'[Consumer] are where it goes from em and run. *)

\* Places where it may hold an item that is still to be stored.
ListPlaces == {"rule", "refresh", "dispatch"}

\* No destination sent it here: nothing is published because one wants it.
Unplaced(r) == r.pc # "publish" /\ r.from # "publish" /\ ~r.wanted

Publishes(rule, a) == a.rev \in rule.when /\ rule.published = "yes"

\* Its articles stay as they are.
GoesOn ==
    /\ UNCHANGED <<art, items>>
    /\ em'[Consumer].art = em[Consumer].art /\ em'[Consumer].art0 = em[Consumer].art0
    /\ em'[Consumer].adds = em[Consumer].adds
    /\ run'[Consumer].pc # "rule"
    /\ run[Consumer].pc \in ListPlaces => run'[Consumer].pc \in ListPlaces

\* It starts with the rules of a tenant.
StartsRules ==
    /\ UNCHANGED <<art, items>>
    /\ em'[Consumer] = em[Consumer] /\ run'[Consumer].pc = "rule"
    /\ run[Consumer].pc = "articleRules"
    /\ run'[Consumer].cur \in Tenants /\ em[Consumer].art[run'[Consumer].cur] # None
    /\ ~Public(em[Consumer].art[run'[Consumer].cur])
    /\ \E t \in Tenants : run'[Consumer].rules = TenantRules[t]

\* It loads the articles of T that it does not hold.
Loads ==
    /\ UNCHANGED <<art, items>>
    /\ run[Consumer].pc \notin ListPlaces /\ run'[Consumer].pc # "rule"
    /\ em'[Consumer].adds = em[Consumer].adds
    /\ \E T : \A t \in Tenants :
         IF t \in T /\ em[Consumer].art[t] = None
         THEN em'[Consumer].art[t] = art[t] /\ em'[Consumer].art0[t] = art[t]
         ELSE /\ em'[Consumer].art[t] = em[Consumer].art[t]
              /\ em'[Consumer].art0[t] = em[Consumer].art0[t]

\* It creates the article of t.
Creates ==
    /\ UNCHANGED <<art, items>>
    /\ run[Consumer].pc \notin ListPlaces /\ run'[Consumer].pc # "rule"
    /\ em'[Consumer].adds = em[Consumer].adds
    /\ \E t \in Tenants :
         /\ em'[Consumer].art[t] # None /\ em'[Consumer].art[t].status = "new"
         /\ em'[Consumer].art[t].route = None
         /\ em'[Consumer].art0[t] = None /\ art[t] = None
         /\ \A u \in Tenants \ {t} : /\ em'[Consumer].art[u] = em[Consumer].art[u]
                                     /\ em'[Consumer].art0[u] = em[Consumer].art0[u]

\* g is flushed, and left the items that stay.
Flushes(g, left) ==
    /\ Flush(g, left) /\ run'[Consumer].pc # "rule"
    /\ g \in EntityManager /\ left \in [Entries -> Nat]
    /\ em'[Consumer].art = g.art /\ em'[Consumer].art0 = g.art
    /\ em'[Consumer].adds = NoItems
    /\ g.art0 = em[Consumer].art0 /\ g.adds = em[Consumer].adds
    /\ \A t \in Tenants : g.art[t] = None <=> em[Consumer].art[t] = None

\* It stores what it holds; items go only if their article is not published.
Stores ==
    \E g, left :
      /\ Flushes(g, left)
      /\ \A t \in Tenants : em[Consumer].art[t] # None =>
           /\ g.art[t].status = em[Consumer].art[t].status
           /\ g.art[t].route = em[Consumer].art[t].route
      /\ \A i \in Entries :
           \/ left[i] = items[i]
           \/ left[i] = 0 /\ em[Consumer].art[i[2]] # None /\ ~Public(em[Consumer].art[i[2]])

\* It cancels the article of t.
CancelsOne ==
    \E g, left :
      /\ Flushes(g, left)
      /\ run[Consumer].pc \notin ListPlaces
      /\ \E t \in Tenants :
           /\ g.art[t] # None /\ g.art[t].status = "canceled"
           /\ g.art[t].route = em[Consumer].art[t].route
           /\ \A u \in Tenants \ {t} : g.art[u] = em[Consumer].art[u]
           /\ \A i \in Entries : IF i[2] = t THEN left[i] = 0 ELSE left[i] = items[i]

\* It applies the first of the rules that are left.
AppliesRule ==
    /\ run[Consumer].pc = "rule" /\ run'[Consumer].pc = "rule"
    /\ run[Consumer].rules # <<>> /\ run'[Consumer].rules = Tail(run[Consumer].rules)
    /\ run'[Consumer].cur = run[Consumer].cur

\* Such a rule gives the article a route ...
RoutesOne ==
    LET t == run[Consumer].cur
        rule == Head(run[Consumer].rules)
    IN /\ AppliesRule /\ UNCHANGED <<art, items>>
       /\ em'[Consumer].art0 = em[Consumer].art0 /\ em'[Consumer].adds = em[Consumer].adds
       /\ \A u \in Tenants \ {t} : em'[Consumer].art[u] = em[Consumer].art[u]
       /\ em'[Consumer].art[t] # None
       /\ em'[Consumer].art[t].status = em[Consumer].art[t].status
       /\ em'[Consumer].art[t].rev = em[Consumer].art[t].rev
       /\ em'[Consumer].art[t].route \in {em[Consumer].art[t].route, rule.route}
       /\ ~Publishes(rule, em[Consumer].art[t])
       /\ em[Consumer].art[t].rev \notin rule.when \/ rule.route = None =>
            em'[Consumer].art = em[Consumer].art

\* ... or publishes it, and adds it in memory to the list of a tenant, unless
\* a list has it.
PublishesOne ==
    LET t == run[Consumer].cur
        e == em[Consumer]
        f == em'[Consumer]
        rule == Head(run[Consumer].rules)
    IN /\ AppliesRule
       /\ Publishes(rule, e.art[t])
       /\ \/ \E i \in Entries : i[2] = t /\ items[i] > 0
          \/ /\ UNCHANGED <<art, items>> /\ f.art0 = e.art0
             /\ \A u \in Tenants \ {t} : f.art[u] = e.art[u]
             /\ Public(f.art[t]) /\ f.art[t].rev = e.art[t].rev
             /\ f.art[t].route \in {e.art[t].route, rule.route}
             /\ \E l \in Tenants :
                  IF Matches(l, f.art[t].route)
                  THEN f.adds = [e.adds EXCEPT ![<<l, t>>] = @ + 1]
                  ELSE f.adds = e.adds

\* It is done with a message, or starts anew.
Forgets ==
    UNCHANGED <<art, items>> /\ em'[Consumer] = FreshEm /\ run'[Consumer] = Resting

ConsumerLists ==
    /\ Unplaced(run'[Consumer])
    /\ \A w \in Api : em'[w] = em[w] /\ run'[w] = run[w]
    /\ \/ GoesOn \/ StartsRules \/ Loads \/ Creates \/ Stores \/ CancelsOne
       \/ RoutesOne \/ PublishesOne \/ Forgets

\* No destination is set up, and none has sent the consumer anywhere.
Undirected == Unplaced(run[Consumer]) /\ \A t \in Tenants : dest[t] = None

\* A step that leaves the articles alone.
LEMMA GoesOnLists ==
    ASSUME Inv, NEW f, Keep(Consumer, f), NEW r, Go(Consumer, r), UNCHANGED db,
           f.art = em[Consumer].art, f.art0 = em[Consumer].art0, f.adds = em[Consumer].adds,
           r.pc # "rule", Unplaced(r),
           run[Consumer].pc \in ListPlaces => r.pc \in ListPlaces
    PROVE  ConsumerLists
BY OnlyConsumer DEF ConsumerLists, GoesOn, db

LEMMA LoadLists ==
    ASSUME Inv, NEW f, Keep(Consumer, f), NEW r, Go(Consumer, r), UNCHANGED db,
           NEW T, f = WithArticles(em[Consumer], T),
           r.pc # "rule", Unplaced(r), run[Consumer].pc \notin ListPlaces
    PROVE  ConsumerLists
<1>1. /\ em[Consumer] \in EntityManager /\ em'[Consumer] = f /\ run'[Consumer] = r
      /\ \A w \in Api : em'[w] = em[w] /\ run'[w] = run[w]
  BY OnlyConsumer, ConsumerWorks, ProcessState
<1>2. \A t \in Tenants :
        IF t \in T /\ em[Consumer].art[t] = None
        THEN f.art[t] = art[t] /\ f.art0[t] = art[t]
        ELSE f.art[t] = em[Consumer].art[t] /\ f.art0[t] = em[Consumer].art0[t]
  BY <1>1, LoadedHas
<1>3. f.adds = em[Consumer].adds
  BY <1>1 DEF WithArticles, EntityManager
<1> QED
  BY <1>1, <1>2, <1>3 DEF ConsumerLists, Loads, db

LEMMA OnUpdatedLists == ASSUME Inv, Undirected, OnUpdated(Consumer) PROVE ConsumerLists
<1> DEFINE w == Consumer
           r == [run[w] EXCEPT !.pc = "hydrate", !.arts = Existing, !.from = "hydrate"]
           q == [run[w] EXCEPT !.pc = "onCanceled"]
<1>1. /\ run[w].pc = "onUpdated" /\ UNCHANGED db /\ run[w] \in Run
      /\ em = [em EXCEPT ![w] = em[w]] /\ Unplaced(run[w])
  BY ProcessState, ConsumerWorks DEF OnUpdated, At, Undirected
<1>2. r.pc = "hydrate" /\ Unplaced(r) /\ q.pc = "onCanceled" /\ Unplaced(q)
  BY <1>1 DEF Run, Unplaced
<1>3. \/ Go(w, r) /\ Keep(w, WithArticles(em[w], Existing))
      \/ Go(w, q) /\ UNCHANGED em
  BY DEF OnUpdated
<1> HIDE DEF r, q
<1>4. CASE Go(w, r) /\ Keep(w, WithArticles(em[w], Existing))
  BY <1>1, <1>2, <1>4, LoadLists DEF ListPlaces
<1>5. CASE Go(w, q) /\ UNCHANGED em
  BY <1>1, <1>2, <1>5, GoesOnLists DEF Keep, ListPlaces
<1> QED
  BY <1>3, <1>4, <1>5

LEMMA HydratedLists == ASSUME Inv, Undirected, Hydrated(Consumer) PROVE ConsumerLists
<1> DEFINE w == Consumer
           r == [run[w] EXCEPT !.pc = "onCanceled"]
<1>1. /\ run[w].pc = "hydrate" /\ UNCHANGED <<db, em>> /\ run[w] \in Run
      /\ em = [em EXCEPT ![w] = em[w]] /\ Unplaced(run[w]) /\ Go(w, r)
  BY ProcessState, ConsumerWorks DEF Hydrated, At, Undirected
<1>2. r.pc = "onCanceled" /\ Unplaced(r)
  BY <1>1 DEF Run, Unplaced
<1> HIDE DEF r
<1> QED
  BY <1>1, <1>2, GoesOnLists DEF Keep, ListPlaces

LEMMA OnCanceledLists == ASSUME Inv, Undirected, OnCanceled(Consumer) PROVE ConsumerLists
<1> DEFINE w == Consumer
           r == [run[w] EXCEPT !.pc = "cancel", !.arts = Existing]
           q == [run[w] EXCEPT !.pc = "processRules"]
<1>1. /\ run[w].pc = "onCanceled" /\ UNCHANGED db /\ run[w] \in Run
      /\ em = [em EXCEPT ![w] = em[w]] /\ Unplaced(run[w])
  BY ProcessState, ConsumerWorks DEF OnCanceled, At, Undirected
<1>2. r.pc = "cancel" /\ Unplaced(r) /\ q.pc = "processRules" /\ Unplaced(q)
  BY <1>1 DEF Run, Unplaced
<1>3. \/ Go(w, r) /\ Keep(w, WithArticles(em[w], Existing))
      \/ Go(w, q) /\ UNCHANGED em
  BY DEF OnCanceled
<1> HIDE DEF r, q
<1>4. CASE Go(w, r) /\ Keep(w, WithArticles(em[w], Existing))
  BY <1>1, <1>2, <1>4, LoadLists DEF ListPlaces
<1>5. CASE Go(w, q) /\ UNCHANGED em
  BY <1>1, <1>2, <1>5, GoesOnLists DEF Keep, ListPlaces
<1> QED
  BY <1>3, <1>4, <1>5

LEMMA ProcessRulesLists == ASSUME Inv, Undirected, ProcessRules(Consumer) PROVE ConsumerLists
<1> DEFINE w == Consumer
           D == {[tenant |-> t, route |-> None, published |-> FALSE] :
                   t \in PopulatedTenants(em[w].pkg)}
           r == [run[w] EXCEPT !.pc = "populate", !.from = "populate", !.dests = D,
                               !.home = ctx[w].tenant]
<1>1. /\ run[w].pc = "processRules" /\ UNCHANGED <<db, em>> /\ run[w] \in Run
      /\ em = [em EXCEPT ![w] = em[w]] /\ Unplaced(run[w]) /\ \A t \in Tenants : dest[t] = None
  BY ProcessState, ConsumerWorks DEF ProcessRules, At, Undirected
<1>2. Go(w, r)
  BY <1>1 DEF ProcessRules
<1>3. r.pc = "populate" /\ Unplaced(r)
  <2> HIDE DEF D
  <2> QED
    BY <1>1 DEF Run, Unplaced
<1> HIDE DEF r
<1> QED
  BY <1>1, <1>2, <1>3, GoesOnLists DEF Keep, ListPlaces

LEMMA PopulatedLists == ASSUME Inv, Undirected, Populated(Consumer) PROVE ConsumerLists
<1> DEFINE w == Consumer
           r == [run[w] EXCEPT !.pc = "processed"]
<1>1. /\ run[w].pc = "populate" /\ UNCHANGED <<db, em>> /\ run[w] \in Run
      /\ em = [em EXCEPT ![w] = em[w]] /\ Unplaced(run[w]) /\ Go(w, r)
  BY ProcessState, ConsumerWorks DEF Populated, At, Undirected
<1>2. r.pc = "processed" /\ Unplaced(r)
  BY <1>1 DEF Run, Unplaced
<1> HIDE DEF r
<1> QED
  BY <1>1, <1>2, GoesOnLists DEF Keep, ListPlaces

LEMMA RulesDoneLists == ASSUME Inv, Undirected, RulesDone(Consumer) PROVE ConsumerLists
<1> DEFINE w == Consumer
           r == [run[w] EXCEPT !.pc = IF run[w].created THEN "dispatch" ELSE "refresh"]
<1>1. /\ run[w].pc = "rule" /\ UNCHANGED <<db, em>> /\ run[w] \in Run
      /\ em = [em EXCEPT ![w] = em[w]] /\ Unplaced(run[w]) /\ Go(w, r)
  BY ProcessState, ConsumerWorks DEF RulesDone, At, Undirected, Go
<1>2. r.pc \in {"dispatch", "refresh"} /\ Unplaced(r)
  BY <1>1 DEF Run, Unplaced
<1> HIDE DEF r
<1> QED
  BY <1>1, <1>2, GoesOnLists DEF Keep, ListPlaces

LEMMA ForgetLists ==
    ASSUME Inv, ForgetStep(Consumer)
    PROVE  ConsumerLists
BY OnlyConsumer DEF ForgetStep, ConsumerLists, Forgets, Unplaced, Resting, db

LEMMA ArticleRulesLists == ASSUME Inv, Undirected, ArticleRules(Consumer) PROVE ConsumerLists
<1> DEFINE w == Consumer
           q == [run[w] EXCEPT !.pc = IF run[w].created THEN "dispatch" ELSE "refresh"]
           r == [run[w] EXCEPT !.pc = "rule", !.rules = TenantRules[ctx[w].tenant]]
<1>1. /\ run[w].pc = "articleRules" /\ UNCHANGED <<db, em>> /\ Unplaced(run[w])
      /\ em = [em EXCEPT ![w] = em[w]]
  BY ProcessState, ConsumerWorks DEF ArticleRules, At, Undirected
<1>2. /\ em[w] \in EntityManager /\ run[w] \in Run /\ ctx[w].tenant \in Tenants
      /\ run[w].cur \in Tenants /\ em[w].art[run[w].cur] # None
  BY <1>1, LateState, ConsumerWorks DEF LatePlaces
<1>3. CASE RulesSkipped(w)
  <2>1. Go(w, q) /\ q.pc \in {"dispatch", "refresh"} /\ Unplaced(q)
    BY <1>1, <1>2, <1>3 DEF ArticleRules, Run, Unplaced
  <2> HIDE DEF q
  <2> QED
    BY <1>1, <2>1, GoesOnLists DEF Keep, ListPlaces
<1>4. CASE ~RulesSkipped(w)
  <2>1. /\ Go(w, r) /\ r.pc = "rule" /\ Unplaced(r) /\ r.cur = run[w].cur
        /\ r.rules = TenantRules[ctx[w].tenant]
    BY <1>1, <1>2, <1>4 DEF ArticleRules, Run, Unplaced
  <2>2. ~Public(em[w].art[run[w].cur])
    BY <1>4 DEF RulesSkipped, IsPublished, Public
  <2> HIDE DEF r
  <2>3. run'[w] = r /\ em'[w] = em[w] /\ \A v \in Api : em'[v] = em[v] /\ run'[v] = run[v]
    BY <1>1, <2>1, OnlyConsumer DEF Keep
  <2> QED
    BY <1>1, <1>2, <2>1, <2>2, <2>3 DEF ConsumerLists, StartsRules, db
<1> QED
  BY <1>3, <1>4

LEMMA PopulateLists == ASSUME Inv, Undirected, Populate(Consumer) PROVE ConsumerLists
<1> DEFINE w == Consumer
<1>1. /\ run[w].pc = "populate" /\ UNCHANGED db /\ Unplaced(run[w])
      /\ em[w] \in EntityManager /\ run[w] \in Run /\ Fit(em[w], ctx[w], run[w], pkg)
  BY ProcessState, ConsumerWorks DEF Populate, At, Undirected
<1>2. PICK d \in run[w].dests :
        LET t == d.tenant
            rest == [run[w] EXCEPT !.dests = @ \ {d}]
        IN IF art[t] # None
           THEN /\ Keep(w, WithArticles(em[w], {t}))
                /\ Go(w, rest)
           ELSE /\ Keep(w, [em[w] EXCEPT !.art0[t] = None, !.art[t] =
                      [status |-> "new", route |-> None, rev |-> em[w].pkg.rev]])
                /\ Go(w, [rest EXCEPT !.pc = "save", !.cur = t,
                                      !.created = TRUE, !.wanted = FALSE])
  BY DEF Populate
<1> DEFINE t == d.tenant
           a == [status |-> "new", route |-> None, rev |-> em[w].pkg.rev]
           f == WithArticles(em[w], {t})
           g == [em[w] EXCEPT !.art0[t] = None, !.art[t] = a]
           r == [run[w] EXCEPT !.dests = @ \ {d}]
           q == [r EXCEPT !.pc = "save", !.cur = t, !.created = TRUE, !.wanted = FALSE]
<1>3. t \in Tenants /\ em[w].pkg # None
  BY <1>1 DEF Fit, Run, Destination, PackagePlaces, Places
<1>4. r.pc = "populate" /\ Unplaced(r) /\ q.pc = "save" /\ Unplaced(q)
  BY <1>1 DEF Run, Unplaced
<1>5. CASE art[t] # None
  <2>1. Keep(w, f) /\ Go(w, r)
    BY <1>2, <1>5
  <2> HIDE DEF r, t
  <2> QED
    BY <1>1, <1>4, <2>1, LoadLists DEF ListPlaces
<1>6. CASE art[t] = None
  <2>1. Keep(w, g) /\ Go(w, q)
    BY <1>2, <1>6
  <2>2. a \in Article /\ a.status = "new" /\ a.route = None /\ a # None
    <3>1. a \in Article /\ a.status = "new"
      BY <1>1, <1>3 DEF EntityManager, Package, Article, Statuses
    <3> QED
      BY <3>1, NoneIsNothing
  <2>3. /\ g.adds = em[w].adds
        /\ g.art[t] = a /\ g.art0[t] = None
        /\ \A u \in Tenants \ {t} : g.art[u] = em[w].art[u] /\ g.art0[u] = em[w].art0[u]
    <3> HIDE DEF a, t
    <3> QED
      BY <1>1, <1>3 DEF EntityManager
  <2> HIDE DEF g, q, a, t
  <2>4. em'[w] = g /\ run'[w] = q /\ \A v \in Api : em'[v] = em[v] /\ run'[v] = run[v]
    BY <2>1, OnlyConsumer
  <2> QED
    BY <1>1, <1>3, <1>4, <1>6, <2>2, <2>3, <2>4 DEF ConsumerLists, Creates, ListPlaces, db
<1> QED
  BY <1>5, <1>6

\* A flush of the articles as they are.
LEMMA StoreLists ==
    ASSUME Inv, NEW f \in EntityManager, NEW left \in [Entries -> Nat],
           FlushOf(Consumer, f, left), NEW r, Go(Consumer, r),
           f.art0 = em[Consumer].art0, f.adds = em[Consumer].adds,
           \A t \in Tenants :
             /\ f.art[t] = None <=> em[Consumer].art[t] = None
             /\ em[Consumer].art[t] # None =>
                  /\ f.art[t].status = em[Consumer].art[t].status
                  /\ f.art[t].route = em[Consumer].art[t].route,
           \A i \in Entries :
             \/ left[i] = items[i]
             \/ left[i] = 0 /\ em[Consumer].art[i[2]] # None /\ ~Public(em[Consumer].art[i[2]]),
           r.pc # "rule", Unplaced(r)
    PROVE  ConsumerLists
<1> DEFINE g == Clean(f)
<1>1. Flush(f, left) /\ Keep(Consumer, g)
  BY DEF FlushOf
<1>2. g.adds = NoItems /\ g.art = f.art /\ g.art0 = f.art
  BY CleanLists
<1> HIDE DEF g
<1>3. /\ em'[Consumer] = g /\ run'[Consumer] = r
      /\ \A w \in Api : em'[w] = em[w] /\ run'[w] = run[w]
  BY <1>1, OnlyConsumer
<1>4. Flushes(f, left)
  BY <1>1, <1>2, <1>3 DEF Flushes
<1>5. Stores
  BY <1>4 DEF Stores
<1> QED
  BY <1>3, <1>5 DEF ConsumerLists

LEMMA SaveLists == ASSUME Inv, Undirected, Save(Consumer) PROVE ConsumerLists
<1> DEFINE w == Consumer
           r == [run[w] EXCEPT !.pc = "articleRules"]
<1>1. /\ run[w].pc = "save" /\ run[w] \in Run /\ Unplaced(run[w]) /\ Go(w, r)
      /\ em[w] \in EntityManager /\ items \in [Entries -> Nat] /\ FlushOf(w, em[w], items)
  BY ProcessState, ConsumerWorks DEF Save, At, Undirected, Inv, TypeOK
<1>2. r.pc = "articleRules" /\ Unplaced(r)
  BY <1>1 DEF Run, Unplaced
<1> HIDE DEF r
<1> QED
  BY <1>1, <1>2, StoreLists

LEMMA CanceledLists == ASSUME Inv, Undirected, Canceled(Consumer) PROVE ConsumerLists
<1> DEFINE w == Consumer
           r == [run[w] EXCEPT !.pc = "processRules"]
<1>1. /\ run[w].pc = "cancel" /\ run[w] \in Run /\ Unplaced(run[w]) /\ Go(w, r)
      /\ em[w] \in EntityManager /\ items \in [Entries -> Nat] /\ FlushOf(w, em[w], items)
  BY ProcessState, ConsumerWorks DEF Canceled, At, Undirected, Inv, TypeOK
<1>2. r.pc = "processRules" /\ Unplaced(r)
  BY <1>1 DEF Run, Unplaced
<1> HIDE DEF r
<1> QED
  BY <1>1, <1>2, StoreLists

LEMMA DispatchLists == ASSUME Inv, Undirected, Dispatch(Consumer) PROVE ConsumerLists
<1> DEFINE w == Consumer
           r == [run[w] EXCEPT !.pc = run[w].from]
<1>1. /\ run[w].pc = "dispatch" /\ run[w] \in Run /\ Unplaced(run[w]) /\ Go(w, r)
      /\ em[w] \in EntityManager /\ items \in [Entries -> Nat] /\ ~run[w].wanted
  BY ProcessState, ConsumerWorks DEF Dispatch, At, Undirected, Inv, TypeOK, Unplaced
<1>2. FlushOf(w, em[w], items)
  BY <1>1 DEF Dispatch
<1>3. r.pc = run[w].from /\ r.pc # "rule" /\ Unplaced(r)
  BY <1>1 DEF Run, Unplaced
<1> HIDE DEF r
<1> QED
  BY <1>1, <1>2, <1>3, StoreLists

LEMMA RefreshLists == ASSUME Inv, Undirected, Refresh(Consumer) PROVE ConsumerLists
<1> DEFINE w == Consumer
           t == run[w].cur
           left == Refreshed(ctx[w], em[w], t)
           r == [run[w] EXCEPT !.pc = IF run[w].from = "hydrate" THEN "hydrate" ELSE "dispatch"]
<1>1. /\ run[w].pc = "refresh" /\ run[w] \in Run /\ Unplaced(run[w]) /\ Go(w, r)
      /\ em[w] \in EntityManager /\ left \in [Entries -> Nat] /\ FlushOf(w, em[w], left)
  BY ProcessState, ConsumerWorks, ItemsType DEF Refresh, At, Undirected, Inv
<1>2. em[w].art[t] # None
  BY <1>1, LateState, ConsumerWorks DEF LatePlaces
<1>3. r.pc # "rule" /\ Unplaced(r)
  BY <1>1 DEF Run, Unplaced
<1>4. \A i \in Entries : \/ left[i] = items[i]
                         \/ left[i] = 0 /\ i[2] = t /\ ~IsPublished(em[w], t)
  BY DEF Refreshed
<1>5. ~IsPublished(em[w], t) => ~Public(em[w].art[t])
  BY DEF IsPublished, Public
<1> HIDE DEF r, left, t
<1> QED
  BY <1>1, <1>2, <1>3, <1>4, <1>5, StoreLists

LEMMA ReceiveLists == ASSUME Inv, Undirected, Receive PROVE ConsumerLists
<1> DEFINE w == Consumer
           m == Head(queue)
           e == WithPackage(em[w])
           new == e.pkg = None
           row == [status |-> IF new THEN "new" ELSE e.pkg.status, pub |-> m.pub,
                   rev |-> m.rev]
           f == [e EXCEPT !.pkg = row]
           r == [Resting EXCEPT !.pc = IF new THEN "processRules" ELSE "onUpdated"]
<1>1. /\ em[w] \in EntityManager /\ e \in EntityManager /\ items \in [Entries -> Nat]
      /\ e.art = em[w].art /\ e.art0 = em[w].art0 /\ e.adds = em[w].adds
      /\ FlushOf(w, f, items) /\ Go(w, r)
  BY ConsumerWorks, ProcessState, WithPackageType DEF Inv, TypeOK, Receive
<1>2. row \in Package
  <2>1. queue # <<>> /\ queue \in Seq(Message)
    BY DEF Receive, Inv, TypeOK
  <2>2. m \in Message
    BY <2>1, HeadTailProperties
  <2> QED
    BY <1>1, <2>2 DEF EntityManager, Message, Package, Statuses
<1>3. f \in EntityManager /\ f.art = e.art /\ f.art0 = e.art0 /\ f.adds = e.adds
  <2> HIDE DEF row, e
  <2> QED
    BY <1>1, <1>2 DEF EntityManager
<1>4. r.pc # "rule" /\ Unplaced(r)
  BY DEF Resting, Unplaced
<1> HIDE DEF f, r, e
<1> QED
  BY <1>1, <1>3, <1>4, StoreLists

LEMMA HydrateLists == ASSUME Inv, Undirected, Hydrate(Consumer) PROVE ConsumerLists
<1> DEFINE w == Consumer
<1>1. /\ run[w].pc = "hydrate" /\ em[w] \in EntityManager /\ run[w] \in Run
      /\ Fit(em[w], ctx[w], run[w], pkg) /\ Unplaced(run[w]) /\ items \in [Entries -> Nat]
  BY ConsumerWorks, ProcessState DEF Hydrate, At, Undirected, Inv, TypeOK
<1>2. PICK t \in run[w].arts :
        /\ FlushOf(w, [em[w] EXCEPT !.art[t].rev = em[w].pkg.rev], items)
        /\ Go(w, [run[w] EXCEPT !.pc = "articleRules", !.arts = @ \ {t}, !.cur = t,
                                !.wanted = FALSE, !.created = FALSE])
  BY DEF Hydrate
<1> DEFINE f == [em[w] EXCEPT !.art[t].rev = em[w].pkg.rev]
           a == [em[w].art[t] EXCEPT !.rev = em[w].pkg.rev]
           r == [run[w] EXCEPT !.pc = "articleRules", !.arts = @ \ {t}, !.cur = t,
                               !.wanted = FALSE, !.created = FALSE]
<1>3. t \in Tenants /\ em[w].art[t] # None /\ em[w].pkg # None
  BY <1>1 DEF Fit, Run, PackagePlaces, Places
<1>4. em[w].pkg.rev \in Revs
  BY <1>1, <1>3 DEF EntityManager, Package
<1>5. a.status = em[w].art[t].status /\ a.route = em[w].art[t].route /\ a # None
  <2>1. a \in Article /\ a.status = em[w].art[t].status /\ a.route = em[w].art[t].route
    BY <1>1, <1>3, <1>4 DEF EntityManager, Article
  <2> QED
    BY <2>1, NoneIsNothing
<1>6. /\ f \in EntityManager /\ f.art0 = em[w].art0 /\ f.adds = em[w].adds
      /\ f.art = [em[w].art EXCEPT ![t] = a]
      /\ em[w].art \in [Tenants -> Article \cup {None}]
  BY <1>1, <1>3, <1>4, RevSet DEF EntityManager
<1>7. \A u \in Tenants : f.art[u] = IF u = t THEN a ELSE em[w].art[u]
  <2> HIDE DEF f, a
  <2> QED
    BY <1>6
<1>8. r.pc # "rule" /\ Unplaced(r)
  BY <1>1 DEF Run, Unplaced
<1>9. FlushOf(w, f, items) /\ Go(w, r)
  BY <1>2
<1> HIDE DEF f, a, r
<1> QED
  BY <1>1, <1>3, <1>5, <1>6, <1>7, <1>8, <1>9, StoreLists

LEMMA WithdrawnHas ==
    ASSUME NEW e \in EntityManager, NEW t \in Tenants, e.art[t] # None, e.pkg # None,
           NEW f, f = Withdrawn(e, t)
    PROVE  /\ f \in EntityManager /\ f.art0 = e.art0 /\ f.adds = e.adds
           /\ \A u \in Tenants \ {t} : f.art[u] = e.art[u]
           /\ f.art[t] # None /\ f.art[t].status = "unpublished"
           /\ f.art[t].route = e.art[t].route /\ f.art[t].rev = e.art[t].rev
<1> DEFINE g == [e EXCEPT !.art[t].status = "unpublished"]
<1>1. "unpublished" \in Statuses
  BY DEF Statuses
<1>2. /\ g \in EntityManager /\ g.pkg = e.pkg
      /\ g.art0 = e.art0 /\ g.adds = e.adds
      /\ \A u \in Tenants \ {t} : g.art[u] = e.art[u]
      /\ g.art[t] # None /\ g.art[t].status = "unpublished"
      /\ g.art[t].route = e.art[t].route /\ g.art[t].rev = e.art[t].rev
  BY <1>1, StatusPut
<1>3. f = PackageStatus(g, "unpublished")
  BY DEF Withdrawn
<1> HIDE DEF g
<1> QED
  BY <1>1, <1>2, <1>3, PackagePut

\* One tenant: the filter shows every item.
SingleTenant == \A t, u \in Tenants : t = u

LEMMA EntryHas ==
    ASSUME NEW i \in Entries
    PROVE  i[1] \in Tenants /\ i[2] \in Tenants /\ i = <<i[1], i[2]>>
BY DEF Entries

LEMMA AllVisible ==
    ASSUME SingleTenant, NEW c \in Context, NEW i \in Entries
    PROVE  Visible(c, i)
BY EntryHas DEF Visible, Context, SingleTenant

LEMMA CancelLists ==
    ASSUME SingleTenant
    PROVE  Inv /\ Undirected /\ Cancel(Consumer) => ConsumerLists
<1> SUFFICES ASSUME Inv, Undirected, Cancel(Consumer) PROVE ConsumerLists
  OBVIOUS
<1> DEFINE w == Consumer
<1>1. /\ run[w].pc = "cancel" /\ em[w] \in EntityManager /\ run[w] \in Run
      /\ ctx[w] \in Context /\ Fit(em[w], ctx[w], run[w], pkg) /\ Unplaced(run[w])
  BY ConsumerWorks, ProcessState DEF Cancel, At, Undirected
<1>2. PICK t \in run[w].arts :
        LET e == [em[w] EXCEPT !.art[t].status = "canceled"] IN
        /\ Flush(e, Refreshed(ctx[w], e, t))
        /\ Keep(w, PackageCanceled(Clean(e)))
        /\ Go(w, [run[w] EXCEPT !.arts = @ \ {t}])
  BY DEF Cancel
<1> DEFINE f == [em[w] EXCEPT !.art[t].status = "canceled"]
           left == Refreshed(ctx[w], f, t)
           g == PackageCanceled(Clean(f))
           r == [run[w] EXCEPT !.arts = @ \ {t}]
<1>3. t \in Tenants /\ em[w].art[t] # None /\ em[w].pkg # None
  BY <1>1 DEF Fit, Run, PackagePlaces, Places
<1>4. /\ f \in EntityManager /\ f.art0 = em[w].art0 /\ f.adds = em[w].adds /\ f.pkg = em[w].pkg
      /\ \A u \in Tenants \ {t} : f.art[u] = em[w].art[u]
      /\ f.art[t] # None /\ f.art[t].status = "canceled"
      /\ f.art[t].route = em[w].art[t].route
  <2>1. "canceled" \in Statuses
    BY DEF Statuses
  <2> QED
    BY <1>1, <1>3, <2>1, StatusPut
<1>5. g.art = f.art /\ g.art0 = f.art /\ g.adds = NoItems
  <2> HIDE DEF f
  <2>1. /\ Clean(f).adds = NoItems /\ Clean(f).art = f.art /\ Clean(f).art0 = f.art
        /\ Clean(f) \in EntityManager /\ Clean(f).pkg # None
    BY <1>3, <1>4, CleanLists, CleanHas
  <2>2. g.adds = Clean(f).adds
    BY <2>1 DEF PackageCanceled, EntityManager
  <2> QED
    BY <2>1, <2>2, PackageCanceledType
<1>6. left \in [Entries -> Nat]
  BY ItemsType DEF Inv
<1>7. \A i \in Entries : IF i[2] = t THEN left[i] = 0 ELSE left[i] = items[i]
  <2>1. ~IsPublished(f, t)
    <3> HIDE DEF f
    <3> QED
      BY <1>4 DEF IsPublished
  <2> HIDE DEF f
  <2> QED
    BY <1>1, <2>1, AllVisible DEF Refreshed
<1>8. Flush(f, left) /\ Keep(w, g) /\ Go(w, r)
  BY <1>2
<1>9. r.pc = "cancel" /\ Unplaced(r)
  BY <1>1 DEF Run, Unplaced
<1> HIDE DEF f, left, g, r
<1>10. /\ em'[w] = g /\ run'[w] = r
       /\ \A v \in Api : em'[v] = em[v] /\ run'[v] = run[v]
  BY <1>8, OnlyConsumer
<1>11. Flushes(f, left)
  BY <1>3, <1>4, <1>5, <1>6, <1>8, <1>9, <1>10 DEF Flushes
<1>12. CancelsOne
  BY <1>1, <1>3, <1>4, <1>7, <1>11 DEF CancelsOne, ListPlaces
<1> QED
  BY <1>9, <1>10, <1>12 DEF ConsumerLists

LEMMA RuleLists == ASSUME Inv, Undirected, Rule(Consumer) PROVE ConsumerLists
<1> DEFINE w == Consumer
           t == run[w].cur
           l == ctx[w].tenant
           rule == Head(run[w].rules)
           applies == em[w].art[t].rev \in rule.when
           routed == IF applies /\ rule.route # None
                       THEN [em[w] EXCEPT !.art[t].route = rule.route] ELSE em[w]
           e == AfterPublish(routed, t)
           r == [run[w] EXCEPT !.rules = Tail(@)]
<1>1. run[w].pc = "rule" /\ run[w].pc \in LatePlaces /\ run[w].rules # <<>> /\ Unplaced(run[w])
  BY DEF Rule, At, LatePlaces, Undirected
<1>2. /\ t \in Tenants /\ em[w].art[t] # None /\ em[w].pkg # None /\ l \in Tenants
      /\ em[w] \in EntityManager /\ run[w] \in Run
  BY <1>1, LateState, ConsumerWorks
<1>3. rule \in TenantRule
  BY <1>1, HeadRule, ConsumerWorks
<1>4. /\ Go(w, r) /\ r.pc = "rule" /\ r.rules = Tail(run[w].rules) /\ r.cur = t /\ Unplaced(r)
  BY <1>1, <1>2 DEF Rule, Run, Unplaced
<1>5. /\ routed \in EntityManager /\ routed.pkg = em[w].pkg /\ routed.art0 = em[w].art0
      /\ routed.adds = em[w].adds /\ \A u \in Tenants \ {t} : routed.art[u] = em[w].art[u]
      /\ routed.art[t] # None /\ routed.art[t].status = em[w].art[t].status
      /\ routed.art[t].rev = em[w].art[t].rev
      /\ routed.art[t].route \in {em[w].art[t].route, rule.route}
      /\ ~applies \/ rule.route = None => routed = em[w]
  <2>1. rule.route \in Routes \cup {None}
    BY <1>3 DEF TenantRule
  <2>2. routed = IF applies /\ rule.route # None
                   THEN [em[w] EXCEPT !.art[t].route = rule.route] ELSE em[w]
    OBVIOUS
  <2> HIDE DEF t, rule, applies, routed
  <2>3. CASE applies /\ rule.route # None
    <3>1. routed = [em[w] EXCEPT !.art[t].route = rule.route]
      BY <2>2, <2>3
    <3> QED
      BY <1>2, <2>1, <2>3, <3>1, RoutePut
  <2>4. CASE ~(applies /\ rule.route # None)
    <3>1. routed = em[w]
      BY <2>2, <2>4
    <3> QED
      BY <1>2, <3>1
  <2> QED
    BY <2>3, <2>4
<1>6. /\ e \in EntityManager /\ e.art0 = em[w].art0 /\ e.adds = em[w].adds
      /\ \A u \in Tenants \ {t} : e.art[u] = em[w].art[u]
      /\ Public(e.art[t]) /\ e.art[t].rev = em[w].art[t].rev
      /\ e.art[t].route \in {em[w].art[t].route, rule.route}
  <2> HIDE DEF routed, t, rule
  <2> QED
    BY <1>2, <1>5, PublishedHas
<1>7. \/ /\ ~(applies /\ rule.published = "yes")
         /\ Keep(w, routed) /\ UNCHANGED db
      \/ /\ applies /\ rule.published = "yes" /\ ~NonUnique(w, e, t)
         /\ IF MustUnlist(w, e, t)
            THEN FlushOf(w, e, Unlisted(w, t))
            ELSE Keep(w, Listed(w, e, t)) /\ UNCHANGED db
  BY DEF Rule
<1>8. /\ Listed(w, e, t).art = e.art /\ Listed(w, e, t).art0 = e.art0
      /\ IF Matches(l, e.art[t].route)
         THEN Listed(w, e, t).adds = [e.adds EXCEPT ![<<l, t>>] = @ + 1]
         ELSE Listed(w, e, t).adds = e.adds
  <2> HIDE DEF e, t
  <2> QED
    BY <1>2, <1>6, ListedType, ConsumerWorks DEF Listed, EntityManager
<1>9. MustUnlist(w, e, t) => <<l, t>> \in Entries /\ items[<<l, t>>] > 0
  <2> HIDE DEF e, t
  <2> QED
    BY <1>2 DEF MustUnlist, Found, Entries
<1>10. applies <=> em[w].art[t].rev \in rule.when
  OBVIOUS
<1>11. rule = Head(run[w].rules) /\ t = run[w].cur /\ l = ctx[w].tenant
  OBVIOUS
<1> HIDE DEF applies, routed, e, r, rule, t, l
<1>12. CASE ~(applies /\ rule.published = "yes") /\ Keep(w, routed) /\ UNCHANGED db
  <2>1. /\ em'[w] = routed /\ run'[w] = r
        /\ \A v \in Api : em'[v] = em[v] /\ run'[v] = run[v]
    BY <1>4, <1>12, OnlyConsumer
  <2>2. AppliesRule
    BY <1>1, <1>4, <1>11, <2>1 DEF AppliesRule
  <2>3. RoutesOne
    BY <1>5, <1>10, <1>11, <1>12, <2>1, <2>2 DEF RoutesOne, Publishes, db
  <2> QED
    BY <1>4, <2>1, <2>3 DEF ConsumerLists
<1>13. ASSUME applies, rule.published = "yes"
       PROVE  Publishes(rule, em[w].art[t])
  BY <1>10, <1>13 DEF Publishes
<1>14. CASE /\ applies /\ rule.published = "yes"
            /\ FlushOf(w, e, Unlisted(w, t)) /\ MustUnlist(w, e, t)
  <2>1. Keep(w, Clean(e))
    BY <1>14 DEF FlushOf
  <2>2. run'[w] = r /\ \A v \in Api : em'[v] = em[v] /\ run'[v] = run[v]
    BY <1>4, <2>1, OnlyConsumer
  <2>3. AppliesRule
    BY <1>1, <1>4, <1>11, <2>2 DEF AppliesRule
  <2>4. \E i \in Entries : i[2] = t /\ items[i] > 0
    BY <1>9, <1>14
  <2>5. PublishesOne
    BY <1>11, <1>13, <1>14, <2>3, <2>4 DEF PublishesOne
  <2> QED
    BY <1>4, <2>2, <2>5 DEF ConsumerLists
<1>15. CASE applies /\ rule.published = "yes" /\ Keep(w, Listed(w, e, t)) /\ UNCHANGED db
  <2>1. /\ em'[w] = Listed(w, e, t) /\ run'[w] = r
        /\ \A v \in Api : em'[v] = em[v] /\ run'[v] = run[v]
    BY <1>4, <1>15, OnlyConsumer
  <2>2. AppliesRule
    BY <1>1, <1>4, <1>11, <2>1 DEF AppliesRule
  <2>3. PublishesOne
    BY <1>2, <1>6, <1>8, <1>11, <1>13, <1>15, <2>1, <2>2 DEF PublishesOne, db
  <2> QED
    BY <1>4, <2>1, <2>3 DEF ConsumerLists
<1> QED
  BY <1>7, <1>12, <1>14, <1>15

\* The consumer's steps, without destinations.
LEMMA ConsumeLists ==
    ASSUME SingleTenant
    PROVE  Inv /\ Steady /\ Undirected /\ (Consume \/ Crash(Consumer)) => ConsumerLists
<1> SUFFICES ASSUME Inv, Steady, Undirected, Consume \/ Crash(Consumer)
             PROVE  ConsumerLists
  OBVIOUS
<1>1. ~At(Consumer, "publish")
  BY DEF Undirected, Unplaced, At
<1>2. CASE Crash(Consumer) \/ UniqueViolation(Consumer) \/ NonUniqueResult(Consumer)
  BY <1>2, ConsumerWorks, RestartShape, ForgetLists
<1>3. CASE Processed(Consumer)
  <2>1. /\ [ctx[Consumer] EXCEPT !.tenant = None].tenant = None
        /\ [ctx[Consumer] EXCEPT !.tenant = None] \in Context
    BY ConsumerWorks, ProcessState DEF Context
  <2>2. ForgetStep(Consumer)
    BY <1>3, <2>1 DEF Processed, ForgetStep
  <2> QED
    BY <2>2, ForgetLists
<1>4. CASE Handle(Consumer)
  BY <1>1, <1>2, <1>4, SaveLists, ArticleRulesLists, RuleLists, RulesDoneLists, RefreshLists,
     DispatchLists
  DEF Handle, Publish, PublishDone
<1> QED
  BY <1>2, <1>3, <1>4, ReceiveLists, OnUpdatedLists, HydrateLists, HydratedLists,
     OnCanceledLists, CancelLists, CanceledLists, ProcessRulesLists, PopulateLists,
     PopulatedLists
  DEF Consume

-----------------------------------------------------------------------------
(* Lists hold published articles.                                          *)

\* The article is published in memory only.
Gained(e, t) == Public(e.art[t]) /\ e.art0[t] # None /\ ~Public(e.art0[t])

\* The consumer has no article in another state than its row, but those it has
\* yet to store; only those have items to add, and only while rules are run for
\* them.
HeldLists ==
    LET e == em[Consumer]
        r == run[Consumer]
    IN /\ HiddenRows(e)
       /\ \A t \in Tenants : Public(e.art0[t]) => Public(e.art[t])
       /\ r.pc \notin ListPlaces => e.adds = NoItems
       /\ r.pc = "rule" => ~Public(e.art0[r.cur])
       /\ \A i \in Entries : e.adds[i] > 0 => Gained(e, i[2])

\* ListedIsPublished, also while messages and requests are handled.
ListedRows == \A i \in Entries : items[i] > 0 => Public(art[i[2]])

\* What the flush of an object does to a row and to the items.
LEMMA FlushLists ==
    ASSUME Inv, NEW g \in EntityManager, NEW left \in [Entries -> Nat], Flush(g, left),
           \A t \in Tenants : g.art0[t] # None => g.art[t] # None /\ art[t] # None
    PROVE  /\ \A i \in Entries : items'[i] = left[i] + g.adds[i] /\ g.adds[i] \in Nat
           /\ \A t \in Tenants :
                /\ g.art[t] = None => art'[t] = art[t]
                /\ g.art[t] # None => art'[t] # None
                /\ g.art[t] # None /\ g.art0[t] = None => art[t] = None /\ art'[t] = g.art[t]
                /\ g.art0[t] # None =>
                     /\ art'[t].status = IF g.art[t].status # g.art0[t].status
                                           THEN g.art[t].status ELSE art[t].status
                     /\ art'[t].route = IF g.art[t].route # g.art0[t].route
                                          THEN g.art[t].route ELSE art[t].route
<1>1. \A i \in Entries : items'[i] = left[i] + g.adds[i] /\ g.adds[i] \in Nat
  BY DEF Flush, EntityManager
<1>2. ASSUME NEW t \in Tenants, g.art0[t] # None
      PROVE  art'[t].route = IF g.art[t].route # g.art0[t].route
                               THEN g.art[t].route ELSE art[t].route
  <2> DEFINE row == art[t]
             new == g.art[t]
             old == g.art0[t]
  <2>1. old # None /\ new # None /\ row # None /\ art'[t] = MergedArticle(row, new, old)
    BY <1>2 DEF Flush
  <2> HIDE DEF row, new, old
  <2>2. art'[t].route = IF new.route # old.route THEN new.route ELSE row.route
    BY <2>1 DEF MergedArticle
  <2> QED
    BY <2>2 DEF row, new, old
<1> QED
  BY <1>1, <1>2, FlushedArticles

\* The consumer stores g.
LEMMA FlushesKeeps ==
    ASSUME Inv, Tracked, Steady, HeldLists, ListedRows, NEW g, NEW left, Flushes(g, left),
           \A i \in Entries : left[i] = items[i] \/ left[i] = 0,
           \A i \in Entries : left[i] > 0 => g.art[i[2]] = None \/ Public(g.art[i[2]]),
           \A i \in Entries : g.adds[i] > 0 => Gained(g, i[2])
    PROVE  HeldLists' /\ ListedRows'
<1>1. /\ Managed(em[Consumer]) /\ g \in EntityManager /\ left \in [Entries -> Nat]
      /\ Flush(g, left) /\ items \in [Entries -> Nat]
      /\ g.art0 = em[Consumer].art0 /\ g.adds = em[Consumer].adds
      /\ \A t \in Tenants : g.art[t] = None <=> em[Consumer].art[t] = None
  BY ConsumerWorks DEF Tracked, Flushes, Inv, TypeOK
<1>2. \A t \in Tenants : g.art0[t] # None => g.art[t] # None /\ art[t] # None
  BY <1>1 DEF Managed
<1>3. /\ \A i \in Entries : items'[i] = left[i] + g.adds[i] /\ g.adds[i] \in Nat
      /\ \A t \in Tenants :
           /\ g.art[t] = None => art'[t] = art[t]
           /\ g.art[t] # None => art'[t] # None
           /\ g.art[t] # None /\ g.art0[t] = None => art[t] = None /\ art'[t] = g.art[t]
           /\ g.art0[t] # None =>
                art'[t].status = IF g.art[t].status # g.art0[t].status
                                   THEN g.art[t].status ELSE art[t].status
  BY <1>1, <1>2, FlushLists
<1>4. ASSUME NEW t \in Tenants, g.art[t] # None, ~Public(g.art[t])
      PROVE  ~Public(art'[t])
  BY <1>1, <1>2, <1>3, <1>4 DEF HeldLists, HiddenRows, Public
<1>5. HeldLists'
  <2>1. /\ em'[Consumer].art0 = g.art /\ em'[Consumer].art = g.art
        /\ em'[Consumer].adds = NoItems /\ run'[Consumer].pc # "rule"
    BY DEF Flushes
  <2>2. \A i \in Entries : em'[Consumer].adds[i] = 0
    BY <2>1 DEF NoItems
  <2>3. HiddenRows(em[Consumer])'
    BY <1>4, <2>1 DEF HiddenRows
  <2> QED
    BY <2>1, <2>2, <2>3 DEF HeldLists
<1>6. ListedRows'
  <2> SUFFICES ASSUME NEW i \in Entries, items'[i] > 0 PROVE Public(art'[i[2]])
    BY DEF ListedRows
  <2> DEFINE t == i[2]
  <2>1. t \in Tenants
    BY EntryHas
  <2>2. CASE g.adds[i] > 0
    BY <1>3, <2>1, <2>2 DEF Gained, Public
  <2>3. CASE left[i] > 0
    <3>1. items[i] > 0 /\ Public(art[t])
      BY <1>1, <2>3 DEF ListedRows
    <3>2. g.art[t] = None \/ Public(g.art[t])
      BY <2>3
    <3> QED
      BY <1>3, <2>1, <3>1, <3>2 DEF Public
  <2>4. g.adds[i] > 0 \/ left[i] > 0
    <3>1. items'[i] = left[i] + g.adds[i] /\ g.adds[i] \in Nat /\ left[i] \in Nat
      BY <1>1, <1>3
    <3> QED
      BY <3>1
  <2> QED
    BY <2>2, <2>3, <2>4
<1> QED
  BY <1>5, <1>6

\* A row the consumer holds is public only if the object it loaded was.
LEMMA HeldPublic ==
    ASSUME Inv, Steady, HeldLists, NEW t \in Tenants,
           Public(art[t]), em[Consumer].art[t] # None
    PROVE  Public(em[Consumer].art0[t]) /\ Public(em[Consumer].art[t])
<1>1. em[Consumer].art0[t] # None
  BY ConsumerWorks DEF Steady, Held, Public
<1> QED
  BY <1>1 DEF HeldLists, HiddenRows

LEMMA ConsumerKeepsLists ==
    ASSUME Inv, Tracked, Steady, HeldLists, ListedRows, ConsumerLists
    PROVE  HeldLists' /\ ListedRows'
<1> DEFINE e == em[Consumer]
<1>1. /\ items \in [Entries -> Nat] /\ e \in EntityManager /\ Managed(e)
  BY ConsumerWorks, ProcessState DEF Inv, TypeOK, Tracked
<1>2. \A t \in Tenants : e.art[t] # None /\ e.art0[t] = None =>
        At(Consumer, "save") /\ art[t] = None
  BY ConsumerWorks DEF Steady, Held
<1>3. CASE GoesOn
  <2>1. run[Consumer].pc \in ListPlaces => run'[Consumer].pc \in ListPlaces
    BY <1>3 DEF GoesOn
  <2> QED
    BY <1>3, <2>1 DEF GoesOn, HeldLists, ListedRows, HiddenRows, Gained
<1>4. CASE StartsRules
  BY <1>4 DEF StartsRules, HeldLists, ListedRows, HiddenRows, Gained, ListPlaces
<1>5. CASE Loads
  <2>1. PICK T : \A t \in Tenants :
          IF t \in T /\ em[Consumer].art[t] = None
          THEN em'[Consumer].art[t] = art[t] /\ em'[Consumer].art0[t] = art[t]
          ELSE /\ em'[Consumer].art[t] = em[Consumer].art[t]
               /\ em'[Consumer].art0[t] = em[Consumer].art0[t]
    BY <1>5 DEF Loads
  <2>2. em'[Consumer].adds = NoItems /\ UNCHANGED <<art, items>> /\ run'[Consumer].pc # "rule"
    BY <1>5 DEF Loads, HeldLists
  <2>3. HiddenRows(em[Consumer])'
    BY <2>1, <2>2 DEF HeldLists, HiddenRows
  <2> QED
    BY <2>1, <2>2, <2>3 DEF HeldLists, ListedRows, NoItems
<1>6. CASE Creates
  <2>1. PICK t \in Tenants :
          /\ em'[Consumer].art[t] # None /\ em'[Consumer].art[t].status = "new"
          /\ em'[Consumer].art0[t] = None /\ art[t] = None
          /\ \A u \in Tenants \ {t} : /\ em'[Consumer].art[u] = em[Consumer].art[u]
                                      /\ em'[Consumer].art0[u] = em[Consumer].art0[u]
    BY <1>6 DEF Creates
  <2>2. em'[Consumer].adds = NoItems /\ UNCHANGED <<art, items>> /\ run'[Consumer].pc # "rule"
    BY <1>6 DEF Creates, HeldLists
  <2>3. HiddenRows(em[Consumer])'
    BY <2>1, <2>2 DEF HeldLists, HiddenRows
  <2>4. \A u \in Tenants : Public(em'[Consumer].art0[u]) => Public(em'[Consumer].art[u])
    BY <2>1 DEF HeldLists, Public
  <2> QED
    BY <2>2, <2>3, <2>4 DEF HeldLists, ListedRows, NoItems
<1>7. CASE Stores
  <2>1. PICK g, left :
      /\ Flushes(g, left)
      /\ \A t \in Tenants : em[Consumer].art[t] # None =>
           /\ g.art[t].status = em[Consumer].art[t].status
           /\ g.art[t].route = em[Consumer].art[t].route
      /\ \A i \in Entries :
           \/ left[i] = items[i]
           \/ left[i] = 0 /\ em[Consumer].art[i[2]] # None /\ ~Public(em[Consumer].art[i[2]])
    BY <1>7 DEF Stores
  <2>2. /\ g.art0 = e.art0 /\ g.adds = e.adds
        /\ \A t \in Tenants : g.art[t] = None <=> e.art[t] = None
    BY <2>1 DEF Flushes
  <2>3. \A t \in Tenants : Public(e.art[t]) => Public(g.art[t])
    BY <2>1, <2>2 DEF Public
  <2>4. ASSUME NEW i \in Entries, left[i] > 0
        PROVE  g.art[i[2]] = None \/ Public(g.art[i[2]])
    <3>1. left[i] = items[i] /\ i[2] \in Tenants
      BY <2>1, <2>4, EntryHas
    <3>2. Public(art[i[2]])
      BY <2>4, <3>1 DEF ListedRows
    <3> QED
      BY <2>2, <2>3, <3>1, <3>2, HeldPublic
  <2>5. \A i \in Entries : g.adds[i] > 0 => Gained(g, i[2])
    BY <2>2, <2>3, EntryHas DEF HeldLists, Gained
  <2> QED
    BY <2>1, <2>4, <2>5, FlushesKeeps
<1>8. CASE CancelsOne
  <2>1. PICK g, left : 
      /\ Flushes(g, left)
      /\ run[Consumer].pc \notin ListPlaces
      /\ \E t \in Tenants :
           /\ g.art[t] # None /\ g.art[t].status = "canceled"
           /\ \A u \in Tenants \ {t} : g.art[u] = em[Consumer].art[u]
           /\ \A i \in Entries : IF i[2] = t THEN left[i] = 0 ELSE left[i] = items[i]
    BY <1>8 DEF CancelsOne
  <2>2. PICK t \in Tenants :
           /\ g.art[t] # None /\ g.art[t].status = "canceled"
           /\ \A u \in Tenants \ {t} : g.art[u] = em[Consumer].art[u]
           /\ \A i \in Entries : IF i[2] = t THEN left[i] = 0 ELSE left[i] = items[i]
    BY <2>1
  <2>3. g.adds = NoItems
    BY <2>1 DEF Flushes, HeldLists
  <2>4. ASSUME NEW i \in Entries, left[i] > 0
        PROVE  g.art[i[2]] = None \/ Public(g.art[i[2]])
    <3>1. left[i] = items[i] /\ i[2] \in Tenants \ {t}
      BY <2>2, <2>4, EntryHas
    <3>2. Public(art[i[2]]) /\ g.art[i[2]] = e.art[i[2]]
      BY <2>2, <2>4, <3>1 DEF ListedRows
    <3> QED
      BY <3>1, <3>2, HeldPublic
  <2>5. \A i \in Entries : left[i] = items[i] \/ left[i] = 0
    BY <2>2
  <2> QED
    BY <2>1, <2>3, <2>4, <2>5, FlushesKeeps DEF NoItems
<1>9. ASSUME AppliesRule
      PROVE  /\ run[Consumer].cur \in Tenants /\ e.art[run[Consumer].cur] # None
             /\ e.art0[run[Consumer].cur] # None /\ ~Public(e.art0[run[Consumer].cur])
             /\ \A i \in Entries : i[2] = run[Consumer].cur => ~(items[i] > 0)
  <2>1. /\ run[Consumer].pc = "rule" /\ run[Consumer].cur \in Tenants
        /\ e.art[run[Consumer].cur] # None
    BY <1>9, LateState, ConsumerWorks DEF AppliesRule, LatePlaces
  <2>2. e.art0[run[Consumer].cur] # None /\ ~Public(e.art0[run[Consumer].cur])
    BY <1>2, <2>1 DEF At, HeldLists
  <2>3. ~Public(art[run[Consumer].cur])
    BY <2>1, <2>2, HeldPublic
  <2> QED
    BY <2>1, <2>2, <2>3 DEF ListedRows
<1>10. CASE RoutesOne
  <2> DEFINE t == run[Consumer].cur
  <2>1. /\ AppliesRule /\ UNCHANGED <<art, items>>
        /\ em'[Consumer].art0 = e.art0 /\ em'[Consumer].adds = e.adds
        /\ \A u \in Tenants \ {t} : em'[Consumer].art[u] = e.art[u]
        /\ em'[Consumer].art[t] # None /\ em'[Consumer].art[t].status = e.art[t].status
    BY <1>10 DEF RoutesOne
  <2>2. run'[Consumer].pc = "rule" /\ run'[Consumer].cur = t /\ run[Consumer].pc = "rule"
    BY <2>1 DEF AppliesRule
  <2>3. \A u \in Tenants : Public(em'[Consumer].art[u]) <=> Public(e.art[u])
    BY <1>9, <2>1 DEF Public
  <2>4. HiddenRows(em[Consumer])'
    BY <2>1 DEF HeldLists, HiddenRows
  <2>5. \A i \in Entries : em'[Consumer].adds[i] > 0 => Gained(em'[Consumer], i[2])
    BY <2>1, <2>3, EntryHas DEF HeldLists, Gained
  <2> QED
    BY <2>1, <2>2, <2>3, <2>4, <2>5 DEF HeldLists, ListedRows, ListPlaces
<1>11. CASE PublishesOne
  <2> DEFINE t == run[Consumer].cur
             f == em'[Consumer]
  <2>1. /\ AppliesRule /\ UNCHANGED <<art, items>> /\ f.art0 = e.art0
        /\ \A u \in Tenants \ {t} : f.art[u] = e.art[u]
        /\ Public(f.art[t])
        /\ \E l \in Tenants : IF Matches(l, f.art[t].route)
                              THEN f.adds = [e.adds EXCEPT ![<<l, t>>] = @ + 1]
                              ELSE f.adds = e.adds
    BY <1>9, <1>11 DEF PublishesOne
  <2>2. run'[Consumer].pc = "rule" /\ run'[Consumer].cur = t /\ run[Consumer].pc = "rule"
    BY <2>1 DEF AppliesRule
  <2>3. \A u \in Tenants : Public(e.art[u]) => Public(f.art[u])
    BY <2>1
  <2>4. HiddenRows(em[Consumer])'
    BY <2>1 DEF HeldLists, HiddenRows
  <2>5. Gained(f, t)
    BY <1>9, <2>1 DEF Gained
  <2>6. \A i \in Entries : i[2] = t \/ f.adds[i] = e.adds[i]
    BY <1>1, <2>1 DEF EntityManager
  <2>7. \A i \in Entries : f.adds[i] > 0 => Gained(f, i[2])
    BY <2>1, <2>3, <2>5, <2>6, EntryHas DEF HeldLists, Gained
  <2>8. \A u \in Tenants : Public(f.art0[u]) => Public(f.art[u])
    BY <2>1, <2>3 DEF HeldLists
  <2>9. ~Public(f.art0[t])
    BY <2>5 DEF Gained
  <2> QED
    BY <2>1, <2>2, <2>4, <2>7, <2>8, <2>9 DEF HeldLists, ListedRows, ListPlaces
<1>12. CASE Forgets
  BY <1>12 DEF Forgets, FreshEm, Resting, NoArticles, NoItems, HeldLists, ListedRows,
              HiddenRows, Public
<1> QED
  BY <1>3, <1>4, <1>5, <1>6, <1>7, <1>8, <1>10, <1>11, <1>12 DEF ConsumerLists

-----------------------------------------------------------------------------
(* What a request does to the articles it holds and to the items; f is what *)
(* it goes on with.                                                         *)

\* It loads articles, patches one that it has loaded, or is done.
ReadsAs(w, f) ==
    /\ UNCHANGED <<art, items>> /\ f.adds = NoItems
    /\ \A t \in Tenants :
         \/ f.art[t] = em[w].art[t] /\ f.art0[t] = em[w].art0[t]
         \/ f.art[t] = art[t] /\ f.art0[t] = art[t]
         \/ f.art[t] = None /\ f.art0[t] = None
         \/ \E q \in ArticleRequests :
              /\ q.tenant = t /\ f.art0[t] = art[t] /\ f.art[t] # None
              /\ f.art[t].status = q.status /\ f.art[t].route = q.route

\* It stores them; the items go if it changed the status.
WritesAs(w, f) ==
    \E g \in EntityManager, left \in [Entries -> Nat] :
      /\ Flush(g, left) /\ g.adds = NoItems /\ g.art0 = em[w].art0
      /\ f.adds = NoItems
      /\ \A t \in Tenants :
           /\ g.art[t] = None <=> em[w].art[t] = None
           /\ em[w].art[t] # None => g.art[t].route = em[w].art[t].route
           /\ Public(g.art[t]) => Public(em[w].art[t])
           /\ \/ f.art[t] = g.art[t] /\ f.art0[t] = g.art[t]
              \/ f.art[t] = None /\ f.art0[t] = None
      /\ \A i \in Entries :
           /\ g.art[i[2]] # None /\ g.art0[i[2]] # None
           /\ IF g.art[i[2]].status = g.art0[i[2]].status THEN left[i] = items[i]
              ELSE left[i] = 0 /\ ~Public(g.art[i[2]])

Asks(w) == \E f, r : Keep(w, f) /\ Go(w, r) /\ (ReadsAs(w, f) \/ WritesAs(w, f))

\* Requests publish nothing and add nothing to a list.
RequestsHold == \A w \in Api : Unpublishing(em[w]) /\ em[w].adds = NoItems

LEMMA EndAsks ==
    ASSUME NEW w, Keep(w, FreshEm), NEW r, Go(w, r), UNCHANGED db
    PROVE  Asks(w)
BY DEF Asks, ReadsAs, FreshEm, NoArticles, db

LEMMA OpenAsks ==
    ASSUME Inv, RequestsHold, NEW w \in Api, PublishPackage(w) \/ UnpublishPackage(w)
    PROVE  Asks(w)
<1>1. PICK r : OpenStep(w, r)
  BY OpenHas
<1> DEFINE f == WithPackage(em[w])
<1>2. Keep(w, f) /\ Go(w, r) /\ UNCHANGED <<art, items>>
  BY <1>1 DEF OpenStep, db
<1>3. f.art = em[w].art /\ f.art0 = em[w].art0 /\ f.adds = em[w].adds
  BY WithPackageType, ProcessState DEF Inv, Workers
<1> HIDE DEF f
<1>4. ReadsAs(w, f)
  BY <1>2, <1>3 DEF ReadsAs, RequestsHold
<1> QED
  BY <1>2, <1>4 DEF Asks

LEMMA UnpublishLoadAsks ==
    ASSUME Inv, RequestsHold, NEW w \in Api, UnpublishLoad(w)
    PROVE  Asks(w)
<1> DEFINE f == WithArticles(em[w], Existing)
<1>1. Keep(w, f) /\ (\E r : Go(w, r)) /\ UNCHANGED <<art, items>>
  BY DEF UnpublishLoad, db
<1>2. em[w] \in EntityManager
  BY ProcessState DEF Workers
<1>3. \A t \in Tenants :
        \/ f.art[t] = em[w].art[t] /\ f.art0[t] = em[w].art0[t]
        \/ f.art[t] = art[t] /\ f.art0[t] = art[t]
  BY <1>2, LoadedHas
<1>4. f.adds = NoItems
  BY <1>2 DEF WithArticles, EntityManager, RequestsHold
<1> HIDE DEF f
<1>5. ReadsAs(w, f)
  BY <1>1, <1>3, <1>4 DEF ReadsAs
<1> QED
  BY <1>1, <1>5 DEF Asks

LEMMA PatchAsks ==
    ASSUME Inv, Steady, RequestsHold, NEW w \in Api, PatchArticle(w)
    PROVE  Asks(w)
<1>1. PICK q \in ArticleRequests :
        LET t == q.tenant IN
        /\ art[t] # None
        /\ Keep(w, [WithArticles(em[w], {t}) EXCEPT
                      !.art[t] = [art[t] EXCEPT !.status = q.status, !.route = q.route]])
        /\ Go(w, [Resting EXCEPT !.pc = "patch", !.cur = t])
  BY DEF PatchArticle
<1> DEFINE t == q.tenant
           e == WithArticles(em[w], {t})
           a == [art[t] EXCEPT !.status = q.status, !.route = q.route]
           f == [e EXCEPT !.art[t] = a]
<1>2. w \in Workers /\ em[w] = FreshEm /\ em[w] \in EntityManager
      /\ Keep(w, f) /\ (\E r : Go(w, r)) /\ UNCHANGED <<art, items>>
  BY <1>1, ProcessState DEF PatchArticle, Accept, Workers, Steady, Rested, db
<1>3. t \in Tenants /\ q.status \in Statuses /\ q.route \in Routes \cup {None}
  BY RequestTypes
<1>4. a \in Article /\ a # None /\ a.status = q.status /\ a.route = q.route
  <2>1. art[t] \in Article
    BY <1>1, <1>3 DEF Inv, TypeOK
  <2> QED
    BY <1>3, <2>1, NoneIsNothing DEF Article
<1>5. /\ e \in EntityManager /\ e.adds = NoItems /\ e.art0[t] = art[t]
      /\ \A u \in Tenants \ {t} : e.art[u] = em[w].art[u] /\ e.art0[u] = em[w].art0[u]
  <2>1. em[w].art[t] = None
    BY <1>2, <1>3 DEF FreshEm, NoArticles
  <2>2. e.adds = em[w].adds
    BY <1>2 DEF WithArticles, EntityManager
  <2>3. /\ e \in EntityManager
        /\ \A u \in Tenants : IF u \in {t} /\ em[w].art[u] = None
                              THEN e.art[u] = art[u] /\ e.art0[u] = art[u]
                              ELSE e.art[u] = em[w].art[u] /\ e.art0[u] = em[w].art0[u]
    BY <1>2, LoadedHas
  <2> HIDE DEF e, t
  <2> QED
    BY <1>2, <1>3, <2>1, <2>2, <2>3 DEF RequestsHold
<1>6. /\ f.adds = NoItems /\ f.art0 = e.art0 /\ f.art[t] = a
      /\ \A u \in Tenants \ {t} : f.art[u] = e.art[u]
  <2> HIDE DEF e, a, t
  <2> QED
    BY <1>3, <1>5 DEF EntityManager
<1>7. \E p \in ArticleRequests : /\ p.tenant = t /\ a.status = p.status /\ a.route = p.route
  BY <1>4
<1> HIDE DEF f, e, a, t
<1>8. ReadsAs(w, f)
  BY <1>2, <1>4, <1>5, <1>6, <1>7 DEF ReadsAs
<1> QED
  BY <1>2, <1>8 DEF Asks

LEMMA UnpublishAsks ==
    ASSUME SingleTenant
    PROVE  \A w \in Api :
             Inv /\ Tracked /\ Steady /\ RequestsHold /\ Unpublish(w) => Asks(w)
<1> SUFFICES ASSUME NEW w \in Api, Inv, Tracked, Steady, RequestsHold, Unpublish(w)
             PROVE  Asks(w)
  OBVIOUS
<1>1. PICK t \in run[w].arts :
        LET e == Withdrawn(em[w], t) IN
        /\ IF IsPublished(em[w], t)
           THEN FlushOf(w, e, Refreshed(TenantSet(t), e, t))
           ELSE UNCHANGED <<db, em>>
        /\ Go(w, [run[w] EXCEPT !.arts = @ \ {t}])
  BY DEF Unpublish
<1> DEFINE e == Withdrawn(em[w], t)
           left == Refreshed(TenantSet(t), e, t)
           f == Clean(e)
<1>2. /\ w \in Workers /\ w # Consumer /\ em[w] \in EntityManager /\ run[w] \in Run
      /\ run[w].pc = "unpublish" /\ Fit(em[w], ctx[w], run[w], pkg) /\ \E r : Go(w, r)
  BY <1>1, ProcessState, ConsumerWorks DEF Unpublish, Workers, At
<1>3. t \in Tenants /\ em[w].art[t] # None /\ em[w].pkg # None
  BY <1>2 DEF Fit, Run, PackagePlaces, Places
<1>4. CASE ~IsPublished(em[w], t)
  <2>1. Keep(w, em[w]) /\ UNCHANGED <<art, items>>
    BY <1>1, <1>4 DEF Keep, db, Inv, TypeOK
  <2>2. ReadsAs(w, em[w])
    BY <2>1 DEF ReadsAs, RequestsHold
  <2> QED
    BY <1>2, <2>1, <2>2 DEF Asks
<1>5. CASE IsPublished(em[w], t)
  <2>1. Flush(e, left) /\ Keep(w, f)
    BY <1>1, <1>5 DEF FlushOf
  <2>2. /\ e \in EntityManager /\ e.art0 = em[w].art0 /\ e.adds = em[w].adds
        /\ \A u \in Tenants \ {t} : e.art[u] = em[w].art[u]
        /\ e.art[t] # None /\ e.art[t].status = "unpublished"
        /\ e.art[t].route = em[w].art[t].route
    BY <1>2, <1>3, WithdrawnHas
  <2>3. f.adds = NoItems /\ f.art = e.art /\ f.art0 = e.art
    BY <2>2, CleanLists
  <2>4. left \in [Entries -> Nat] /\ \A i \in Entries : left[i] = 0
    <3>1. items \in [Entries -> Nat] /\ TenantSet(t) \in Context /\ ~IsPublished(e, t)
      BY <1>3, <2>2 DEF Inv, TypeOK, TenantSet, Context, IsPublished
    <3>2. \A i \in Entries : i[2] = t /\ Visible(TenantSet(t), i)
      BY <1>3, <3>1, AllVisible, EntryHas DEF SingleTenant
    <3> HIDE DEF e
    <3> QED
      BY <3>1, <3>2 DEF Refreshed
  <2>5. em[w].art0[t] # None /\ Public(em[w].art0[t])
    <3>1. Public(em[w].art[t])
      BY <1>3, <1>5 DEF IsPublished, Public
    <3> QED
      BY <1>3, <3>1 DEF RequestsHold, Unpublishing, Public
  <2>6. \A i \in Entries : /\ e.art[i[2]] # None /\ e.art0[i[2]] # None
                           /\ e.art[i[2]].status # e.art0[i[2]].status
                           /\ ~Public(e.art[i[2]])
    <3>1. \A i \in Entries : i[2] = t
      BY <1>3, EntryHas DEF SingleTenant
    <3> QED
      BY <2>2, <2>5, <3>1 DEF Public
  <2> HIDE DEF e, left, f
  <2>7. \A u \in Tenants :
          /\ e.art[u] = None <=> em[w].art[u] = None
          /\ em[w].art[u] # None => e.art[u].route = em[w].art[u].route
          /\ Public(e.art[u]) => Public(em[w].art[u])
    BY <1>3, <2>2 DEF Public
  <2>8. WritesAs(w, f)
    BY <2>1, <2>2, <2>3, <2>4, <2>6, <2>7 DEF WritesAs, RequestsHold
  <2> QED
    BY <1>2, <2>1, <2>8 DEF Asks
<1> QED
  BY <1>4, <1>5

LEMMA ReactAsks ==
    ASSUME SingleTenant
    PROVE  \A w \in Api :
             Inv /\ Tracked /\ Steady /\ RequestsHold /\ ReactOnStatusChange(w) => Asks(w)
<1> SUFFICES ASSUME NEW w \in Api, Inv, Tracked, Steady, RequestsHold, ReactOnStatusChange(w)
             PROVE  Asks(w)
  OBVIOUS
<1> DEFINE t == run[w].cur
           changed == em[w].art[t].status # em[w].art0[t].status
           loaded == WithPackage(em[w])
           status == IF IsPublished(loaded, t) THEN "published" ELSE "unpublished"
           e == IF ~changed THEN em[w] ELSE PackageStatus(loaded, status)
           left == IF changed THEN Refreshed(ctx[w], e, t) ELSE items
<1>1. /\ w \in Workers /\ w # Consumer /\ run[w].pc = "patch"
      /\ Flush(e, left) /\ Keep(w, FreshEm) /\ Go(w, Resting)
  BY ConsumerWorks DEF ReactOnStatusChange, At, Workers
<1>2. /\ em[w] \in EntityManager /\ run[w] \in Run /\ TypeOK /\ ctx[w] \in Context
      /\ Fit(em[w], ctx[w], run[w], pkg) /\ items \in [Entries -> Nat]
  BY <1>1, ProcessState DEF Inv, TypeOK
<1>3. pkg # None /\ t \in Tenants /\ em[w].art[t] # None
  BY <1>1, <1>2 DEF Fit, Run, ArticlePlaces
<1>4. /\ loaded \in EntityManager /\ loaded.pkg # None
      /\ loaded.art = em[w].art /\ loaded.art0 = em[w].art0 /\ loaded.adds = em[w].adds
  BY <1>2, <1>3, WithPackageType
<1>5. /\ e \in EntityManager /\ e.art = em[w].art /\ e.art0 = em[w].art0
      /\ e.adds = em[w].adds
  <2>1. status \in Statuses
    BY DEF Statuses
  <2> HIDE DEF loaded, changed, t, status
  <2>2. CASE ~changed
    BY <1>2, <2>2
  <2>3. CASE changed
    BY <1>4, <2>1, <2>3, PackagePut
  <2> QED
    BY <2>2, <2>3
<1>6. em[w].art0[t] # None
  BY <1>1, <1>3 DEF Steady, Held
<1>7. \A i \in Entries : i[2] = t
  BY <1>3, EntryHas DEF SingleTenant
<1>8. changed => ~Public(em[w].art[t])
  BY <1>3 DEF RequestsHold, Unpublishing, Public
<1>9. left \in [Entries -> Nat] /\ \A i \in Entries : left[i] = IF changed THEN 0 ELSE items[i]
  <2>1. CASE changed
    <3>1. ~IsPublished(e, t)
      BY <1>3, <1>5, <1>8, <2>1 DEF IsPublished, Public
    <3>2. \A i \in Entries : i[2] = t /\ Visible(ctx[w], i)
      BY <1>2, <1>7, AllVisible
    <3>3. left = Refreshed(ctx[w], e, t)
      BY <2>1
    <3> HIDE DEF e, changed, left, t
    <3> QED
      BY <1>2, <2>1, <3>1, <3>2, <3>3 DEF Refreshed
  <2>2. CASE ~changed
    BY <1>2, <2>2
  <2> QED
    BY <2>1, <2>2
<1>10. \A i \in Entries :
         /\ e.art[i[2]] # None /\ e.art0[i[2]] # None
         /\ IF e.art[i[2]].status = e.art0[i[2]].status THEN left[i] = items[i]
            ELSE left[i] = 0 /\ ~Public(e.art[i[2]])
  <2>1. changed <=> em[w].art[t].status # em[w].art0[t].status
    OBVIOUS
  <2> HIDE DEF e, changed, left, t
  <2> QED
    BY <1>3, <1>5, <1>6, <1>7, <1>8, <1>9, <2>1
<1> HIDE DEF e, left
<1>11. WritesAs(w, FreshEm)
  BY <1>1, <1>5, <1>9, <1>10 DEF WritesAs, RequestsHold, FreshEm, NoArticles
<1> QED
  BY <1>1, <1>11 DEF Asks

\* A request, its answer or its crash; only the consumer publishes.
LEMMA RequestAsks ==
    ASSUME SingleTenant, NoPublishRequest
    PROVE  \A w \in Api :
             /\ Inv /\ Tracked /\ Steady /\ RequestsHold
             /\ Request(w) \/ Respond(w) \/ Crash(w)
             => Asks(w) \/ PatchPackage(w) \/ CreateDestination(w)
<1> SUFFICES ASSUME NEW w \in Api, Inv, Tracked, Steady, RequestsHold,
                    Request(w) \/ Respond(w) \/ Crash(w)
             PROVE  Asks(w) \/ PatchPackage(w) \/ CreateDestination(w)
  OBVIOUS
<1>1. run[w].pc \in ApiPlaces /\ ~Conflict(em[w]) /\ w # Consumer
  BY NoConflict, ConsumerWorks DEF Steady, Held, Workers
<1>2. ~Handle(w)
  BY <1>1
  DEF Handle, Publish, PublishDone, Save, ArticleRules, Rule, RulesDone, Refresh, Dispatch,
      UniqueViolation, NonUniqueResult, At, ApiPlaces
<1>3. Unpublished(w) => Asks(w)
  BY EndAsks DEF Unpublished
<1>4. Crash(w) => Asks(w)
  BY EndAsks DEF Crash, Restart, db
<1> QED
  BY <1>2, <1>3, <1>4, OpenAsks, PatchAsks, UnpublishLoadAsks, UnpublishAsks, ReactAsks
  DEF Request, Respond

\* What a request stores: it publishes nothing, and takes the items of what it
\* withdraws.
LEMMA WritesFlush ==
    ASSUME Inv, Tracked, NEW w \in Api, RequestsHold, NEW f, WritesAs(w, f)
    PROVE  /\ NonePublished
           /\ \A i \in Entries : items'[i] \in {0, items[i]}
           /\ \A t \in Tenants :
                /\ art[t] # None /\ art'[t] # None
                /\ Public(art'[t]) => items'[<<t, t>>] = items[<<t, t>>]
                /\ art'[t].route # art[t].route =>
                     /\ em[w].art[t] # None /\ em[w].art[t].route # em[w].art0[t].route
                     /\ art'[t].route = em[w].art[t].route
           /\ \A i \in Entries : items'[i] > 0 /\ Public(art[i[2]]) => Public(art'[i[2]])
           /\ \A t \in Tenants : f.art[t] # None =>
                /\ f.art[t] = f.art0[t]
                /\ em[w].art[t] # None /\ f.art[t].route = em[w].art[t].route
           /\ \A t \in Tenants : f.art0[t] # None => f.art[t] = f.art0[t]
           /\ f.adds = NoItems
<1>1. PICK g \in EntityManager, left \in [Entries -> Nat] :
      /\ Flush(g, left) /\ g.adds = NoItems /\ g.art0 = em[w].art0
      /\ f.adds = NoItems
      /\ \A t \in Tenants :
           /\ g.art[t] = None <=> em[w].art[t] = None
           /\ em[w].art[t] # None => g.art[t].route = em[w].art[t].route
           /\ Public(g.art[t]) => Public(em[w].art[t])
           /\ \/ f.art[t] = g.art[t] /\ f.art0[t] = g.art[t]
              \/ f.art[t] = None /\ f.art0[t] = None
      /\ \A i \in Entries :
           /\ g.art[i[2]] # None /\ g.art0[i[2]] # None
           /\ IF g.art[i[2]].status = g.art0[i[2]].status THEN left[i] = items[i]
              ELSE left[i] = 0 /\ ~Public(g.art[i[2]])
  BY DEF WritesAs
<1>2. Managed(em[w]) /\ Unpublishing(em[w]) /\ items \in [Entries -> Nat]
  BY DEF Tracked, Workers, RequestsHold, Inv, TypeOK
<1>3. \A t \in Tenants : g.art0[t] # None => g.art[t] # None /\ art[t] # None
  BY <1>1, <1>2 DEF Managed
<1>4. Unpublishing(g)
  BY <1>1, <1>2 DEF Unpublishing
<1>5. NonePublished
  BY <1>1, <1>3, <1>4, FlushHides
<1>6. /\ \A i \in Entries : items'[i] = left[i] + g.adds[i] /\ g.adds[i] \in Nat
      /\ \A t \in Tenants :
           /\ g.art[t] = None => art'[t] = art[t]
           /\ g.art[t] # None => art'[t] # None
           /\ g.art0[t] # None =>
                /\ art'[t].status = IF g.art[t].status # g.art0[t].status
                                      THEN g.art[t].status ELSE art[t].status
                /\ art'[t].route = IF g.art[t].route # g.art0[t].route
                                     THEN g.art[t].route ELSE art[t].route
  BY <1>1, <1>3, FlushLists
<1>7. \A i \in Entries : items'[i] = left[i]
  <2> SUFFICES ASSUME NEW i \in Entries PROVE items'[i] = left[i]
    OBVIOUS
  <2>1. g.adds[i] = 0 /\ items'[i] = left[i] + g.adds[i] /\ left[i] \in Nat
    BY <1>1, <1>6 DEF NoItems
  <2> QED
    BY <2>1
<1>8. \A t \in Tenants : <<t, t>> \in Entries /\ <<t, t>>[2] = t
  BY DEF Entries
<1>9. \A t \in Tenants :
        /\ g.art[t] # None /\ g.art0[t] # None /\ art[t] # None /\ em[w].art[t] # None
        /\ art'[t] # None
        /\ Public(art'[t]) => items'[<<t, t>>] = items[<<t, t>>]
  <2> SUFFICES ASSUME NEW t \in Tenants
               PROVE  /\ g.art[t] # None /\ g.art0[t] # None /\ art[t] # None
                      /\ em[w].art[t] # None /\ art'[t] # None
                      /\ Public(art'[t]) => items'[<<t, t>>] = items[<<t, t>>]
    OBVIOUS
  <2>1. /\ g.art[t] # None /\ g.art0[t] # None
        /\ IF g.art[t].status = g.art0[t].status THEN left[<<t, t>>] = items[<<t, t>>]
           ELSE ~Public(g.art[t])
    BY <1>1, <1>8
  <2>2. art[t] # None /\ art'[t] # None /\ em[w].art[t] # None
    BY <1>1, <1>3, <1>6, <2>1
  <2> QED
    BY <1>6, <1>7, <1>8, <2>1, <2>2 DEF Public
<1>10. ASSUME NEW t \in Tenants, art'[t].route # art[t].route
       PROVE  /\ em[w].art[t].route # em[w].art0[t].route
              /\ art'[t].route = em[w].art[t].route
  <2>1. /\ g.art[t] # None /\ g.art0[t] # None /\ em[w].art[t] # None
        /\ g.art0[t] = em[w].art0[t] /\ g.art[t].route = em[w].art[t].route
    BY <1>1, <1>9
  <2>2. art'[t].route = IF g.art[t].route # g.art0[t].route
                          THEN g.art[t].route ELSE art[t].route
    BY <1>6, <2>1
  <2>3. g.art[t].route # g.art0[t].route
    BY <1>10, <2>2
  <2> QED
    BY <2>1, <2>2, <2>3
<1>11. ASSUME NEW i \in Entries, items'[i] > 0, Public(art[i[2]])
       PROVE  Public(art'[i[2]])
  <2>1. i[2] \in Tenants /\ left[i] > 0
    BY <1>7, <1>11, EntryHas
  <2>2. g.art[i[2]].status = g.art0[i[2]].status
    BY <1>1, <2>1
  <2> QED
    BY <1>6, <1>9, <1>11, <2>1, <2>2 DEF Public
<1>12. \A i \in Entries : items'[i] \in {0, items[i]}
  BY <1>1, <1>7
<1> QED
  BY <1>1, <1>5, <1>9, <1>10, <1>11, <1>12

\* A request takes an article off the lists before it withdraws it.
LEMMA AsksKeepsLists ==
    ASSUME NoArticlePublishRequest
    PROVE  \A w \in Api :
             Inv /\ Tracked /\ Steady /\ HeldLists /\ ListedRows /\ RequestsHold /\ Asks(w)
             => HeldLists' /\ ListedRows' /\ RequestsHold'
<1> SUFFICES ASSUME NEW w \in Api, Inv, Tracked, Steady, HeldLists, ListedRows, RequestsHold,
                    Asks(w)
             PROVE  HeldLists' /\ ListedRows' /\ RequestsHold'
  OBVIOUS
<1>1. PICK f, r : Keep(w, f) /\ Go(w, r) /\ (ReadsAs(w, f) \/ WritesAs(w, f))
  BY DEF Asks
<1>2. /\ em'[w] = f /\ em'[Consumer] = em[Consumer] /\ run'[Consumer] = run[Consumer]
      /\ \A v \in Api \ {w} : em'[v] = em[v]
  BY <1>1, Moved, ConsumerWorks DEF Workers
<1>3. /\ NonePublished /\ f.adds = NoItems /\ Unpublishing(f)
      /\ \A i \in Entries : items'[i] > 0 => items[i] > 0
      /\ \A i \in Entries : items'[i] > 0 /\ Public(art[i[2]]) => Public(art'[i[2]])
  <2>1. CASE ReadsAs(w, f)
    <3>1. Unpublishing(em[w])
      BY DEF RequestsHold
    <3>2. Unpublishing(f)
      <4> SUFFICES ASSUME NEW t \in Tenants, Public(f.art[t]) PROVE Public(f.art0[t])
        BY DEF Unpublishing
      <4>1. ~\E q \in ArticleRequests : f.art[t].status = q.status
        BY DEF NoArticlePublishRequest, Public
      <4> QED
        BY <2>1, <3>1, <4>1 DEF ReadsAs, Unpublishing, Public
    <3> QED
      BY <2>1, <3>2 DEF ReadsAs, NonePublished
  <2>2. CASE WritesAs(w, f)
    <3>1. items \in [Entries -> Nat]
      BY DEF Inv, TypeOK
    <3>2. Unpublishing(f)
      BY <2>2, WritesFlush DEF Unpublishing, Public
    <3>3. \A i \in Entries : items'[i] > 0 => items[i] > 0
      BY <2>2, <3>1, WritesFlush
    <3> QED
      BY <2>2, <3>2, <3>3, WritesFlush
  <2> QED
    BY <1>1, <2>1, <2>2
<1>4. HeldLists'
  BY <1>2, <1>3 DEF HeldLists, HiddenRows, NonePublished, Gained
<1>5. ListedRows'
  BY <1>3 DEF ListedRows
<1>6. RequestsHold'
  BY <1>2, <1>3 DEF RequestsHold, Unpublishing
<1> QED
  BY <1>4, <1>5, <1>6

ListInv == Undirected /\ RequestsHold /\ HeldLists /\ ListedRows

\* What a step is for the lists.
LEMMA NextLists ==
    ASSUME SingleTenant, NoFailures, NoPublishRequest
    PROVE  Inv /\ Tracked /\ Steady /\ Undirected /\ RequestsHold /\ [Next]_vars =>
             \/ ConsumerLists
             \/ \E w \in Api : Asks(w)
             \/ UNCHANGED <<art, items, em, run>>
<1> SUFFICES ASSUME Inv, Tracked, Steady, Undirected, RequestsHold, [Next]_vars
             PROVE  \/ ConsumerLists
                    \/ \E w \in Api : Asks(w)
                    \/ UNCHANGED <<art, items, em, run>>
  OBVIOUS
<1>1. ~Reject
  BY Bounds DEF Reject, NoFailures, Inv, TypeOK, Budget
<1>2. CASE Push \/ UNCHANGED vars \/ \E w \in Api : PatchPackage(w) \/ CreateDestination(w)
  BY <1>2 DEF Push, vars, PatchPackage, CreateDestination, db
<1>3. CASE Consume \/ Crash(Consumer)
  BY <1>3, ConsumeLists
<1>4. ASSUME NEW w \in Api, Request(w) \/ Respond(w) \/ Crash(w)
      PROVE  Asks(w) \/ PatchPackage(w) \/ CreateDestination(w)
  BY <1>4, RequestAsks
<1>5. Next \/ UNCHANGED vars
  OBVIOUS
<1> QED
  BY <1>1, <1>2, <1>3, <1>4, <1>5 DEF Next, Workers

LEMMA NextListInv ==
    ASSUME SingleTenant, NoFailures, NoPublishRequest, NoDestinations, NoArticlePublishRequest
    PROVE  Inv /\ Tracked /\ Steady /\ ListInv /\ [Next]_vars => ListInv'
<1> SUFFICES ASSUME Inv, Tracked, Steady, ListInv, [Next]_vars PROVE ListInv'
  OBVIOUS
<1>1. UNCHANGED dest
  BY NextDest
<1>2. CASE ConsumerLists
  <2>1. HeldLists' /\ ListedRows'
    BY <1>2, ConsumerKeepsLists DEF ListInv
  <2>2. Undirected' /\ RequestsHold'
    BY <1>1, <1>2 DEF ListInv, ConsumerLists, Undirected, RequestsHold, Unpublishing
  <2> QED
    BY <2>1, <2>2 DEF ListInv
<1>3. ASSUME NEW w \in Api, Asks(w) PROVE ListInv'
  <2>1. HeldLists' /\ ListedRows' /\ RequestsHold'
    BY <1>3, AsksKeepsLists DEF ListInv
  <2>2. run'[Consumer] = run[Consumer]
    BY <1>3, Moved, ConsumerWorks DEF Asks, Workers
  <2> QED
    BY <1>1, <2>1, <2>2 DEF ListInv, Undirected, Unplaced
<1>4. CASE UNCHANGED <<art, items, em, run>>
  BY <1>1, <1>4
  DEF ListInv, Undirected, Unplaced, RequestsHold, Unpublishing, HeldLists, HiddenRows, Gained,
      ListedRows
<1> QED
  BY <1>2, <1>3, <1>4, NextLists DEF ListInv

LEMMA InitListInv == ASSUME NoDestinations PROVE Init => ListInv
<1> SUFFICES ASSUME Init PROVE ListInv
  OBVIOUS
<1>1. run[Consumer] = Resting /\ \A w \in Workers : em[w] = FreshEm
  BY ConsumerWorks DEF Init
<1>2. Undirected
  BY <1>1 DEF Init, NoDestinations, Undirected, Unplaced, Resting
<1>3. RequestsHold
  BY <1>1 DEF RequestsHold, Workers, Unpublishing, FreshEm, NoArticles
<1>4. HeldLists
  BY <1>1, ConsumerWorks DEF HeldLists, HiddenRows, Resting, FreshEm, NoArticles, NoItems, Public
<1>5. ListedRows
  BY DEF Init, NoItems, ListedRows
<1> QED
  BY <1>2, <1>3, <1>4, <1>5 DEF ListInv

LEMMA ListInvHolds ==
    ASSUME SingleTenant, NoFailures, NoPublishRequest, NoDestinations, NoArticlePublishRequest
    PROVE  Spec => [](Inv /\ Tracked /\ Steady /\ ListInv)
<1>1. Init => ListInv
  BY InitListInv
<1>2. Inv /\ Tracked /\ Steady /\ ListInv /\ [Next]_vars => ListInv'
  BY NextListInv
<1> QED
  BY <1>1, <1>2, TrackedHolds, SteadyHolds, PTL DEF Spec

\* The automatic list of a tenant holds its article only while it is public, at
\* every moment and not only when the queue is empty: a correction, a kill, an
\* unpublish and a patch take it off in the flush that withdraws it, and an item
\* added in memory reaches the table with the status that earned it. That needs
\* the tenant to be the only one (under another's context the filter hides the
\* items, UpdatedPackageListener) and no destination (Dispatch publishes what it
\* loaded before).
THEOREM ListsPublished ==
    ASSUME SingleTenant, NoFailures, NoPublishRequest, NoDestinations, NoArticlePublishRequest
    PROVE  Spec => []ListedIsPublished
<1>1. ListInv => ListedIsPublished
  BY DEF ListInv, ListedRows, ListedIsPublished, Public
<1> QED
  BY <1>1, ListInvHolds, PTL

-----------------------------------------------------------------------------
(* A list holds an article once.                                           *)

\* At most one rule of a tenant publishes a revision.
OnePublishing ==
    \A t \in Tenants, rev \in Revs : \A i, j \in DOMAIN TenantRules[t] :
        LET P(k) == rev \in TenantRules[t][k].when /\ TenantRules[t][k].published = "yes"
        IN P(i) /\ P(j) => i = j

\* An item is in the table or added in memory, not both.
AddedOnce == \A i \in Entries : items[i] + em[Consumer].adds[i] <= 1

\* At most one of the rules that are left publishes the article, and none if one
\* has done so.
RulesOnce ==
    LET r == run[Consumer]
        a == em[Consumer].art[r.cur]
    IN r.pc = "rule" =>
         /\ \A i, j \in DOMAIN r.rules :
              Publishes(r.rules[i], a) /\ Publishes(r.rules[j], a) => i = j
         /\ Public(a) => \A i \in DOMAIN r.rules : ~Publishes(r.rules[i], a)

\* The rules that are left after the first.
LEMMA RulesLeft ==
    ASSUME NEW rules \in Seq(TenantRule), rules # <<>>
    PROVE  /\ Tail(rules) \in Seq(TenantRule) /\ 1 \in DOMAIN rules /\ Head(rules) = rules[1]
           /\ \A i \in DOMAIN Tail(rules) :
                i + 1 \in DOMAIN rules /\ Tail(rules)[i] = rules[i + 1] /\ i # 0 /\ i \in Nat
BY DEF TenantRule

\* An article of which the consumer runs the rules.
LEMMA RuledArticle ==
    ASSUME Inv, Tracked, Steady, HeldLists, ListedRows, AppliesRule
    PROVE  LET t == run[Consumer].cur IN
           /\ t \in Tenants /\ em[Consumer].art[t] # None
           /\ em[Consumer].art0[t] # None /\ ~Public(em[Consumer].art0[t])
           /\ run[Consumer].rules \in Seq(TenantRule)
           /\ ~Public(art[t])
           /\ \A i \in Entries : i[2] = t => items[i] = 0
<1> DEFINE t == run[Consumer].cur
           e == em[Consumer]
<1>1. /\ run[Consumer].pc = "rule" /\ t \in Tenants /\ e.art[t] # None
      /\ run[Consumer].rules \in Seq(TenantRule)
  BY LateState, ConsumerWorks, ProcessState DEF AppliesRule, LatePlaces, Run
<1>2. e.art0[t] # None /\ ~Public(e.art0[t])
  BY <1>1, ConsumerWorks DEF Steady, Held, At, HeldLists
<1>3. ~Public(art[t])
  BY <1>1, <1>2, HeldPublic
<1>4. \A i \in Entries : i[2] = t => items[i] = 0
  <2>1. items \in [Entries -> Nat]
    BY DEF Inv, TypeOK
  <2> QED
    BY <1>3, <2>1 DEF ListedRows
<1> QED
  BY <1>1, <1>2, <1>3, <1>4

\* The rules of a revision it starts with.
LEMMA StartsOnce ==
    ASSUME OnePublishing
    PROVE  Inv /\ StartsRules => RulesOnce'
<1> SUFFICES ASSUME Inv, StartsRules PROVE RulesOnce'
  OBVIOUS
<1> DEFINE r == run'[Consumer]
           a == em'[Consumer].art[r.cur]
<1>1. PICK t \in Tenants : r.rules = TenantRules[t]
  BY DEF StartsRules
<1>2. a \in Article /\ ~Public(a)
  BY ConsumerWorks, ProcessState DEF StartsRules, EntityManager
<1>3. a.rev \in Revs
  BY <1>2 DEF Article
<1> HIDE DEF r, a
<1>4. \A i, j \in DOMAIN r.rules : Publishes(r.rules[i], a) /\ Publishes(r.rules[j], a) => i = j
  BY <1>1, <1>3 DEF OnePublishing, Publishes
<1> QED
  BY <1>2, <1>4 DEF RulesOnce, r, a

LEMMA ConsumerKeepsOnce ==
    ASSUME OnePublishing
    PROVE  /\ Inv /\ Tracked /\ Steady /\ HeldLists /\ ListedRows
           /\ AddedOnce /\ RulesOnce /\ ConsumerLists
           => AddedOnce' /\ RulesOnce'
<1> SUFFICES ASSUME Inv, Tracked, Steady, HeldLists, ListedRows, AddedOnce, RulesOnce,
                    ConsumerLists
             PROVE  AddedOnce' /\ RulesOnce'
  OBVIOUS
<1> DEFINE e == em[Consumer]
           f == em'[Consumer]
           t == run[Consumer].cur
           rules == run[Consumer].rules
<1>1. /\ items \in [Entries -> Nat] /\ e.adds \in [Entries -> Nat] /\ e \in EntityManager
  BY ConsumerWorks, ProcessState DEF Inv, TypeOK, EntityManager
<1>2. CASE GoesOn \/ Loads \/ Creates
  BY <1>2 DEF GoesOn, Loads, Creates, AddedOnce, RulesOnce
<1>3. CASE StartsRules
  BY <1>3, StartsOnce DEF StartsRules, AddedOnce
<1>4. ASSUME NEW g, NEW left, Flushes(g, left),
             \A i \in Entries : left[i] = items[i] \/ left[i] = 0
      PROVE  AddedOnce' /\ RulesOnce'
  <2>1. /\ Managed(e) /\ g \in EntityManager /\ left \in [Entries -> Nat] /\ Flush(g, left)
        /\ g.art0 = e.art0 /\ g.adds = e.adds
        /\ \A u \in Tenants : g.art[u] = None <=> e.art[u] = None
        /\ f.adds = NoItems /\ run'[Consumer].pc # "rule"
    BY <1>4, ConsumerWorks DEF Tracked, Flushes
  <2>2. \A i \in Entries : items'[i] = left[i] + e.adds[i]
    BY <2>1, FlushLists DEF Managed
  <2>3. \A i \in Entries : items'[i] + f.adds[i] <= 1
    <3> SUFFICES ASSUME NEW i \in Entries PROVE items'[i] + f.adds[i] <= 1
      OBVIOUS
    <3>1. /\ items'[i] = left[i] + e.adds[i] /\ f.adds[i] = 0
          /\ left[i] = items[i] \/ left[i] = 0
          /\ items[i] + e.adds[i] <= 1 /\ items[i] \in Nat /\ e.adds[i] \in Nat
      BY <1>1, <1>4, <2>1, <2>2 DEF NoItems, AddedOnce
    <3> QED
      BY <3>1
  <2> QED
    BY <2>1, <2>3 DEF AddedOnce, RulesOnce
<1>5. CASE Stores \/ CancelsOne
  <2>1. \E g, left : Flushes(g, left) /\ \A i \in Entries : left[i] = items[i] \/ left[i] = 0
    BY <1>5 DEF Stores, CancelsOne
  <2> QED
    BY <1>4, <2>1
<1>6. ASSUME AppliesRule, f.art[t].rev = e.art[t].rev,
             Public(f.art[t]) => Public(e.art[t]) \/ Publishes(Head(rules), e.art[t])
      PROVE  RulesOnce'
  <2>1. /\ rules \in Seq(TenantRule) /\ rules # <<>> /\ run[Consumer].pc = "rule"
        /\ run'[Consumer].rules = Tail(rules) /\ run'[Consumer].cur = t
    BY <1>6, RuledArticle DEF AppliesRule
  <2> DEFINE a == e.art[t]
             b == f.art[t]
             left == Tail(rules)
  <2>2. /\ \A i, j \in DOMAIN rules : Publishes(rules[i], a) /\ Publishes(rules[j], a) => i = j
        /\ Public(a) => \A i \in DOMAIN rules : ~Publishes(rules[i], a)
    BY <2>1 DEF RulesOnce
  <2>3. \A rule : Publishes(rule, a) <=> Publishes(rule, b)
    BY <1>6 DEF Publishes
  <2>4. Public(b) => Public(a) \/ Publishes(rules[1], a)
    BY <1>6, <2>1, RulesLeft
  <2>5. /\ 1 \in DOMAIN rules
        /\ \A i \in DOMAIN left : i + 1 \in DOMAIN rules /\ left[i] = rules[i + 1] /\ i # 0
                                  /\ i \in Nat
    BY <2>1, RulesLeft
  <2> HIDE DEF a, b, left, rules
  <2>6. \A i, j \in DOMAIN left : Publishes(left[i], b) /\ Publishes(left[j], b) => i = j
    <3> SUFFICES ASSUME NEW i \in DOMAIN left, NEW j \in DOMAIN left,
                        Publishes(left[i], b), Publishes(left[j], b)
                 PROVE  i = j
      OBVIOUS
    <3>1. i + 1 = j + 1 /\ i \in Nat /\ j \in Nat
      BY <2>2, <2>3, <2>5
    <3> QED
      BY <3>1
  <2>7. ASSUME Public(b), NEW i \in DOMAIN left PROVE ~Publishes(left[i], b)
    <3> SUFFICES ASSUME Publishes(left[i], b) PROVE FALSE
      OBVIOUS
    <3>1. Publishes(rules[i + 1], a) /\ i + 1 \in DOMAIN rules /\ i \in Nat /\ i # 0
      BY <2>3, <2>5
    <3>2. Publishes(rules[1], a)
      BY <2>2, <2>4, <2>7, <3>1
    <3>3. i + 1 = 1
      BY <2>2, <2>5, <3>1, <3>2
    <3> QED
      BY <3>1, <3>3
  <2> QED
    BY <2>1, <2>6, <2>7 DEF RulesOnce, b, left
<1>7. CASE RoutesOne
  <2>1. /\ AppliesRule /\ UNCHANGED items /\ f.adds = e.adds
        /\ f.art[t] # None /\ f.art[t].status = e.art[t].status /\ f.art[t].rev = e.art[t].rev
    BY <1>7 DEF RoutesOne
  <2>2. Public(f.art[t]) => Public(e.art[t])
    BY <2>1, RuledArticle DEF Public
  <2> QED
    BY <1>6, <2>1, <2>2 DEF AddedOnce
<1>8. CASE PublishesOne
  <2>1. AppliesRule /\ Publishes(Head(rules), e.art[t])
    BY <1>8 DEF PublishesOne
  <2>2. /\ t \in Tenants /\ rules \in Seq(TenantRule) /\ rules # <<>>
        /\ \A i \in Entries : i[2] = t => items[i] = 0
    BY <2>1, RuledArticle DEF AppliesRule
  <2>3. /\ UNCHANGED items /\ Public(f.art[t]) /\ f.art[t].rev = e.art[t].rev
        /\ \E l \in Tenants : IF Matches(l, f.art[t].route)
                              THEN f.adds = [e.adds EXCEPT ![<<l, t>>] = @ + 1]
                              ELSE f.adds = e.adds
    <3>1. ~\E i \in Entries : i[2] = t /\ items[i] > 0
      BY <2>2
    <3> QED
      BY <1>8, <3>1 DEF PublishesOne
  <2>4. ~Public(e.art[t])
    BY <2>1, <2>2, RulesLeft DEF RulesOnce, AppliesRule
  <2>5. \A i \in Entries : i[2] = t => e.adds[i] = 0 /\ items[i] = 0
    BY <1>1, <2>2, <2>4 DEF HeldLists, Gained
  <2>6. PICK l \in Tenants : IF Matches(l, f.art[t].route)
                             THEN f.adds = [e.adds EXCEPT ![<<l, t>>] = @ + 1]
                             ELSE f.adds = e.adds
    BY <2>3
  <2>7. AddedOnce'
    <3> SUFFICES ASSUME NEW i \in Entries PROVE items'[i] + f.adds[i] <= 1
      BY DEF AddedOnce
    <3>1. items'[i] = items[i] /\ items[i] \in Nat /\ e.adds[i] \in Nat
          /\ items[i] + e.adds[i] <= 1
      BY <1>1, <2>3 DEF AddedOnce
    <3>2. CASE i = <<l, t>>
      <4>1. e.adds[i] = 0 /\ items[i] = 0
        BY <2>5, <3>2
      <4>2. f.adds[i] = e.adds[i] + 1 \/ f.adds[i] = e.adds[i]
        BY <1>1, <2>6, <3>2
      <4> QED
        BY <3>1, <4>1, <4>2
    <3>3. CASE i # <<l, t>>
      <4>1. f.adds[i] = e.adds[i]
        BY <1>1, <2>6, <3>3
      <4> QED
        BY <3>1, <4>1
    <3> QED
      BY <3>2, <3>3
  <2> QED
    BY <1>6, <2>1, <2>3, <2>7
<1>9. CASE Forgets
  <2>1. UNCHANGED items /\ f.adds = NoItems /\ run'[Consumer].pc # "rule"
    BY <1>9 DEF Forgets, FreshEm, Resting
  <2>2. AddedOnce'
    BY <1>1, <2>1 DEF AddedOnce, NoItems
  <2> QED
    BY <2>1, <2>2 DEF RulesOnce
<1> QED
  BY <1>2, <1>3, <1>5, <1>7, <1>8, <1>9 DEF ConsumerLists

\* A tenant's list holds its article at most once, over corrections, redeliveries
\* and crashes, although AddArticleToListListener adds without looking: rules run
\* only for an article that is not public, whose item the flush that withdrew it
\* took, and one rule at most publishes it. With two that do, or a destination that
\* wants it too, the list gets it twice.
THEOREM ListsOnce ==
    ASSUME SingleTenant, NoFailures, NoPublishRequest, NoDestinations, NoArticlePublishRequest,
           OnePublishing
    PROVE  Spec => []ListedOnce
<1> DEFINE OnceInv == AddedOnce /\ RulesOnce
<1>1. Init => OnceInv
  BY ConsumerWorks DEF Init, NoItems, FreshEm, Resting, AddedOnce, RulesOnce
<1>2. Inv /\ Tracked /\ Steady /\ ListInv /\ OnceInv /\ [Next]_vars => OnceInv'
  <2> SUFFICES ASSUME Inv, Tracked, Steady, ListInv, OnceInv, [Next]_vars PROVE OnceInv'
    OBVIOUS
  <2>1. CASE ConsumerLists
    BY <2>1, ConsumerKeepsOnce DEF ListInv
  <2>2. ASSUME NEW w \in Api, Asks(w) PROVE OnceInv'
    <3>1. PICK f, r : Keep(w, f) /\ Go(w, r) /\ (ReadsAs(w, f) \/ WritesAs(w, f))
      BY <2>2 DEF Asks
    <3>2. em'[Consumer] = em[Consumer] /\ run'[Consumer] = run[Consumer]
      BY <3>1, Moved, ConsumerWorks DEF Workers
    <3>3. \A i \in Entries : items'[i] = items[i] \/ items'[i] = 0
      BY <3>1, WritesFlush DEF ReadsAs, ListInv
    <3>4. items \in [Entries -> Nat] /\ em[Consumer].adds \in [Entries -> Nat]
      BY ConsumerWorks, ProcessState DEF Inv, TypeOK, EntityManager
    <3>5. AddedOnce'
      BY <3>2, <3>3, <3>4 DEF AddedOnce
    <3> QED
      BY <3>2, <3>5 DEF RulesOnce
  <2>3. CASE UNCHANGED <<art, items, em, run>>
    BY <2>3 DEF AddedOnce, RulesOnce
  <2> QED
    BY <2>1, <2>2, <2>3, NextLists DEF ListInv
<1>3. Inv /\ OnceInv => ListedOnce
  <2> SUFFICES ASSUME Inv, OnceInv, NEW i \in Entries PROVE items[i] <= 1
    BY DEF ListedOnce
  <2>1. /\ items[i] \in Nat /\ em[Consumer].adds[i] \in Nat
        /\ items[i] + em[Consumer].adds[i] <= 1
    BY ConsumerWorks, ProcessState DEF Inv, TypeOK, EntityManager, AddedOnce
  <2> QED
    BY <2>1
<1>4. Spec => []OnceInv
  <2> HIDE DEF OnceInv
  <2> QED
    BY <1>1, <1>2, ListInvHolds, PTL DEF Spec
<1> QED
  <2> HIDE DEF OnceInv
  <2> QED
    BY <1>3, <1>4, TrackedHolds, PTL

-----------------------------------------------------------------------------
(* A public article is in the list it matches.                             *)

\* No rule that only routes a revision comes after one that publishes it.
RoutedFirst ==
    \A t \in Tenants, rev \in Revs : \A i, j \in DOMAIN TenantRules[t] :
        LET rules == TenantRules[t]
        IN /\ i < j /\ rev \in rules[i].when /\ rev \in rules[j].when
           /\ rules[i].published = "yes" /\ rules[j].published # "yes"
           => rules[j].route = None

\* The routes an article of t can be given, None being that of a new one; does the
\* automatic list of t ask for all of them?
Given(t) ==
    {None} \cup {q.route : q \in {p \in ArticleRequests : p.tenant = t}}
           \cup {TenantRules[t][i].route : i \in DOMAIN TenantRules[t]}
Uniform(t) == \A route \in Given(t) : Matches(t, route)

\* A PATCH gives no article a route its tenant's list asks for, unless the list
\* asks for every route there is.
NoListedRequest ==
    \A q \in ArticleRequests : Matches(q.tenant, q.route) => Uniform(q.tenant)

\* Nor does the consumer, once it has published one: what is left of the rules only
\* routes what is not published.
Reroutes(rule, a) == a.rev \in rule.when /\ rule.published # "yes" /\ rule.route # None

RoutesLast ==
    LET r == run[Consumer]
        a == em[Consumer].art[r.cur]
    IN r.pc = "rule" =>
         /\ \A i, j \in DOMAIN r.rules :
              i < j /\ Publishes(r.rules[i], a) => ~Reroutes(r.rules[j], a)
         /\ Public(a) => \A i \in DOMAIN r.rules : ~Reroutes(r.rules[i], a)

\* Items that are in the table, or added in memory; a route that matches a list is
\* the one that the article was loaded with, but for those the consumer changed.
ShownRows ==
    \A t \in Tenants : Public(art[t]) /\ Matches(t, art[t].route) => items[<<t, t>>] > 0
ShownObjects(e) ==
    \A t \in Tenants :
      /\ Public(e.art[t]) /\ ~Public(e.art0[t]) /\ Matches(t, e.art[t].route) =>
           e.adds[<<t, t>>] > 0
      /\ e.art0[t] # None /\ Matches(t, art[t].route) => Matches(t, e.art0[t].route)
      /\ Public(e.art0[t]) => e.art[t].route = e.art0[t].route
RequestedRoutes ==
    \A w \in Api, t \in Tenants :
      /\ em[w].art[t] # None /\ em[w].art[t].route # em[w].art0[t].route
      /\ Matches(t, em[w].art[t].route)
      => Uniform(t)

\* The rules of a revision it starts with.
LEMMA StartsLast ==
    ASSUME RoutedFirst
    PROVE  Inv /\ StartsRules => RoutesLast'
<1> SUFFICES ASSUME Inv, StartsRules PROVE RoutesLast'
  OBVIOUS
<1> DEFINE r == run'[Consumer]
           a == em'[Consumer].art[r.cur]
<1>1. PICK t \in Tenants : r.rules = TenantRules[t]
  BY DEF StartsRules
<1>2. a \in Article /\ ~Public(a)
  BY ConsumerWorks, ProcessState DEF StartsRules, EntityManager
<1>3. a.rev \in Revs
  BY <1>2 DEF Article
<1> HIDE DEF r, a
<1>4. \A i, j \in DOMAIN r.rules :
        i < j /\ Publishes(r.rules[i], a) => ~Reroutes(r.rules[j], a)
  BY <1>1, <1>3 DEF RoutedFirst, Publishes, Reroutes
<1> QED
  BY <1>2, <1>4 DEF RoutesLast, r, a

\* A rule is applied.
LEMMA AppliesLast ==
    ASSUME Inv, Tracked, Steady, HeldLists, ListedRows, RoutesLast, AppliesRule,
           LET t == run[Consumer].cur
               a == em[Consumer].art[t]
               b == em'[Consumer].art[t]
           IN b.rev = a.rev /\ (Public(b) => Public(a) \/ Publishes(Head(run[Consumer].rules), a))
    PROVE  RoutesLast'
<1> DEFINE t == run[Consumer].cur
           rules == run[Consumer].rules
           a == em[Consumer].art[t]
           b == em'[Consumer].art[t]
           left == Tail(rules)
<1>1. /\ rules \in Seq(TenantRule) /\ rules # <<>> /\ run[Consumer].pc = "rule"
      /\ run'[Consumer].rules = left /\ run'[Consumer].cur = t
  BY RuledArticle DEF AppliesRule
<1>2. /\ \A i, j \in DOMAIN rules :
           i < j /\ Publishes(rules[i], a) => ~Reroutes(rules[j], a)
      /\ Public(a) => \A i \in DOMAIN rules : ~Reroutes(rules[i], a)
  BY <1>1 DEF RoutesLast
<1>3. \A rule : /\ Publishes(rule, a) <=> Publishes(rule, b)
                /\ Reroutes(rule, a) <=> Reroutes(rule, b)
  BY DEF Publishes, Reroutes
<1>4. Public(b) => Public(a) \/ Publishes(rules[1], a)
  BY <1>1, RulesLeft
<1>5. /\ 1 \in DOMAIN rules
      /\ \A i \in DOMAIN left : i + 1 \in DOMAIN rules /\ left[i] = rules[i + 1]
                                /\ i # 0 /\ i \in Nat
  BY <1>1, RulesLeft
<1> HIDE DEF a, b, left, rules
<1>6. \A i, j \in DOMAIN left : i < j /\ Publishes(left[i], b) => ~Reroutes(left[j], b)
  <2> SUFFICES ASSUME NEW i \in DOMAIN left, NEW j \in DOMAIN left,
                      i < j, Publishes(left[i], b)
               PROVE  ~Reroutes(left[j], b)
    OBVIOUS
  <2>1. i + 1 < j + 1
    BY <1>5
  <2> QED
    BY <1>2, <1>3, <1>5, <2>1
<1>7. ASSUME Public(b), NEW i \in DOMAIN left PROVE ~Reroutes(left[i], b)
  <2>1. 1 < i + 1 /\ i + 1 \in DOMAIN rules
    BY <1>5
  <2> QED
    BY <1>2, <1>3, <1>4, <1>5, <1>7, <2>1
<1> QED
  BY <1>1, <1>6, <1>7 DEF RoutesLast, b, left

\* The consumer stores g.
LEMMA FlushesShows ==
    ASSUME Inv, Tracked, Steady, HeldLists, ListedRows, ShownRows, ShownObjects(em[Consumer]),
           NEW g, NEW left, Flushes(g, left),
           \A t \in Tenants : Public(g.art[t]) =>
             /\ Public(em[Consumer].art[t])
             /\ g.art[t].route = em[Consumer].art[t].route
             /\ left[<<t, t>>] = items[<<t, t>>],
           \A t \in Tenants : em[Consumer].art[t] = None => left[<<t, t>>] = items[<<t, t>>]
    PROVE  ShownRows' /\ ShownObjects(em[Consumer])'
<1> DEFINE e == em[Consumer]
           f == em'[Consumer]
<1>1. /\ Managed(e) /\ g \in EntityManager /\ left \in [Entries -> Nat] /\ Flush(g, left)
      /\ g.art0 = e.art0 /\ g.adds = e.adds /\ items \in [Entries -> Nat]
      /\ \A t \in Tenants : g.art[t] = None <=> e.art[t] = None
      /\ f.art = g.art /\ f.art0 = g.art
  BY ConsumerWorks DEF Tracked, Flushes, Inv, TypeOK
<1>2. \A t \in Tenants : g.art0[t] # None => g.art[t] # None /\ art[t] # None
  BY <1>1 DEF Managed
<1>3. /\ \A i \in Entries : items'[i] = left[i] + g.adds[i] /\ g.adds[i] \in Nat
      /\ \A t \in Tenants :
           /\ g.art[t] = None => art'[t] = art[t]
           /\ g.art[t] # None => art'[t] # None
           /\ g.art[t] # None /\ g.art0[t] = None => art[t] = None /\ art'[t] = g.art[t]
           /\ g.art0[t] # None =>
                /\ art'[t].status = IF g.art[t].status # g.art0[t].status
                                      THEN g.art[t].status ELSE art[t].status
                /\ art'[t].route = IF g.art[t].route # g.art0[t].route
                                     THEN g.art[t].route ELSE art[t].route
  BY <1>1, <1>2, FlushLists
<1>4. ShownRows'
  <2> SUFFICES ASSUME NEW t \in Tenants, Public(art'[t]), Matches(t, art'[t].route)
               PROVE  items'[<<t, t>>] > 0
    BY DEF ShownRows
  <2> DEFINE i == <<t, t>>
  <2>1. i \in Entries /\ i[2] = t
    BY DEF Entries
  <2>2. /\ items'[i] = left[i] + e.adds[i] /\ left[i] \in Nat /\ e.adds[i] \in Nat
        /\ items[i] \in Nat
    BY <1>1, <1>3, <2>1
  <2>3. left[i] = items[i] /\ items[i] > 0 => items'[i] > 0
    BY <2>2
  <2>4. e.adds[i] > 0 => items'[i] > 0
    BY <2>2
  <2>5. CASE g.art[t] = None
    BY <1>1, <1>3, <2>3, <2>5 DEF ShownRows
  <2>6. CASE g.art[t] # None /\ g.art0[t] = None
    <3>1. Public(g.art[t]) /\ Matches(t, g.art[t].route)
      BY <1>3, <2>6
    <3>2. Public(e.art[t]) /\ ~Public(e.art0[t]) /\ Matches(t, e.art[t].route)
      BY <1>1, <2>6, <3>1 DEF Public
    <3>3. e.adds[i] > 0
      BY <3>2 DEF ShownObjects
    <3> QED
      BY <2>4, <3>3
  <2>7. CASE g.art0[t] # None /\ Public(e.art0[t])
    <3>1. Public(g.art[t])
      BY <1>1, <1>2, <1>3, <2>7 DEF Public
    <3>2. g.art[t].route = e.art0[t].route /\ g.art[t].status = e.art0[t].status
      BY <2>7, <3>1 DEF ShownObjects, Public
    <3>3. Public(art[t]) /\ Matches(t, art[t].route)
      BY <1>1, <1>2, <1>3, <2>7, <3>2 DEF Public
    <3> QED
      BY <2>3, <3>1, <3>3 DEF ShownRows
  <2>8. CASE g.art0[t] # None /\ ~Public(e.art0[t])
    <3>1. ~Public(art[t])
      BY <1>1, <2>8 DEF HeldLists, HiddenRows
    <3>2. Public(g.art[t])
      BY <1>1, <1>2, <1>3, <2>8, <3>1 DEF Public
    <3>3. Public(e.art[t]) /\ g.art[t].route = e.art[t].route
      BY <3>2
    <3>4. Matches(t, g.art[t].route)
      BY <1>1, <1>3, <2>8 DEF ShownObjects
    <3> QED
      BY <2>4, <2>8, <3>3, <3>4 DEF ShownObjects
  <2> QED
    BY <1>1, <2>5, <2>6, <2>7, <2>8
<1>5. \A t \in Tenants : f.art0[t] # None /\ Matches(t, art'[t].route)
                           => Matches(t, f.art0[t].route)
  <2> SUFFICES ASSUME NEW t \in Tenants, g.art[t] # None, Matches(t, art'[t].route)
               PROVE  Matches(t, g.art[t].route)
    BY <1>1
  <2>1. CASE g.art0[t] = None
    <3>1. art'[t] = g.art[t]
      BY <1>3, <2>1
    <3> QED
      BY <3>1
  <2>2. CASE g.art0[t] # None
    <3>1. \/ art'[t].route = g.art[t].route
          \/ art'[t].route = art[t].route /\ g.art[t].route = e.art0[t].route
      BY <1>1, <1>3, <2>2
    <3>2. Matches(t, art[t].route) => Matches(t, e.art0[t].route)
      BY <1>1, <2>2 DEF ShownObjects
    <3> QED
      BY <3>1, <3>2
  <2> QED
    BY <2>1, <2>2
<1> QED
  BY <1>1, <1>4, <1>5 DEF ShownObjects

LEMMA ConsumerKeepsShown ==
    ASSUME SingleTenant, RoutedFirst
    PROVE  /\ Inv /\ Tracked /\ Steady /\ HeldLists /\ ListedRows
           /\ ShownRows /\ ShownObjects(em[Consumer]) /\ RoutesLast /\ ConsumerLists
           => ShownRows' /\ ShownObjects(em[Consumer])' /\ RoutesLast'
<1> SUFFICES ASSUME Inv, Tracked, Steady, HeldLists, ListedRows, ShownRows,
                    ShownObjects(em[Consumer]), RoutesLast, ConsumerLists
             PROVE  ShownRows' /\ ShownObjects(em[Consumer])' /\ RoutesLast'
  OBVIOUS
<1> DEFINE e == em[Consumer]
           f == em'[Consumer]
           t == run[Consumer].cur
           rules == run[Consumer].rules
<1>1. /\ items \in [Entries -> Nat] /\ e.adds \in [Entries -> Nat] /\ e \in EntityManager
  BY ConsumerWorks, ProcessState DEF Inv, TypeOK, EntityManager
<1>2. CASE GoesOn
  BY <1>2 DEF GoesOn, ShownRows, ShownObjects, RoutesLast
<1>3. CASE StartsRules
  BY <1>3, StartsLast DEF StartsRules, ShownRows, ShownObjects
<1>4. CASE Loads
  <2>1. PICK T : \A u \in Tenants :
          IF u \in T /\ e.art[u] = None
          THEN f.art[u] = art[u] /\ f.art0[u] = art[u]
          ELSE f.art[u] = e.art[u] /\ f.art0[u] = e.art0[u]
    BY <1>4 DEF Loads
  <2>2. UNCHANGED <<art, items>> /\ f.adds = e.adds /\ run'[Consumer].pc # "rule"
    BY <1>4 DEF Loads
  <2> QED
    BY <2>1, <2>2 DEF ShownRows, ShownObjects, RoutesLast
<1>5. CASE Creates
  <2>1. PICK u \in Tenants :
          /\ f.art[u] # None /\ f.art[u].status = "new" /\ f.art0[u] = None
          /\ \A v \in Tenants \ {u} : f.art[v] = e.art[v] /\ f.art0[v] = e.art0[v]
    BY <1>5 DEF Creates
  <2>2. UNCHANGED <<art, items>> /\ f.adds = e.adds /\ run'[Consumer].pc # "rule"
    BY <1>5 DEF Creates
  <2> QED
    BY <2>1, <2>2 DEF ShownRows, ShownObjects, RoutesLast, Public
<1>6. \A u \in Tenants : <<u, u>> \in Entries /\ <<u, u>>[2] = u
  BY DEF Entries
<1>7. CASE Stores
  <2>1. PICK g, left :
      /\ Flushes(g, left)
      /\ \A u \in Tenants : e.art[u] # None =>
           g.art[u].status = e.art[u].status /\ g.art[u].route = e.art[u].route
      /\ \A i \in Entries :
           \/ left[i] = items[i]
           \/ left[i] = 0 /\ e.art[i[2]] # None /\ ~Public(e.art[i[2]])
    BY <1>7 DEF Stores
  <2>2. \A u \in Tenants : g.art[u] = None <=> e.art[u] = None
    BY <2>1 DEF Flushes
  <2>3. \A u \in Tenants : Public(g.art[u]) =>
          Public(e.art[u]) /\ g.art[u].route = e.art[u].route
    BY <2>1, <2>2 DEF Public
  <2>4. \A u \in Tenants : Public(e.art[u]) \/ e.art[u] = None =>
          left[<<u, u>>] = items[<<u, u>>]
    BY <1>6, <2>1
  <2>5. run'[Consumer].pc # "rule"
    BY <2>1 DEF Flushes
  <2> QED
    BY <2>1, <2>3, <2>4, <2>5, FlushesShows DEF RoutesLast
<1>8. CASE CancelsOne
  <2>1. PICK g, left :
      /\ Flushes(g, left)
      /\ \E u \in Tenants :
           /\ g.art[u] # None /\ g.art[u].status = "canceled"
           /\ \A v \in Tenants \ {u} : g.art[v] = e.art[v]
           /\ \A i \in Entries : IF i[2] = u THEN left[i] = 0 ELSE left[i] = items[i]
    BY <1>8 DEF CancelsOne
  <2>2. PICK u \in Tenants :
           /\ g.art[u] # None /\ g.art[u].status = "canceled"
           /\ \A v \in Tenants \ {u} : g.art[v] = e.art[v]
           /\ \A i \in Entries : IF i[2] = u THEN left[i] = 0 ELSE left[i] = items[i]
    BY <2>1
  <2>3. e.art[u] # None /\ run'[Consumer].pc # "rule"
    BY <2>1, <2>2 DEF Flushes
  <2>4. \A v \in Tenants : v # u => g.art[v] = e.art[v] /\ left[<<v, v>>] = items[<<v, v>>]
    BY <1>6, <2>2
  <2>5. ~Public(g.art[u])
    BY <2>2 DEF Public
  <2> QED
    BY <2>1, <2>3, <2>4, <2>5, FlushesShows DEF RoutesLast
<1>9. CASE RoutesOne
  <2>1. /\ AppliesRule /\ UNCHANGED <<art, items>> /\ f.adds = e.adds /\ f.art0 = e.art0
        /\ \A u \in Tenants \ {t} : f.art[u] = e.art[u]
        /\ f.art[t] # None /\ f.art[t].status = e.art[t].status /\ f.art[t].rev = e.art[t].rev
        /\ ~Publishes(Head(rules), e.art[t])
        /\ e.art[t].rev \notin Head(rules).when \/ Head(rules).route = None => f.art = e.art
    BY <1>9 DEF RoutesOne
  <2>2. /\ t \in Tenants /\ e.art[t] # None /\ ~Public(e.art0[t])
        /\ rules \in Seq(TenantRule) /\ rules # <<>> /\ run[Consumer].pc = "rule"
    BY <2>1, RuledArticle DEF AppliesRule
  <2>3. Public(f.art[t]) => Public(e.art[t])
    BY <2>1, <2>2 DEF Public
  <2>4. Public(e.art[t]) => ~Reroutes(Head(rules), e.art[t])
    BY <2>2, RulesLeft DEF RoutesLast
  <2>5. Public(e.art[t]) => f.art = e.art
    BY <2>1, <2>4 DEF Reroutes, Publishes
  <2>6. ShownRows' /\ ShownObjects(em[Consumer])'
    BY <2>1, <2>2, <2>3, <2>5 DEF ShownRows, ShownObjects
  <2> QED
    BY <2>1, <2>3, <2>6, AppliesLast
<1>10. CASE PublishesOne
  <2>1. AppliesRule /\ Publishes(Head(rules), e.art[t])
    BY <1>10 DEF PublishesOne
  <2>2. /\ t \in Tenants /\ e.art0[t] # None /\ ~Public(e.art0[t])
        /\ \A i \in Entries : i[2] = t => items[i] = 0
    BY <2>1, RuledArticle
  <2>3. /\ UNCHANGED <<art, items>> /\ f.art0 = e.art0
        /\ \A u \in Tenants \ {t} : f.art[u] = e.art[u]
        /\ Public(f.art[t]) /\ f.art[t].rev = e.art[t].rev
        /\ \E l \in Tenants : IF Matches(l, f.art[t].route)
                              THEN f.adds = [e.adds EXCEPT ![<<l, t>>] = @ + 1]
                              ELSE f.adds = e.adds
    <3>1. ~\E i \in Entries : i[2] = t /\ items[i] > 0
      BY <2>2
    <3> QED
      BY <1>10, <3>1 DEF PublishesOne
  <2>4. \A u \in Tenants : u = t
    BY <2>2 DEF SingleTenant
  <2>5. Matches(t, f.art[t].route) => f.adds[<<t, t>>] > 0
    <3>1. PICK l \in Tenants : IF Matches(l, f.art[t].route)
                               THEN f.adds = [e.adds EXCEPT ![<<l, t>>] = @ + 1]
                               ELSE f.adds = e.adds
      BY <2>3
    <3>2. l = t /\ <<t, t>> \in Entries
      BY <1>6, <2>4
    <3>3. Matches(t, f.art[t].route) => f.adds[<<t, t>>] = e.adds[<<t, t>>] + 1
      BY <1>1, <3>1, <3>2
    <3>4. e.adds[<<t, t>>] \in Nat
      BY <1>1, <3>2
    <3> QED
      BY <3>3, <3>4
  <2>6. ShownRows' /\ ShownObjects(em[Consumer])'
    BY <2>2, <2>3, <2>4, <2>5 DEF ShownRows, ShownObjects
  <2> QED
    BY <2>1, <2>3, <2>6, AppliesLast
<1>11. CASE Forgets
  <2>1. /\ UNCHANGED <<art, items>> /\ run'[Consumer].pc # "rule"
        /\ \A u \in Tenants : f.art[u] = None /\ f.art0[u] = None
    BY <1>11 DEF Forgets, FreshEm, NoArticles, Resting
  <2> QED
    BY <2>1 DEF ShownRows, ShownObjects, RoutesLast, Public
<1> QED
  BY <1>2, <1>3, <1>4, <1>5, <1>7, <1>8, <1>9, <1>10, <1>11 DEF ConsumerLists

-----------------------------------------------------------------------------
(* A list that asks for every route there is.                              *)

\* All objects and rows are on routes it asks for, and so is what rules give them.
UniformRoutes ==
    \A t \in Tenants : Uniform(t) =>
      /\ art[t] # None => Matches(t, art[t].route)
      /\ \A w \in Workers :
           /\ em[w].art[t] # None => Matches(t, em[w].art[t].route)
           /\ em[w].art0[t] # None => Matches(t, em[w].art0[t].route)
      /\ run[Consumer].pc = "rule" =>
           \A i \in DOMAIN run[Consumer].rules : run[Consumer].rules[i].route \in Given(t)

LEMMA FlushesUniform ==
    ASSUME Inv, Tracked, UniformRoutes, NEW g, NEW left, Flushes(g, left),
           \A w \in Api : em'[w] = em[w],
           \A t \in Tenants : g.art[t] # None => g.art[t].route = em[Consumer].art[t].route
    PROVE  UniformRoutes'
<1>1. /\ Managed(em[Consumer]) /\ g \in EntityManager /\ left \in [Entries -> Nat]
      /\ Flush(g, left) /\ g.art0 = em[Consumer].art0 /\ run'[Consumer].pc # "rule"
      /\ \A t \in Tenants : g.art[t] = None <=> em[Consumer].art[t] = None
      /\ em'[Consumer].art = g.art /\ em'[Consumer].art0 = g.art
  BY ConsumerWorks DEF Tracked, Flushes
<1>2. \A t \in Tenants :
        /\ g.art[t] = None => art'[t] = art[t]
        /\ g.art[t] # None /\ g.art0[t] = None => art'[t] = g.art[t]
        /\ g.art0[t] # None =>
             art'[t].route = IF g.art[t].route # g.art0[t].route
                               THEN g.art[t].route ELSE art[t].route
  BY <1>1, FlushLists DEF Managed
<1>3. \A t \in Tenants : g.art0[t] # None => g.art[t] # None /\ art[t] # None
  BY <1>1 DEF Managed
<1> SUFFICES ASSUME NEW t \in Tenants, Uniform(t)
             PROVE  /\ art'[t] # None => Matches(t, art'[t].route)
                    /\ \A w \in Workers :
                         /\ em'[w].art[t] # None => Matches(t, em'[w].art[t].route)
                         /\ em'[w].art0[t] # None => Matches(t, em'[w].art0[t].route)
  BY <1>1 DEF UniformRoutes
<1>4. /\ art[t] # None => Matches(t, art[t].route)
      /\ \A w \in Workers :
           /\ em[w].art[t] # None => Matches(t, em[w].art[t].route)
           /\ em[w].art0[t] # None => Matches(t, em[w].art0[t].route)
  BY DEF UniformRoutes
<1>5. g.art[t] # None => Matches(t, g.art[t].route)
  BY <1>1, <1>4, ConsumerWorks
<1>6. art'[t] # None => Matches(t, art'[t].route)
  <2>1. CASE g.art[t] = None \/ g.art0[t] = None
    BY <1>2, <1>4, <1>5, <2>1
  <2>2. CASE g.art[t] # None /\ g.art0[t] # None
    <3>1. art'[t].route = g.art[t].route \/ art'[t].route = art[t].route
      BY <1>2, <2>2
    <3>2. Matches(t, g.art[t].route) /\ Matches(t, art[t].route)
      BY <1>3, <1>4, <1>5, <2>2
    <3> QED
      BY <3>1, <3>2
  <2> QED
    BY <2>1, <2>2
<1> QED
  BY <1>1, <1>4, <1>5, <1>6 DEF Workers

LEMMA ConsumerKeepsUniform ==
    ASSUME SingleTenant
    PROVE  Inv /\ Tracked /\ Steady /\ HeldLists /\ ListedRows /\ UniformRoutes
           /\ ConsumerLists => UniformRoutes'
<1> SUFFICES ASSUME Inv, Tracked, Steady, HeldLists, ListedRows, UniformRoutes, ConsumerLists
             PROVE  UniformRoutes'
  OBVIOUS
<1> DEFINE e == em[Consumer]
           f == em'[Consumer]
           c == run[Consumer].cur
           rules == run[Consumer].rules
<1>1. \A w \in Api : em'[w] = em[w]
  BY DEF ConsumerLists
<1>2. ASSUME art' = art,
             run'[Consumer].pc = "rule" =>
               /\ run[Consumer].pc = "rule"
               /\ \A i \in DOMAIN run'[Consumer].rules : \E j \in DOMAIN rules :
                    run'[Consumer].rules[i] = rules[j],
             \A t \in Tenants : Uniform(t) =>
               /\ f.art[t] # None =>
                    \/ f.art[t] = art[t] \/ f.art[t].route \in Given(t)
                    \/ e.art[t] # None /\ f.art[t].route = e.art[t].route
               /\ f.art0[t] # None => f.art0[t] = art[t] \/ f.art0[t] = e.art0[t]
      PROVE  UniformRoutes'
  <2> SUFFICES ASSUME NEW t \in Tenants, Uniform(t)
               PROVE  /\ f.art[t] # None => Matches(t, f.art[t].route)
                      /\ f.art0[t] # None => Matches(t, f.art0[t].route)
                      /\ run'[Consumer].pc = "rule" =>
                           \A i \in DOMAIN run'[Consumer].rules :
                             run'[Consumer].rules[i].route \in Given(t)
    BY <1>1, <1>2 DEF UniformRoutes, Workers
  <2>1. /\ art[t] # None => Matches(t, art[t].route)
        /\ e.art[t] # None => Matches(t, e.art[t].route)
        /\ e.art0[t] # None => Matches(t, e.art0[t].route)
        /\ run[Consumer].pc = "rule" => \A i \in DOMAIN rules : rules[i].route \in Given(t)
        /\ \A route \in Given(t) : Matches(t, route)
    BY ConsumerWorks DEF UniformRoutes, Uniform
  <2>2. f.art[t] # None => Matches(t, f.art[t].route)
    <3> SUFFICES ASSUME f.art[t] # None PROVE Matches(t, f.art[t].route)
      OBVIOUS
    <3>1. \/ f.art[t] = art[t] \/ f.art[t].route \in Given(t)
          \/ e.art[t] # None /\ f.art[t].route = e.art[t].route
      BY <1>2
    <3>2. CASE f.art[t] = art[t]
      BY <2>1, <3>2
    <3>3. CASE f.art[t].route \in Given(t)
      BY <2>1, <3>3
    <3>4. CASE e.art[t] # None /\ f.art[t].route = e.art[t].route
      BY <2>1, <3>4
    <3> QED
      BY <3>1, <3>2, <3>3, <3>4
  <2>3. f.art0[t] # None => Matches(t, f.art0[t].route)
    BY <1>2, <2>1
  <2>4. run'[Consumer].pc = "rule" =>
          \A i \in DOMAIN run'[Consumer].rules : run'[Consumer].rules[i].route \in Given(t)
    BY <1>2, <2>1
  <2> QED
    BY <2>2, <2>3, <2>4
<1>3. CASE GoesOn
  BY <1>2, <1>3 DEF GoesOn
<1>4. CASE StartsRules
  <2>1. PICK u \in Tenants : run'[Consumer].rules = TenantRules[u]
    BY <1>4 DEF StartsRules
  <2>2. \A t \in Tenants, i \in DOMAIN run'[Consumer].rules :
          run'[Consumer].rules[i].route \in Given(t)
    BY <2>1 DEF SingleTenant, Given
  <2> QED
    BY <1>1, <1>4, <2>2 DEF StartsRules, UniformRoutes, Workers
<1>5. CASE Loads
  BY <1>2, <1>5 DEF Loads
<1>6. CASE Creates
  <2>1. \A t \in Tenants : None \in Given(t)
    BY DEF Given
  <2> QED
    BY <1>2, <1>6, <2>1 DEF Creates
<1>7. CASE Stores
  <2>1. PICK g, left :
      /\ Flushes(g, left)
      /\ \A u \in Tenants : e.art[u] # None => g.art[u].route = e.art[u].route
    BY <1>7 DEF Stores
  <2>2. \A u \in Tenants : g.art[u] = None <=> e.art[u] = None
    BY <2>1 DEF Flushes
  <2> QED
    BY <1>1, <2>1, <2>2, FlushesUniform
<1>8. CASE CancelsOne
  <2>1. PICK g, left : Flushes(g, left) /\ \A u \in Tenants : g.art[u].route = e.art[u].route
    BY <1>8 DEF CancelsOne
  <2> QED
    BY <1>1, <2>1, FlushesUniform
<1>9. ASSUME AppliesRule
      PROVE  /\ rules \in Seq(TenantRule) /\ c \in Tenants /\ e.art[c] # None
             /\ run[Consumer].pc = "rule" /\ run'[Consumer].rules = Tail(rules)
             /\ \A t \in Tenants : Uniform(t) => Head(rules).route \in Given(t)
             /\ \A i \in DOMAIN Tail(rules) : \E j \in DOMAIN rules : Tail(rules)[i] = rules[j]
  <2>1. /\ rules \in Seq(TenantRule) /\ c \in Tenants /\ e.art[c] # None
        /\ run[Consumer].pc = "rule" /\ run'[Consumer].rules = Tail(rules) /\ rules # <<>>
    BY <1>9, RuledArticle DEF AppliesRule
  <2>2. /\ 1 \in DOMAIN rules /\ Head(rules) = rules[1]
        /\ \A i \in DOMAIN Tail(rules) : i + 1 \in DOMAIN rules /\ Tail(rules)[i] = rules[i + 1]
    BY <2>1, RulesLeft
  <2>3. \A i \in DOMAIN Tail(rules) : \E j \in DOMAIN rules : Tail(rules)[i] = rules[j]
    BY <2>2
  <2> QED
    BY <2>1, <2>2, <2>3 DEF UniformRoutes
<1>10. CASE RoutesOne
  <2>1. /\ AppliesRule /\ art' = art /\ f.art0 = e.art0
        /\ \A u \in Tenants \ {c} : f.art[u] = e.art[u]
        /\ f.art[c].route \in {e.art[c].route, Head(rules).route}
    BY <1>10 DEF RoutesOne
  <2> HIDE DEF e, f, c, rules
  <2> QED
    BY <1>2, <1>9, <2>1
<1>11. CASE PublishesOne
  <2>1. AppliesRule
    BY <1>11 DEF PublishesOne
  <2>2. \A i \in Entries : i[2] = c => items[i] = 0
    BY <2>1, RuledArticle
  <2>3. ~\E i \in Entries : i[2] = c /\ items[i] > 0
    BY <2>2
  <2>4. /\ art' = art /\ f.art0 = e.art0
        /\ \A u \in Tenants \ {c} : f.art[u] = e.art[u]
        /\ f.art[c].route \in {e.art[c].route, Head(rules).route}
    BY <1>11, <2>3 DEF PublishesOne
  <2> HIDE DEF e, f, c, rules
  <2> QED
    BY <1>2, <1>9, <2>1, <2>4
<1>12. CASE Forgets
  <2>1. /\ art' = art /\ run'[Consumer].pc # "rule"
        /\ \A u \in Tenants : f.art[u] = None /\ f.art0[u] = None
    BY <1>12 DEF Forgets, FreshEm, NoArticles, Resting
  <2> QED
    BY <1>2, <2>1
<1> QED
  BY <1>3, <1>4, <1>5, <1>6, <1>7, <1>8, <1>10, <1>11, <1>12 DEF ConsumerLists

LEMMA AsksUniform ==
    ASSUME Inv, Tracked, RequestsHold, UniformRoutes, NEW w \in Api, Asks(w)
    PROVE  UniformRoutes'
<1>1. PICK f, r : Keep(w, f) /\ Go(w, r) /\ (ReadsAs(w, f) \/ WritesAs(w, f))
  BY DEF Asks
<1>2. /\ em'[w] = f /\ run'[Consumer] = run[Consumer]
      /\ \A v \in Workers \ {w} : em'[v] = em[v]
  BY <1>1, Moved, ConsumerWorks DEF Workers
<1> SUFFICES ASSUME NEW t \in Tenants, Uniform(t)
             PROVE  /\ art'[t] # None => Matches(t, art'[t].route)
                    /\ f.art[t] # None => Matches(t, f.art[t].route)
                    /\ f.art0[t] # None => Matches(t, f.art0[t].route)
  BY <1>2 DEF UniformRoutes
<1>3. /\ art[t] # None => Matches(t, art[t].route)
      /\ em[w].art[t] # None => Matches(t, em[w].art[t].route)
      /\ em[w].art0[t] # None => Matches(t, em[w].art0[t].route)
      /\ \A q \in ArticleRequests : q.tenant = t => Matches(t, q.route)
  BY DEF UniformRoutes, Uniform, Given, Workers
<1>4. CASE ReadsAs(w, f)
  <2>1. f.art[t] # None => Matches(t, f.art[t].route)
    <3>1. CASE \E q \in ArticleRequests : q.tenant = t /\ f.art[t].route = q.route
      BY <1>3, <3>1
    <3>2. CASE f.art[t] = em[w].art[t] \/ f.art[t] = art[t] \/ f.art[t] = None
      BY <1>3, <3>2
    <3> QED
      BY <1>4, <3>1, <3>2 DEF ReadsAs
  <2>2. f.art0[t] = em[w].art0[t] \/ f.art0[t] = art[t] \/ f.art0[t] = None
    BY <1>4 DEF ReadsAs
  <2> QED
    BY <1>3, <1>4, <2>1, <2>2 DEF ReadsAs
<1>5. CASE WritesAs(w, f)
  <2>1. /\ art[t] # None
        /\ art'[t].route # art[t].route =>
             em[w].art[t] # None /\ art'[t].route = em[w].art[t].route
        /\ f.art[t] # None => em[w].art[t] # None /\ f.art[t].route = em[w].art[t].route
        /\ f.art0[t] # None => f.art[t] = f.art0[t]
    <3>1. \A u \in Tenants :
            /\ art[u] # None
            /\ art'[u].route # art[u].route =>
                 em[w].art[u] # None /\ art'[u].route = em[w].art[u].route
      BY <1>5, WritesFlush
    <3>2. \A u \in Tenants : f.art[u] # None =>
            em[w].art[u] # None /\ f.art[u].route = em[w].art[u].route
      BY <1>5, WritesFlush
    <3>3. \A u \in Tenants : f.art0[u] # None => f.art[u] = f.art0[u]
      BY <1>5, WritesFlush
    <3> QED
      BY <3>1, <3>2, <3>3
  <2>2. art'[t].route = art[t].route \/ art'[t].route = em[w].art[t].route
    BY <2>1
  <2>3. Matches(t, art'[t].route)
    BY <1>3, <2>1, <2>2
  <2>4. f.art[t] # None => Matches(t, f.art[t].route)
    BY <1>3, <2>1
  <2> QED
    BY <2>1, <2>3, <2>4
<1> QED
  BY <1>1, <1>4, <1>5

ShownInv == ShownRows /\ ShownObjects(em[Consumer]) /\ RoutesLast /\ RequestedRoutes
            /\ UniformRoutes

LEMMA AsksShows ==
    ASSUME NoListedRequest
    PROVE  \A w \in Api :
             /\ Inv /\ Tracked /\ Steady /\ HeldLists /\ RequestsHold
             /\ ShownInv /\ Asks(w)
             => ShownInv'
<1> SUFFICES ASSUME NEW w \in Api, Inv, Tracked, Steady, HeldLists, RequestsHold, ShownInv,
                    Asks(w)
             PROVE  ShownInv'
  OBVIOUS
<1>1. PICK f, r : Keep(w, f) /\ Go(w, r) /\ (ReadsAs(w, f) \/ WritesAs(w, f))
  BY DEF Asks
<1>2. /\ em'[w] = f /\ em'[Consumer] = em[Consumer] /\ run'[Consumer] = run[Consumer]
      /\ \A v \in Api \ {w} : em'[v] = em[v]
  BY <1>1, Moved, ConsumerWorks DEF Workers
<1>3. UniformRoutes'
  BY AsksUniform DEF ShownInv
<1>4. CASE ReadsAs(w, f)
  <2>1. \A t \in Tenants : /\ f.art[t] # None /\ f.art[t].route # f.art0[t].route
                           /\ Matches(t, f.art[t].route)
                           => Uniform(t)
    <3> SUFFICES ASSUME NEW t \in Tenants, f.art[t] # None, f.art[t].route # f.art0[t].route,
                        Matches(t, f.art[t].route), ~Uniform(t)
                 PROVE  FALSE
      OBVIOUS
    <3>1. ~\E q \in ArticleRequests : q.tenant = t /\ f.art[t].route = q.route
      BY DEF NoListedRequest
    <3>2. f.art[t] = em[w].art[t] /\ f.art0[t] = em[w].art0[t]
      BY <1>4, <3>1 DEF ReadsAs
    <3> QED
      BY <3>2 DEF ShownInv, RequestedRoutes
  <2>2. RequestedRoutes'
    BY <1>2, <2>1 DEF ShownInv, RequestedRoutes
  <2> QED
    BY <1>2, <1>4, <1>3, <2>2 DEF ReadsAs, ShownInv, ShownRows, ShownObjects, RoutesLast
<1>5. CASE WritesAs(w, f)
  <2>1. \A t \in Tenants : Matches(t, art'[t].route) => Matches(t, art[t].route)
    BY <1>5, WritesFlush DEF ShownInv, RequestedRoutes, UniformRoutes
  <2>2. ShownRows'
    BY <1>5, <2>1, WritesFlush DEF ShownInv, ShownRows, NonePublished
  <2>3. ShownObjects(em[Consumer])'
    BY <1>2, <2>1 DEF ShownInv, ShownObjects
  <2>4. RequestedRoutes'
    BY <1>2, <1>5, WritesFlush DEF ShownInv, RequestedRoutes
  <2> QED
    BY <1>2, <1>3, <2>2, <2>3, <2>4 DEF ShownInv, RoutesLast
<1> QED
  BY <1>1, <1>4, <1>5

\* A public article whose route its tenant's automatic list asks for is in it, at
\* every moment: its rules publish it after they have routed it (a rule of a lower
\* priority that only routes, RuleProcessor, would move it onto the list's route
\* without telling the list), the item is stored with the status, and a flush takes
\* it off only with the status. A PATCH that changes the route tells no list either,
\* which does not matter where the list asks for every route there is.
THEOREM ListsComplete ==
    ASSUME SingleTenant, NoFailures, NoPublishRequest, NoDestinations, NoArticlePublishRequest,
           RoutedFirst, NoListedRequest
    PROVE  Spec => []PublishedIsListed
<1>1. Init => ShownInv
  <2> SUFFICES ASSUME Init PROVE ShownInv
    OBVIOUS
  <2>1. /\ run[Consumer].pc # "rule"
        /\ \A w \in Workers, t \in Tenants : em[w].art[t] = None /\ em[w].art0[t] = None
        /\ \A t \in Tenants : art[t] = None
    BY ConsumerWorks DEF Init, Resting, FreshEm, NoArticles
  <2> QED
    BY <2>1, ConsumerWorks
    DEF ShownInv, ShownRows, ShownObjects, RoutesLast, RequestedRoutes, UniformRoutes, Workers,
        Public
<1>2. Inv /\ Tracked /\ Steady /\ ListInv /\ ShownInv /\ [Next]_vars => ShownInv'
  <2> SUFFICES ASSUME Inv, Tracked, Steady, ListInv, ShownInv, [Next]_vars PROVE ShownInv'
    OBVIOUS
  <2>1. CASE ConsumerLists
    <3>1. RequestedRoutes'
      BY <2>1 DEF ConsumerLists, ShownInv, RequestedRoutes
    <3> QED
      BY <2>1, <3>1, ConsumerKeepsShown, ConsumerKeepsUniform DEF ListInv, ShownInv
  <2>2. ASSUME NEW w \in Api, Asks(w) PROVE ShownInv'
    BY <2>2, AsksShows DEF ListInv
  <2>3. CASE UNCHANGED <<art, items, em, run>>
    BY <2>3 DEF ShownInv, ShownRows, ShownObjects, RoutesLast, RequestedRoutes, UniformRoutes
  <2> QED
    BY <2>1, <2>2, <2>3, NextLists DEF ListInv
<1>3. ShownInv => PublishedIsListed
  BY DEF ShownInv, ShownRows, PublishedIsListed, Existing, Public
<1>4. Spec => []ShownInv
  BY <1>1, <1>2, ListInvHolds, PTL DEF Spec
<1> QED
  BY <1>3, <1>4, PTL

=============================================================================
