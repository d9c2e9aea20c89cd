---------------------------- MODULE RevisionsProofs ----------------------------
(* For any number of processes, containers and publications: a tenant has  *)
(* one published and one working revision, and containers only move        *)
(* forward.  The reason is that the revisions form a chain (Chain): as the *)
(* index lets a revision be followed only once, a revision can only be     *)
(* published while it is the last one, by one process (Apart), and only    *)
(* that process takes along the containers of the revision before it.      *)
(* Where publications run alone and no form is sent, the revisions also    *)
(* implement a live site and its draft.                                    *)
EXTENDS Revisions, TLAPS

Chain ==
    /\ Len(revs) >= 2
    /\ \A r \in 1 .. Len(revs) :
         /\ revs[r].previous = r - 1
         /\ revs[r].status = IF r = Len(revs) THEN "new"
                             ELSE IF r = Len(revs) - 1 THEN "published" ELSE "replaced"

\* What a process holds, with n revisions and the containers rs.
Fit(q, n, rs) ==
    /\ q.pc \notin {"idle", "context"} => q.working \in 2 .. n
    /\ q.pc \in {"ids", "containers", "move"} => q.working < n
    /\ q.pc = "move" =>
         \A i \in q.old : i \in 1 .. Len(rs) /\ rs[i].rev = q.working - 1
    /\ q.pc \in {"fork", "write"} => q.row \in 1 .. Len(rs)
    /\ q.pc \in {"render", "create"} => q.kind = "render"
    /\ q.kind = "style" => q.arg \in Styles
    /\ q.kind \in {"link", "unlink"} => q.arg \in Widgets
    /\ q.kind = "render" => q.on \in Names /\ q.arg \in Nat \cup {None}

Apart ==
    \A p \in Workers, q \in Workers :
      p # q /\ Publishing(p) /\ Publishing(q) => run[p].working # run[q].working

Inv ==
    /\ TypeOK /\ Chain /\ Apart
    /\ \A p \in Workers : Fit(run[p], Len(revs), rows)

-----------------------------------------------------------------------------
LEMMA RestingFits ==
    /\ Resting \in Process
    /\ \A n, rs : Fit(Resting, n, rs)
    /\ Resting.pc = "idle"
<1>1. Resting \in Process
  BY RevisionsAssumption DEF Resting, Process, PCs, AllKinds
<1> QED
  BY <1>1 DEF Fit, Resting

\* The initial state.
LEMMA InitInv == Init => Inv
<1> SUFFICES ASSUME Init PROVE Inv
  OBVIOUS
<1>1. revs \in Seq(Revision) /\ Len(revs) = 2
  BY DEF Init, Revision
<1>2. rows \in Seq(Container)
  <2>1. Len(Theme) \in Nat /\ \A i \in 1 .. Len(Theme) : Theme[i] \in Names
    BY RevisionsAssumption
  <2>2. \A i \in 1 .. Len(Theme) :
          [uuid |-> i, name |-> Theme[i], rev |-> 1, style |-> Plain,
           widgets |-> {}] \in Container
    BY <2>1, RevisionsAssumption DEF Container
  <2>3. rows \in [1 .. Len(Theme) -> Container]
    BY <2>1, <2>2 DEF Init
  <2> QED
    BY <2>1, <2>3
<1>3. run \in [Workers -> Process] /\ \A p \in Workers : run[p] = Resting
  BY RestingFits DEF Init
<1>4. Chain
  BY <1>1 DEF Init, Chain
<1>5. Apart
  BY <1>3, RestingFits DEF Apart, Publishing
<1>6. \A p \in Workers : Fit(run[p], Len(revs), rows)
  BY <1>3, RestingFits
<1> QED
  BY <1>1, <1>2, <1>3, <1>4, <1>5, <1>6 DEF Inv, TypeOK

\* A step of a process that leaves the revisions alone and does not move a
\* container that another one is about to take along.
LEMMA LocalStep ==
    ASSUME Inv, NEW p \in Workers, NEW q \in Process,
           run' = [run EXCEPT ![p] = q], revs' = revs,
           rows' \in Seq(Container), Len(rows') >= Len(rows),
           \A w \in Workers \ {p} : run[w].pc = "move" =>
             \A i \in run[w].old : rows'[i].rev = rows[i].rev,
           Fit(q, Len(revs), rows'),
           q.pc \in {"ids", "containers", "move"} =>
             Publishing(p) /\ q.working = run[p].working
    PROVE  Inv'
<1>1. TypeOK' /\ Chain'
  BY DEF Inv, TypeOK, Chain
<1>2. \A w \in Workers : run'[w] = IF w = p THEN q ELSE run[w]
  BY DEF Inv, TypeOK
<1>3. Apart'
  BY <1>2 DEF Inv, Apart, Publishing
<1>4. ASSUME NEW w \in Workers PROVE Fit(run[w], Len(revs), rows)'
  <2>1. CASE w = p
    BY <1>2, <2>1
  <2>2. CASE w # p
    <3>1. run'[w] = run[w] /\ Fit(run[w], Len(revs), rows) /\ run[w] \in Process
      BY <1>2, <2>2 DEF Inv, TypeOK
    <3>2. Len(rows) \in Nat /\ Len(rows') \in Nat
      BY DEF Inv, TypeOK
    <3> QED
      BY <2>2, <3>1, <3>2 DEF Fit
  <2> QED
    BY <2>1, <2>2
<1> QED
  BY <1>1, <1>3, <1>4 DEF Inv

\* The same where no table changes.
LEMMA QuietStep ==
    ASSUME Inv, NEW p \in Workers, NEW q \in Process,
           run' = [run EXCEPT ![p] = q], UNCHANGED <<revs, rows>>,
           Fit(q, Len(revs), rows),
           q.pc \in {"ids", "containers", "move"} =>
             Publishing(p) /\ q.working = run[p].working
    PROVE  Inv'
<1>1. rows' \in Seq(Container) /\ Len(rows') >= Len(rows)
  BY DEF Inv, TypeOK
<1> QED
  BY <1>1, LocalStep

LEMMA FailedStep == ASSUME Inv, NEW p \in Workers, Failed(p) PROVE Inv'
<1>1. run' = [run EXCEPT ![p] = Resting] /\ UNCHANGED <<revs, rows>>
  BY DEF Failed, Done, Go
<1> HIDE DEF Resting
<1> QED
  BY <1>1, RestingFits, QuietStep

\* What is known of a process and of the containers.
LEMMA ProcessState ==
    ASSUME Inv, NEW p \in Workers
    PROVE  /\ run[p] \in Process /\ Fit(run[p], Len(revs), rows)
           /\ Len(revs) \in Nat /\ Len(rows) \in Nat
           /\ DOMAIN revs = 1 .. Len(revs) /\ DOMAIN rows = 1 .. Len(rows)
           /\ \A i \in 1 .. Len(rows) : rows[i] \in Container
  BY DEF Inv, TypeOK

-----------------------------------------------------------------------------
(* Requests.                                                               *)

LEMMA BeginKeepsInv == ASSUME Inv, NEW p \in Workers, Begin(p) PROVE Inv'
<1>1. PICK q \in Requests, r \in WithStatus("published") :
        /\ q[1] \in Kinds
        /\ run' = [run EXCEPT ![p] =
             [Resting EXCEPT !.pc = "context", !.kind = q[1], !.on = q[2],
                             !.arg = q[3], !.published = r]]
        /\ UNCHANGED <<revs, rows>>
  BY DEF Begin, Go
<1> DEFINE n == [Resting EXCEPT !.pc = "context", !.kind = q[1], !.on = q[2],
                                !.arg = q[3], !.published = r]
<1>2. r \in Nat
  BY ProcessState DEF WithStatus
<1>3. q[1] \in AllKinds
  BY <1>1, RevisionsAssumption
<1>4. /\ q[2] \in Nat \cup Names /\ q[3] \in Styles \cup Widgets \cup Nat \cup {None}
      /\ q[1] = "style" => q[3] \in Styles
      /\ q[1] \in {"link", "unlink"} => q[3] \in Widgets
      /\ q[1] = "render" => q[2] \in Names /\ q[3] \in Nat \cup {None}
  <2>1. Uuids \subseteq Nat
    BY ProcessState DEF Uuids, Container
  <2>2. DOMAIN revs \subseteq Nat
    BY ProcessState
  <2>3. CASE q = <<"publish", 0, None>>
    BY <2>3
  <2>4. CASE q \in {"style"} \X Uuids \X Styles
    BY <2>1, <2>4
  <2>5. CASE q \in {"link", "unlink"} \X Uuids \X Widgets
    BY <2>1, <2>5
  <2>6. CASE q \in {"render"} \X Names \X ((Cookies \cap DOMAIN revs) \cup {None})
    BY <2>2, <2>6
  <2> QED
    BY <2>3, <2>4, <2>5, <2>6 DEF Requests
<1>5. n \in Process
  BY <1>2, <1>3, <1>4, RestingFits DEF Process, PCs
<1>6. Fit(n, Len(revs), rows) /\ n.pc = "context"
  BY <1>3, <1>4 DEF Fit, Resting
<1> HIDE DEF n
<1> QED
  BY <1>1, <1>5, <1>6, QuietStep DEF n

\* The first step of a request; only pages are rendered.
LEMMA FirstSteps ==
    ASSUME NEW k \in AllKinds
    PROVE  /\ FirstStep[k] \in {"publish", "find", "render"}
           /\ FirstStep[k] = "render" => k = "render"
<1>1. CASE k = "publish"
  BY <1>1 DEF FirstStep
<1>2. CASE k = "style"
  BY <1>2 DEF FirstStep
<1>3. CASE k = "link"
  BY <1>3 DEF FirstStep
<1>4. CASE k = "unlink"
  BY <1>4 DEF FirstStep
<1>5. CASE k = "render"
  BY <1>5 DEF FirstStep
<1> QED
  BY <1>1, <1>2, <1>3, <1>4, <1>5 DEF AllKinds

LEMMA ContextKeepsInv == ASSUME Inv, NEW p \in Workers, Context(p) PROVE Inv'
<1> DEFINE q == run[p]
           key == q.kind = "render" /\ q.arg # None
           seen(r) == IF ~key THEN {q.published}
                      ELSE IF q.arg = r THEN {q.published, r} ELSE {q.arg}
           n(r, c, v) == [q EXCEPT !.pc = c, !.working = r, !.visible = v]
<1>1. PICK r \in WithStatus("new") :
        run' = [run EXCEPT ![p] = n(r, FirstStep[q.kind], seen(r))] /\ UNCHANGED <<revs, rows>>
  BY DEF Context, Go
<1>2. r \in 2 .. Len(revs)
  BY ProcessState DEF Inv, Chain, WithStatus
<1>3. PICK v \in SUBSET Nat : v = seen(r)
  <2>1. q.published \in Nat /\ r \in Nat
    BY <1>2, ProcessState DEF Process
  <2>2. key => q.arg \in Nat
    BY ProcessState DEF Fit
  <2> QED
    BY <2>1, <2>2
<1>4. PICK c \in PCs :
        /\ c = FirstStep[q.kind] /\ c \in {"publish", "find", "render"}
        /\ c = "render" => q.kind = "render"
  BY ProcessState, FirstSteps DEF Process, PCs
<1>5. q \in Process /\ Fit(q, Len(revs), rows) /\ r \in Nat
  BY <1>2, ProcessState
<1> HIDE DEF q
<1>6. n(r, c, v) \in Process
  BY <1>5 DEF Process
<1>7. PICK m \in Process : m = n(r, c, v)
  BY <1>6
<1>8. /\ m.pc = c /\ m.working = r /\ m.kind = q.kind
      /\ m.on = q.on /\ m.arg = q.arg
  BY <1>5, <1>7 DEF Process
<1>9. m.pc \notin {"ids", "containers", "move", "fork", "write", "create"}
  BY <1>4, <1>8
<1>10. Fit(m, Len(revs), rows)
  BY <1>2, <1>4, <1>5, <1>8, <1>9 DEF Fit
<1>11. run' = [run EXCEPT ![p] = m] /\ UNCHANGED <<revs, rows>>
  <2> HIDE DEF n, seen
  <2> QED
    BY <1>1, <1>3, <1>4, <1>7
<1> QED
  BY <1>9, <1>10, <1>11, QuietStep

-----------------------------------------------------------------------------
(* Publication.                                                            *)

\* What publishing the last revision makes of the chain.
LEMMA ReplacedChain ==
    ASSUME revs \in Seq(Revision), Chain, NEW w, w = Len(revs), revs' = Replaced(w)
    PROVE  revs' \in Seq(Revision) /\ Chain' /\ Len(revs') = Len(revs) + 1
<1> DEFINE f == [r \in DOMAIN revs |->
              IF r = w THEN [revs[r] EXCEPT !.status = "published"]
              ELSE IF r = revs[w].previous THEN [revs[r] EXCEPT !.status = "replaced"]
              ELSE revs[r]]
           next == [status |-> "new", previous |-> w]
<1>1. w \in Nat /\ w >= 2 /\ DOMAIN revs = 1 .. w
  BY DEF Chain
<1>2. \A r \in 1 .. w : revs[r] \in Revision
  BY <1>1
<1>3. revs[w].previous = w - 1
  BY <1>1 DEF Chain
<1>4. f \in [1 .. w -> Revision]
  BY <1>1, <1>2 DEF Revision
<1>5. next \in Revision
  BY <1>1 DEF Revision
<1>6. f \in Seq(Revision) /\ Len(f) = w
  BY <1>1, <1>4
<1>7. \A r \in 1 .. w :
        /\ f[r].previous = r - 1
        /\ f[r].status = IF r = w THEN "published" ELSE "replaced"
  <2> SUFFICES ASSUME NEW r \in 1 .. w
               PROVE  /\ f[r].previous = r - 1
                      /\ f[r].status = IF r = w THEN "published" ELSE "replaced"
    OBVIOUS
  <2>1. /\ revs[r] \in Revision /\ revs[r].previous = r - 1
        /\ revs[r].status = IF r = w THEN "new"
                            ELSE IF r = w - 1 THEN "published" ELSE "replaced"
    BY <1>1, <1>2 DEF Chain
  <2> QED
    BY <1>1, <1>3, <2>1 DEF Revision
<1>8. revs' = Append(f, next)
  BY DEF Replaced
<1> HIDE DEF f
<1>9. revs' \in Seq(Revision) /\ Len(revs') = w + 1
  BY <1>5, <1>6, <1>8
<1>10. \A r \in 1 .. w + 1 : revs'[r] = IF r = w + 1 THEN next ELSE f[r]
  BY <1>1, <1>5, <1>6, <1>8
<1>11. Chain'
  BY <1>1, <1>7, <1>9, <1>10 DEF Chain
<1> QED
  BY <1>9, <1>11

LEMMA PublishKeepsInv == ASSUME Inv, NEW p \in Workers, Publish(p) PROVE Inv'
<1> DEFINE w == run[p].working
           n == [run[p] EXCEPT !.pc = "ids"]
<1>1. /\ run[p].pc = "publish" /\ Unfollowed(w)
      /\ revs' = Replaced(w) /\ run' = [run EXCEPT ![p] = n] /\ rows' = rows
  BY DEF Publish, Go, At
<1>2. w = Len(revs)
  <2>1. w \in 2 .. Len(revs)
    BY <1>1, ProcessState DEF Fit
  <2>2. ASSUME w < Len(revs) PROVE FALSE
    <3>1. w + 1 \in 1 .. Len(revs) /\ (w + 1) - 1 = w
      BY <2>1, <2>2, ProcessState
    <3>2. revs[w + 1].previous = w
      <4> HIDE DEF w
      <4> QED
        BY <3>1 DEF Inv, Chain
    <3> QED
      BY <1>1, <3>1, <3>2, ProcessState DEF Unfollowed
  <2> QED
    BY <2>1, <2>2, ProcessState
<1>3. revs' \in Seq(Revision) /\ Chain' /\ Len(revs') = Len(revs) + 1
  BY <1>1, <1>2, ReplacedChain DEF Inv, TypeOK
<1>4. n \in Process /\ n.pc = "ids" /\ n.working = w
      /\ n.kind = run[p].kind /\ n.on = run[p].on /\ n.arg = run[p].arg
  BY ProcessState DEF Process, PCs
<1>5. \A x \in Workers : run'[x] = IF x = p THEN n ELSE run[x]
  BY <1>1 DEF Inv, TypeOK
<1> HIDE DEF n
<1>6. TypeOK'
  BY <1>1, <1>3, <1>4 DEF Inv, TypeOK
<1>7. \A x \in Workers \ {p} : Publishing(x) => run[x].working < w
  BY <1>2, ProcessState DEF Fit, Publishing
<1>8. Apart'
  <2> SUFFICES ASSUME NEW x \in Workers, NEW y \in Workers, x # y,
                      Publishing(x)', Publishing(y)'
               PROVE  run'[x].working # run'[y].working
    BY DEF Apart
  <2>1. \A z \in Workers \ {p} : run'[z] = run[z] /\ (Publishing(z)' => Publishing(z))
    BY <1>5 DEF Publishing
  <2>2. run'[p].working = w /\ w \in Nat
    BY <1>2, <1>4, <1>5, ProcessState
  <2>3. \A z \in Workers : run[z].working \in Nat
    BY ProcessState DEF Process
  <2>4. CASE x = p
    BY <1>7, <2>1, <2>2, <2>3, <2>4
  <2>5. CASE y = p
    BY <1>7, <2>1, <2>2, <2>3, <2>5
  <2>6. CASE x # p /\ y # p
    BY <2>1, <2>6 DEF Inv, Apart
  <2> QED
    BY <2>4, <2>5, <2>6
<1>9. ASSUME NEW x \in Workers PROVE Fit(run[x], Len(revs), rows)'
  <2>1. CASE x = p
    <3>1. Fit(n, Len(revs) + 1, rows)
      BY <1>1, <1>2, <1>4, ProcessState DEF Fit
    <3> QED
      BY <1>1, <1>3, <1>5, <2>1, <3>1
  <2>2. CASE x # p
    <3>1. Fit(run[x], Len(revs) + 1, rows)
      BY ProcessState DEF Fit
    <3> QED
      BY <1>1, <1>3, <1>5, <2>2, <3>1
  <2> QED
    BY <2>1, <2>2
<1> QED
  BY <1>3, <1>6, <1>8, <1>9 DEF Inv

LEMMA QueryIdsKeepsInv == ASSUME Inv, NEW p \in Workers, QueryIds(p) PROVE Inv'
<1> DEFINE q == run[p]
           found == {rows[i].uuid : i \in Within({q.working})}
           n == [q EXCEPT !.pc = "containers", !.ids = found]
<1>1. q.pc = "ids" /\ UNCHANGED <<revs, rows>>
  BY DEF QueryIds, At
<1>2. CASE revs[q.working].previous = 0
  <2>1. Failed(p)
    BY <1>2 DEF QueryIds, Failed
  <2> QED
    BY <2>1, FailedStep
<1>3. CASE revs[q.working].previous # 0
  <2>1. run' = [run EXCEPT ![p] = n]
    BY <1>3 DEF QueryIds, Go
  <2>2. PICK ids \in SUBSET Nat : ids = found
    BY ProcessState DEF Within, Container
  <2>3. q \in Process /\ Fit(q, Len(revs), rows)
    BY ProcessState
  <2>4. PICK m \in Process : m = n
    <3>1. [q EXCEPT !.pc = "containers", !.ids = ids] \in Process
      <4> HIDE DEF q
      <4> QED
        BY <2>3 DEF Process, PCs
    <3> HIDE DEF q, found
    <3> QED
      BY <2>2, <3>1
  <2>5. /\ m.pc = "containers" /\ m.working = q.working /\ m.kind = q.kind
        /\ m.on = q.on /\ m.arg = q.arg
    <3> HIDE DEF q, found
    <3> QED
      BY <2>3, <2>4 DEF Process
  <2>6. Fit(m, Len(revs), rows)
    BY <1>1, <2>3, <2>5 DEF Fit
  <2> HIDE DEF n
  <2> QED
    BY <1>1, <2>1, <2>4, <2>5, <2>6, QuietStep DEF Publishing
<1> QED
  BY <1>2, <1>3

LEMMA QueryContainersKeepsInv ==
    ASSUME Inv, NEW p \in Workers, QueryContainers(p) PROVE Inv'
<1> DEFINE q == run[p]
<1>1. /\ q.pc = "containers" /\ UNCHANGED <<revs, rows>>
      /\ run' = [run EXCEPT ![p] = [q EXCEPT !.pc = "move", !.old = Missing(p)]]
  BY DEF QueryContainers, At, Go
<1>2. q \in Process /\ Fit(q, Len(revs), rows)
  BY ProcessState
<1>3. revs[q.working].previous = q.working - 1
  <2>1. q.working \in 1 .. Len(revs)
    BY <1>1, <1>2, ProcessState DEF Fit
  <2> HIDE DEF q
  <2> QED
    BY <2>1 DEF Inv, Chain
<1>4. /\ Missing(p) \in SUBSET Nat
      /\ \A i \in Missing(p) : i \in 1 .. Len(rows) /\ rows[i].rev = q.working - 1
  BY <1>3, ProcessState DEF Missing, Within
<1> HIDE DEF q
<1>5. PICK m \in Process : m = [q EXCEPT !.pc = "move", !.old = Missing(p)]
  BY <1>2, <1>4 DEF Process, PCs
<1>6. /\ m.pc = "move" /\ m.working = q.working /\ m.old = Missing(p)
      /\ m.kind = q.kind /\ m.on = q.on /\ m.arg = q.arg
  BY <1>2, <1>5 DEF Process
<1>7. Fit(m, Len(revs), rows)
  BY <1>1, <1>2, <1>4, <1>6 DEF Fit
<1>8. Publishing(p) /\ m.working = run[p].working
  BY <1>1, <1>6 DEF Publishing, q
<1>9. run' = [run EXCEPT ![p] = m]
  BY <1>1, <1>5
<1> QED
  BY <1>1, <1>7, <1>8, <1>9, QuietStep

\* The containers taken along come from the revision before, and nobody else
\* takes those.
LEMMA MoveKeepsInv ==
    ASSUME Inv, NEW p \in Workers, Move(p)
    PROVE  Inv' /\ \A i \in DOMAIN rows : rows'[i].rev >= rows[i].rev
<1> DEFINE w == run[p].working
           old == run[p].old
<1>1. /\ run[p].pc = "move" /\ revs' = revs /\ run' = [run EXCEPT ![p] = Resting]
      /\ rows' = [i \in DOMAIN rows |->
                    IF i \in old THEN [rows[i] EXCEPT !.rev = w] ELSE rows[i]]
  BY DEF Move, At, Done, Go
<1>2. /\ w \in Nat
      /\ \A i \in old : i \in 1 .. Len(rows) /\ rows[i].rev = w - 1
  BY <1>1, ProcessState DEF Fit
<1>3. rows' \in Seq(Container) /\ Len(rows') = Len(rows)
  <2>1. \A i \in 1 .. Len(rows) : rows'[i] \in Container
    <3> SUFFICES ASSUME NEW i \in 1 .. Len(rows) PROVE rows'[i] \in Container
      OBVIOUS
    <3>1. rows[i] \in Container
      BY ProcessState
    <3> HIDE DEF w, old
    <3> QED
      BY <1>1, <1>2, <3>1, ProcessState DEF Container
  <2>2. rows' \in [1 .. Len(rows) -> Container]
    BY <1>1, <2>1, ProcessState
  <2> QED
    BY <2>2, ProcessState
<1>4. \A i \in 1 .. Len(rows) :
        rows'[i].rev = IF i \in old THEN w ELSE rows[i].rev
  <2> SUFFICES ASSUME NEW i \in 1 .. Len(rows)
               PROVE  rows'[i].rev = IF i \in old THEN w ELSE rows[i].rev
    OBVIOUS
  <2>1. rows[i] \in Container
    BY ProcessState
  <2> HIDE DEF w, old
  <2> QED
    BY <1>1, <2>1, ProcessState DEF Container
<1>5. \A i \in DOMAIN rows : rows'[i].rev >= rows[i].rev
  <2>1. \A i \in 1 .. Len(rows) : rows[i].rev \in Nat
    BY ProcessState DEF Container
  <2> QED
    BY <1>2, <1>4, <2>1, ProcessState
<1>6. ASSUME NEW x \in Workers \ {p}, run[x].pc = "move", NEW i \in run[x].old
      PROVE  rows'[i].rev = rows[i].rev
  <2>1. i \in 1 .. Len(rows) /\ rows[i].rev = run[x].working - 1
    BY <1>6, ProcessState DEF Fit
  <2>2. run[x].working # w
    BY <1>1, <1>6 DEF Inv, Apart, Publishing
  <2>3. run[x].working \in Nat
    BY ProcessState DEF Process
  <2>4. i \notin old
    BY <1>2, <2>1, <2>2, <2>3
  <2> QED
    BY <1>4, <2>1, <2>4
<1>7. Len(rows') >= Len(rows)
  BY <1>3, ProcessState
<1>8. Resting \in Process /\ Fit(Resting, Len(revs), rows') /\ Resting.pc = "idle"
  BY RestingFits
<1>9. Inv'
  <2> HIDE DEF Resting
  <2> QED
    BY <1>1, <1>3, <1>6, <1>7, <1>8, LocalStep
<1> QED
  BY <1>5, <1>9

-----------------------------------------------------------------------------
(* Changes of a container, and pages.                                      *)

LEMMA FindKeepsInv == ASSUME Inv, NEW p \in Workers, Find(p) PROVE Inv'
<1> DEFINE q == run[p]
<1>1. PICK i \in Editable(p), c \in {"fork", "write"} :
        /\ q.pc = "find" /\ UNCHANGED <<revs, rows>>
        /\ run' = [run EXCEPT ![p] =
             [q EXCEPT !.row = i, !.style = rows[i].style, !.pc = c]]
  BY DEF Find, At, Go
<1>2. i \in 1 .. Len(rows) /\ rows[i] \in Container
  BY ProcessState DEF Editable, Within
<1>3. q \in Process /\ Fit(q, Len(revs), rows) /\ i \in Nat /\ c \in PCs
  BY <1>2, ProcessState DEF PCs
<1>4. PICK st \in Styles : st = rows[i].style
  BY <1>2 DEF Container
<1> HIDE DEF q
<1>5. PICK m \in Process : m = [q EXCEPT !.row = i, !.style = st, !.pc = c]
  BY <1>3 DEF Process
<1>6. /\ m.pc = c /\ m.working = q.working /\ m.row = i
      /\ m.kind = q.kind /\ m.on = q.on /\ m.arg = q.arg
  BY <1>3, <1>5 DEF Process
<1>7. Fit(m, Len(revs), rows) /\ m.pc \notin {"ids", "containers", "move"}
  BY <1>1, <1>2, <1>3, <1>6 DEF Fit
<1>8. run' = [run EXCEPT ![p] = m]
  BY <1>1, <1>4, <1>5
<1> QED
  BY <1>1, <1>7, <1>8, QuietStep

\* A change of the values of a container that keeps its revision.
LEMMA FormKeepsRows ==
    ASSUME Inv, NEW p \in Workers, run[p].pc \in {"fork", "write"}
    PROVE  /\ WithForm(p) \in Seq(Container) /\ Len(WithForm(p)) = Len(rows)
           /\ \A i \in 1 .. Len(rows) : WithForm(p)[i].rev = rows[i].rev
<1> DEFINE k == run[p].row
           st == run[p].arg
<1>1. k \in 1 .. Len(rows) /\ (run[p].kind = "style" => st \in Styles)
  BY ProcessState DEF Fit
<1>2. \A i \in 1 .. Len(rows) : rows[i] \in Container
  BY ProcessState
<1>3. rows \in [1 .. Len(rows) -> Container] /\ Len(rows) \in Nat
  BY DEF Inv, TypeOK
<1>4. CASE run[p].kind # "style"
  BY <1>3, <1>4, ProcessState DEF WithForm, Inv, TypeOK
<1>5. CASE run[p].kind = "style"
  <2> DEFINE new == [rows[k] EXCEPT !.style = st]
  <2>1. new \in Container /\ new.rev = rows[k].rev
    <3>1. rows[k] \in Container /\ st \in Styles
      BY <1>1, <1>2, <1>5
    <3> HIDE DEF k, st
    <3> QED
      BY <3>1 DEF Container
  <2>2. WithForm(p) = [rows EXCEPT ![k] = new]
    BY <1>5 DEF WithForm
  <2> HIDE DEF new, k, st
  <2>3. WithForm(p) \in [1 .. Len(rows) -> Container]
    BY <1>3, <2>1, <2>2
  <2>4. \A i \in 1 .. Len(rows) : WithForm(p)[i] = IF i = k THEN new ELSE rows[i]
    BY <1>3, <2>2
  <2>5. WithForm(p) \in Seq(Container) /\ Len(WithForm(p)) = Len(rows)
    BY <1>3, <2>3
  <2> QED
    BY <2>1, <2>4, <2>5
<1> QED
  BY <1>4, <1>5

\* A step that ends the request, or goes on to change the new container, with
\* containers added.
LEMMA AddedStep ==
    ASSUME Inv, NEW p \in Workers, NEW rs \in Seq(Container), Len(rs) = Len(rows),
           \A i \in 1 .. Len(rows) : rs[i].rev = rows[i].rev,
           rows' = rs \/ \E new \in Container : rows' = Append(rs, new),
           revs' = revs, NEW q \in Process, run' = [run EXCEPT ![p] = q],
           Fit(q, Len(revs), rows'), q.pc \notin {"ids", "containers", "move"}
    PROVE  Inv'
<1>1. Len(rows) \in Nat
  BY ProcessState
<1>2. rows' \in Seq(Container) /\ Len(rows') >= Len(rows)
  BY <1>1
<1>3. \A i \in 1 .. Len(rows) : rows'[i].rev = rows[i].rev
  BY <1>1
<1>4. \A w \in Workers \ {p} : run[w].pc = "move" =>
        \A i \in run[w].old : rows'[i].rev = rows[i].rev
  BY <1>3, ProcessState DEF Fit
<1> QED
  BY <1>2, <1>4, LocalStep

LEMMA ForkKeepsInv == ASSUME Inv, NEW p \in Workers, Fork(p) PROVE Inv'
<1> DEFINE q == run[p]
           n == [q EXCEPT !.pc = "write", !.row = Len(rows) + 1]
<1>1. q.pc = "fork" /\ rows' = Append(WithForm(p), ForkOf(p)) /\ revs' = revs
  BY DEF Fork, At
<1>2. ForkOf(p) \in Container
  <2>1. q \in Process /\ rows[q.row] \in Container /\ (q.kind = "style" => q.arg \in Styles)
    BY <1>1, ProcessState DEF Fit
  <2>2. PICK st \in Styles : st = IF q.kind = "style" THEN q.arg ELSE q.style
    BY <2>1 DEF Process
  <2>3. ForkOf(p) = [rows[q.row] EXCEPT !.rev = q.working, !.style = st]
    BY <2>2 DEF ForkOf
  <2>4. q.working \in Nat
    BY <2>1 DEF Process
  <2> HIDE DEF q
  <2> QED
    BY <2>1, <2>3, <2>4 DEF Container
<1>3. /\ WithForm(p) \in Seq(Container) /\ Len(WithForm(p)) = Len(rows)
      /\ \A i \in 1 .. Len(rows) : WithForm(p)[i].rev = rows[i].rev
  BY <1>1, FormKeepsRows
<1>4. CASE q.kind = "style"
  <2>1. run' = [run EXCEPT ![p] = Resting]
    BY <1>4 DEF Fork, Done, Go
  <2> HIDE DEF Resting
  <2> QED
    BY <1>1, <1>2, <1>3, <2>1, RestingFits, AddedStep
<1>5. CASE q.kind # "style"
  <2>1. run' = [run EXCEPT ![p] = n]
    BY <1>5 DEF Fork, Go
  <2>2. q \in Process /\ Fit(q, Len(revs), rows) /\ Len(rows) \in Nat
    BY ProcessState
  <2>3. Len(rows') = Len(rows) + 1
    BY <1>1, <1>2, <1>3, <2>2
  <2> HIDE DEF q
  <2>4. PICK m \in Process : m = n
    <3>1. PICK k \in Nat : k = Len(rows) + 1
      BY <2>2
    <3> QED
      BY <2>2, <3>1 DEF Process, PCs
  <2>5. /\ m.pc = "write" /\ m.working = q.working /\ m.row = Len(rows) + 1
        /\ m.kind = q.kind /\ m.on = q.on /\ m.arg = q.arg
    BY <2>2, <2>4 DEF Process
  <2>6. Fit(m, Len(revs), rows')
    BY <1>1, <2>2, <2>3, <2>5 DEF Fit
  <2>7. run' = [run EXCEPT ![p] = m] /\ m.pc \notin {"ids", "containers", "move"}
    BY <2>1, <2>4, <2>5
  <2> QED
    BY <1>1, <1>2, <1>3, <2>6, <2>7, AddedStep
<1> QED
  BY <1>4, <1>5

LEMMA WriteStyleKeepsInv == ASSUME Inv, NEW p \in Workers, WriteStyle(p) PROVE Inv'
<1>1. /\ run[p].pc = "write" /\ rows' = WithForm(p) /\ revs' = revs
      /\ run' = [run EXCEPT ![p] = Resting]
  BY DEF WriteStyle, At, Done, Go
<1> HIDE DEF Resting
<1> QED
  BY <1>1, FormKeepsRows, RestingFits, AddedStep

LEMMA WriteWidgetKeepsInv ==
    ASSUME Inv, NEW p \in Workers, WriteWidget(p) PROVE Inv'
<1> DEFINE k == run[p].row
           ws == IF Linked(p) THEN rows[k].widgets \ {run[p].arg}
                 ELSE rows[k].widgets \cup {run[p].arg}
           new == [rows[k] EXCEPT !.widgets = ws]
<1>1. /\ run[p].pc = "write" /\ rows' = [rows EXCEPT ![k] = new] /\ revs' = revs
      /\ run' = [run EXCEPT ![p] = Resting] /\ run[p].kind \in {"link", "unlink"}
  BY DEF WriteWidget, At, Done, Go
<1>2. k \in 1 .. Len(rows) /\ run[p].arg \in Widgets
  BY <1>1, ProcessState DEF Fit
<1>3. rows[k] \in Container
  BY <1>2, ProcessState
<1>4. ws \in SUBSET Widgets
  BY <1>2, <1>3 DEF Container
<1> HIDE DEF ws, k
<1>5. new \in Container /\ new.rev = rows[k].rev
  BY <1>3, <1>4 DEF Container
<1>6. rows \in [1 .. Len(rows) -> Container] /\ Len(rows) \in Nat
  BY DEF Inv, TypeOK
<1> HIDE DEF new
<1>7. /\ rows' \in [1 .. Len(rows) -> Container]
      /\ \A i \in 1 .. Len(rows) : rows'[i] = IF i = k THEN new ELSE rows[i]
  BY <1>1, <1>5, <1>6
<1>8. /\ rows' \in Seq(Container) /\ Len(rows') = Len(rows)
      /\ \A i \in 1 .. Len(rows) : rows'[i].rev = rows[i].rev
  <2>1. rows' \in Seq(Container) /\ Len(rows') = Len(rows)
    BY <1>6, <1>7
  <2> QED
    BY <1>5, <1>7, <2>1
<1> HIDE DEF Resting
<1> QED
  BY <1>1, <1>8, RestingFits, AddedStep

LEMMA RenderKeepsInv == ASSUME Inv, NEW p \in Workers, Render(p) PROVE Inv'
<1> DEFINE q == run[p]
<1>1. q.pc = "render" /\ UNCHANGED <<revs, rows>>
  BY DEF Render, At
<1>2. CASE Shown(p) # {}
  <2>1. Failed(p)
    BY <1>2 DEF Render, Failed
  <2> QED
    BY <2>1, FailedStep
<1>3. CASE Shown(p) = {}
  <2>1. run' = [run EXCEPT ![p] = [q EXCEPT !.pc = "create"]]
    BY <1>3 DEF Render, Go
  <2>2. q \in Process /\ Fit(q, Len(revs), rows)
    BY ProcessState
  <2> HIDE DEF q
  <2>3. PICK m \in Process : m = [q EXCEPT !.pc = "create"]
    BY <2>2 DEF Process, PCs
  <2>4. /\ m.pc = "create" /\ m.working = q.working
        /\ m.kind = q.kind /\ m.on = q.on /\ m.arg = q.arg
    BY <2>2, <2>3 DEF Process
  <2>5. Fit(m, Len(revs), rows) /\ m.pc \notin {"ids", "containers", "move"}
    BY <1>1, <2>2, <2>4 DEF Fit
  <2> QED
    BY <1>1, <2>1, <2>3, <2>5, QuietStep
<1> QED
  BY <1>2, <1>3

LEMMA CreateKeepsInv == ASSUME Inv, NEW p \in Workers, Create(p) PROVE Inv'
<1> DEFINE new == [uuid |-> Len(rows) + 1, name |-> run[p].on, rev |-> Home(p),
                   style |-> Plain, widgets |-> {}]
<1>1. /\ run[p].pc = "create" /\ rows' = Append(rows, new) /\ revs' = revs
      /\ run' = [run EXCEPT ![p] = Resting]
  BY DEF Create, At, Done, Go
<1>2. run[p].on \in Names /\ Home(p) \in Nat /\ Len(rows) \in Nat
  BY <1>1, ProcessState DEF Fit, Home, Process
<1>3. new \in Container
  BY <1>2, RevisionsAssumption DEF Container
<1>4. rows \in Seq(Container)
  BY DEF Inv, TypeOK
<1> HIDE DEF Resting, new
<1> QED
  BY <1>1, <1>3, <1>4, RestingFits, AddedStep

-----------------------------------------------------------------------------
LEMMA NextKeepsInv == Inv /\ [Next]_vars => Inv'
<1> SUFFICES ASSUME Inv, [Next]_vars PROVE Inv'
  OBVIOUS
<1>1. CASE UNCHANGED vars
  BY <1>1 DEF vars, Inv, TypeOK, Chain, Apart, Fit, Publishing
<1>2. CASE Next
  <2> PICK p \in Workers : Step(p)
    BY <1>2 DEF Next
  <2>1. CASE Failed(p)
    BY <2>1, FailedStep
  <2>2. CASE \/ PublishFails(p) \/ MoveFails(p) \/ NotFound(p) \/ ForkFails(p)
             \/ Conflict(p) \/ CreateFails(p) \/ Crash(p)
    BY <2>1, <2>2 DEF PublishFails, MoveFails, NotFound, ForkFails, Conflict,
                      CreateFails, Crash
  <2> QED
    BY <2>2, BeginKeepsInv, ContextKeepsInv, PublishKeepsInv, QueryIdsKeepsInv,
       QueryContainersKeepsInv, MoveKeepsInv, FindKeepsInv, ForkKeepsInv,
       WriteStyleKeepsInv, WriteWidgetKeepsInv, RenderKeepsInv, CreateKeepsInv
       DEF Step
<1> QED
  BY <1>1, <1>2

LEMMA InvHolds == Spec => []Inv
<1> QED
  BY InitInv, NextKeepsInv, PTL DEF Spec

\* A widget is linked or unlinked in a container of the same revision.
LEMMA WidgetKeepsRev ==
    ASSUME Inv, NEW p \in Workers, WriteWidget(p)
    PROVE  \A i \in DOMAIN rows : rows'[i].rev = rows[i].rev
<1> SUFFICES ASSUME NEW i \in DOMAIN rows PROVE rows'[i].rev = rows[i].rev
  OBVIOUS
<1> DEFINE k == run[p].row
           ws == IF Linked(p) THEN rows[k].widgets \ {run[p].arg}
                 ELSE rows[k].widgets \cup {run[p].arg}
<1>1. rows' = [rows EXCEPT ![k] = [rows[k] EXCEPT !.widgets = ws]]
  BY DEF WriteWidget
<1>2. rows[i] \in Container
  BY ProcessState
<1> HIDE DEF ws, k
<1>3. CASE i = k
  BY <1>1, <1>2, <1>3 DEF Container
<1>4. CASE i # k
  BY <1>1, <1>4
<1> QED
  BY <1>3, <1>4

LEMMA StepForward ==
    ASSUME Inv, [Next]_vars
    PROVE  \A i \in DOMAIN rows : rows'[i].rev >= rows[i].rev
<1>1. \A i \in DOMAIN rows : rows[i].rev \in Nat
  <2>1. \A i \in DOMAIN rows : rows[i] \in Container
    BY DEF Inv, TypeOK
  <2> QED
    BY <2>1 DEF Container
<1>2. Len(rows) \in Nat /\ DOMAIN rows = 1 .. Len(rows) /\ rows \in Seq(Container)
  BY DEF Inv, TypeOK
<1> DEFINE Kept == \A i \in DOMAIN rows : rows'[i].rev = rows[i].rev
<1>3. CASE rows' = rows
  BY <1>1, <1>3
<1>4. CASE \E p \in Workers : Move(p)
  BY <1>4, MoveKeepsInv
<1>5. CASE \E p \in Workers : Fork(p)
  <2>1. PICK p \in Workers : Fork(p)
    BY <1>5
  <2>2. rows' = Append(WithForm(p), ForkOf(p)) /\ run[p].pc = "fork"
    BY <2>1 DEF Fork, At
  <2>3. /\ WithForm(p) \in Seq(Container) /\ Len(WithForm(p)) = Len(rows)
        /\ \A i \in 1 .. Len(rows) : WithForm(p)[i].rev = rows[i].rev
    BY <2>2, FormKeepsRows
  <2>4. Kept
    BY <1>2, <2>2, <2>3
  <2> QED
    BY <1>1, <2>4
<1>6. CASE \E p \in Workers : WriteStyle(p)
  <2>1. PICK p \in Workers : rows' = WithForm(p) /\ run[p].pc = "write"
    BY <1>6 DEF WriteStyle, At
  <2>2. Kept
    BY <1>2, <2>1, FormKeepsRows
  <2> QED
    BY <1>1, <2>2
<1>7. CASE \E p \in Workers : WriteWidget(p)
  <2>1. Kept
    BY <1>7, WidgetKeepsRev
  <2> QED
    BY <1>1, <2>1
<1>8. CASE \E p \in Workers : Create(p)
  <2>1. Kept
    BY <1>2, <1>8 DEF Create
  <2> QED
    BY <1>1, <2>1
<1>9. \/ rows' = rows
      \/ \E p \in Workers : \/ Move(p) \/ Fork(p) \/ WriteStyle(p)
                            \/ WriteWidget(p) \/ Create(p)
  BY DEF Next, Step, vars, Begin, Context, Publish, PublishFails, QueryIds,
         QueryContainers, MoveFails, Find, NotFound, ForkFails, Conflict, Render,
         CreateFails, Crash, Failed
<1> QED
  BY <1>3, <1>4, <1>5, <1>6, <1>7, <1>8, <1>9

LEMMA ChainHasOneOfEach == Inv => OneOfEach
<1> SUFFICES ASSUME Inv PROVE OneOfEach
  OBVIOUS
<1> DEFINE n == Len(revs)
<1>1. n \in Nat /\ n >= 2 /\ DOMAIN revs = 1 .. n
  BY DEF Inv, TypeOK, Chain
<1>2. \A r \in 1 .. n :
        /\ revs[r].previous = r - 1
        /\ revs[r].status = IF r = n THEN "new"
                            ELSE IF r = n - 1 THEN "published" ELSE "replaced"
  BY DEF Inv, Chain
<1> HIDE DEF n
<1>3. WithStatus("new") = {n} /\ WithStatus("published") = {n - 1}
  BY <1>1, <1>2 DEF WithStatus
<1>4. n \in DOMAIN revs /\ n - 1 \in DOMAIN revs /\ revs[n].previous = n - 1
  BY <1>1, <1>2
<1> QED
  BY <1>3, <1>4 DEF OneOfEach

\* Every table row and every process is well typed, whatever the processes do.
THEOREM RevisionsTyped == Spec => []TypeOK
<1>1. Inv => TypeOK
  BY DEF Inv
<1> QED
  BY <1>1, InvHolds, PTL

\* A tenant has one published and one working revision, the second following
\* the first, however many processes publish (RevisionManager::publish).
THEOREM OneRevisionOfEach == Spec => []OneOfEach
<1> QED
  BY ChainHasOneOfEach, InvHolds, PTL

\* No container ever moves to an older revision (RevisionsSubscriber::publish).
THEOREM ForwardOnly == Spec => MovesForward
<1>1. Inv /\ [Next]_vars => \A i \in DOMAIN rows : rows'[i].rev >= rows[i].rev
  BY StepForward
<1> QED
  BY <1>1, InvHolds, PTL DEF Spec, MovesForward

-----------------------------------------------------------------------------
(* Live site and draft.  A site is only what was published if a publication *)
(* runs alone and to its end, and if no form is sent: a page in between     *)
(* takes the name of a container that is still to move, and a form writes   *)
(* its values to the published container too.                               *)
AloneToTheEnd == "publish" \in Exclusive /\ "publish" \notin Fragile
NoForms == "style" \notin Kinds

Underway == \E p \in Workers : Publishing(p)

Alone ==
    \A p \in Workers, q \in Workers :
      p # q /\ run[p].pc # "idle" /\ run[p].kind = "publish" => run[q].pc = "idle"

\* Containers have one name and one uuid, and a revision has each once.
Unique(rs) ==
    \A i \in DOMAIN rs, j \in DOMAIN rs :
      /\ rs[i].uuid = rs[j].uuid <=> rs[i].name = rs[j].name
      /\ rs[i].name = rs[j].name /\ rs[i].rev = rs[j].rev => i = j

\* Of n revisions none is ahead of the working one, which is empty while a
\* publication is under way; each container is published or about to move.
Complete(rs, n, underway) ==
    \A i \in DOMAIN rs :
      /\ rs[i].uuid <= Len(rs) /\ rs[i].rev <= n
      /\ underway => rs[i].rev < n
      /\ \E j \in DOMAIN rs :
           /\ rs[j].uuid = rs[i].uuid
           /\ rs[j].rev = n - 1 \/ (underway /\ rs[j].rev = n - 2)

InRevision(rs, r) == {i \in DOMAIN rs : rs[i].rev = r}

\* What a process has read is still so.
UpToDate(q, n, rs) ==
    /\ q.pc # "idle" => q.kind \in Kinds
    /\ q.pc \in {"publish", "ids", "containers", "move"} => q.kind = "publish"
    /\ q.pc \in {"find", "fork", "write"} => q.kind \in {"link", "unlink"}
    /\ q.pc \notin {"idle", "ids", "containers", "move"} => q.published = n - 1
    /\ q.pc \in {"publish", "find", "fork", "write", "render", "create"} => q.working = n
    /\ q.pc \in {"ids", "containers", "move"} => q.working = n - 1
    /\ q.pc \in {"containers", "move"} =>
         q.ids = {rs[i].uuid : i \in InRevision(rs, n - 1)}
    /\ q.pc = "move" => q.old = {i \in InRevision(rs, n - 2) : rs[i].uuid \notin q.ids}
    /\ q.pc = "fork" => rs[q.row].rev = n - 1 /\ q.style = rs[q.row].style
    /\ q.pc = "write" => rs[q.row].rev = n

SiteInv ==
    /\ Inv /\ Alone /\ Unique(rows) /\ Complete(rows, Len(revs), Underway)
    /\ \A p \in Workers : UpToDate(run[p], Len(revs), rows)

LEMMA InitSite == Init => SiteInv
<1> SUFFICES ASSUME Init PROVE SiteInv
  OBVIOUS
<1>1. Inv
  BY InitInv
<1>2. \A p \in Workers : run[p].pc = "idle"
  BY RestingFits DEF Init
<1>3. Alone /\ ~Underway
  BY <1>2 DEF Alone, Underway, Publishing
<1>4. \A p \in Workers : UpToDate(run[p], Len(revs), rows)
  BY <1>2 DEF UpToDate
<1>5. /\ Len(revs) = 2 /\ DOMAIN rows = 1 .. Len(Theme) /\ Len(rows) = Len(Theme)
      /\ Len(Theme) \in Nat
      /\ \A i \in 1 .. Len(Theme) :
           rows[i].uuid = i /\ rows[i].name = Theme[i] /\ rows[i].rev = 1
  <2>1. Len(Theme) \in Nat
    BY RevisionsAssumption
  <2> QED
    BY <2>1, <1>1, ProcessState DEF Init, Inv, TypeOK
<1>6. Unique(rows)
  BY <1>5, RevisionsAssumption DEF Unique
<1>7. Complete(rows, Len(revs), Underway)
  BY <1>3, <1>5 DEF Complete
<1> QED
  BY <1>1, <1>3, <1>4, <1>6, <1>7 DEF SiteInv

-----------------------------------------------------------------------------
(* Steps.                                                                  *)

\* What was read stays so if no container goes to another revision.
LEMMA StaysUpToDate ==
    ASSUME NEW q \in Process, NEW n, NEW rs \in Seq(Container),
           NEW rt \in Seq(Container), Len(rt) >= Len(rs),
           \A i \in 1 .. Len(rs) : rt[i].rev = rs[i].rev /\ rt[i].style = rs[i].style,
           Fit(q, n, rs), UpToDate(q, n, rs), q.pc \notin {"containers", "move"}
    PROVE  UpToDate(q, n, rt)
BY DEF UpToDate, Fit

\* A step of a process of which it is known whether it publishes.
LEMMA SiteStep ==
    ASSUME SiteInv, Inv', NEW p \in Workers, NEW q \in Process,
           run' = [run EXCEPT ![p] = q],
           Len(revs') = Len(revs), Len(rows') >= Len(rows),
           rows' = rows \/ run[p].pc # "idle",
           \A i \in 1 .. Len(rows) :
             rows'[i].rev = rows[i].rev /\ rows'[i].style = rows[i].style,
           q.pc # "idle" => run[p].pc # "idle" /\ q.kind = run[p].kind,
           q.pc \in {"ids", "containers", "move"} <=> Publishing(p),
           Unique(rows'), Complete(rows', Len(revs), Underway),
           UpToDate(q, Len(revs), rows')
    PROVE  SiteInv'
<1>1. \A w \in Workers : run'[w] = IF w = p THEN q ELSE run[w]
  BY DEF SiteInv, Inv, TypeOK
<1>2. Underway' <=> Underway
  BY <1>1 DEF Underway, Publishing
<1>3. Alone'
  BY <1>1 DEF SiteInv, Alone
<1>4. ASSUME NEW w \in Workers PROVE UpToDate(run'[w], Len(revs'), rows')
  <2>1. CASE w = p
    BY <1>1, <2>1
  <2>2. CASE w # p /\ rows' = rows
    BY <1>1, <2>2 DEF SiteInv
  <2>3. CASE w # p /\ run[p].pc # "idle"
    <3>1. run[w] \in Process /\ Fit(run[w], Len(revs), rows) /\ UpToDate(run[w], Len(revs), rows)
      BY ProcessState DEF SiteInv
    <3>2. run[w].pc \notin {"containers", "move"}
      BY <2>3, <3>1 DEF SiteInv, Alone, UpToDate
    <3>3. UpToDate(run[w], Len(revs), rows')
      <4>1. rows \in Seq(Container) /\ rows' \in Seq(Container)
        BY DEF SiteInv, Inv, TypeOK
      <4> QED
        BY <3>1, <3>2, <4>1, StaysUpToDate
    <3> QED
      BY <1>1, <2>3, <3>3
  <2> QED
    BY <2>1, <2>2, <2>3
<1>5. Complete(rows', Len(revs'), Underway')
  <2>1. CASE Underway
    BY <1>2, <2>1 DEF Complete
  <2>2. CASE ~Underway
    BY <1>2, <2>2 DEF Complete
  <2> QED
    BY <2>1, <2>2
<1> QED
  BY <1>3, <1>4, <1>5 DEF SiteInv

\* The same where no table changes.
LEMMA QuietSiteStep ==
    ASSUME SiteInv, Inv', NEW p \in Workers, NEW q \in Process,
           run' = [run EXCEPT ![p] = q], UNCHANGED <<revs, rows>>,
           q.pc # "idle" => run[p].pc # "idle" /\ q.kind = run[p].kind,
           q.pc \in {"ids", "containers", "move"} <=> Publishing(p),
           UpToDate(q, Len(revs), rows)
    PROVE  SiteInv'
<1>1. Len(revs') = Len(revs) /\ Len(rows') >= Len(rows)
  BY ProcessState DEF SiteInv
<1> QED
  BY <1>1, SiteStep DEF SiteInv

LEMMA FailedSiteStep ==
    ASSUME SiteInv, NEW p \in Workers, Failed(p), ~Publishing(p) PROVE SiteInv'
<1>1. run' = [run EXCEPT ![p] = Resting] /\ UNCHANGED <<revs, rows>>
  BY DEF Failed, Done, Go
<1>2. Inv'
  BY FailedStep DEF SiteInv
<1>3. UpToDate(Resting, Len(revs), rows)
  BY RestingFits DEF UpToDate
<1> HIDE DEF Resting
<1> QED
  BY <1>1, <1>2, <1>3, RestingFits, QuietSiteStep

LEMMA Statuses ==
    Inv => /\ Len(revs) \in Nat /\ Len(revs) >= 2
           /\ WithStatus("new") = {Len(revs)}
           /\ WithStatus("published") = {Len(revs) - 1}
<1> SUFFICES ASSUME Inv
             PROVE  /\ Len(revs) \in Nat /\ Len(revs) >= 2
                    /\ WithStatus("new") = {Len(revs)}
                    /\ WithStatus("published") = {Len(revs) - 1}
  OBVIOUS
<1> DEFINE n == Len(revs)
<1>1. n \in Nat /\ n >= 2 /\ DOMAIN revs = 1 .. n
  BY DEF Inv, TypeOK, Chain
<1>2. \A r \in 1 .. n :
        revs[r].status = IF r = n THEN "new"
                         ELSE IF r = n - 1 THEN "published" ELSE "replaced"
  BY DEF Inv, Chain
<1> HIDE DEF n
<1>3. WithStatus("new") = {n} /\ WithStatus("published") = {n - 1}
  BY <1>1, <1>2 DEF WithStatus
<1> QED
  BY <1>1, <1>3 DEF n

\* A publication waits until nobody else is served, and everybody waits for it.
LEMMA BeginKeepsSite ==
    ASSUME AloneToTheEnd, SiteInv, NEW p \in Workers, Begin(p) PROVE SiteInv'
<1>1. PICK q \in Requests, r \in WithStatus("published") :
        /\ run[p].pc = "idle" /\ q[1] \in Kinds
        /\ \A w \in Workers : run[w].pc # "idle" =>
             q[1] \notin Exclusive /\ run[w].kind \notin Exclusive
        /\ run' = [run EXCEPT ![p] =
             [Resting EXCEPT !.pc = "context", !.kind = q[1], !.on = q[2],
                             !.arg = q[3], !.published = r]]
        /\ UNCHANGED <<revs, rows>>
  BY DEF Begin, Go, At
<1> DEFINE n == [Resting EXCEPT !.pc = "context", !.kind = q[1], !.on = q[2],
                                !.arg = q[3], !.published = r]
<1>2. n.pc = "context" /\ n.kind = q[1] /\ n.published = r
  BY DEF Resting
<1> HIDE DEF n
<1>3. \A w \in Workers : run'[w] = IF w = p THEN n ELSE run[w]
  BY <1>1 DEF SiteInv, Inv, TypeOK, n
<1>4. r = Len(revs) - 1
  BY Statuses DEF SiteInv
<1>5. Inv'
  BY BeginKeepsInv DEF SiteInv
<1>6. Alone'
  <2> SUFFICES ASSUME NEW x \in Workers, NEW y \in Workers, x # y,
                      run'[x].pc # "idle", run'[x].kind = "publish"
               PROVE  run'[y].pc = "idle"
    BY DEF Alone
  <2>1. CASE x = p
    BY <1>1, <1>2, <1>3, <2>1 DEF AloneToTheEnd
  <2>2. CASE y = p
    BY <1>1, <1>2, <1>3, <2>2 DEF AloneToTheEnd
  <2>3. CASE x # p /\ y # p
    BY <1>3, <2>3 DEF SiteInv, Alone
  <2> QED
    BY <2>1, <2>2, <2>3
<1>7. Underway' <=> Underway
  BY <1>1, <1>2, <1>3 DEF Underway, Publishing
<1>8. UpToDate(n, Len(revs), rows)
  BY <1>1, <1>2, <1>4 DEF UpToDate
<1>9. \A w \in Workers : UpToDate(run'[w], Len(revs'), rows')
  BY <1>1, <1>3, <1>8 DEF SiteInv
<1>10. Complete(rows', Len(revs'), Underway')
  BY <1>1, <1>7 DEF SiteInv, Complete
<1> QED
  BY <1>1, <1>5, <1>6, <1>9, <1>10 DEF SiteInv

\* The first step of a request and what it is of.
LEMMA FirstStepsOf ==
    ASSUME NEW k \in AllKinds \ {"style"}
    PROVE  /\ FirstStep[k] = "publish" => k = "publish"
           /\ FirstStep[k] = "find" => k \in {"link", "unlink"}
<1>1. CASE k = "publish"
  BY <1>1 DEF FirstStep
<1>2. CASE k \in {"link", "unlink"}
  BY <1>2 DEF FirstStep
<1>3. CASE k = "render"
  BY <1>3 DEF FirstStep
<1> QED
  BY <1>1, <1>2, <1>3 DEF AllKinds

LEMMA ContextKeepsSite ==
    ASSUME NoForms, SiteInv, NEW p \in Workers, Context(p) PROVE SiteInv'
<1> DEFINE q == run[p]
           key == q.kind = "render" /\ q.arg # None
           seen(r) == IF ~key THEN {q.published}
                      ELSE IF q.arg = r THEN {q.published, r} ELSE {q.arg}
           n(r, c, v) == [q EXCEPT !.pc = c, !.working = r, !.visible = v]
<1>1. PICK r \in WithStatus("new") :
        /\ q.pc = "context" /\ UNCHANGED <<revs, rows>>
        /\ run' = [run EXCEPT ![p] = n(r, FirstStep[q.kind], seen(r))]
  BY DEF Context, Go, At
<1>2. r = Len(revs)
  BY Statuses DEF SiteInv
<1>3. Inv' /\ Inv
  BY ContextKeepsInv DEF SiteInv
<1>4. /\ q \in Process /\ q.kind \in AllKinds \ {"style"} /\ q.kind \in Kinds
      /\ q.published = Len(revs) - 1
  BY <1>1, <1>3, ProcessState DEF SiteInv, UpToDate, Process, NoForms
<1>5. PICK c : /\ c = FirstStep[q.kind] /\ c \in {"publish", "find", "render"}
               /\ c = "publish" => q.kind = "publish"
               /\ c = "find" => q.kind \in {"link", "unlink"}
  BY <1>4, FirstSteps, FirstStepsOf
<1>6. PICK v : v = seen(r)
  OBVIOUS
<1>7. PICK m : m = n(r, c, v)
  OBVIOUS
<1>8. run' = [run EXCEPT ![p] = m]
  <2> HIDE DEF n, seen
  <2> QED
    BY <1>1, <1>5, <1>6, <1>7
<1>9. m \in Process
  BY <1>3, <1>8, ProcessState DEF Inv, TypeOK
<1>10. m.pc = c /\ m.working = r /\ m.kind = q.kind /\ m.published = q.published
  <2> HIDE DEF q
  <2> QED
    BY <1>4, <1>7 DEF Process
<1>11. UpToDate(m, Len(revs), rows)
  <2> HIDE DEF q
  <2> QED
    BY <1>2, <1>4, <1>5, <1>10 DEF UpToDate
<1>12. /\ m.pc # "idle" => run[p].pc # "idle" /\ m.kind = run[p].kind
       /\ m.pc \in {"ids", "containers", "move"} <=> Publishing(p)
  BY <1>1, <1>5, <1>10 DEF Publishing
<1> QED
  BY <1>1, <1>3, <1>8, <1>9, <1>11, <1>12, QuietSiteStep

\* While a process publishes nobody else is served.
LEMMA OthersRest ==
    ASSUME SiteInv, NEW p \in Workers, run[p].pc \in {"publish", "ids", "containers", "move"}
    PROVE  /\ run[p].kind = "publish"
           /\ \A w \in Workers \ {p} : run[w].pc = "idle"
<1>1. run[p].kind = "publish" /\ run[p].pc # "idle"
  BY DEF SiteInv, UpToDate
<1> QED
  BY <1>1 DEF SiteInv, Alone

LEMMA PublishKeepsSite ==
    ASSUME SiteInv, NEW p \in Workers, Publish(p)
    PROVE  /\ SiteInv' /\ Len(revs') = Len(revs) + 1 /\ rows' = rows
           /\ ~Underway /\ Underway'
<1> DEFINE n == [run[p] EXCEPT !.pc = "ids"]
           L == Len(revs)
<1>1. /\ run[p].pc = "publish" /\ revs' = Replaced(run[p].working)
      /\ run' = [run EXCEPT ![p] = n] /\ rows' = rows
  BY DEF Publish, Go, At
<1>2. Inv /\ Inv' /\ L \in Nat /\ L >= 2
  BY PublishKeepsInv, Statuses DEF SiteInv
<1>3. /\ run[p] \in Process /\ run[p].working = L /\ run[p].kind = "publish"
      /\ \A w \in Workers \ {p} : run[w].pc = "idle"
  BY <1>1, <1>2, ProcessState, OthersRest DEF SiteInv, UpToDate
<1>4. n.pc = "ids" /\ n.working = L /\ n.kind = "publish"
  BY <1>3 DEF Process
<1>5. Len(revs') = L + 1
  BY <1>1, <1>2, <1>3, ReplacedChain DEF Inv, TypeOK
<1> HIDE DEF n
<1>6. \A w \in Workers : run'[w] = IF w = p THEN n ELSE run[w]
  BY <1>1, <1>2 DEF Inv, TypeOK
<1>7. ~Underway /\ Underway'
  BY <1>1, <1>3, <1>4, <1>6 DEF Underway, Publishing
<1>8. Alone'
  BY <1>3, <1>6 DEF Alone
<1>9. UpToDate(n, L + 1, rows)
  <2>1. "publish" \in Kinds
    BY <1>1, <1>3 DEF SiteInv, UpToDate
  <2> QED
    BY <1>2, <1>4, <2>1 DEF UpToDate
<1>10. ASSUME NEW w \in Workers PROVE UpToDate(run'[w], Len(revs'), rows')
  <2>1. CASE w = p
    BY <1>1, <1>5, <1>6, <1>9, <2>1
  <2>2. CASE w # p
    BY <1>3, <1>6, <2>2 DEF UpToDate
  <2> QED
    BY <2>1, <2>2
<1>11. Complete(rows, L + 1, TRUE)
  <2>1. \A i \in DOMAIN rows : rows[i].rev \in Nat
    BY <1>2, ProcessState DEF Container
  <2>2. Complete(rows, L, FALSE)
    BY <1>7 DEF SiteInv, Complete
  <2> HIDE DEF L
  <2> QED
    BY <1>2, <2>1, <2>2 DEF Complete
<1>12. Complete(rows', Len(revs'), Underway')
  <2> HIDE DEF L
  <2> QED
    BY <1>1, <1>5, <1>7, <1>11 DEF Complete
<1> QED
  BY <1>1, <1>2, <1>5, <1>7, <1>8, <1>10, <1>12 DEF SiteInv

LEMMA QueryIdsKeepsSite ==
    ASSUME SiteInv, NEW p \in Workers, QueryIds(p)
    PROVE  SiteInv' /\ Publishing(p)'
<1> DEFINE q == run[p]
           found == {rows[i].uuid : i \in Within({q.working})}
           n == [q EXCEPT !.pc = "containers", !.ids = found]
           L == Len(revs)
<1>1. q.pc = "ids" /\ UNCHANGED <<revs, rows>>
  BY DEF QueryIds, At
<1>2. Inv /\ Inv' /\ q \in Process /\ L \in Nat
  BY QueryIdsKeepsInv, ProcessState DEF SiteInv
<1>3. q.working = L - 1 /\ q.kind = "publish" /\ "publish" \in Kinds /\ q.working \in 2 .. L
  BY <1>1, <1>2, ProcessState DEF SiteInv, UpToDate, Fit
<1>4. revs[q.working].previous # 0
  <2> HIDE DEF q
  <2> QED
    BY <1>2, <1>3 DEF Inv, Chain
<1>5. run' = [run EXCEPT ![p] = n]
  BY <1>4 DEF QueryIds, Go
<1>6. PICK m : m = n
  OBVIOUS
<1>7. m \in Process /\ run'[p] = m /\ run' = [run EXCEPT ![p] = m]
  <2> HIDE DEF n
  <2> QED
    BY <1>2, <1>5, <1>6 DEF Inv, TypeOK
<1>8. m.pc = "containers" /\ m.working = q.working /\ m.kind = q.kind /\ m.ids = found
  <2> HIDE DEF q, found
  <2> QED
    BY <1>2, <1>6 DEF Process
<1>9. found = {rows[i].uuid : i \in InRevision(rows, L - 1)}
  BY <1>3 DEF Within, InRevision
<1>10. UpToDate(m, L, rows)
  <2> HIDE DEF q, found, L
  <2> QED
    BY <1>2, <1>3, <1>8, <1>9 DEF UpToDate
<1>11. /\ run[p].pc # "idle" /\ m.kind = run[p].kind
       /\ m.pc \in {"ids", "containers", "move"} /\ Publishing(p)
  BY <1>1, <1>8 DEF Publishing
<1>12. SiteInv'
  BY <1>1, <1>2, <1>7, <1>10, <1>11, QuietSiteStep
<1> QED
  BY <1>7, <1>11, <1>12 DEF Publishing

LEMMA QueryContainersKeepsSite ==
    ASSUME SiteInv, NEW p \in Workers, QueryContainers(p)
    PROVE  SiteInv' /\ Publishing(p)'
<1> DEFINE q == run[p]
           L == Len(revs)
<1>1. /\ q.pc = "containers" /\ UNCHANGED <<revs, rows>>
      /\ run' = [run EXCEPT ![p] = [q EXCEPT !.pc = "move", !.old = Missing(p)]]
  BY DEF QueryContainers, At, Go
<1>2. Inv /\ Inv' /\ q \in Process /\ L \in Nat
  BY QueryContainersKeepsInv, ProcessState DEF SiteInv
<1>3. /\ q.working = L - 1 /\ q.kind = "publish" /\ "publish" \in Kinds
      /\ q.working \in 2 .. L
      /\ q.ids = {rows[i].uuid : i \in InRevision(rows, L - 1)}
  BY <1>1, <1>2, ProcessState DEF SiteInv, UpToDate, Fit
<1>4. revs[q.working].previous = L - 2
  <2> HIDE DEF q
  <2> QED
    BY <1>2, <1>3 DEF Inv, Chain
<1>5. Missing(p) = {i \in InRevision(rows, L - 2) : rows[i].uuid \notin q.ids}
  BY <1>4 DEF Missing, Within, InRevision
<1>6. PICK m : m = [q EXCEPT !.pc = "move", !.old = Missing(p)]
  OBVIOUS
<1> HIDE DEF q
<1>7. m \in Process /\ run'[p] = m /\ run' = [run EXCEPT ![p] = m]
  BY <1>1, <1>2, <1>6 DEF Inv, TypeOK
<1>8. /\ m.pc = "move" /\ m.working = q.working /\ m.kind = q.kind
      /\ m.ids = q.ids /\ m.old = Missing(p)
  BY <1>2, <1>6 DEF Process
<1>9. UpToDate(m, L, rows)
  <2> HIDE DEF L
  <2> QED
    BY <1>2, <1>3, <1>5, <1>8 DEF UpToDate
<1>10. /\ run[p].pc # "idle" /\ m.kind = run[p].kind
       /\ m.pc \in {"ids", "containers", "move"} /\ Publishing(p)
  BY <1>1, <1>8 DEF Publishing, q
<1>11. SiteInv'
  BY <1>1, <1>2, <1>7, <1>9, <1>10, QuietSiteStep
<1> QED
  BY <1>7, <1>10, <1>11 DEF Publishing

\* What a publication takes along is what its revision does not have.
LEMMA TakenAlong ==
    ASSUME SiteInv, NEW p \in Workers, run[p].pc = "move"
    PROVE  /\ run[p].working = Len(revs) - 1
           /\ run[p].old = {i \in DOMAIN rows :
                /\ rows[i].rev = Len(revs) - 2
                /\ \A j \in DOMAIN rows :
                     rows[j].rev = Len(revs) - 1 => rows[j].uuid # rows[i].uuid}
           /\ Underway
BY DEF SiteInv, UpToDate, InRevision, Underway, Publishing

LEMMA MoveKeepsSite ==
    ASSUME SiteInv, NEW p \in Workers, Move(p)
    PROVE  /\ SiteInv' /\ revs' = revs /\ Underway /\ ~Underway'
           /\ DOMAIN rows' = DOMAIN rows
           /\ \A i \in DOMAIN rows :
                /\ rows'[i].name = rows[i].name /\ Shape(i)' = Shape(i)
                /\ rows'[i].rev = IF i \in run[p].old THEN Len(revs) - 1 ELSE rows[i].rev
<1> DEFINE L == Len(revs)
           old == run[p].old
           w == run[p].working
<1>1. /\ run[p].pc = "move" /\ revs' = revs /\ run' = [run EXCEPT ![p] = Resting]
      /\ \A i \in old, j \in Within({w}) : rows[j].name # rows[i].name
      /\ rows' = [i \in DOMAIN rows |->
                    IF i \in old THEN [rows[i] EXCEPT !.rev = w] ELSE rows[i]]
  BY DEF Move, At, Done, Go, Placeable
<1>2. Inv /\ Inv' /\ L \in Nat /\ L >= 2
  BY MoveKeepsInv, Statuses DEF SiteInv
<1>3. /\ w = L - 1 /\ Underway
      /\ old = {i \in DOMAIN rows :
           /\ rows[i].rev = L - 2
           /\ \A j \in DOMAIN rows : rows[j].rev = L - 1 => rows[j].uuid # rows[i].uuid}
  BY <1>1, TakenAlong
<1>4. \A k \in Workers : run'[k].pc = "idle"
  BY <1>1, <1>2, OthersRest, RestingFits DEF Inv, TypeOK
<1> HIDE DEF L, old
<1>5. /\ Len(rows') = Len(rows) /\ DOMAIN rows' = DOMAIN rows
      /\ \A i \in DOMAIN rows : rows[i] \in Container
  BY <1>1, <1>2, ProcessState DEF Inv, TypeOK
<1>6. \A i \in DOMAIN rows :
        /\ rows'[i].name = rows[i].name /\ rows'[i].uuid = rows[i].uuid
        /\ rows'[i].style = rows[i].style /\ rows'[i].widgets = rows[i].widgets
        /\ rows'[i].rev = IF i \in old THEN w ELSE rows[i].rev
  <2> HIDE DEF w
  <2> QED
    BY <1>1, <1>5 DEF Container
<1>7. \A i \in old, j \in DOMAIN rows : rows[j].rev = w => rows[j].name # rows[i].name
  BY <1>1 DEF Within
<1>8. /\ \A i \in old : rows[i].rev # L - 1
      /\ \A i \in DOMAIN rows : rows[i].rev = L - 2 /\ i \notin old =>
           \E k \in DOMAIN rows : rows[k].rev = L - 1 /\ rows[k].uuid = rows[i].uuid
  BY <1>2, <1>3
<1>9. ~Underway' /\ Alone' /\ \A k \in Workers : UpToDate(run'[k], L, rows')
  BY <1>4 DEF Underway, Publishing, Alone, UpToDate
<1>10. Unique(rows')
  <2> SUFFICES ASSUME NEW i \in DOMAIN rows, NEW j \in DOMAIN rows
               PROVE  /\ rows'[i].uuid = rows'[j].uuid <=> rows'[i].name = rows'[j].name
                      /\ rows'[i].name = rows'[j].name /\ rows'[i].rev = rows'[j].rev => i = j
    BY <1>5 DEF Unique
  <2> HIDE DEF w
  <2>1. /\ rows[i].uuid = rows[j].uuid <=> rows[i].name = rows[j].name
        /\ rows[i].name = rows[j].name /\ rows[i].rev = rows[j].rev => i = j
    BY DEF SiteInv, Unique
  <2>2. CASE i \in old <=> j \in old
    BY <1>3, <1>6, <2>1, <2>2
  <2>3. CASE i \in old /\ j \notin old
    BY <1>6, <1>7, <2>1, <2>3
  <2>4. CASE i \notin old /\ j \in old
    BY <1>6, <1>7, <2>1, <2>4
  <2> QED
    BY <2>2, <2>3, <2>4
<1>11. Complete(rows', L, FALSE)
  <2> SUFFICES ASSUME NEW i \in DOMAIN rows
               PROVE  /\ rows'[i].uuid <= Len(rows') /\ rows'[i].rev <= L
                      /\ \E j \in DOMAIN rows :
                           rows'[j].uuid = rows'[i].uuid /\ rows'[j].rev = L - 1
    BY <1>5 DEF Complete
  <2> HIDE DEF w
  <2>1. Complete(rows, L, Underway)
    BY DEF SiteInv, L
  <2>2. rows'[i].uuid <= Len(rows') /\ rows'[i].rev <= L
    BY <1>2, <1>3, <1>5, <1>6, <2>1 DEF Complete
  <2>3. PICK j \in DOMAIN rows :
          /\ rows[j].uuid = rows[i].uuid
          /\ rows[j].rev = L - 1 \/ rows[j].rev = L - 2
    BY <2>1 DEF Complete
  <2>4. CASE rows[j].rev = L - 1
    BY <1>6, <1>8, <2>2, <2>3, <2>4
  <2>5. CASE rows[j].rev = L - 2 /\ j \in old
    BY <1>3, <1>6, <2>2, <2>3, <2>5
  <2>6. CASE rows[j].rev = L - 2 /\ j \notin old
    <3>1. PICK k \in DOMAIN rows : rows[k].rev = L - 1 /\ rows[k].uuid = rows[j].uuid
      BY <1>8, <2>6
    <3> QED
      BY <1>6, <1>8, <2>2, <2>3, <3>1
  <2> QED
    BY <2>2, <2>3, <2>4, <2>5, <2>6
<1>12. SiteInv'
  <2>1. Complete(rows', Len(revs'), Underway')
    BY <1>1, <1>9, <1>11 DEF Complete, L
  <2> QED
    BY <1>1, <1>2, <1>9, <1>10, <2>1 DEF SiteInv, L
<1> QED
  BY <1>1, <1>3, <1>5, <1>6, <1>9, <1>12 DEF L, old, Shape

LEMMA NoPublication ==
    ASSUME SiteInv, NEW p \in Workers, run[p].pc # "idle", ~Publishing(p)
    PROVE  ~Underway
BY DEF SiteInv, Alone, UpToDate, Underway, Publishing

LEMMA FindKeepsSite ==
    ASSUME SiteInv, NEW p \in Workers, Find(p) PROVE SiteInv'
<1> DEFINE q == run[p]
           c(i) == IF rows[i].rev = q.published THEN "fork" ELSE "write"
           n(i) == [q EXCEPT !.row = i, !.style = rows[i].style, !.pc = c(i)]
           L == Len(revs)
<1>1. PICK i \in Editable(p) :
        q.pc = "find" /\ UNCHANGED <<revs, rows>> /\ run' = [run EXCEPT ![p] = n(i)]
  BY DEF Find, At, Go
<1>2. Inv /\ Inv' /\ q \in Process /\ L \in Nat
  BY FindKeepsInv, ProcessState DEF SiteInv
<1>3. /\ q.published = L - 1 /\ q.working = L
      /\ q.kind \in {"link", "unlink"} /\ q.kind \in Kinds
  BY <1>1 DEF SiteInv, UpToDate
<1>4. rows[i].rev = L - 1 \/ rows[i].rev = L
  BY <1>3 DEF Editable, Within
<1>5. PICK m : m = n(i)
  OBVIOUS
<1>6. m \in Process /\ run' = [run EXCEPT ![p] = m]
  <2> HIDE DEF n
  <2> QED
    BY <1>1, <1>2, <1>5 DEF Inv, TypeOK
<1>7. /\ m.pc = c(i) /\ m.kind = q.kind /\ m.row = i /\ m.style = rows[i].style
      /\ m.published = q.published /\ m.working = q.working
  <2> HIDE DEF q, c
  <2> QED
    BY <1>2, <1>5 DEF Process
<1>8. UpToDate(m, L, rows) /\ m.pc \in {"fork", "write"}
  <2> HIDE DEF q, L
  <2> QED
    BY <1>2, <1>3, <1>4, <1>7 DEF UpToDate
<1>9. ~Publishing(p) /\ run[p].pc # "idle" /\ m.kind = run[p].kind
  BY <1>1, <1>7 DEF Publishing
<1> HIDE DEF n
<1> QED
  BY <1>1, <1>2, <1>6, <1>8, <1>9, QuietSiteStep

\* The fork differs from its original by its revision.
LEMMA ForkDoes ==
    ASSUME SiteInv, NEW p \in Workers, Fork(p)
    PROVE  \E k \in DOMAIN rows, new \in Container :
             /\ revs' = revs /\ rows' = Append(rows, new)
             /\ rows[k].rev = Len(revs) - 1
             /\ new.uuid = rows[k].uuid /\ new.name = rows[k].name
             /\ new.rev = Len(revs)
             /\ new.style = rows[k].style /\ new.widgets = rows[k].widgets
             /\ \A j \in DOMAIN rows : rows[j].rev = Len(revs) => rows[j].name # new.name
<1> DEFINE q == run[p]
           k == run[p].row
           L == Len(revs)
<1>1. /\ q.pc = "fork" /\ rows' = Append(WithForm(p), ForkOf(p)) /\ revs' = revs
      /\ \A j \in Within({q.working}) : rows[j].name # rows[k].name
  BY DEF Fork, At, Placeable
<1>2. /\ q \in Process /\ L \in Nat /\ k \in DOMAIN rows /\ rows[k] \in Container
  BY <1>1, ProcessState DEF SiteInv, Fit
<1>3. /\ q.working = L /\ q.kind # "style"
      /\ rows[k].rev = L - 1 /\ q.style = rows[k].style
  BY <1>1 DEF SiteInv, UpToDate
<1>4. WithForm(p) = rows /\ ForkOf(p) = [rows[k] EXCEPT !.rev = L, !.style = q.style]
  BY <1>3 DEF WithForm, ForkOf
<1> DEFINE new == ForkOf(p)
<1>5. /\ new \in Container /\ new.uuid = rows[k].uuid /\ new.name = rows[k].name
      /\ new.rev = L /\ new.style = rows[k].style /\ new.widgets = rows[k].widgets
  <2> HIDE DEF q, k, L
  <2> QED
    BY <1>2, <1>3, <1>4 DEF Container
<1>6. \A j \in DOMAIN rows : rows[j].rev = L => rows[j].name # new.name
  BY <1>1, <1>3, <1>5 DEF Within
<1> HIDE DEF new, k
<1> QED
  BY <1>1, <1>2, <1>3, <1>4, <1>5, <1>6 DEF new

\* A container of a revision that has none of its name.
LEMMA OneMore ==
    ASSUME SiteInv, ~Underway, NEW new \in Container,
           \/ \E k \in DOMAIN rows :
                /\ rows[k].uuid = new.uuid /\ rows[k].name = new.name
                /\ new.rev = Len(revs) /\ rows[k].rev = Len(revs) - 1
                /\ \A j \in DOMAIN rows :
                     rows[j].rev = Len(revs) => rows[j].name # new.name
           \/ /\ new.uuid = Len(rows) + 1 /\ new.rev = Len(revs) - 1
              /\ \A j \in DOMAIN rows : rows[j].name # new.name
    PROVE  /\ Unique(Append(rows, new)) /\ Complete(Append(rows, new), Len(revs), FALSE)
<1> DEFINE rt == Append(rows, new)
           L == Len(revs)
           N == Len(rows)
<1>1. /\ L \in Nat /\ N \in Nat /\ DOMAIN rows = 1 .. N
      /\ \A i \in 1 .. N : rows[i].uuid \in Nat /\ rows[i].rev \in Nat
  <2>1. L \in Nat /\ N \in Nat /\ DOMAIN rows = 1 .. N /\ rows \in Seq(Container)
    BY DEF SiteInv, Inv, TypeOK
  <2>2. \A i \in 1 .. N : rows[i] \in Container
    BY <2>1
  <2> QED
    BY <2>1, <2>2 DEF Container
<1>2. /\ Len(rt) = N + 1 /\ DOMAIN rt = 1 .. N + 1 /\ rt[N + 1] = new
      /\ \A i \in 1 .. N : rt[i] = rows[i]
  BY <1>1 DEF SiteInv, Inv, TypeOK
<1>3. Complete(rows, L, FALSE) /\ Unique(rows)
  BY DEF SiteInv, Complete
<1> HIDE DEF rt, N, L
<1>4. \A i \in 1 .. N : (rows[i].uuid = new.uuid <=> rows[i].name = new.name)
                        /\ ~(rows[i].name = new.name /\ rows[i].rev = new.rev)
  <2>1. CASE \E k \in DOMAIN rows :
                /\ rows[k].uuid = new.uuid /\ rows[k].name = new.name
                /\ new.rev = L /\ rows[k].rev = L - 1
                /\ \A j \in DOMAIN rows :
                     rows[j].rev = L => rows[j].name # new.name
    <3>1. PICK k \in DOMAIN rows :
            /\ rows[k].uuid = new.uuid /\ rows[k].name = new.name /\ new.rev = L
            /\ \A j \in DOMAIN rows : rows[j].rev = L => rows[j].name # new.name
      BY <2>1
    <3>2. \A i \in DOMAIN rows : rows[i].uuid = rows[k].uuid <=> rows[i].name = rows[k].name
      BY <1>3 DEF Unique
    <3> QED
      BY <1>1, <3>1, <3>2
  <2>2. CASE /\ new.uuid = N + 1
             /\ \A j \in DOMAIN rows : rows[j].name # new.name
    <3>1. \A i \in DOMAIN rows : rows[i].uuid <= N
      BY <1>3 DEF Complete, N
    <3> QED
      BY <1>1, <2>2, <3>1
  <2> QED
    BY <2>1, <2>2 DEF N, L
<1>5. Unique(rt)
  <2> SUFFICES ASSUME NEW i \in 1 .. N + 1, NEW j \in 1 .. N + 1
               PROVE  /\ rt[i].uuid = rt[j].uuid <=> rt[i].name = rt[j].name
                      /\ rt[i].name = rt[j].name /\ rt[i].rev = rt[j].rev => i = j
    BY <1>2 DEF Unique
  <2>1. CASE i \in 1 .. N /\ j \in 1 .. N
    <3>1. rt[i] = rows[i] /\ rt[j] = rows[j] /\ i \in DOMAIN rows /\ j \in DOMAIN rows
      BY <1>1, <1>2, <2>1
    <3> QED
      BY <1>3, <3>1 DEF Unique
  <2>2. CASE i = N + 1 /\ j \in 1 .. N
    BY <1>2, <1>4, <2>2
  <2>3. CASE j = N + 1 /\ i \in 1 .. N
    BY <1>2, <1>4, <2>3
  <2>4. CASE i = N + 1 /\ j = N + 1
    BY <2>4
  <2> QED
    BY <1>1, <2>1, <2>2, <2>3, <2>4
<1>6. /\ new.uuid <= N + 1 /\ new.rev <= L
      /\ \E j \in 1 .. N + 1 : rt[j].uuid = new.uuid /\ rt[j].rev = L - 1
  <2>1. CASE \E k \in DOMAIN rows :
                /\ rows[k].uuid = new.uuid /\ new.rev = L /\ rows[k].rev = L - 1
    <3>1. PICK k \in DOMAIN rows : rows[k].uuid = new.uuid /\ new.rev = L /\ rows[k].rev = L - 1
      BY <2>1
    <3>2. k \in 1 .. N + 1 /\ rt[k] = rows[k]
      BY <1>1, <1>2
    <3>3. new.uuid <= N
      BY <1>3, <3>1 DEF Complete, N
    <3>4. new.uuid <= N + 1 /\ new.rev <= L
      BY <1>1, <3>1, <3>3
    <3> QED
      BY <3>1, <3>2, <3>4
  <2>2. CASE new.uuid = N + 1 /\ new.rev = L - 1
    BY <1>1, <1>2, <2>2
  <2> QED
    BY <2>1, <2>2 DEF N, L
<1>7. Complete(rt, L, FALSE)
  <2> SUFFICES ASSUME NEW i \in 1 .. N + 1
               PROVE  /\ rt[i].uuid <= N + 1 /\ rt[i].rev <= L
                      /\ \E j \in 1 .. N + 1 : rt[j].uuid = rt[i].uuid /\ rt[j].rev = L - 1
    BY <1>2 DEF Complete
  <2>1. CASE i = N + 1
    BY <1>2, <1>6, <2>1
  <2>2. CASE i \in 1 .. N
    <3>1. PICK j \in DOMAIN rows : rows[j].uuid = rows[i].uuid /\ rows[j].rev = L - 1
      BY <1>1, <1>3, <2>2 DEF Complete
    <3>2. rows[i].uuid <= N /\ rows[i].rev <= L
      BY <1>1, <1>3, <2>2 DEF Complete, N
    <3>3. j \in 1 .. N + 1 /\ rt[j] = rows[j] /\ rt[i] = rows[i]
      BY <1>1, <1>2, <2>2
    <3>4. rt[i].uuid <= N + 1 /\ rt[i].rev <= L
      BY <1>1, <2>2, <3>2, <3>3
    <3>5. rt[j].uuid = rt[i].uuid /\ rt[j].rev = L - 1
      BY <3>1, <3>3
    <3> QED
      BY <3>3, <3>4, <3>5
  <2> QED
    BY <1>1, <2>1, <2>2
<1> QED
  BY <1>5, <1>7 DEF rt, L

LEMMA ForkKeepsSite ==
    ASSUME SiteInv, NEW p \in Workers, Fork(p) PROVE SiteInv' /\ ~Underway /\ ~Underway'
<1> DEFINE q == run[p]
           L == Len(revs)
           N == Len(rows)
           n == [q EXCEPT !.pc = "write", !.row = N + 1]
<1>1. q.pc = "fork"
  BY DEF Fork, At
<1>2. /\ Inv /\ Inv' /\ q \in Process /\ L \in Nat /\ N \in Nat
      /\ DOMAIN rows = 1 .. N /\ rows \in Seq(Container)
  BY ForkKeepsInv, ProcessState DEF SiteInv, Inv, TypeOK
<1>3. /\ q.published = L - 1 /\ q.working = L
      /\ q.kind \in {"link", "unlink"} /\ q.kind \in Kinds
  BY <1>1 DEF SiteInv, UpToDate
<1>4. run' = [run EXCEPT ![p] = n]
  BY <1>3 DEF Fork, Go
<1>5. PICK k \in DOMAIN rows, new \in Container :
        /\ revs' = revs /\ rows' = Append(rows, new)
        /\ rows[k].rev = L - 1
        /\ new.uuid = rows[k].uuid /\ new.name = rows[k].name /\ new.rev = L
        /\ \A j \in DOMAIN rows : rows[j].rev = L => rows[j].name # new.name
  BY ForkDoes
<1>6. /\ Len(rows') = N + 1 /\ rows'[N + 1] = new
      /\ \A i \in 1 .. N : rows'[i] = rows[i]
  BY <1>2, <1>5
<1>7. ~Publishing(p) /\ ~Underway
  BY <1>1, NoPublication DEF Publishing
<1>8. Unique(rows') /\ Complete(rows', L, FALSE)
  BY <1>5, <1>7, OneMore
<1>9. PICK m : m = n
  OBVIOUS
<1>10. m \in Process /\ run' = [run EXCEPT ![p] = m] /\ run'[p] = m
  <2> HIDE DEF n
  <2> QED
    BY <1>2, <1>4, <1>9 DEF Inv, TypeOK
<1>11. /\ m.pc = "write" /\ m.kind = q.kind /\ m.row = N + 1
       /\ m.published = q.published /\ m.working = q.working
  <2> HIDE DEF q, N
  <2> QED
    BY <1>2, <1>9 DEF Process
<1>12. UpToDate(m, L, rows')
  <2> HIDE DEF q, L, N
  <2> QED
    BY <1>3, <1>5, <1>6, <1>11 DEF UpToDate
<1>13. Complete(rows', L, Underway)
  BY <1>7, <1>8 DEF Complete
<1>14. SiteInv'
  <2>1. /\ Len(revs') = Len(revs) /\ Len(rows') >= Len(rows) /\ run[p].pc # "idle"
        /\ \A i \in 1 .. Len(rows) :
             rows'[i].rev = rows[i].rev /\ rows'[i].style = rows[i].style
    BY <1>1, <1>2, <1>5, <1>6
  <2>2. m.kind = run[p].kind /\ (m.pc \in {"ids", "containers", "move"} <=> Publishing(p))
    BY <1>7, <1>11
  <2> HIDE DEF n
  <2> QED
    BY <1>2, <1>8, <1>10, <1>12, <1>13, <2>1, <2>2, SiteStep
<1>15. ~Underway'
  BY <1>2, <1>7, <1>10, <1>11 DEF Underway, Publishing, Inv, TypeOK
<1> QED
  BY <1>7, <1>14, <1>15

\* A widget is linked or unlinked in a container of the working revision.
LEMMA WriteWidgetDoes ==
    ASSUME SiteInv, NEW p \in Workers, WriteWidget(p)
    PROVE  \E k \in DOMAIN rows, w \in Widgets, new \in Container :
             /\ revs' = revs /\ rows' = [rows EXCEPT ![k] = new]
             /\ rows[k].rev = Len(revs)
             /\ new.uuid = rows[k].uuid /\ new.name = rows[k].name
             /\ new.rev = rows[k].rev /\ new.style = rows[k].style
             /\ new.widgets \in {rows[k].widgets \cup {w}, rows[k].widgets \ {w}}
<1> DEFINE k == run[p].row
           w == run[p].arg
           ws == IF Linked(p) THEN rows[k].widgets \ {w} ELSE rows[k].widgets \cup {w}
           new == [rows[k] EXCEPT !.widgets = ws]
<1>1. /\ run[p].pc = "write" /\ rows' = [rows EXCEPT ![k] = new] /\ revs' = revs
      /\ run[p].kind \in {"link", "unlink"}
  BY DEF WriteWidget, At
<1>2. k \in DOMAIN rows /\ w \in Widgets /\ rows[k] \in Container
  BY <1>1, ProcessState DEF SiteInv, Fit
<1>3. rows[k].rev = Len(revs)
  BY <1>1 DEF SiteInv, UpToDate
<1>4. PICK v : v = ws
  OBVIOUS
<1>5. v \in {rows[k].widgets \cup {w}, rows[k].widgets \ {w}}
  BY <1>4
<1> HIDE DEF ws, k, w
<1>6. /\ new \in Container /\ new.uuid = rows[k].uuid /\ new.name = rows[k].name
      /\ new.rev = rows[k].rev /\ new.style = rows[k].style /\ new.widgets = v
  BY <1>2, <1>4, <1>5 DEF Container
<1> HIDE DEF new
<1> QED
  BY <1>1, <1>2, <1>3, <1>5, <1>6

LEMMA WriteWidgetKeepsSite ==
    ASSUME SiteInv, NEW p \in Workers, WriteWidget(p)
    PROVE  SiteInv' /\ ~Underway /\ ~Underway'
<1>1. run[p].pc = "write" /\ run' = [run EXCEPT ![p] = Resting]
  BY DEF WriteWidget, At, Done, Go
<1>2. PICK k \in DOMAIN rows, new \in Container :
        /\ revs' = revs /\ rows' = [rows EXCEPT ![k] = new]
        /\ new.uuid = rows[k].uuid /\ new.name = rows[k].name
        /\ new.rev = rows[k].rev /\ new.style = rows[k].style
  BY WriteWidgetDoes
<1>3. Inv /\ Inv' /\ rows \in Seq(Container) /\ rows' \in Seq(Container)
  BY WriteWidgetKeepsInv DEF SiteInv, Inv, TypeOK
<1>4. /\ Len(rows') = Len(rows) /\ DOMAIN rows' = DOMAIN rows
      /\ \A i \in DOMAIN rows :
           /\ rows'[i].uuid = rows[i].uuid /\ rows'[i].name = rows[i].name
           /\ rows'[i].rev = rows[i].rev /\ rows'[i].style = rows[i].style
  BY <1>2, <1>3
<1>5. ~Publishing(p) /\ ~Underway
  BY <1>1, NoPublication DEF Publishing
<1>6. Unique(rows') /\ Complete(rows', Len(revs), Underway)
  <2>1. Unique(rows')
    BY <1>4 DEF SiteInv, Unique
  <2>2. Complete(rows, Len(revs), FALSE)
    BY <1>5 DEF SiteInv, Complete
  <2>3. ASSUME NEW i \in DOMAIN rows
        PROVE  /\ rows'[i].uuid <= Len(rows') /\ rows'[i].rev <= Len(revs)
               /\ \E j \in DOMAIN rows :
                    rows'[j].uuid = rows'[i].uuid /\ rows'[j].rev = Len(revs) - 1
    <3>1. rows[i].uuid <= Len(rows) /\ rows[i].rev <= Len(revs)
      BY <2>2 DEF Complete
    <3>2. PICK j \in DOMAIN rows : rows[j].uuid = rows[i].uuid /\ rows[j].rev = Len(revs) - 1
      BY <2>2 DEF Complete
    <3>3. rows'[j].uuid = rows'[i].uuid /\ rows'[j].rev = Len(revs) - 1
      BY <1>4, <3>2
    <3> QED
      BY <1>4, <3>1, <3>3
  <2> QED
    BY <1>4, <1>5, <2>1, <2>3 DEF Complete
<1>7. UpToDate(Resting, Len(revs), rows') /\ Resting \in Process /\ Resting.pc = "idle"
  BY RestingFits DEF UpToDate
<1> HIDE DEF Resting
<1>8. SiteInv'
  <2>1. /\ Len(revs') = Len(revs) /\ Len(rows') >= Len(rows) /\ run[p].pc # "idle"
        /\ \A i \in 1 .. Len(rows) :
             rows'[i].rev = rows[i].rev /\ rows'[i].style = rows[i].style
    BY <1>1, <1>2, <1>3, <1>4
  <2>2. Resting.pc \in {"ids", "containers", "move"} <=> Publishing(p)
    BY <1>5, <1>7
  <2> QED
    BY <1>1, <1>3, <1>5, <1>6, <1>7, <2>1, <2>2, SiteStep
<1>9. ~Underway'
  BY <1>1, <1>3, <1>5, <1>7 DEF Underway, Publishing, Inv, TypeOK
<1> QED
  BY <1>5, <1>8, <1>9

LEMMA RenderKeepsSite ==
    ASSUME SiteInv, NEW p \in Workers, Render(p) PROVE SiteInv'
<1> DEFINE q == run[p]
<1>1. q.pc = "render" /\ UNCHANGED <<revs, rows>>
  BY DEF Render, At
<1>2. ~Publishing(p)
  BY <1>1 DEF Publishing
<1>3. CASE Shown(p) # {}
  <2>1. Failed(p)
    BY <1>3 DEF Render, Failed
  <2> QED
    BY <1>2, <2>1, FailedSiteStep
<1>4. CASE Shown(p) = {}
  <2>1. run' = [run EXCEPT ![p] = [q EXCEPT !.pc = "create"]]
    BY <1>4 DEF Render, Go
  <2>2. Inv /\ Inv' /\ q \in Process
    BY RenderKeepsInv, ProcessState DEF SiteInv
  <2>3. PICK m : m = [q EXCEPT !.pc = "create"]
    OBVIOUS
  <2>4. UpToDate(q, Len(revs), rows)
    BY DEF SiteInv
  <2> HIDE DEF q
  <2>5. m \in Process /\ run' = [run EXCEPT ![p] = m]
    BY <2>1, <2>2, <2>3 DEF Inv, TypeOK
  <2>6. /\ m.pc = "create" /\ m.kind = q.kind
        /\ m.published = q.published /\ m.working = q.working
    BY <2>2, <2>3 DEF Process
  <2>7. UpToDate(m, Len(revs), rows)
    BY <1>1, <2>4, <2>6 DEF UpToDate
  <2>8. run[p].pc # "idle" /\ m.kind = run[p].kind
    BY <1>1, <2>6 DEF q
  <2> QED
    BY <1>1, <1>2, <2>2, <2>5, <2>6, <2>7, <2>8, QuietSiteStep
<1> QED
  BY <1>3, <1>4

\* A page creates a container only where the site has none of the name.
LEMMA CreateDoes ==
    ASSUME SiteInv, NEW p \in Workers, Create(p)
    PROVE  \E new \in Container :
             /\ revs' = revs /\ rows' = Append(rows, new)
             /\ new.uuid = Len(rows) + 1 /\ new.rev = Len(revs) - 1
             /\ new.style = Plain /\ new.widgets = {}
             /\ \A j \in DOMAIN rows : rows[j].name # new.name
<1> DEFINE new == [uuid |-> Len(rows) + 1, name |-> run[p].on, rev |-> Home(p),
                   style |-> Plain, widgets |-> {}]
<1>1. /\ run[p].pc = "create" /\ rows' = Append(rows, new) /\ revs' = revs
      /\ Placeable(run[p].on, Home(p))
  BY DEF Create, At
<1>2. run[p].on \in Names /\ Home(p) \in Nat /\ Len(rows) \in Nat
  BY <1>1, ProcessState DEF SiteInv, Fit, Home, Process
<1>3. new \in Container
  BY <1>2, RevisionsAssumption DEF Container
<1>4. Home(p) = Len(revs) - 1
  BY <1>1 DEF SiteInv, UpToDate, Home
<1>5. ~Underway
  BY <1>1, NoPublication DEF Publishing
<1>6. ASSUME NEW j \in DOMAIN rows, rows[j].name = run[p].on PROVE FALSE
  <2>1. PICK i \in DOMAIN rows :
          rows[i].uuid = rows[j].uuid /\ rows[i].rev = Len(revs) - 1
    BY <1>5 DEF SiteInv, Complete
  <2>2. rows[i].name = rows[j].name
    BY <2>1 DEF SiteInv, Unique
  <2> QED
    BY <1>1, <1>4, <1>6, <2>1, <2>2 DEF Placeable, Within
<1> QED
  BY <1>1, <1>3, <1>4, <1>6

LEMMA CreateKeepsSite ==
    ASSUME SiteInv, NEW p \in Workers, Create(p) PROVE SiteInv' /\ ~Underway /\ ~Underway'
<1>1. run[p].pc = "create" /\ run' = [run EXCEPT ![p] = Resting]
  BY DEF Create, At, Done, Go
<1>2. PICK new \in Container :
        /\ revs' = revs /\ rows' = Append(rows, new)
        /\ new.uuid = Len(rows) + 1 /\ new.rev = Len(revs) - 1
        /\ \A j \in DOMAIN rows : rows[j].name # new.name
  BY CreateDoes
<1>3. Inv /\ Inv' /\ rows \in Seq(Container) /\ Len(rows) \in Nat
  BY CreateKeepsInv, ProcessState DEF SiteInv, Inv, TypeOK
<1>4. Len(rows') >= Len(rows) /\ \A i \in 1 .. Len(rows) : rows'[i] = rows[i]
  BY <1>2, <1>3
<1>5. ~Publishing(p) /\ ~Underway
  BY <1>1, NoPublication DEF Publishing
<1>6. Unique(rows') /\ Complete(rows', Len(revs), FALSE)
  BY <1>2, <1>5, OneMore
<1>7. UpToDate(Resting, Len(revs), rows') /\ Resting \in Process /\ Resting.pc = "idle"
  BY RestingFits DEF UpToDate
<1>8. Complete(rows', Len(revs), Underway)
  BY <1>5, <1>6 DEF Complete
<1> HIDE DEF Resting
<1>9. SiteInv'
  BY <1>1, <1>2, <1>3, <1>4, <1>5, <1>6, <1>7, <1>8, SiteStep
<1>10. ~Underway'
  BY <1>1, <1>3, <1>5, <1>7 DEF Underway, Publishing, Inv, TypeOK
<1> QED
  BY <1>5, <1>9, <1>10

-----------------------------------------------------------------------------
\* A publication that runs alone never fails half way, and nobody writes to a
\* container that is not a draft.
LEMMA NeverHalfway ==
    ASSUME AloneToTheEnd, SiteInv, NEW p \in Workers
    PROVE  /\ ~MoveFails(p) /\ ~WriteStyle(p)
           /\ PublishFails(p) \/ NotFound(p) \/ ForkFails(p) \/ Conflict(p)
              \/ CreateFails(p) \/ Crash(p) => Failed(p) /\ ~Publishing(p)
<1>1. ~MoveFails(p)
  <2> SUFFICES ASSUME MoveFails(p) PROVE FALSE
    OBVIOUS
  <2>1. PICK i \in run[p].old, j \in DOMAIN rows :
          /\ run[p].pc = "move"
          /\ rows[j].rev = run[p].working /\ rows[j].name = rows[i].name
    BY DEF MoveFails, At, Placeable, Within
  <2>2. i \in DOMAIN rows /\ rows[j].uuid # rows[i].uuid
    BY <2>1, TakenAlong
  <2> QED
    BY <2>1, <2>2 DEF SiteInv, Unique
<1>2. ~WriteStyle(p)
  BY DEF WriteStyle, At, SiteInv, UpToDate
<1>3. ASSUME Crash(p) PROVE Failed(p) /\ ~Publishing(p)
  BY <1>3 DEF Crash, At, Publishing, SiteInv, UpToDate, AloneToTheEnd
<1>4. ASSUME PublishFails(p) \/ NotFound(p) \/ ForkFails(p) \/ Conflict(p) \/ CreateFails(p)
      PROVE  Failed(p) /\ ~Publishing(p)
  BY <1>4 DEF PublishFails, NotFound, ForkFails, Conflict, CreateFails, At, Publishing
<1> QED
  BY <1>1, <1>2, <1>3, <1>4

LEMMA NextKeepsSite ==
    ASSUME AloneToTheEnd, NoForms PROVE SiteInv /\ [Next]_vars => SiteInv'
<1> SUFFICES ASSUME SiteInv, [Next]_vars PROVE SiteInv'
  OBVIOUS
<1>1. CASE UNCHANGED vars
  <2>1. Inv'
    BY <1>1, NextKeepsInv DEF SiteInv
  <2>2. UNCHANGED <<revs, rows, run>>
    BY <1>1 DEF vars
  <2>3. Alone' /\ (Underway' <=> Underway)
    BY <2>2 DEF SiteInv, Alone, Underway, Publishing
  <2>4. Unique(rows') /\ Complete(rows', Len(revs'), Underway')
    BY <2>2, <2>3 DEF SiteInv, Complete
  <2> QED
    BY <2>1, <2>2, <2>3, <2>4 DEF SiteInv
<1>2. CASE Next
  <2> PICK p \in Workers : Step(p)
    BY <1>2 DEF Next
  <2>1. CASE Failed(p) /\ ~Publishing(p)
    BY <2>1, FailedSiteStep
  <2>2. \/ Failed(p) /\ ~Publishing(p)
        \/ Begin(p) \/ Context(p)
        \/ Publish(p) \/ QueryIds(p) \/ QueryContainers(p) \/ Move(p)
        \/ Find(p) \/ Fork(p) \/ WriteWidget(p) \/ Render(p) \/ Create(p)
    BY NeverHalfway DEF Step
  <2> QED
    BY <2>1, <2>2, BeginKeepsSite, ContextKeepsSite, PublishKeepsSite, QueryIdsKeepsSite,
       QueryContainersKeepsSite, MoveKeepsSite, FindKeepsSite, ForkKeepsSite,
       WriteWidgetKeepsSite, RenderKeepsSite, CreateKeepsSite
<1> QED
  BY <1>1, <1>2

LEMMA SiteHolds == ASSUME AloneToTheEnd, NoForms PROVE Spec => []SiteInv
<1> QED
  BY InitSite, NextKeepsSite, PTL DEF Spec

LEMMA LatestRevisions == Inv => Published = Len(revs) - 1 /\ Working = Len(revs)
<1> SUFFICES ASSUME Inv PROVE Published = Len(revs) - 1 /\ Working = Len(revs)
  OBVIOUS
<1>1. WithStatus("new") = {Len(revs)} /\ WithStatus("published") = {Len(revs) - 1}
  BY Statuses
<1> QED
  BY <1>1 DEF Published, Working

\* However edits and pages interleave, every container is one of the live site
\* when no publication is under way (RevisionsSubscriber::publish takes along
\* all that were not forked).
THEOREM NothingLeftBehind ==
    ASSUME AloneToTheEnd, NoForms
    PROVE  Spec => []LiveComplete
<1>1. SiteInv => LiveComplete
  <2> SUFFICES ASSUME SiteInv, ~Underway, NEW u \in Uuids
               PROVE  \E i \in Within({Published}) : rows[i].uuid = u
    BY DEF LiveComplete, Underway
  <2>1. PICK i \in DOMAIN rows : rows[i].uuid = u
    BY DEF Uuids
  <2>2. PICK j \in DOMAIN rows : rows[j].uuid = u /\ rows[j].rev = Len(revs) - 1
    BY <2>1 DEF SiteInv, Complete
  <2> QED
    BY <2>2, LatestRevisions DEF Within, SiteInv
<1> QED
  BY <1>1, SiteHolds, PTL

-----------------------------------------------------------------------------
(* The refinement: live site and draft as functions of the tables.         *)

Look(c) == [style |-> c.style, widgets |-> c.widgets]

Found(rs, n, r, otherwise) ==
    LET there == {i \in DOMAIN rs : rs[i].rev = r /\ rs[i].name = n}
    IN IF there = {} THEN otherwise ELSE Look(rs[CHOOSE i \in there : TRUE])

LEMMA HasOne ==
    ASSUME NEW rs, Unique(rs), NEW i \in DOMAIN rs, NEW otherwise
    PROVE  Found(rs, rs[i].name, rs[i].rev, otherwise) = Look(rs[i])
<1> DEFINE there == {j \in DOMAIN rs : rs[j].rev = rs[i].rev /\ rs[j].name = rs[i].name}
<1>1. there = {i}
  BY DEF Unique
<1>2. (CHOOSE j \in there : TRUE) = i
  BY <1>1
<1> QED
  BY <1>1, <1>2 DEF Found

LEMMA HasNone ==
    ASSUME NEW rs, NEW n, NEW r, NEW otherwise,
           \A i \in DOMAIN rs : ~(rs[i].rev = r /\ rs[i].name = n)
    PROVE  Found(rs, n, r, otherwise) = otherwise
<1>1. {i \in DOMAIN rs : rs[i].rev = r /\ rs[i].name = n} = {}
  OBVIOUS
<1> QED
  BY <1>1 DEF Found

\* Two tables that agree on a container of a revision.
LEMMA FoundInBoth ==
    ASSUME NEW rs, NEW rt, Unique(rs), Unique(rt), NEW n, NEW r, NEW otherwise,
           \A i \in DOMAIN rs : rs[i].rev = r /\ rs[i].name = n =>
             /\ i \in DOMAIN rt /\ rt[i].rev = r /\ rt[i].name = n
             /\ Look(rt[i]) = Look(rs[i]),
           \A i \in DOMAIN rt : rt[i].rev = r /\ rt[i].name = n =>
             i \in DOMAIN rs /\ rs[i].rev = r /\ rs[i].name = n
    PROVE  Found(rs, n, r, otherwise) = Found(rt, n, r, otherwise)
<1>1. CASE \E i \in DOMAIN rs : rs[i].rev = r /\ rs[i].name = n
  <2>1. PICK i \in DOMAIN rs : rs[i].rev = r /\ rs[i].name = n
    BY <1>1
  <2>2. Found(rs, n, r, otherwise) = Look(rs[i])
    BY <2>1, HasOne
  <2>3. i \in DOMAIN rt /\ rt[i].rev = r /\ rt[i].name = n /\ Look(rt[i]) = Look(rs[i])
    BY <2>1
  <2>4. Found(rt, n, r, otherwise) = Look(rt[i])
    BY <2>3, HasOne
  <2> QED
    BY <2>2, <2>3, <2>4
<1>2. CASE \A i \in DOMAIN rs : ~(rs[i].rev = r /\ rs[i].name = n)
  <2>1. \A i \in DOMAIN rt : ~(rt[i].rev = r /\ rt[i].name = n)
    BY <1>2
  <2> QED
    BY <1>2, <2>1, HasNone
<1> QED
  BY <1>1, <1>2

LEMMA FoundIs ==
    ASSUME NEW n, NEW r, NEW otherwise
    PROVE  In(n, r, otherwise) = Found(rows, n, r, otherwise)
<1> DEFINE there == {i \in Within({r}) : rows[i].name = n}
<1>1. there = {i \in DOMAIN rows : rows[i].rev = r /\ rows[i].name = n}
  BY DEF Within
<1> HIDE DEF there
<1>2. In(n, r, otherwise) = IF there = {} THEN otherwise
                            ELSE Look(rows[CHOOSE i \in there : TRUE])
  BY DEF In, Shape, Look, there
<1> QED
  BY <1>1, <1>2 DEF Found

\* What visitors get, between two publications and during one,
LEMMA LiveIs ==
    Inv => /\ ~Underway =>
                Live = [n \in Names |-> Found(rows, n, Len(revs) - 1, None)]
           /\ Underway =>
                Live = [n \in Names |-> Found(rows, n, Len(revs) - 1,
                                              Found(rows, n, Len(revs) - 2, None))]
<1> SUFFICES ASSUME Inv
             PROVE  /\ ~Underway =>
                         Live = [n \in Names |-> Found(rows, n, Len(revs) - 1, None)]
                    /\ Underway =>
                         Live = [n \in Names |-> Found(rows, n, Len(revs) - 1,
                                                       Found(rows, n, Len(revs) - 2, None))]
  OBVIOUS
<1>1. Published = Len(revs) - 1 /\ Len(revs) - 1 \in 1 .. Len(revs)
  BY LatestRevisions, Statuses
<1>2. revs[Published].previous = Len(revs) - 2
  <2> DEFINE r == Len(revs) - 1
  <2>1. revs[r].previous = r - 1
    <3> HIDE DEF r
    <3> QED
      BY <1>1 DEF Inv, Chain, r
  <2> QED
    BY <1>1, <2>1, Statuses
<1>3. CASE ~Underway
  BY <1>1, <1>3, FoundIs DEF Live, Underway
<1>4. CASE Underway
  BY <1>1, <1>2, <1>4, FoundIs DEF Live, Underway
<1> QED
  BY <1>3, <1>4

\* and what editors get.
LEMMA DraftIs ==
    Inv => Draft = [n \in Names |-> Found(rows, n, Len(revs), Live[n])]
BY LatestRevisions, FoundIs DEF Draft

\* Between two publications the working revision overlays the published one;
\* during one it is empty, and what has not moved is still visible.
Deployed ==
    /\ Live = [n \in Names |-> Found(rows, n, Len(revs) - 1, None)]
    /\ Draft = [n \in Names |-> Found(rows, n, Len(revs),
                                      Found(rows, n, Len(revs) - 1, None))]
Deploying ==
    /\ Live = [n \in Names |-> Found(rows, n, Len(revs) - 1,
                                     Found(rows, n, Len(revs) - 2, None))]
    /\ Draft = Live

LEMMA Lives == SiteInv => (~Underway => Deployed) /\ (Underway => Deploying)
<1> SUFFICES ASSUME SiteInv PROVE (~Underway => Deployed) /\ (Underway => Deploying)
  OBVIOUS
<1>1. Inv
  BY DEF SiteInv
<1>2. ASSUME ~Underway PROVE Deployed
  <2>1. Live = [n \in Names |-> Found(rows, n, Len(revs) - 1, None)]
    BY <1>1, <1>2, LiveIs
  <2> QED
    BY <1>1, <2>1, DraftIs DEF Deployed
<1>3. ASSUME Underway PROVE Deploying
  <2>1. Live = [n \in Names |-> Found(rows, n, Len(revs) - 1,
                                      Found(rows, n, Len(revs) - 2, None))]
    BY <1>1, <1>3, LiveIs
  <2>2. \A i \in DOMAIN rows : rows[i].rev # Len(revs)
    <3>1. \A i \in DOMAIN rows : rows[i].rev < Len(revs) /\ rows[i].rev \in Nat
      <4>1. \A i \in DOMAIN rows : rows[i] \in Container
        BY <1>1 DEF Inv, TypeOK
      <4> QED
        BY <1>3, <4>1 DEF SiteInv, Complete, Container
    <3> QED
      BY <1>1, <3>1, Statuses
  <2>3. \A n \in Names : Found(rows, n, Len(revs), Live[n]) = Live[n]
    BY <2>2, HasNone
  <2>4. Draft = [n \in Names |-> Live[n]]
    BY <1>1, <2>3, DraftIs
  <2> QED
    BY <2>1, <2>4 DEF Deploying
<1> QED
  BY <1>2, <1>3

LEMMA LivesNext == SiteInv' => (~Underway' => Deployed') /\ (Underway' => Deploying')
BY Lives, PTL

-----------------------------------------------------------------------------
(* Each step is a step of the site, or none.                               *)

LEMMA PublishDeploys ==
    ASSUME SiteInv, NEW p \in Workers, Publish(p) PROVE Live' = Draft /\ Draft' = Draft
<1>1. /\ SiteInv' /\ Len(revs') = Len(revs) + 1 /\ rows' = rows
      /\ ~Underway /\ Underway'
  BY PublishKeepsSite
<1>2. Deployed /\ Deploying'
  BY <1>1, Lives, LivesNext
<1>3. Len(revs') - 1 = Len(revs) /\ Len(revs') - 2 = Len(revs) - 1
  BY <1>1, Statuses DEF SiteInv
<1>4. Live' = [n \in Names |-> Found(rows, n, Len(revs), Found(rows, n, Len(revs) - 1, None))]
  BY <1>1, <1>2, <1>3 DEF Deploying
<1> QED
  BY <1>2, <1>4 DEF Deployed, Deploying

LEMMA MoveStutters ==
    ASSUME SiteInv, NEW p \in Workers, Move(p) PROVE Live' = Live /\ Draft' = Draft
<1> DEFINE L == Len(revs)
           old == run[p].old
<1>1. /\ SiteInv' /\ revs' = revs /\ Underway /\ ~Underway'
      /\ DOMAIN rows' = DOMAIN rows
      /\ \A i \in DOMAIN rows :
           /\ rows'[i].name = rows[i].name /\ Look(rows'[i]) = Look(rows[i])
           /\ rows'[i].rev = IF i \in old THEN L - 1 ELSE rows[i].rev
  BY MoveKeepsSite DEF Shape, Look
<1>2. /\ Unique(rows) /\ Unique(rows') /\ L \in Nat
      /\ \A i \in DOMAIN rows : rows[i].rev < L /\ rows[i].rev \in Nat
  <2>1. \A i \in DOMAIN rows : rows[i].rev \in Nat
    BY ProcessState DEF SiteInv, Container
  <2> QED
    BY <1>1, <2>1, Statuses DEF SiteInv, Complete
<1>3. old = {i \in DOMAIN rows :
           /\ rows[i].rev = L - 2
           /\ \A j \in DOMAIN rows : rows[j].rev = L - 1 => rows[j].uuid # rows[i].uuid}
  BY TakenAlong DEF Move, At
<1>4. Deploying /\ Deployed'
  BY <1>1, Lives, LivesNext
<1> HIDE DEF L, old
<1>5. ASSUME NEW n \in Names
      PROVE  Found(rows', n, L - 1, None) = Found(rows, n, L - 1, Found(rows, n, L - 2, None))
  <2>1. CASE \E i \in DOMAIN rows : rows[i].rev = L - 1 /\ rows[i].name = n
    <3>1. PICK i \in DOMAIN rows : rows[i].rev = L - 1 /\ rows[i].name = n
      BY <2>1
    <3>2. rows'[i].rev = L - 1 /\ rows'[i].name = n
      BY <1>1, <3>1
    <3>3. Found(rows', n, L - 1, None) = Look(rows'[i])
      BY <1>1, <1>2, <3>2, HasOne
    <3>4. Found(rows, n, L - 1, Found(rows, n, L - 2, None)) = Look(rows[i])
      BY <1>2, <3>1, HasOne
    <3> QED
      BY <1>1, <3>3, <3>4
  <2>2. CASE \A i \in DOMAIN rows : ~(rows[i].rev = L - 1 /\ rows[i].name = n)
    <3>1. Found(rows, n, L - 1, Found(rows, n, L - 2, None)) = Found(rows, n, L - 2, None)
      BY <2>2, HasNone
    <3>2. CASE \E i \in DOMAIN rows : rows[i].rev = L - 2 /\ rows[i].name = n
      <4>1. PICK i \in DOMAIN rows : rows[i].rev = L - 2 /\ rows[i].name = n
        BY <3>2
      <4>2. i \in old
        BY <1>2, <1>3, <2>2, <4>1 DEF Unique
      <4>3. rows'[i].rev = L - 1 /\ rows'[i].name = n
        BY <1>1, <4>1, <4>2
      <4>4. Found(rows', n, L - 1, None) = Look(rows'[i])
        BY <1>1, <1>2, <4>3, HasOne
      <4>5. Found(rows, n, L - 2, None) = Look(rows[i])
        BY <1>2, <4>1, HasOne
      <4> QED
        BY <1>1, <3>1, <4>4, <4>5
    <3>3. CASE \A i \in DOMAIN rows : ~(rows[i].rev = L - 2 /\ rows[i].name = n)
      <4>1. Found(rows, n, L - 2, None) = None
        BY <3>3, HasNone
      <4>2. \A i \in DOMAIN rows' : ~(rows'[i].rev = L - 1 /\ rows'[i].name = n)
        BY <1>1, <1>3, <2>2, <3>3
      <4> QED
        BY <3>1, <4>1, <4>2, HasNone
    <3> QED
      BY <3>2, <3>3
  <2> QED
    BY <2>1, <2>2
<1>6. Live' = Live
  BY <1>1, <1>4, <1>5 DEF Deployed, Deploying, L
<1>7. ASSUME NEW n \in Names, NEW o PROVE Found(rows', n, L, o) = o
  <2>1. \A i \in DOMAIN rows' : rows'[i].rev # L
    BY <1>1, <1>2
  <2> QED
    BY <2>1, HasNone
<1>8. Draft' = Live'
  BY <1>1, <1>4, <1>7 DEF Deployed, L
<1> QED
  BY <1>4, <1>6, <1>8 DEF Deploying

\* A container more leaves the other names and the other revisions as they are.
LEMMA FoundWithOneMore ==
    ASSUME NEW rs \in Seq(Container), NEW new \in Container, Unique(rs),
           Unique(Append(rs, new)), NEW n, NEW r, NEW otherwise,
           n # new.name \/ r # new.rev
    PROVE  Found(Append(rs, new), n, r, otherwise) = Found(rs, n, r, otherwise)
<1> DEFINE rt == Append(rs, new)
<1>1. /\ DOMAIN rs = 1 .. Len(rs) /\ DOMAIN rt = 1 .. Len(rs) + 1 /\ Len(rs) \in Nat
      /\ rt[Len(rs) + 1] = new /\ \A i \in 1 .. Len(rs) : rt[i] = rs[i]
  OBVIOUS
<1> HIDE DEF rt
<1>2. \A i \in DOMAIN rt : rt[i].rev = r /\ rt[i].name = n =>
        i \in DOMAIN rs /\ rt[i] = rs[i]
  BY <1>1
<1>3. Unique(rt)
  BY DEF rt
<1>4. Found(rs, n, r, otherwise) = Found(rt, n, r, otherwise)
  BY <1>1, <1>2, <1>3, FoundInBoth
<1> QED
  BY <1>4 DEF rt

LEMMA ForkStutters ==
    ASSUME SiteInv, NEW p \in Workers, Fork(p) PROVE Live' = Live /\ Draft' = Draft
<1> DEFINE L == Len(revs)
<1>1. PICK k \in DOMAIN rows, new \in Container :
        /\ revs' = revs /\ rows' = Append(rows, new)
        /\ rows[k].rev = L - 1
        /\ new.name = rows[k].name /\ new.rev = L
        /\ new.style = rows[k].style /\ new.widgets = rows[k].widgets
        /\ \A j \in DOMAIN rows : rows[j].rev = L => rows[j].name # new.name
  BY ForkDoes
<1>2. SiteInv' /\ Deployed /\ Deployed'
  BY ForkKeepsSite, Lives, LivesNext
<1>3. /\ Unique(rows) /\ Unique(rows') /\ L \in Nat /\ rows \in Seq(Container)
      /\ Len(rows) \in Nat
  BY <1>2, Statuses DEF SiteInv, Inv, TypeOK
<1> HIDE DEF L
<1>4. ASSUME NEW n \in Names
      PROVE  Found(rows', n, L - 1, None) = Found(rows, n, L - 1, None)
  BY <1>1, <1>3, FoundWithOneMore
<1>5. ASSUME NEW n \in Names
      PROVE  Found(rows', n, L, Found(rows', n, L - 1, None))
               = Found(rows, n, L, Found(rows, n, L - 1, None))
  <2>1. CASE n # new.name
    BY <1>1, <1>3, <1>4, <2>1, FoundWithOneMore
  <2>2. CASE n = new.name
    <3>1. Found(rows, n, L, Found(rows, n, L - 1, None)) = Found(rows, n, L - 1, None)
      BY <1>1, <2>2, HasNone
    <3>2. Found(rows, n, L - 1, None) = Look(rows[k])
      BY <1>1, <1>3, <2>2, HasOne
    <3>3. Len(rows) + 1 \in DOMAIN rows' /\ rows'[Len(rows) + 1] = new
      BY <1>1, <1>3
    <3>4. Found(rows', n, L, Found(rows', n, L - 1, None)) = Look(new)
      BY <1>1, <1>3, <2>2, <3>3, HasOne
    <3> QED
      BY <1>1, <3>1, <3>2, <3>4 DEF Look
  <2> QED
    BY <2>1, <2>2
<1> QED
  BY <1>1, <1>2, <1>4, <1>5 DEF Deployed, L

LEMMA WriteWidgetEdits ==
    ASSUME SiteInv, NEW p \in Workers, WriteWidget(p)
    PROVE  \E n \in Names : Site!Edit(n)
<1> DEFINE L == Len(revs)
<1>1. PICK k \in DOMAIN rows, w \in Widgets, new \in Container :
        /\ revs' = revs /\ rows' = [rows EXCEPT ![k] = new]
        /\ rows[k].rev = L
        /\ new.uuid = rows[k].uuid /\ new.name = rows[k].name
        /\ new.rev = rows[k].rev /\ new.style = rows[k].style
        /\ new.widgets \in {rows[k].widgets \cup {w}, rows[k].widgets \ {w}}
  BY WriteWidgetDoes
<1>2. SiteInv' /\ Deployed /\ Deployed'
  BY WriteWidgetKeepsSite, Lives, LivesNext
<1>3. /\ Unique(rows) /\ Unique(rows') /\ L \in Nat
      /\ rows \in Seq(Container) /\ rows[k] \in Container
  BY <1>2, Statuses DEF SiteInv, Inv, TypeOK
<1>4. /\ DOMAIN rows' = DOMAIN rows
      /\ \A i \in DOMAIN rows : rows'[i] = IF i = k THEN new ELSE rows[i]
  BY <1>1, <1>3
<1> HIDE DEF L
<1> DEFINE m == rows[k].name
<1>5. ASSUME NEW n, NEW r, NEW o, n # m \/ r # L
      PROVE  Found(rows', n, r, o) = Found(rows, n, r, o)
  <2>1. \A i \in DOMAIN rows : rows[i].rev = r /\ rows[i].name = n =>
          /\ i \in DOMAIN rows' /\ rows'[i].rev = r /\ rows'[i].name = n
          /\ Look(rows'[i]) = Look(rows[i])
    BY <1>1, <1>4, <1>5
  <2>2. \A i \in DOMAIN rows' : rows'[i].rev = r /\ rows'[i].name = n =>
          i \in DOMAIN rows /\ rows[i].rev = r /\ rows[i].name = n
    BY <1>1, <1>4
  <2> QED
    BY <1>3, <2>1, <2>2, FoundInBoth
<1>6. Live' = Live
  <2>1. \A n \in Names : Found(rows', n, L - 1, None) = Found(rows, n, L - 1, None)
    BY <1>3, <1>5
  <2> QED
    BY <1>1, <1>2, <2>1 DEF Deployed, L
<1>7. m \in Names /\ Draft[m] = Look(rows[k]) /\ Draft'[m] = Look(new)
  <2>1. m \in Names
    BY <1>3 DEF Container
  <2>2. \A o : Found(rows, m, L, o) = Look(rows[k])
    BY <1>1, <1>3, HasOne
  <2>3. \A o : Found(rows', m, L, o) = Look(new)
    <3>1. rows'[k] = new /\ k \in DOMAIN rows'
      BY <1>4
    <3> QED
      BY <1>1, <1>3, <3>1, HasOne
  <2> QED
    BY <1>1, <1>2, <2>1, <2>2, <2>3 DEF Deployed, L
<1>8. \A n \in Names : n # m => Draft'[n] = Draft[n]
  <2>1. \A n \in Names : n # m =>
          Found(rows', n, L, Found(rows', n, L - 1, None))
            = Found(rows, n, L, Found(rows, n, L - 1, None))
    BY <1>3, <1>5
  <2> QED
    BY <1>1, <1>2, <2>1 DEF Deployed, L
<1>9. DOMAIN Draft = Names /\ DOMAIN Draft' = Names /\ Draft = [n \in Names |-> Draft[n]]
      /\ Draft' = [n \in Names |-> Draft'[n]]
  BY <1>1, <1>2 DEF Deployed, L
<1>10. Draft[m] # None
  <2>1. Look(rows[k]) \in [style : Styles, widgets : SUBSET Widgets]
    BY <1>3 DEF Look, Container
  <2> QED
    BY <1>7, <2>1, RevisionsAssumption
<1>11. Look(new) = [Look(rows[k]) EXCEPT !.widgets = new.widgets]
       /\ Look(rows[k]).widgets = rows[k].widgets
  BY <1>1 DEF Look
<1>12. Draft' = [Draft EXCEPT ![m] = Look(new)]
  BY <1>7, <1>8, <1>9
<1>13. \/ Draft' = [Draft EXCEPT ![m].widgets = @ \cup {w}]
       \/ Draft' = [Draft EXCEPT ![m].widgets = @ \ {w}]
  BY <1>1, <1>7, <1>11, <1>12
<1>14. Site!Edit(m)
  BY <1>1, <1>6, <1>10, <1>13 DEF Site!Edit
<1> QED
  BY <1>7, <1>14

LEMMA CreateCreates ==
    ASSUME SiteInv, NEW p \in Workers, Create(p)
    PROVE  \E n \in Names : Site!Create(n)
<1> DEFINE L == Len(revs)
<1>1. PICK new \in Container :
        /\ revs' = revs /\ rows' = Append(rows, new)
        /\ new.rev = L - 1 /\ new.style = Plain /\ new.widgets = {}
        /\ \A j \in DOMAIN rows : rows[j].name # new.name
  BY CreateDoes
<1>2. SiteInv' /\ Deployed /\ Deployed'
  BY CreateKeepsSite, Lives, LivesNext
<1>3. /\ Unique(rows) /\ Unique(rows') /\ L \in Nat /\ rows \in Seq(Container)
      /\ Len(rows) \in Nat
  BY <1>2, Statuses DEF SiteInv, Inv, TypeOK
<1> HIDE DEF L
<1> DEFINE m == new.name
<1>4. ASSUME NEW n, NEW r, NEW o, n # m \/ r # L - 1
      PROVE  Found(rows', n, r, o) = Found(rows, n, r, o)
  BY <1>1, <1>3, <1>4, FoundWithOneMore
<1>5. m \in Names /\ Look(new) = Site!Fresh
  BY <1>1 DEF Container, Look, Site!Fresh
<1>6. Found(rows', m, L - 1, None) = Look(new)
  <2>1. Len(rows) + 1 \in DOMAIN rows' /\ rows'[Len(rows) + 1] = new
    BY <1>1, <1>3
  <2> QED
    BY <1>1, <1>3, <2>1, HasOne
<1>7. \A r, o : Found(rows, m, r, o) = o
  BY <1>1, HasNone
<1>8. Found(rows', m, L, Found(rows', m, L - 1, None)) = Look(new)
  <2>1. L # L - 1
    BY <1>3
  <2>2. \A o : Found(rows', m, L, o) = Found(rows, m, L, o)
    BY <1>4, <2>1
  <2> QED
    BY <1>6, <1>7, <2>2
<1>9. Live[m] = None /\ Live' = [Live EXCEPT ![m] = Look(new)]
  <2>1. \A n \in Names : n # m =>
          Found(rows', n, L - 1, None) = Found(rows, n, L - 1, None)
    BY <1>4
  <2> QED
    BY <1>1, <1>2, <1>5, <1>6, <1>7, <2>1 DEF Deployed, L
<1>10. Draft' = [Draft EXCEPT ![m] = Look(new)]
  <2>1. \A n \in Names : n # m =>
          Found(rows', n, L, Found(rows', n, L - 1, None))
            = Found(rows, n, L, Found(rows, n, L - 1, None))
    BY <1>4
  <2> QED
    BY <1>1, <1>2, <1>5, <1>8, <2>1 DEF Deployed, L
<1> QED
  BY <1>5, <1>9, <1>10 DEF Site!Create

LEMMA QuietStutters ==
    ASSUME SiteInv, SiteInv', UNCHANGED <<revs, rows>>, Underway' <=> Underway
    PROVE  Live' = Live /\ Draft' = Draft
<1>1. CASE Underway
  BY <1>1, Lives, LivesNext DEF Deploying
<1>2. CASE ~Underway
  BY <1>2, Lives, LivesNext DEF Deployed
<1> QED
  BY <1>1, <1>2

LEMMA OwnStep ==
    ASSUME Inv, NEW p \in Workers, NEW q, run' = [run EXCEPT ![p] = q],
           q.pc \in {"ids", "containers", "move"} <=> Publishing(p)
    PROVE  Underway' <=> Underway
BY DEF Inv, TypeOK, Underway, Publishing

LEMMA QuietActions ==
    ASSUME NoForms, SiteInv, NEW p \in Workers,
           \/ Failed(p) /\ ~Publishing(p)
           \/ Begin(p) \/ Context(p) \/ QueryIds(p) \/ QueryContainers(p)
           \/ Find(p) \/ Render(p)
    PROVE  UNCHANGED <<revs, rows>> /\ (Underway' <=> Underway)
<1>1. UNCHANGED <<revs, rows>> /\ Inv
  BY DEF Failed, Begin, Context, QueryIds, QueryContainers, Find, Render, SiteInv
<1>2. CASE Failed(p) /\ ~Publishing(p)
  <2>1. run' = [run EXCEPT ![p] = Resting]
    BY <1>2 DEF Failed, Done, Go
  <2> HIDE DEF Resting
  <2> QED
    BY <1>1, <1>2, <2>1, RestingFits, OwnStep
<1>3. CASE QueryIds(p) \/ QueryContainers(p)
  BY <1>1, <1>3, QueryIdsKeepsSite, QueryContainersKeepsSite
     DEF Underway, Publishing, QueryIds, QueryContainers, At
<1>4. CASE Begin(p)
  <2>1. PICK q, r :
          run' = [run EXCEPT ![p] =
            [Resting EXCEPT !.pc = "context", !.kind = q[1], !.on = q[2],
                            !.arg = q[3], !.published = r]]
    BY <1>4 DEF Begin, Go
  <2> DEFINE n == [Resting EXCEPT !.pc = "context", !.kind = q[1], !.on = q[2],
                                  !.arg = q[3], !.published = r]
  <2>2. n.pc = "context" /\ ~Publishing(p)
    BY <1>4 DEF Resting, Begin, At, Publishing
  <2> HIDE DEF n
  <2> QED
    BY <1>1, <2>1, <2>2, OwnStep DEF n
<1>5. CASE Context(p)
  <2> DEFINE q == run[p]
             n(r, v) == [q EXCEPT !.pc = FirstStep[q.kind], !.working = r, !.visible = v]
  <2>1. PICK r, v : q.pc = "context" /\ run' = [run EXCEPT ![p] = n(r, v)]
    BY <1>5 DEF Context, Go, At
  <2>2. q \in Process /\ FirstStep[q.kind] \in {"publish", "find", "render"}
    BY <1>1, ProcessState, FirstSteps DEF Process
  <2>3. n(r, v).pc \in {"publish", "find", "render"}
    <3> HIDE DEF q
    <3> QED
      BY <2>2 DEF Process
  <2>4. ~Publishing(p)
    BY <2>1 DEF Publishing
  <2> HIDE DEF n
  <2> QED
    BY <1>1, <2>1, <2>3, <2>4, OwnStep
<1>6. CASE Find(p)
  <2> DEFINE q == run[p]
             n(i, c) == [q EXCEPT !.row = i, !.style = rows[i].style, !.pc = c]
  <2>1. PICK i :
          /\ q.pc = "find"
          /\ run' = [run EXCEPT ![p] =
               n(i, IF rows[i].rev = q.published THEN "fork" ELSE "write")]
    BY <1>6 DEF Find, Go, At
  <2>2. PICK c : /\ c = IF rows[i].rev = q.published THEN "fork" ELSE "write"
                 /\ c \in {"fork", "write"} /\ n(i, c).pc = c
    <3>1. q \in Process
      BY <1>1, ProcessState
    <3> HIDE DEF q
    <3> QED
      BY <3>1 DEF Process
  <2>3. ~Publishing(p)
    BY <2>1 DEF Publishing
  <2> HIDE DEF n
  <2> QED
    BY <1>1, <2>1, <2>2, <2>3, OwnStep
<1>7. CASE Render(p)
  <2> DEFINE q == run[p]
             n == IF Shown(p) = {} THEN [q EXCEPT !.pc = "create"] ELSE Resting
  <2>1. q.pc = "render" /\ run' = [run EXCEPT ![p] = n]
    BY <1>7 DEF Render, Go, Done, At
  <2>2. n.pc \in {"create", "idle"}
    <3>1. q \in Process /\ Resting.pc = "idle"
      BY <1>1, ProcessState, RestingFits
    <3> HIDE DEF q, Resting
    <3> QED
      BY <3>1 DEF Process
  <2>3. ~Publishing(p)
    BY <2>1 DEF Publishing
  <2> HIDE DEF n
  <2> QED
    BY <1>1, <2>1, <2>2, <2>3, OwnStep
<1> QED
  BY <1>2, <1>3, <1>4, <1>5, <1>6, <1>7

LEMMA SiteSteps ==
    ASSUME AloneToTheEnd, NoForms
    PROVE  SiteInv /\ SiteInv' /\ [Next]_vars => [Site!Next]_(Site!site)
<1> SUFFICES ASSUME SiteInv, SiteInv', [Next]_vars
             PROVE  Site!Next \/ (Live' = Live /\ Draft' = Draft)
  BY DEF Site!site
<1>1. CASE UNCHANGED vars
  <2>1. UNCHANGED <<revs, rows>> /\ (Underway' <=> Underway)
    BY <1>1 DEF vars, Underway, Publishing
  <2> QED
    BY <2>1, QuietStutters
<1>2. CASE Next
  <2> PICK p \in Workers : Step(p)
    BY <1>2 DEF Next
  <2>1. CASE \/ Failed(p) /\ ~Publishing(p)
             \/ Begin(p) \/ Context(p) \/ QueryIds(p) \/ QueryContainers(p)
             \/ Find(p) \/ Render(p)
    BY <2>1, QuietActions, QuietStutters
  <2>2. CASE Publish(p)
    BY <2>2, PublishDeploys DEF Site!Next, Site!Publish
  <2>3. CASE Move(p) \/ Fork(p)
    BY <2>3, MoveStutters, ForkStutters
  <2>4. CASE WriteWidget(p) \/ Create(p)
    BY <2>4, WriteWidgetEdits, CreateCreates DEF Site!Next
  <2> QED
    BY <2>1, <2>2, <2>3, <2>4, NeverHalfway DEF Step
<1> QED
  BY <1>1, <1>2

\* The theme's containers are live and their drafts are the same.
LEMMA InitSiteLive == Init => Site!Init
<1> SUFFICES ASSUME Init PROVE Site!Init
  OBVIOUS
<1>1. SiteInv /\ ~Underway
  <2>1. \A p \in Workers : run[p].pc = "idle"
    BY RestingFits DEF Init
  <2> QED
    BY <2>1, InitSite DEF Underway, Publishing
<1>2. Deployed /\ Len(revs) = 2 /\ Unique(rows)
  BY <1>1, Lives DEF Init, SiteInv
<1>3. \A i \in DOMAIN rows : rows[i].rev = 1 /\ Look(rows[i]) = Site!Fresh
  BY DEF Init, Look, Site!Fresh
<1>4. \A n \in Names : Found(rows, n, 1, None) \in {Site!Fresh, None}
  <2> SUFFICES ASSUME NEW n \in Names PROVE Found(rows, n, 1, None) \in {Site!Fresh, None}
    OBVIOUS
  <2>1. CASE \E i \in DOMAIN rows : rows[i].name = n
    <3>1. PICK i \in DOMAIN rows : rows[i].name = n
      BY <2>1
    <3>2. Found(rows, n, 1, None) = Look(rows[i])
      BY <1>2, <1>3, <3>1, HasOne
    <3> QED
      BY <1>3, <3>2
  <2>2. CASE \A i \in DOMAIN rows : rows[i].name # n
    BY <2>2, HasNone
  <2> QED
    BY <2>1, <2>2
<1>5. \A n \in Names : \A o : Found(rows, n, 2, o) = o
  BY <1>3, HasNone
<1>6. /\ Live = [n \in Names |-> Found(rows, n, 1, None)]
      /\ Draft = [n \in Names |-> Found(rows, n, 2, Found(rows, n, 1, None))]
  BY <1>2 DEF Deployed
<1> QED
  BY <1>4, <1>5, <1>6 DEF Site!Init

\* Editors work on a draft, visitors see the live site, and nothing but the
\* publication deploys the draft: the revisions implement LiveSite.
THEOREM RevisionsImplementSite ==
    ASSUME AloneToTheEnd, NoForms
    PROVE  Spec => SiteSpec
<1> QED
  BY InitSiteLive, SiteSteps, SiteHolds, PTL DEF Spec, SiteSpec, Site!Spec
=============================================================================
