------------------------------- MODULE Revisions -------------------------------
(***************************************************************************)
(* Revisions of the containers of a tenant's templates.                    *)
(*                                                                         *)
(* A tenant has one published revision, which visitors see, and one        *)
(* working revision (status `new').  The first edit of a published         *)
(* container forks it into the working revision; publishing makes the      *)
(* working revision the published one, creates the next working revision   *)
(* and then takes along the containers that were not forked.               *)
(*                                                                         *)
(* Every request is a PHP process with an entity manager of its own.  What *)
(* it has read stays as it was read: `published' and `working' are the     *)
(* revisions of the request's context, and their status in its memory is   *)
(* the one they were found by.  A step goes up to a flush or a query.      *)
(* Modelled is a tenant whose first revision is published and whose theme  *)
(* has generated its containers.  Renaming a container, positions of       *)
(* widgets and the revision log are left out.                              *)
(***************************************************************************)
EXTENDS Naturals, Sequences

CONSTANTS
    Workers,        \* PHP processes
    Names,          \* names of containers the templates use
    Theme,          \* those the theme generates, in order
    Styles,         \* values of the form's fields (styles, cssClass, visible)
    Plain,          \* their default
    Widgets,
    None,           \* null
    Kinds,          \* kinds of requests served
    Cookies,        \* revisions whose key some browser may send
    Exclusive,      \* kinds served only while no other request is
    Fragile,        \* kinds whose process may die
    MaxRevisions    \* no publication starts once there are so many

AllKinds == {"publish", "style", "link", "unlink", "render"}

ASSUME RevisionsAssumption ==
    /\ MaxRevisions \in Nat
    /\ Kinds \subseteq AllKinds
    /\ Theme \in Seq(Names)
    /\ \A i, j \in DOMAIN Theme : Theme[i] = Theme[j] => i = j    \* swp_name_idx
    /\ Plain \in Styles
    /\ None \notin [style : Styles, widgets : SUBSET Widgets]

VARIABLES
    revs,   \* the rows of swp_revision, by id
    rows,   \* the rows of swp_container, by id
    run     \* what each process does

vars == <<revs, rows, run>>

Revision == [status : {"new", "published", "replaced"}, previous : Nat]
Container == [uuid : Nat, name : Names, rev : Nat, style : Styles,
              widgets : SUBSET Widgets]

PCs == {"idle", "context", "publish", "ids", "containers", "move",
        "find", "fork", "write", "render", "create"}

Process == [pc : PCs, kind : AllKinds, on : Nat \cup Names,
            arg : Styles \cup Widgets \cup Nat \cup {None},
            published : Nat, working : Nat, visible : SUBSET Nat,
            row : Nat, style : Styles, ids : SUBSET Nat, old : SUBSET Nat]

Resting == [pc |-> "idle", kind |-> "publish", on |-> 0, arg |-> None,
            published |-> 0, working |-> 0, visible |-> {},
            row |-> 0, style |-> Plain, ids |-> {}, old |-> {}]

Init ==
    /\ revs = <<[status |-> "published", previous |-> 0],
                [status |-> "new", previous |-> 1]>>
    /\ rows = [i \in 1 .. Len(Theme) |->
                 [uuid |-> i, name |-> Theme[i], rev |-> 1,
                  style |-> Plain, widgets |-> {}]]
    /\ run = [p \in Workers |-> Resting]

-----------------------------------------------------------------------------
(* Queries and constraints of the database.                                *)

WithStatus(s) == {r \in DOMAIN revs : revs[r].status = s}
Within(set) == {i \in DOMAIN rows : rows[i].rev \in set}

\* Mutant of Unfollowed: the association is mapped many-to-one.
AnyFollowed(r) == TRUE

\* Index on previous_revision_id (mapped one-to-one): no other revision follows r.
Unfollowed(r) == \A s \in DOMAIN revs : revs[s].previous # r

\* Index swp_name_idx: container i can become one of revision r.
Placeable(n, r) == \A j \in Within({r}) : rows[j].name # n

-----------------------------------------------------------------------------
(* Requests.                                                               *)

At(p, pc) == run[p].pc = pc
Go(p, changed) == run' = [run EXCEPT ![p] = changed]
\* The response is sent, or an exception ends the request; its transaction
\* is rolled back.
Done(p) == Go(p, Resting)
Failed(p) == Done(p) /\ UNCHANGED <<revs, rows>>

Uuids == {rows[i].uuid : i \in DOMAIN rows}
Requests ==
    {<<"publish", 0, None>>}
        \cup ({"style"} \X Uuids \X Styles)
        \cup ({"link", "unlink"} \X Uuids \X Widgets)
        \cup ({"render"} \X Names \X ((Cookies \cap DOMAIN revs) \cup {None}))

\* TenantRevisionListener, first query: the latest published revision.
Begin(p) ==
    /\ At(p, "idle")
    /\ \E q \in Requests, r \in WithStatus("published") :
         /\ q[1] \in Kinds
         /\ q[1] = "publish" => Len(revs) < MaxRevisions
         /\ \A w \in Workers : ~At(w, "idle") =>
              q[1] \notin Exclusive /\ run[w].kind \notin Exclusive
         /\ \A s \in WithStatus("published") : s <= r
         /\ Go(p, [Resting EXCEPT !.pc = "context", !.kind = q[1], !.on = q[2],
                                  !.arg = q[3], !.published = r])
    /\ UNCHANGED <<revs, rows>>

FirstStep == [publish |-> "publish", style |-> "find", link |-> "find",
              unlink |-> "find", render |-> "render"]

\* Second query: a working revision.  A key in the cookie makes a revision the
\* current one; with the working revision, containers of both are visible.
Context(p) ==
    /\ At(p, "context")
    /\ \E r \in WithStatus("new") :
         LET q == run[p]
             key == q.kind = "render" /\ q.arg # None
         IN Go(p, [q EXCEPT !.pc = FirstStep[q.kind], !.working = r, !.visible =
                     IF ~key THEN {q.published}
                     ELSE IF q.arg = r THEN {q.published, r} ELSE {q.arg}])
    /\ UNCHANGED <<revs, rows>>

-----------------------------------------------------------------------------
(* Publication.                                                            *)

\* RevisionManager::publish, up to the flush in create: one transaction.
Replaced(w) ==
    Append([r \in DOMAIN revs |->
              IF r = w THEN [revs[r] EXCEPT !.status = "published"]
              ELSE IF r = revs[w].previous THEN [revs[r] EXCEPT !.status = "replaced"]
              ELSE revs[r]],
           [status |-> "new", previous |-> w])

Publish(p) ==
    LET w == run[p].working
    IN /\ At(p, "publish") /\ Unfollowed(w)
       /\ revs' = Replaced(w)
       /\ Go(p, [run[p] EXCEPT !.pc = "ids"])
       /\ UNCHANGED rows

\* Somebody else has published it.
PublishFails(p) ==
    At(p, "publish") /\ ~Unfollowed(run[p].working) /\ Failed(p)

\* RevisionsSubscriber: which containers the new revision has,
QueryIds(p) ==
    /\ At(p, "ids")
    /\ IF revs[run[p].working].previous = 0
       THEN Done(p)
       ELSE Go(p, [run[p] EXCEPT !.pc = "containers",
                     !.ids = {rows[i].uuid : i \in Within({run[p].working})}])
    /\ UNCHANGED <<revs, rows>>

\* Mutants of Missing: the subscriber does not see the previous revision, takes
\* the forked containers as well, or looks in every revision.
NoneMissing(p) == {}
WithForked(p) == Within({revs[run[p].working].previous})
OfAnyRevision(p) == {i \in DOMAIN rows : rows[i].uuid \notin run[p].ids}

\* which of the previous one it has not,
Missing(p) ==
    {i \in Within({revs[run[p].working].previous}) : rows[i].uuid \notin run[p].ids}
QueryContainers(p) ==
    /\ At(p, "containers")
    /\ Go(p, [run[p] EXCEPT !.pc = "move", !.old = Missing(p)])
    /\ UNCHANGED <<revs, rows>>

\* and the flush that takes them along.
Move(p) ==
    LET w == run[p].working
        old == run[p].old
    IN /\ At(p, "move")
       /\ \A i \in old : Placeable(rows[i].name, w)
       /\ rows' = [i \in DOMAIN rows |->
                     IF i \in old THEN [rows[i] EXCEPT !.rev = w] ELSE rows[i]]
       /\ Done(p)
       /\ UNCHANGED revs

MoveFails(p) ==
    /\ At(p, "move")
    /\ \E i \in run[p].old : ~Placeable(rows[i].name, run[p].working)
    /\ Failed(p)

-----------------------------------------------------------------------------
(* Changes of a container.                                                 *)

\* getContainerForUpdate: the container of the working revision, or else the
\* published one.
Editable(p) ==
    LET found == {i \in Within({run[p].published, run[p].working}) :
                    rows[i].uuid = run[p].on}
        forked == {i \in found : rows[i].rev = run[p].working}
    IN IF forked = {} THEN found ELSE forked
\* It is forked if its revision was the published one when it was read.
Find(p) ==
    /\ At(p, "find")
    /\ \E i \in Editable(p) :
         Go(p, [run[p] EXCEPT !.row = i, !.style = rows[i].style, !.pc =
                  IF rows[i].rev = run[p].published THEN "fork" ELSE "write"])
    /\ UNCHANGED <<revs, rows>>

NotFound(p) == At(p, "find") /\ Editable(p) = {} /\ Failed(p)

\* Mutant of ForkOf: the form's fields are not cloned.
UnstyledFork(p) == [rows[run[p].row] EXCEPT !.rev = run[p].working, !.style = None]

\* handleForking: the clone, in the working revision, with the same widgets.
\* A form has already set its values on the original, and the flush that
\* inserts the clone writes them as well.
ForkOf(p) ==
    [rows[run[p].row] EXCEPT !.rev = run[p].working,
        !.style = IF run[p].kind = "style" THEN run[p].arg ELSE run[p].style]

WithForm(p) ==
    IF run[p].kind = "style"
    THEN [rows EXCEPT ![run[p].row].style = run[p].arg] ELSE rows

Fork(p) ==
    /\ At(p, "fork")
    /\ Placeable(rows[run[p].row].name, run[p].working)
    /\ rows' = Append(WithForm(p), ForkOf(p))
    /\ IF run[p].kind = "style" THEN Done(p)
       ELSE Go(p, [run[p] EXCEPT !.pc = "write", !.row = Len(rows) + 1])
    /\ UNCHANGED revs

ForkFails(p) ==
    /\ At(p, "fork")
    /\ ~Placeable(rows[run[p].row].name, run[p].working)
    /\ Failed(p)

\* updateContainer of a working container.
WriteStyle(p) ==
    /\ At(p, "write") /\ run[p].kind = "style"
    /\ rows' = WithForm(p)
    /\ Done(p)
    /\ UNCHANGED revs

\* linkUnlinkWidget: the query and the flush; linking twice and unlinking what
\* is not linked are conflicts.
Linked(p) == run[p].arg \in rows[run[p].row].widgets

WriteWidget(p) ==
    /\ At(p, "write")
    /\ \/ run[p].kind = "link" /\ ~Linked(p)
       \/ run[p].kind = "unlink" /\ Linked(p)
    /\ rows' = [rows EXCEPT ![run[p].row].widgets =
                  IF Linked(p) THEN @ \ {run[p].arg} ELSE @ \cup {run[p].arg}]
    /\ Done(p)
    /\ UNCHANGED revs

Conflict(p) ==
    /\ At(p, "write")
    /\ \/ run[p].kind = "link" /\ Linked(p)
       \/ run[p].kind = "unlink" /\ ~Linked(p)
    /\ Failed(p)

-----------------------------------------------------------------------------
(* Pages.                                                                  *)

Shown(p) == {i \in Within(run[p].visible) : rows[i].name = run[p].on}

\* getContainerRenderer: a container that is not found is created,
Render(p) ==
    /\ At(p, "render")
    /\ IF Shown(p) = {} THEN Go(p, [run[p] EXCEPT !.pc = "create"]) ELSE Done(p)
    /\ UNCHANGED <<revs, rows>>

\* Mutant of Home: the revision that is edited.
WorkingHome(p) == run[p].working

\* in the revision published when the request came.
Home(p) == run[p].published

Create(p) ==
    /\ At(p, "create") /\ Placeable(run[p].on, Home(p))
    /\ rows' = Append(rows, [uuid |-> Len(rows) + 1, name |-> run[p].on,
                             rev |-> Home(p), style |-> Plain, widgets |-> {}])
    /\ Done(p)
    /\ UNCHANGED revs

CreateFails(p) ==
    At(p, "create") /\ ~Placeable(run[p].on, Home(p)) /\ Failed(p)

-----------------------------------------------------------------------------
\* The process dies; what it has not flushed is lost.
Crash(p) == ~At(p, "idle") /\ run[p].kind \in Fragile /\ Failed(p)

Step(p) ==
    \/ Begin(p) \/ Context(p)
    \/ Publish(p) \/ PublishFails(p)
    \/ QueryIds(p) \/ QueryContainers(p) \/ Move(p) \/ MoveFails(p)
    \/ Find(p) \/ NotFound(p) \/ Fork(p) \/ ForkFails(p)
    \/ WriteStyle(p) \/ WriteWidget(p) \/ Conflict(p)
    \/ Render(p) \/ Create(p) \/ CreateFails(p)
    \/ Crash(p)

Next == \E p \in Workers : Step(p)

Spec == Init /\ [][Next]_vars

-----------------------------------------------------------------------------
(* Properties.                                                             *)

\* Every row and every process is well typed.
TypeOK ==
    /\ revs \in Seq(Revision)
    /\ rows \in Seq(Container)
    /\ run \in [Workers -> Process]

\* However many requests publish at the same time, a tenant has exactly one
\* published and one working revision, and the working one follows the
\* published one (RevisionManager::publish and the index on previous).
OneOfEach ==
    \E r \in DOMAIN revs, s \in DOMAIN revs :
      /\ WithStatus("published") = {r} /\ WithStatus("new") = {s}
      /\ revs[s].previous = r

\* Publications that overlap never take a container back to an older revision
\* (RevisionsSubscriber::publish).
MovesForward ==
    [][\A i \in DOMAIN rows : rows'[i].rev >= rows[i].rev]_vars

Publishing(p) == run[p].pc \in {"ids", "containers", "move"}
Published == CHOOSE r \in WithStatus("published") : TRUE
Working == CHOOSE r \in WithStatus("new") : TRUE

\* When no publication is under way, every container there is is one of the
\* live site (ContainerController and the templates look only there).
LiveComplete ==
    (\A p \in Workers : ~Publishing(p)) =>
       \A u \in Uuids : \E i \in Within({Published}) : rows[i].uuid = u

Shape(i) == [style |-> rows[i].style, widgets |-> rows[i].widgets]

\* The container of a revision, or the first choice where it has none.
In(n, r, otherwise) ==
    LET there == {i \in Within({r}) : rows[i].name = n}
    IN IF there = {} THEN otherwise ELSE Shape(CHOOSE i \in there : TRUE)

\* While containers are being taken along, visitors still own the old ones.
Live == [n \in Names |->
    In(n, Published,
       IF \E p \in Workers : Publishing(p)
       THEN In(n, revs[Published].previous, None) ELSE None)]
Draft == [n \in Names |-> In(n, Working, Live[n])]

\* The revisions implement a live site and its draft.
Site == INSTANCE LiveSite WITH
    live <- Live, draft <- Draft, Absent <- None
SiteSpec == Site!Spec
=============================================================================
