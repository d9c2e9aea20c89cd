------------------------------ MODULE ReaderPage ------------------------------
(***************************************************************************)
(* A page of the default theme in a reader's browser (onload.js).          *)
(*                                                                         *)
(* Two handlers are attached to the login form: one asks the API for a     *)
(* token, keeps it in the session storage and then posts the form; the     *)
(* other posts the form at once. Either reloads the page when the form is  *)
(* answered, and a page that goes takes the handlers of its calls along,   *)
(* though not the calls. Every page with a token loads the profile of its  *)
(* user into a form that can be saved. Submenus share one timer that hides *)
(* them, and a slider has as many pages as its elements fill.              *)
(*                                                                         *)
(* The server (sessions, profiles and who may see them) is modelled by     *)
(* what the page's calls rely on. Tabs, popups, galleries, the sticky and  *)
(* mobile menus and the registration are left out.                         *)
(***************************************************************************)
EXTENDS Integers

CONSTANTS
    Users, Admins,       \* readers, and those who may edit any profile
    Items,               \* items of the top menu that have a submenu
    Elements, PerRow,    \* the slider
    None,
    MaxSubmits           \* bound on the forms submitted

ASSUME UsersAssumption == Admins \subseteq Users /\ None \notin Users \cup Items
ASSUME SliderAssumption == Elements \in Nat \ {0} /\ PerRow \in Nat \ {0}
ASSUME BoundAssumption == MaxSubmits \in Nat

VARIABLES
    session,    \* user of the server's session
    stored,     \* session storage: whose token, and which user_id
    page,       \* authToken and userId of the page, user it was rendered for
    shown,      \* user whose data are in the profile form
    calls,      \* calls to the server
    saved,      \* profiles saved: of whom, whose data, by whose token
    submits,
    over,       \* item the pointer is over
    opened,     \* items whose submenu is displayed
    hide_menu,  \* item of the timer, if it runs
    current_page

account == <<session, stored, page, shown, calls, saved, submits>>
submenu == <<over, opened, hide_menu>>
vars == <<account, submenu, current_page>>

Maybe(S) == S \cup {None}

\* "token" and "form" are the calls of the first handler of the login form,
\* "login" that of the second. A call is of the user who gave the credentials or
\* whose token it carries; `id' is the profile it names, `data' what it saves.
\* The page has gone from "orphan" calls.
Ops == {"token", "form", "login", "profile", "save"}
Calls == [op : Ops, user : Users, good : BOOLEAN, id : Maybe(Users), data : Maybe(Users),
          state : {"sent", "answered", "orphan"}]

nr_pages == (Elements + PerRow - 1) \div PerRow

TypeOK ==
    /\ session \in Maybe(Users)
    /\ stored \in [token : Maybe(Users), id : Maybe(Users)]
    /\ page \in [token : Maybe(Users), id : Maybe(Users), as : Maybe(Users)]
    /\ shown \in Maybe(Users)
    /\ calls \subseteq Calls
    /\ saved \subseteq [id : Users, data : Maybe(Users), by : Users]
    /\ submits \in 0 .. MaxSubmits
    /\ over \in Maybe(Items)
    /\ opened \subseteq Items
    /\ hide_menu \in Maybe(Items)
    /\ current_page \in Int

Init ==
    /\ session = None
    /\ stored = [token |-> None, id |-> None]
    /\ page = [token |-> None, id |-> None, as |-> None]
    /\ shown = None
    /\ calls = {}
    /\ saved = {}
    /\ submits = 0
    /\ over = None
    /\ opened = {}
    /\ hide_menu = None
    /\ current_page = 0

Call(op, u, good, id, data) ==
    [op |-> op, user |-> u, good |-> good, id |-> id, data |-> data, state |-> "sent"]

Orphans == {[c EXCEPT !.state = "orphan"] : c \in {d \in calls : d.state # "answered"}}

\* Mutant of Load: the page does not read user_id.
LoadToken(as) ==
    /\ page' = [token |-> stored.token, as |-> as]
    /\ shown' = None
    /\ calls' = Orphans
    /\ over' = None
    /\ opened' = {}
    /\ hide_menu' = None
    /\ current_page' = 0

\* A page is loaded for a session: it reads the storage and asks for the profile.
Load(as) ==
    /\ page' = [token |-> stored.token, id |-> stored.id, as |-> as]
    /\ shown' = None
    /\ calls' = Orphans \cup
         (IF stored.token = None THEN {}
          ELSE {Call("profile", stored.token, TRUE, stored.id, None)})
    /\ over' = None
    /\ opened' = {}
    /\ hide_menu' = None
    /\ current_page' = 0

-----------------------------------------------------------------------------

Visit ==
    /\ Load(session)
    /\ UNCHANGED <<session, stored, saved, submits>>

\* The link of a page that was rendered for somebody. The storage stays.
Logout ==
    /\ page.as # None
    /\ session' = None
    /\ Load(None)
    /\ UNCHANGED <<stored, saved, submits>>

\* Both handlers of the login form, which others than users in session see.
SubmitLogin(u, good) ==
    /\ page.as = None
    /\ submits < MaxSubmits
    /\ submits' = submits + 1
    /\ calls' = calls \cup {Call("token", u, good, None, None), Call("login", u, good, None, None)}
    /\ UNCHANGED <<session, stored, page, shown, saved, submenu, current_page>>

\* The profile form: its data are those shown, the user the page's userId.
SubmitProfile ==
    /\ page.token # None
    /\ submits < MaxSubmits
    /\ submits' = submits + 1
    /\ calls' = calls \cup {Call("save", page.token, TRUE, page.id, shown)}
    /\ UNCHANGED <<session, stored, page, shown, saved, submenu, current_page>>

\* Mutant of MayAccess: whoever has a token may edit any profile.
MayAccessAny(c) == c.id # None

\* ProfileController: administrators, and users themselves.
MayAccess(c) == c.id # None /\ (c.user \in Admins \/ c.user = c.id)

\* The server handles a call. For both posts of the login form it answers with
\* a page, be the credentials right or wrong.
Served(c) ==
    /\ c.state # "answered"
    /\ session' = IF c.op \in {"form", "login"} /\ c.good THEN c.user ELSE session
    /\ saved' = IF c.op = "save" /\ MayAccess(c)
              THEN saved \cup {[id |-> c.id, data |-> c.data, by |-> c.user]}
              ELSE saved
    /\ calls' = (calls \ {c}) \cup
                (IF c.state = "orphan" THEN {} ELSE {[c EXCEPT !.state = "answered"]})
    /\ UNCHANGED <<stored, page, shown, submits, submenu, current_page>>

\* A call that fails on the way, and an answer that only changes a message.
Dropped(c) ==
    /\ \/ c.state # "answered"
       \/ c.op = "save"
       \/ c.op = "token" /\ ~c.good
       \/ c.op = "profile" /\ ~MayAccess(c)
    /\ calls' = calls \ {c}
    /\ UNCHANGED <<session, stored, page, shown, saved, submits, submenu, current_page>>

\* The token is stored, userId is that of the page, and the form is posted.
TokenDone(c) ==
    /\ c.op = "token" /\ c.state = "answered" /\ c.good
    /\ stored' = [token |-> c.user, id |-> c.user]
    /\ page' = [page EXCEPT !.id = c.user]
    /\ calls' = (calls \ {c}) \cup {Call("form", c.user, TRUE, None, None)}
    /\ UNCHANGED <<session, shown, saved, submits, submenu, current_page>>

\* Either post of the form reloads the page.
LoginDone(c) ==
    /\ c.op \in {"form", "login"} /\ c.state = "answered"
    /\ Load(session)
    /\ UNCHANGED <<session, stored, saved, submits>>

\* Mutant of ProfileDone: the answer is taken for that of the user of now.
ProfileOfNow(c) ==
    /\ c.op = "profile" /\ c.state = "answered" /\ MayAccess(c)
    /\ shown' = page.id
    /\ calls' = calls \ {c}
    /\ UNCHANGED <<session, stored, page, saved, submits, submenu, current_page>>

ProfileDone(c) ==
    /\ c.op = "profile" /\ c.state = "answered" /\ MayAccess(c)
    /\ shown' = c.id
    /\ calls' = calls \ {c}
    /\ UNCHANGED <<session, stored, page, saved, submits, submenu, current_page>>

-----------------------------------------------------------------------------

\* hsSubMenu. Mutants of Enter: the timer runs on; the others stay open.
EnterTimed(i) ==
    /\ over = None
    /\ over' = i
    /\ opened' = {i}
    /\ UNCHANGED <<account, hide_menu, current_page>>

EnterBeside(i) ==
    /\ over = None
    /\ over' = i
    /\ hide_menu' = None
    /\ opened' = opened \cup {i}
    /\ UNCHANGED <<account, current_page>>

Enter(i) ==
    /\ over = None
    /\ over' = i
    /\ hide_menu' = None
    /\ opened' = {i}
    /\ UNCHANGED <<account, current_page>>

Leave ==
    /\ over # None
    /\ over' = None
    /\ hide_menu' = over
    /\ UNCHANGED <<account, opened, current_page>>

\* The timer, half a second later.
Hide ==
    /\ hide_menu # None
    /\ opened' = opened \ {hide_menu}
    /\ hide_menu' = None
    /\ UNCHANGED <<account, over, current_page>>

\* hsSlide: the arrows wrap around, dots are counted behind the left arrow.
next(p) == IF p = nr_pages - 1 THEN 0 ELSE p + 1

\* Mutant of previous: it stops at no page.
previousOn(p) == p - 1

previous(p) == IF p = 0 THEN nr_pages - 1 ELSE p - 1

Slide ==
    /\ \/ current_page' = next(current_page)
       \/ current_page' = previous(current_page)
       \/ \E index \in 1 .. nr_pages : current_page' = index - 1
    /\ UNCHANGED <<account, submenu>>

\* scroll_to: the element that comes first.
first(p) == IF PerRow * p > Elements - 1 THEN Elements - 1 ELSE PerRow * p

Next ==
    \/ Visit \/ Logout \/ SubmitProfile
    \/ \E u \in Users, good \in BOOLEAN : SubmitLogin(u, good)
    \/ \E c \in calls :
         Served(c) \/ Dropped(c) \/ TokenDone(c) \/ LoginDone(c) \/ ProfileDone(c)
    \/ Leave \/ Hide
    \/ \E i \in Items : Enter(i)
    \/ Slide

Spec == Init /\ [][Next]_vars

-----------------------------------------------------------------------------

\* The profile form shows nobody's data but those of the user whose token the
\* page has, although logins change userId while the profile is on its way
\* (onload.js, LOAD USER PROFILE and posting.done).
ShownIsOwn == shown # None => shown = page.token

\* No profile is overwritten with the data of another, unless by the token of
\* an administrator: logins change userId, but not authToken, in a page that
\* shows the profile of the user before (onload.js, EDIT USER PROFILE;
\* ProfileController::checkIfCanAccess).
OwnDataOnly ==
    \A s \in saved : s.by \notin Admins => s.data \in {None, s.id}

\* The submenu the pointer is over is displayed: no timer of another hides it.
SubmenuStays == over # None => over \in opened

\* A submenu that is displayed is under the pointer or about to be hidden:
\* clearing the timer leaves none open.
SubmenuCloses == opened \subseteq {over, hide_menu}

\* The slider is at one of its pages, and at an element of it.
PageInRange ==
    /\ current_page \in 0 .. nr_pages - 1
    /\ first(current_page) = PerRow * current_page
=============================================================================
