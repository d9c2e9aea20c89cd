--------------------------- MODULE ReaderPageProofs ---------------------------
(* For any readers, menus and sliders: a page shows and saves only data of *)
(* the reader whose token it has, submenus open and close as they should,  *)
(* and the slider stays within its pages.  The reason for the first is     *)
(* that the token and the id in the storage are always of one reader, so   *)
(* that a call for a profile is for that of the token it carries           *)
(* (CallFits); a login changes the id of the page, but calls that are on   *)
(* their way keep the one they were sent with.                             *)
EXTENDS ReaderPage, TLAPS

\* A call of the page p, or of one that has gone.
CallFits(c, p) ==
    /\ c.op = "profile" => c.id = c.user
    /\ c.op = "profile" /\ c.state # "orphan" => c.user = p.token
    /\ c.op = "save" => c.data \in {None, c.user}

Account ==
    /\ stored.id = stored.token
    /\ ShownIsOwn
    /\ \A c \in calls : CallFits(c, page)
    /\ OwnDataOnly

AccountTyped ==
    /\ session \in Maybe(Users)
    /\ stored \in [token : Maybe(Users), id : Maybe(Users)]
    /\ page \in [token : Maybe(Users), id : Maybe(Users), as : Maybe(Users)]
    /\ shown \in Maybe(Users)
    /\ calls \subseteq Calls
    /\ saved \subseteq [id : Users, data : Maybe(Users), by : Users]
    /\ submits \in 0 .. MaxSubmits

SubmenuTyped ==
    /\ over \in Maybe(Items)
    /\ opened \subseteq Items
    /\ hide_menu \in Maybe(Items)

Submenu == SubmenuStays /\ SubmenuCloses

Inv ==
    /\ AccountTyped /\ Account
    /\ SubmenuTyped /\ Submenu /\ (over = None \/ hide_menu = None)
    /\ PageInRange

-----------------------------------------------------------------------------
(* The slider.                                                             *)

\* Its pages are as many as its elements fill, and each begins with one.
LEMMA Pages ==
    /\ nr_pages \in Nat \ {0}
    /\ \A p \in 0 .. nr_pages - 1 : first(p) = PerRow * p
<1> DEFINE n == Elements + PerRow - 1
<1>1. n \in Nat /\ n >= PerRow /\ PerRow \in Nat \ {0} /\ Elements \in Nat \ {0}
  BY SliderAssumption
<1>2. nr_pages \in Int /\ PerRow * nr_pages <= n /\ n < PerRow * (nr_pages + 1)
  BY <1>1 DEF nr_pages
<1>3. nr_pages >= 1
  <2> SUFFICES ASSUME nr_pages <= 0 PROVE FALSE
    BY <1>2
  <2>1. PerRow * (nr_pages + 1) <= PerRow
    BY <1>1, <1>2
  <2> QED
    BY <1>1, <1>2, <2>1
<1>4. ASSUME NEW p \in 0 .. nr_pages - 1 PROVE first(p) = PerRow * p
  <2>1. p \in Int /\ p + 1 <= nr_pages
    BY <1>2
  <2>2. PerRow * (p + 1) <= PerRow * nr_pages
    BY <1>1, <1>2, <2>1
  <2>3. PerRow * (p + 1) = PerRow * p + PerRow /\ PerRow * p \in Int
    BY <1>1, <2>1
  <2>4. PerRow * p <= Elements - 1
    BY <1>1, <1>2, <2>2, <2>3
  <2> QED
    BY <1>1, <2>3, <2>4 DEF first
<1> QED
  BY <1>2, <1>3, <1>4

\* The arrows and the dots stay within the pages.
LEMMA SlideInRange == ASSUME PageInRange, Slide PROVE PageInRange'
<1>1. nr_pages \in Nat \ {0} /\ \A p \in 0 .. nr_pages - 1 : first(p) = PerRow * p
  BY Pages
<1>2. current_page' \in 0 .. nr_pages - 1
  <2>1. CASE current_page' = next(current_page)
    BY <1>1, <2>1 DEF PageInRange, next
  <2>2. CASE current_page' = previous(current_page)
    BY <1>1, <2>2 DEF PageInRange, previous
  <2>3. CASE \E index \in 1 .. nr_pages : current_page' = index - 1
    BY <1>1, <2>3
  <2> QED
    BY <2>1, <2>2, <2>3 DEF Slide
<1>3. first(current_page') = PerRow * current_page'
  BY <1>1, <1>2
<1> QED
  BY <1>2, <1>3 DEF PageInRange, first, nr_pages

\* A page begins at the first of them.
LEMMA SliderBegins == ASSUME current_page' = 0 PROVE PageInRange'
<1>1. 0 \in 0 .. nr_pages - 1 /\ first(0) = PerRow * 0
  BY Pages
<1> QED
  BY <1>1 DEF PageInRange, first, nr_pages

-----------------------------------------------------------------------------
(* Accounts.                                                               *)

\* None is nobody.
LEMMA NobodyIsNone == None \notin Users /\ None \notin Items /\ Admins \subseteq Users
BY UsersAssumption

\* The calls of a page that has gone.
LEMMA OrphansFit ==
    ASSUME AccountTyped, Account, NEW p
    PROVE  Orphans \subseteq Calls /\ \A c \in Orphans : CallFits(c, p)
<1> SUFFICES ASSUME NEW d \in calls, d.state # "answered"
             PROVE  LET c == [d EXCEPT !.state = "orphan"] IN c \in Calls /\ CallFits(c, p)
  BY DEF Orphans
<1>1. d \in Calls /\ CallFits(d, page)
  BY DEF AccountTyped, Account
<1> QED
  BY <1>1 DEF CallFits, Calls

\* What a new call is, and whom it fits.
LEMMA CallType ==
    ASSUME NEW op \in Ops, NEW u \in Users, NEW good \in BOOLEAN, NEW id \in Maybe(Users),
           NEW data \in Maybe(Users)
    PROVE  /\ Call(op, u, good, id, data) \in Calls
           /\ Call(op, u, good, id, data).op = op
           /\ Call(op, u, good, id, data).user = u
           /\ Call(op, u, good, id, data).id = id
           /\ Call(op, u, good, id, data).data = data
           /\ Call(op, u, good, id, data).state = "sent"
BY DEF Call, Calls

\* A page that is loaded for whomever.
LEMMA LoadFits ==
    ASSUME AccountTyped, Account, NEW as \in Maybe(Users), Load(as),
           UNCHANGED <<stored, saved>>, session' \in Maybe(Users), submits' = submits
    PROVE  AccountTyped' /\ Account' /\ SubmenuTyped' /\ Submenu'
           /\ (over' = None \/ hide_menu' = None) /\ PageInRange'
<1>1. page' = [token |-> stored.token, id |-> stored.id, as |-> as]
      /\ stored \in [token : Maybe(Users), id : Maybe(Users)] /\ stored.id = stored.token
  BY DEF Load, AccountTyped, Account
<1>2. calls' \subseteq Calls /\ \A c \in calls' : CallFits(c, page')
  <2>1. Orphans \subseteq Calls /\ \A c \in Orphans : CallFits(c, page')
    BY OrphansFit
  <2>2. CASE stored.token = None
    BY <2>1, <2>2 DEF Load
  <2>3. CASE stored.token # None
    <3> DEFINE c == Call("profile", stored.token, TRUE, stored.id, None)
    <3>1. stored.token \in Users /\ stored.id \in Maybe(Users) /\ "profile" \in Ops
          /\ None \in Maybe(Users)
      BY <1>1, <2>3 DEF Maybe, Ops
    <3>2. /\ c \in Calls /\ c.op = "profile" /\ c.user = stored.token
          /\ c.id = stored.id /\ c.state = "sent"
      BY <3>1 DEF Call, Calls
    <3>3. calls' = Orphans \cup {c}
      BY <2>3 DEF Load
    <3> HIDE DEF c
    <3>4. CallFits(c, page')
      BY <1>1, <3>2 DEF CallFits
    <3> QED
      BY <2>1, <3>2, <3>3, <3>4
  <2> QED
    BY <2>2, <2>3
<1>3. AccountTyped'
  <2>1. page' \in [token : Maybe(Users), id : Maybe(Users), as : Maybe(Users)]
    BY <1>1
  <2>2. shown' \in Maybe(Users)
    BY DEF Load, Maybe
  <2> QED
    BY <1>2, <2>1, <2>2 DEF AccountTyped
<1>4. Account'
  BY <1>1, <1>2 DEF Account, ShownIsOwn, OwnDataOnly, Load
<1>5. SubmenuTyped' /\ Submenu' /\ (over' = None \/ hide_menu' = None)
  BY DEF Load, SubmenuTyped, Submenu, SubmenuStays, SubmenuCloses, Maybe
<1>6. PageInRange'
  BY SliderBegins DEF Load
<1> QED
  BY <1>3, <1>4, <1>5, <1>6

\* Where the reader's storage, page, profile form and saved profiles stay.
LEMMA CallsOnly ==
    ASSUME AccountTyped, Account, session' \in Maybe(Users), submits' \in 0 .. MaxSubmits,
           UNCHANGED <<stored, page, shown, saved>>, calls' \subseteq Calls,
           \A c \in calls' : CallFits(c, page)
    PROVE  AccountTyped' /\ Account'
BY DEF AccountTyped, Account, ShownIsOwn, OwnDataOnly

\* What is one call less fits as before.
LEMMA FewerCalls ==
    ASSUME AccountTyped, Account, NEW c \in calls
    PROVE  calls \ {c} \subseteq Calls /\ \A d \in calls \ {c} : CallFits(d, page)
BY DEF AccountTyped, Account

LEMMA VisitFits == ASSUME AccountTyped, Account, Visit
    PROVE AccountTyped' /\ Account' /\ SubmenuTyped' /\ Submenu'
           /\ (over' = None \/ hide_menu' = None) /\ PageInRange'
<1>1. session \in Maybe(Users)
  BY DEF AccountTyped
<1> QED
  BY <1>1, LoadFits DEF Visit

LEMMA LogoutFits == ASSUME AccountTyped, Account, Logout
    PROVE AccountTyped' /\ Account' /\ SubmenuTyped' /\ Submenu'
           /\ (over' = None \/ hide_menu' = None) /\ PageInRange'
<1>1. None \in Maybe(Users)
  BY DEF Maybe
<1> QED
  BY <1>1, LoadFits DEF Logout

LEMMA LoginDoneFits == ASSUME AccountTyped, Account, NEW c \in calls, LoginDone(c)
    PROVE AccountTyped' /\ Account' /\ SubmenuTyped' /\ Submenu'
           /\ (over' = None \/ hide_menu' = None) /\ PageInRange'
<1>1. session \in Maybe(Users)
  BY DEF AccountTyped
<1> QED
  BY <1>1, LoadFits DEF LoginDone

LEMMA SubmitLoginFits ==
    ASSUME AccountTyped, Account, NEW u \in Users, NEW good \in BOOLEAN, SubmitLogin(u, good)
    PROVE  AccountTyped' /\ Account'
<1> DEFINE t == Call("token", u, good, None, None)
           l == Call("login", u, good, None, None)
<1>1. t \in Calls /\ t.op = "token" /\ l \in Calls /\ l.op = "login"
  BY DEF Call, Calls, Ops, Maybe
<1>2. calls' = calls \cup {t, l}
  BY DEF SubmitLogin
<1> HIDE DEF t, l
<1>3. CallFits(t, page) /\ CallFits(l, page)
  BY <1>1 DEF CallFits
<1>4. calls' \subseteq Calls /\ \A c \in calls' : CallFits(c, page)
  BY <1>1, <1>2, <1>3 DEF AccountTyped, Account
<1>5. submits' \in 0 .. MaxSubmits
  BY BoundAssumption DEF AccountTyped, SubmitLogin
<1> QED
  BY <1>4, <1>5, CallsOnly DEF SubmitLogin, AccountTyped

LEMMA SubmitProfileFits ==
    ASSUME AccountTyped, Account, SubmitProfile
    PROVE  AccountTyped' /\ Account'
<1> DEFINE s == Call("save", page.token, TRUE, page.id, shown)
<1>1. page.token \in Users /\ page.id \in Maybe(Users) /\ shown \in Maybe(Users)
  BY DEF SubmitProfile, AccountTyped, Maybe
<1>2. s \in Calls /\ s.op = "save" /\ s.data = shown /\ s.user = page.token
  BY <1>1 DEF Call, Calls, Ops
<1>3. calls' = calls \cup {s}
  BY DEF SubmitProfile
<1> HIDE DEF s
<1>4. CallFits(s, page)
  BY <1>2 DEF CallFits, Account, ShownIsOwn
<1>5. calls' \subseteq Calls /\ \A c \in calls' : CallFits(c, page)
  BY <1>2, <1>3, <1>4 DEF AccountTyped, Account
<1>6. submits' \in 0 .. MaxSubmits
  BY BoundAssumption DEF AccountTyped, SubmitProfile
<1> QED
  BY <1>5, <1>6, CallsOnly DEF SubmitProfile, AccountTyped

\* The server saves what a call brings if its user may.
LEMMA ServedFits ==
    ASSUME AccountTyped, Account, NEW c \in calls, Served(c)
    PROVE  AccountTyped' /\ Account'
<1> DEFINE a == [c EXCEPT !.state = "answered"]
           s == [id |-> c.id, data |-> c.data, by |-> c.user]
<1>1. c \in Calls /\ CallFits(c, page)
  BY DEF AccountTyped, Account
<1>2. c.user \in Users /\ c.id \in Maybe(Users) /\ c.data \in Maybe(Users)
  BY <1>1 DEF Calls
<1>3. c.state # "orphan" => a \in Calls /\ CallFits(a, page)
  BY <1>1 DEF CallFits, Calls
<1>4. calls' \subseteq Calls /\ \A d \in calls' : CallFits(d, page)
  BY <1>3, FewerCalls DEF Served
<1>5. session' \in Maybe(Users)
  BY <1>2 DEF Served, AccountTyped, Maybe
<1>6. CASE c.op = "save" /\ MayAccess(c)
  <2>1. c.id \in Users /\ (c.user \in Admins \/ c.user = c.id)
    BY <1>2, <1>6 DEF MayAccess, Maybe
  <2>2. s \in [id : Users, data : Maybe(Users), by : Users]
    BY <1>2, <2>1
  <2>3. s.by \notin Admins => s.data \in {None, s.id}
    BY <1>1, <1>6, <2>1 DEF CallFits
  <2>4. saved' = saved \cup {s}
    BY <1>6 DEF Served
  <2> HIDE DEF s
  <2>5. saved' \subseteq [id : Users, data : Maybe(Users), by : Users] /\ OwnDataOnly'
    BY <2>2, <2>3, <2>4 DEF AccountTyped, Account, OwnDataOnly
  <2>6. AccountTyped'
    BY <1>4, <1>5, <2>5 DEF AccountTyped, Served
  <2>7. Account'
    BY <1>4, <2>5 DEF Account, ShownIsOwn, Served
  <2> QED
    BY <2>6, <2>7
<1>7. CASE ~(c.op = "save" /\ MayAccess(c))
  <2>1. saved' = saved
    BY <1>7 DEF Served
  <2> QED
    BY <1>4, <1>5, <2>1, CallsOnly DEF Served, AccountTyped
<1> QED
  BY <1>6, <1>7

LEMMA DroppedFits ==
    ASSUME AccountTyped, Account, NEW c \in calls, Dropped(c)
    PROVE  AccountTyped' /\ Account'
BY FewerCalls, CallsOnly DEF Dropped, AccountTyped

\* A login changes the id of the page, and no call that is on its way.
LEMMA TokenDoneFits ==
    ASSUME AccountTyped, Account, NEW c \in calls, TokenDone(c)
    PROVE  AccountTyped' /\ Account'
<1> DEFINE f == Call("form", c.user, TRUE, None, None)
<1>1. c.user \in Users
  BY DEF AccountTyped, Calls
<1>2. f \in Calls /\ f.op = "form"
  BY <1>1 DEF Call, Calls, Ops, Maybe
<1>3. calls' = (calls \ {c}) \cup {f}
  BY DEF TokenDone
<1> HIDE DEF f
<1>4. page' \in [token : Maybe(Users), id : Maybe(Users), as : Maybe(Users)]
      /\ page'.token = page.token
  BY <1>1 DEF TokenDone, AccountTyped, Maybe
<1>5. stored' \in [token : Maybe(Users), id : Maybe(Users)] /\ stored'.id = stored'.token
  BY <1>1 DEF TokenDone, Maybe
<1>6. calls' \subseteq Calls /\ \A d \in calls' : CallFits(d, page')
  BY <1>2, <1>3, <1>4, FewerCalls DEF CallFits
<1>7. UNCHANGED <<session, shown, saved, submits>>
  BY DEF TokenDone
<1>8. AccountTyped'
  BY <1>4, <1>5, <1>6, <1>7 DEF AccountTyped
<1>9. Account'
  BY <1>4, <1>5, <1>6, <1>7 DEF Account, ShownIsOwn, OwnDataOnly
<1> QED
  BY <1>8, <1>9

\* The profile that arrives is that of the token it was asked for with.
LEMMA ProfileDoneFits ==
    ASSUME AccountTyped, Account, NEW c \in calls, ProfileDone(c)
    PROVE  AccountTyped' /\ Account'
<1>1. c \in Calls /\ CallFits(c, page)
  BY DEF AccountTyped, Account
<1>2. shown' = page.token /\ shown' \in Maybe(Users)
  BY <1>1 DEF ProfileDone, CallFits, Calls, Maybe
<1>3. calls' \subseteq Calls /\ \A d \in calls' : CallFits(d, page)
  BY FewerCalls DEF ProfileDone
<1>4. AccountTyped'
  BY <1>2, <1>3 DEF AccountTyped, ProfileDone
<1>5. Account'
  BY <1>2, <1>3 DEF Account, ShownIsOwn, OwnDataOnly, ProfileDone
<1> QED
  BY <1>4, <1>5

-----------------------------------------------------------------------------
(* All steps.                                                              *)

LEMMA InitInv == Init => Inv
<1> SUFFICES ASSUME Init PROVE Inv
  OBVIOUS
<1>1. AccountTyped
  BY BoundAssumption DEF Init, AccountTyped, Maybe
<1>2. Account
  BY DEF Init, Account, ShownIsOwn, OwnDataOnly
<1>3. SubmenuTyped /\ Submenu /\ over = None
  BY DEF Init, SubmenuTyped, Submenu, SubmenuStays, SubmenuCloses, Maybe
<1>4. PageInRange
  BY Pages DEF Init, PageInRange
<1> QED
  BY <1>1, <1>2, <1>3, <1>4 DEF Inv

\* The pointer enters an item, leaves it, and the timer runs out.
LEMMA SubmenuSteps ==
    ASSUME SubmenuTyped, Submenu, over = None \/ hide_menu = None,
           Leave \/ Hide \/ \E i \in Items : Enter(i)
    PROVE  SubmenuTyped' /\ Submenu' /\ (over' = None \/ hide_menu' = None)
<1>1. CASE Leave
  BY <1>1 DEF Leave, SubmenuTyped, Submenu, SubmenuStays, SubmenuCloses, Maybe
<1>2. CASE Hide
  BY <1>2 DEF Hide, SubmenuTyped, Submenu, SubmenuStays, SubmenuCloses, Maybe
<1>3. CASE \E i \in Items : Enter(i)
  BY <1>3 DEF Enter, SubmenuTyped, Submenu, SubmenuStays, SubmenuCloses, Maybe
<1> QED
  BY <1>1, <1>2, <1>3

LEMMA AccountStays ==
    ASSUME AccountTyped, Account, UNCHANGED account PROVE AccountTyped' /\ Account'
BY DEF account, AccountTyped, Account, ShownIsOwn, OwnDataOnly, CallFits

LEMMA SubmenuRests ==
    ASSUME SubmenuTyped, Submenu, over = None \/ hide_menu = None, UNCHANGED submenu
    PROVE  SubmenuTyped' /\ Submenu' /\ (over' = None \/ hide_menu' = None)
BY DEF submenu, SubmenuTyped, Submenu, SubmenuStays, SubmenuCloses

LEMMA PageStays == ASSUME PageInRange, UNCHANGED current_page PROVE PageInRange'
BY DEF PageInRange, first, nr_pages

LEMMA StepInv == Inv /\ [Next]_vars => Inv'
<1> SUFFICES ASSUME Inv, [Next]_vars PROVE Inv'
  OBVIOUS
<1> USE DEF Inv
<1>1. CASE Visit
  BY <1>1, VisitFits
<1>2. CASE Logout
  BY <1>2, LogoutFits
<1>3. CASE SubmitProfile
  BY <1>3, SubmitProfileFits, SubmenuRests, PageStays DEF SubmitProfile
<1>4. CASE \E u \in Users, good \in BOOLEAN : SubmitLogin(u, good)
  BY <1>4, SubmitLoginFits, SubmenuRests, PageStays DEF SubmitLogin
<1>5. ASSUME NEW c \in calls, Served(c) PROVE Inv'
  BY <1>5, ServedFits, SubmenuRests, PageStays DEF Served
<1>6. ASSUME NEW c \in calls, Dropped(c) PROVE Inv'
  BY <1>6, DroppedFits, SubmenuRests, PageStays DEF Dropped
<1>7. ASSUME NEW c \in calls, TokenDone(c) PROVE Inv'
  BY <1>7, TokenDoneFits, SubmenuRests, PageStays DEF TokenDone
<1>8. ASSUME NEW c \in calls, LoginDone(c) PROVE Inv'
  BY <1>8, LoginDoneFits
<1>9. ASSUME NEW c \in calls, ProfileDone(c) PROVE Inv'
  BY <1>9, ProfileDoneFits, SubmenuRests, PageStays DEF ProfileDone
<1>10. CASE Leave \/ Hide \/ \E i \in Items : Enter(i)
  <2>1. UNCHANGED <<account, current_page>>
    BY <1>10 DEF Leave, Hide, Enter
  <2> QED
    BY <1>10, <2>1, SubmenuSteps, AccountStays, PageStays
<1>11. CASE Slide
  BY <1>11, SlideInRange, AccountStays, SubmenuRests DEF Slide
<1>12. CASE UNCHANGED vars
  BY <1>12, AccountStays, SubmenuRests, PageStays DEF vars
<1> QED
  BY <1>1, <1>2, <1>3, <1>4, <1>5, <1>6, <1>7, <1>8, <1>9, <1>10, <1>11, <1>12 DEF Next

LEMMA Invariance == Spec => []Inv
BY InitInv, StepInv, PTL DEF Spec

-----------------------------------------------------------------------------

LEMMA InvTypes == Inv => TypeOK
<1> SUFFICES ASSUME Inv PROVE TypeOK
  OBVIOUS
<1>1. current_page \in Int
  BY Pages DEF Inv, PageInRange
<1> QED
  BY <1>1 DEF Inv, TypeOK, AccountTyped, SubmenuTyped

\* A page is always in one of its states (onload.js).
THEOREM ReaderTyped == Spec => []TypeOK
BY Invariance, InvTypes, PTL

\* The profile form shows the data of the reader whose token the page has,
\* whoever logs in while the profile is loaded (onload.js, LOAD USER PROFILE).
THEOREM ProfileIsOwn == Spec => []ShownIsOwn
<1>1. Inv => ShownIsOwn
  BY DEF Inv, Account
<1> QED
  BY <1>1, Invariance, PTL

\* No profile is overwritten with another's data, but by an administrator's
\* token (onload.js, EDIT USER PROFILE; ProfileController::checkIfCanAccess).
THEOREM ProfilesKept == Spec => []OwnDataOnly
<1>1. Inv => OwnDataOnly
  BY DEF Inv, Account
<1> QED
  BY <1>1, Invariance, PTL

\* The submenu under the pointer is displayed, however quickly the pointer went
\* over the others whose timer it shares (onload.js, hsSubMenu).
THEOREM SubmenuUnderPointer == Spec => []SubmenuStays
<1>1. Inv => SubmenuStays
  BY DEF Inv, Submenu
<1> QED
  BY <1>1, Invariance, PTL

\* No submenu stays open that no timer will hide (onload.js, hsSubMenu).
THEOREM SubmenusClose == Spec => []SubmenuCloses
<1>1. Inv => SubmenuCloses
  BY DEF Inv, Submenu
<1> QED
  BY <1>1, Invariance, PTL

\* The slider is on one of its pages for any number of elements and any width,
\* and each page begins with an element of its own (onload.js, hsSlide).
THEOREM SliderInRange == Spec => []PageInRange
<1>1. Inv => PageInRange
  BY DEF Inv
<1> QED
  BY <1>1, Invariance, PTL
=============================================================================
