---------------------------- MODULE PrecacheWorker ----------------------------
(***************************************************************************)
(* The service worker of one browser (sw.js, written by sw-precache, and   *)
(* service-worker-registration.js). Each page registers /sw.js; when the   *)
(* script the site has differs from the newest the browser has, the        *)
(* browser installs it: what the script lists and the cache lacks is       *)
(* fetched and put under a key made of the file and its hash. A worker     *)
(* that is installed replaces the active one at once, and once active      *)
(* drops the keys it does not list. Files are served from the cache, or    *)
(* from the site when the key is missing.                                  *)
(*                                                                         *)
(* What browsers do (one installation at a time, no activation while       *)
(* another is under way, the states of a registration) is that of the      *)
(* Service Workers specification. HTTP caches in between are left out:     *)
(* they delay the sight of a new sw.js, and of a file that is fetched      *)
(* because its key is not cached.                                          *)
(***************************************************************************)
EXTENDS Naturals

CONSTANTS
    None,        \* no worker, and no theme
    Missing,     \* nothing cached, and no such file
    Blank,       \* an empty sw.js
    Assets,      \* the files a worker lists
    Versions     \* what they can hold; a hash stands for the version it is of

VARIABLES
    theme,       \* the site's files
    cache,       \* the cache `sw-precache-v3-...': key to body
    installing,  \* worker that is being installed: script, place and what it fetches
    waiting,     \* script that is installed and not active yet
    active,      \* script of the active worker
    activating,  \* its activate event is not over
    stale,       \* keys its event has found and will delete
    late         \* keys a worker whose installation failed still fetches

WorkerLists == [Assets -> Versions]
WorkerScripts == WorkerLists \cup {Blank}
Keys == Assets \X Versions

\* createCacheKey: the URL of a file with its hash as a parameter.
KeyOf(script, a) == <<a, script[a]>>
KeysOf(script) == IF script \in WorkerLists THEN {KeyOf(script, a) : a \in Assets} ELSE {}

Cached(k) == cache[k] # Missing

Installing == [script : WorkerScripts, pc : {"list", "fetch"}, todo : SUBSET Assets]

WorkerTypeOK ==
    /\ cache \in [Keys -> Versions \cup {Missing}]
    /\ installing \in Installing \cup {None}
    /\ waiting \in WorkerScripts \cup {None}
    /\ active \in WorkerScripts \cup {None}
    /\ activating \in {"no", "list", "drop"}
    /\ stale \in SUBSET Keys
    /\ late \in SUBSET Keys

WorkerInit ==
    /\ cache = [k \in Keys |-> Missing]
    /\ installing = None
    /\ waiting = None
    /\ active = None
    /\ activating = "no"
    /\ stale = {}
    /\ late = {}

\* What the site answers; it ignores the parameter of the key.
Site(f) == IF theme = None THEN Missing ELSE theme[f]

Newest == IF waiting # None THEN waiting ELSE active

-----------------------------------------------------------------------------

\* Mutant of Register: an error page is taken for the worker.
RegisterAnything ==
    /\ installing = None
    /\ Site("sw") # Newest
    /\ installing' = [script |-> Site("sw"), pc |-> "list", todo |-> {}]
    /\ UNCHANGED <<cache, waiting, active, activating, stale, late>>

\* A page registers the worker.
Register ==
    /\ installing = None
    /\ Site("sw") # Missing
    /\ Site("sw") # Newest
    /\ installing' = [script |-> Site("sw"), pc |-> "list", todo |-> {}]
    /\ UNCHANGED <<cache, waiting, active, activating, stale, late>>

\* The install event: setOfCachedUrls(), then a fetch for each key it lacks.
ListCached ==
    /\ installing # None
    /\ installing.pc = "list"
    /\ installing' =
         [installing EXCEPT
            !.pc = "fetch",
            !.todo = IF installing.script = Blank THEN {}
                     ELSE {a \in Assets : ~Cached(KeyOf(installing.script, a))}]
    /\ UNCHANGED <<cache, waiting, active, activating, stale, late>>

\* Mutant of Fetch: a response is not checked to be ok.
FetchAnything(a) ==
    /\ installing # None
    /\ a \in installing.todo
    /\ installing' = [installing EXCEPT !.todo = @ \ {a}]
    /\ cache' = [cache EXCEPT ![KeyOf(installing.script, a)] = Site(a)]
    /\ UNCHANGED <<waiting, active, activating, stale, late>>

Fetch(a) ==
    /\ installing # None
    /\ a \in installing.todo
    /\ Site(a) # Missing
    /\ installing' = [installing EXCEPT !.todo = @ \ {a}]
    /\ cache' = [cache EXCEPT ![KeyOf(installing.script, a)] = Site(a)]
    /\ UNCHANGED <<waiting, active, activating, stale, late>>

\* A response that is not ok, or none: the worker becomes redundant. Its other
\* fetches go on, and what they get is still put into the cache, unless the
\* browser stops the worker; it has done so when another one fails.
FetchFails(a) ==
    /\ installing # None
    /\ a \in installing.todo
    /\ installing' = None
    /\ late' = {KeyOf(installing.script, b) : b \in installing.todo \ {a}}
    /\ UNCHANGED <<cache, waiting, active, activating, stale>>

FetchedLate(k) ==
    /\ k \in late
    /\ late' = late \ {k}
    /\ cache' \in {cache} \cup
         (IF Site(k[1]) = Missing THEN {} ELSE {[cache EXCEPT ![k] = Site(k[1])]})
    /\ UNCHANGED <<installing, waiting, active, activating, stale>>

\* Everything is cached; a worker that waits already becomes redundant.
Installed ==
    /\ installing # None
    /\ installing.pc = "fetch"
    /\ installing.todo = {}
    /\ installing' = None
    /\ waiting' = installing.script
    /\ UNCHANGED <<cache, active, activating, stale, late>>

\* Mutant of Activate: skipWaiting() is not called.
ActivateFirst ==
    /\ waiting \notin {None, Blank}
    /\ active = None
    /\ activating = "no"
    /\ active' = waiting
    /\ waiting' = None
    /\ activating' = "list"
    /\ UNCHANGED <<cache, installing, stale, late>>

\* skipWaiting(): the worker replaces the active one. An empty script does not
\* skip anything and has no activate event.
Activate ==
    /\ waiting \notin {None, Blank}
    /\ activating = "no"
    /\ active' = waiting
    /\ waiting' = None
    /\ activating' = "list"
    /\ UNCHANGED <<cache, installing, stale, late>>

\* It becomes active when the last page of the site is closed.
PagesClosed ==
    /\ waiting = Blank
    /\ activating = "no"
    /\ active' = Blank
    /\ waiting' = None
    /\ UNCHANGED <<cache, installing, activating, stale, late>>

\* The activate event: the keys of the cache, those to delete, and the end.
ListOld ==
    /\ activating = "list"
    /\ activating' = "drop"
    /\ stale' = {k \in Keys : Cached(k)} \ KeysOf(active)
    /\ UNCHANGED <<cache, installing, waiting, active, late>>

Drop(k) ==
    /\ k \in stale
    /\ stale' = stale \ {k}
    /\ cache' = [cache EXCEPT ![k] = Missing]
    /\ UNCHANGED <<installing, waiting, active, activating, late>>

Activated ==
    /\ activating = "drop"
    /\ stale = {}
    /\ activating' = "no"
    /\ UNCHANGED <<cache, installing, waiting, active, stale, late>>

\* The fetch event: from the cache, else from the site.
Served(a) ==
    IF active \in WorkerLists /\ Cached(KeyOf(active, a)) THEN cache[KeyOf(active, a)] ELSE Site(a)

WorkerNext ==
    \/ Register
    \/ ListCached
    \/ \E a \in Assets : Fetch(a) \/ FetchFails(a)
    \/ \E k \in Keys : FetchedLate(k)
    \/ Installed
    \/ Activate \/ PagesClosed
    \/ ListOld
    \/ \E k \in Keys : Drop(k)
    \/ Activated

-----------------------------------------------------------------------------

\* When a browser reports that the site is available offline for the first
\* time, every file the worker lists is cached, whatever the site went through
\* while it was installed (service-worker-registration.js: "At this point,
\* everything has been precached").
FirstInstallComplete ==
    waiting \in WorkerLists /\ active = None => \A k \in KeysOf(waiting) : Cached(k)
=============================================================================
