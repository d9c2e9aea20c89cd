---------------------------- MODULE ContentCaching ----------------------------
(***************************************************************************)
(* The optional part of the theme's service worker that keeps pages for    *)
(* readers who are offline (sw-contentCaching.js).                         *)
(*                                                                         *)
(* A request for a page that the database `sections-cache' lists is        *)
(* answered by the network or, when that takes three seconds or fails, by  *)
(* the cache of sections. Any other is answered by the cache and refreshed *)
(* behind the reader's back, or by the network. Whatever is fetched is put *)
(* into a cache, the cache is cut to MaxItems, and the section is marked,  *)
(* in promises nobody waits for and that come in any order. The browser    *)
(* may stop the worker whenever no request waits for its answer.           *)
(*                                                                         *)
(* Pages have no content here: properties are about who gets an answer,    *)
(* and about what is where. The page offline.html is cached when the       *)
(* worker is installed (toolbox.precache) and never deleted.               *)
(***************************************************************************)
EXTENDS Naturals, FiniteSets

CONSTANTS
    Urls,       \* pages
    Sections,   \* those the site's pages have listed in the database
    Handlers,   \* events the worker handles at the same time
    MaxItems,   \* pages in a cache: 100 in the code
    MaxKills    \* bound on the times the browser stops the worker

ASSUME SectionsAssumption == Sections \subseteq Urls
ASSUME HandlersAssumption == IsFiniteSet(Handlers)
ASSUME BoundsAssumption == MaxItems \in Nat /\ MaxKills \in Nat

VARIABLES
    db,         \* database: what is known of each section
    cache,      \* the URLs in the two caches
    req,        \* the request of each handler
    todo,       \* promises that are left of its fetchAndCache and db_update
    old,        \* keys it still has to delete
    kills

vars == <<db, cache, req, todo, old, kills>>

Caches == {"sections", "articles"}

\* Where an event is. It fetches in "fetch", "race" and, for nobody who waits,
\* in "background".
Places == {"match", "fetch", "race", "fallback", "background", "ended"}
Answers == {"none", "page", "bad", "offline", "error"}

\* `into' is the cache a fetched page goes to.
Requests == [pc : Places, url : Urls, html : BOOLEAN, into : Caches, answer : Answers]
Free == [pc |-> "free"]

TypeOK ==
    /\ db \in [Urls -> {"absent", "listed", "cached"}]
    /\ cache \in [Caches -> SUBSET Urls]
    /\ req \in [Handlers -> Requests \cup {Free}]
    /\ todo \in [Handlers -> SUBSET {"put", "keys", "mark"}]
    /\ old \in [Handlers -> SUBSET Urls]
    /\ kills \in 0 .. MaxKills

Init ==
    /\ db = [u \in Urls |-> IF u \in Sections THEN "listed" ELSE "absent"]
    /\ cache = [c \in Caches |-> {}]
    /\ req = [h \in Handlers |-> Free]
    /\ todo = [h \in Handlers |-> {}]
    /\ old = [h \in Handlers |-> {}]
    /\ kills = 0

Holds(c, u) == u \in cache[c]

Waiting(h) == req[h].pc \in {"match", "fetch", "race", "fallback"}

-----------------------------------------------------------------------------

Go(h, pc) == [req EXCEPT ![h].pc = pc]
Answer(h, a) == [req EXCEPT ![h].pc = "ended", ![h].answer = a]

\* A GET request, for a page or by a script that takes anything: db_get tells
\* sections, which are raced, from other pages, which are looked up.
Request(h, u, html) ==
    /\ req[h] = Free
    /\ req' = [req EXCEPT ![h] =
                 IF db[u] # "absent"
                 THEN [pc |-> "race", url |-> u, html |-> html, into |-> "sections", answer |-> "none"]
                 ELSE [pc |-> "match", url |-> u, html |-> html, into |-> "articles", answer |-> "none"]]
    /\ UNCHANGED <<db, cache, todo, old, kills>>

\* caches.match: a page that is cached is the answer, and is fetched again.
Match(h) ==
    /\ req[h].pc = "match"
    /\ req' = IF \E c \in Caches : Holds(c, req[h].url)
              THEN [req EXCEPT ![h].pc = "background", ![h].answer = "page"]
              ELSE Go(h, "fetch")
    /\ UNCHANGED <<db, cache, todo, old, kills>>

\* The message pleaseCache for an article that is not cached.
PleaseCache(h, u) ==
    /\ req[h] = Free
    /\ ~Holds("articles", u)
    /\ req' = [req EXCEPT ![h] = [pc |-> "background", url |-> u, html |-> FALSE,
                                  into |-> "articles", answer |-> "none"]]
    /\ UNCHANGED <<db, cache, todo, old, kills>>

\* Three seconds without an outcome: the cached section, if there is one.
TimedOut(h) ==
    /\ req[h].pc = "race"
    /\ Holds("sections", req[h].url)
    /\ req' = [req EXCEPT ![h].pc = "background", ![h].answer = "page"]
    /\ UNCHANGED <<db, cache, todo, old, kills>>

\* offlineHandler: readers get the offline page, scripts an error.
Offline(h) == Answer(h, IF req[h].html THEN "offline" ELSE "error")

\* fetchAndCache puts the page and looks the keys up; a section is then marked.
Store(h) ==
    todo' = [todo EXCEPT ![h] = {"put", "keys"} \cup (IF req[h].into = "sections" THEN {"mark"} ELSE {})]

\* Mutant of Raced: only a section that comes after the time-out is marked.
RacedUnmarked(h) ==
    /\ req[h].pc \in {"race", "background"}
    /\ req' = IF req[h].pc = "race" THEN Answer(h, "page") ELSE Go(h, "ended")
    /\ IF req[h].pc = "race" THEN todo' = [todo EXCEPT ![h] = {"put", "keys"}] ELSE Store(h)
    /\ UNCHANGED <<db, cache, old, kills>>

\* The network comes first in the race, or after the reader was answered.
Raced(h) ==
    /\ req[h].pc \in {"race", "background"}
    /\ req' = IF req[h].pc = "race" THEN Answer(h, "page") ELSE Go(h, "ended")
    /\ Store(h)
    /\ UNCHANGED <<db, cache, old, kills>>

\* Mutant of Failed: a bad response of a section is passed on.
FailedAnswered(h) ==
    /\ req[h].pc \in {"race", "background"}
    /\ \E a \in {"bad", "none"} :
         req' = IF req[h].pc = "background" THEN Go(h, "ended")
                ELSE IF a = "bad" THEN Answer(h, "bad") ELSE Go(h, "fallback")
    /\ UNCHANGED <<db, cache, todo, old, kills>>

\* A bad response, or none: nothing is stored.
Failed(h) ==
    /\ req[h].pc \in {"race", "background"}
    /\ req' = Go(h, IF req[h].pc = "race" THEN "fallback" ELSE "ended")
    /\ UNCHANGED <<db, cache, todo, old, kills>>

Fallback(h) ==
    /\ req[h].pc = "fallback"
    /\ req' = IF Holds("sections", req[h].url) THEN Answer(h, "page") ELSE Offline(h)
    /\ UNCHANGED <<db, cache, todo, old, kills>>

\* Mutant of Passed: the fetch is not caught.
PassedUncaught(h) ==
    /\ req[h].pc = "fetch"
    /\ req' \in {Answer(h, "page"), Answer(h, "bad"), Answer(h, "rejected")}
    /\ UNCHANGED <<db, cache, todo, old, kills>>

\* What was in no cache is passed on as it comes, if it comes.
Passed(h) ==
    /\ req[h].pc = "fetch"
    /\ req' \in {Answer(h, "page"), Answer(h, "bad"), Offline(h)}
    /\ UNCHANGED <<db, cache, todo, old, kills>>

\* cache.put
Put(h) ==
    /\ "put" \in todo[h]
    /\ todo' = [todo EXCEPT ![h] = @ \ {"put"}]
    /\ cache' = [cache EXCEPT ![req[h].into] = @ \cup {req[h].url}]
    /\ UNCHANGED <<db, req, old, kills>>

Beyond(keys) ==
    IF Cardinality(keys) > MaxItems THEN Cardinality(keys) - MaxItems ELSE 0

\* Mutant of Keys: a cache that is too long is left as it is.
KeysIgnored(h) ==
    /\ "keys" \in todo[h]
    /\ todo' = [todo EXCEPT ![h] = @ \ {"keys"}]
    /\ UNCHANGED <<db, cache, req, old, kills>>

\* cache.keys: as many as there are beyond MaxItems will be deleted. The code
\* takes the oldest; no property here depends on which.
Keys(h) ==
    /\ "keys" \in todo[h]
    /\ todo' = [todo EXCEPT ![h] = @ \ {"keys"}]
    /\ \E keys \in SUBSET cache[req[h].into] :
         /\ Cardinality(keys) = Beyond(cache[req[h].into])
         /\ old' = [old EXCEPT ![h] = keys]
    /\ UNCHANGED <<db, cache, req, kills>>

Delete(h) ==
    /\ old[h] # {}
    /\ old' = [old EXCEPT ![h] = {}]
    /\ cache' = [cache EXCEPT ![req[h].into] = @ \ old[h]]
    /\ UNCHANGED <<db, req, todo, kills>>

\* db_update
Mark(h) ==
    /\ "mark" \in todo[h]
    /\ todo' = [todo EXCEPT ![h] = @ \ {"mark"}]
    /\ db' = [db EXCEPT ![req[h].url] = "cached"]
    /\ UNCHANGED <<cache, req, old, kills>>

\* Nothing of the event is left.
End(h) ==
    /\ req[h].pc = "ended"
    /\ todo[h] = {} /\ old[h] = {}
    /\ req' = [req EXCEPT ![h] = Free]
    /\ UNCHANGED <<db, cache, todo, old, kills>>

\* The browser stops a worker that has answered everything.
Stop ==
    /\ \A h \in Handlers : ~Waiting(h)
    /\ \E h \in Handlers : req[h] # Free
    /\ kills < MaxKills
    /\ kills' = kills + 1
    /\ req' = [h \in Handlers |-> Free]
    /\ todo' = [h \in Handlers |-> {}]
    /\ old' = [h \in Handlers |-> {}]
    /\ UNCHANGED <<db, cache>>

Step(h) ==
    \/ Match(h) \/ Raced(h) \/ Failed(h) \/ Fallback(h) \/ Passed(h)
    \/ Put(h) \/ Keys(h) \/ Delete(h) \/ Mark(h) \/ End(h)

Next ==
    \/ \E h \in Handlers :
         \/ \E u \in Urls, html \in BOOLEAN : Request(h, u, html)
         \/ \E u \in Urls \ Sections : PleaseCache(h, u)
         \/ Step(h) \/ TimedOut(h)
    \/ Stop

Spec == Init /\ [][Next]_vars

-----------------------------------------------------------------------------

\* A reader who asks for a page gets a page or is told to be offline, never the
\* browser's error; for a section not even the server's (sw-contentCaching.js,
\* the catch blocks of both handlers and offlineHandler).
PageOrOffline ==
    \A h \in Handlers : req[h] # Free /\ req[h].html =>
        /\ req[h].answer # "error"
        /\ req[h].into = "sections" => req[h].answer # "bad"

\* Caches do not grow: the put of a handler may come after the last look at the
\* keys, so that there is one item too many for each handler, but no more than
\* that, unless the browser has stopped the worker before it deleted what it had
\* found (sw-contentCaching.js: "Maximum items in cache is 100").
Bounded ==
    (\A h \in Handlers : req[h] = Free) /\ kills = 0 =>
        \A c \in Caches : Cardinality(cache[c]) <= MaxItems + Cardinality(Handlers)

\* Once the worker is at rest, a section that can be read offline is marked in
\* the menu, unless the browser has stopped the worker on the way (db_update).
CachedIsMarked ==
    (\A h \in Handlers : req[h] = Free) /\ kills = 0 =>
        \A u \in Urls : Holds("sections", u) => db[u] = "cached"
=============================================================================
