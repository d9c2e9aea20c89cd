------------------------- MODULE ContentCachingProofs -------------------------
(* For any pages, number of handlers and size of the caches: readers get   *)
(* a page or are told to be offline, sections that are cached are marked,  *)
(* and the caches stay within their bound.  The last needs an account of   *)
(* what is under way (Cutting): once nobody is about to look at the keys   *)
(* of a cache, what is in it and will stay, with what will still be put    *)
(* there, is at most MaxItems and one page for each handler; for the last  *)
(* one who looked has found all but MaxItems of what was there then, and   *)
(* every handler puts at most one page after that.                         *)
EXTENDS ContentCaching, FiniteSetTheorems, TLAPS

Busy(h) == req[h] # Free
Into(h, c) == Busy(h) /\ req[h].into = c

\* What each handler holds at its place.
Placed ==
    \A h \in Handlers :
      /\ ~Busy(h) \/ req[h].pc # "ended" => todo[h] = {} /\ old[h] = {}
      /\ Busy(h) /\ req[h].pc \in {"match", "fetch"} => req[h].into = "articles"

\* A page in the cache of sections, or about to be put there, is marked or
\* about to be.
Marks(h, u) == Busy(h) /\ req[h].url = u /\ "mark" \in todo[h]
Marked(u) == db[u] = "cached" \/ \E h \in Handlers : Marks(h, u)
Marking ==
    kills = 0 =>
      /\ \A u \in cache["sections"] : Marked(u)
      /\ \A h \in Handlers : Into(h, "sections") /\ "put" \in todo[h] => Marked(req[h].url)

\* What is in a cache and not about to be deleted, who will put a page into it,
\* and that somebody will look at its keys.
Staying(c) == {u \in cache[c] : \A h \in Handlers : Into(h, c) => u \notin old[h]}
Putting(c) == {h \in Handlers : Into(h, c) /\ "put" \in todo[h]}
Looking(c) == \E h \in Handlers : Into(h, c) /\ "keys" \in todo[h]

Finite == \A c \in Caches : IsFiniteSet(cache[c])
Cutting ==
    kills = 0 => \A c \in Caches :
      Looking(c) \/ Cardinality(Staying(c)) + Cardinality(Putting(c))
                      <= MaxItems + Cardinality(Handlers)

Inv == TypeOK /\ Placed /\ PageOrOffline /\ Marking /\ Finite /\ Cutting

-----------------------------------------------------------------------------

LEMMA RequestFacts ==
    /\ Free.pc = "free"
    /\ \A r \in Requests : /\ r # Free /\ r.pc \in Places /\ r.url \in Urls
                           /\ r.html \in BOOLEAN /\ r.into \in Caches /\ r.answer \in Answers
BY DEF Free, Requests, Places

LEMMA BusyFacts ==
    ASSUME TypeOK, NEW h \in Handlers
    PROVE  /\ Busy(h) => req[h] \in Requests
           /\ req[h].pc \in Places => Busy(h)
           /\ cache \in [Caches -> SUBSET Urls]
           /\ todo[h] \in SUBSET {"put", "keys", "mark"} /\ old[h] \in SUBSET Urls
BY RequestFacts DEF TypeOK, Busy, Places

LEMMA InitInv == Init => Inv
<1> SUFFICES ASSUME Init PROVE Inv
  OBVIOUS
<1> USE DEF Init
<1>1. TypeOK
  BY BoundsAssumption DEF TypeOK
<1>2. Placed /\ Marking /\ PageOrOffline
  BY DEF Placed, Busy, Marking, Into, PageOrOffline, Caches
<1>3. Finite
  BY FS_EmptySet DEF Finite
<1>4. Cutting
  <2> SUFFICES ASSUME NEW c \in Caches
               PROVE  Cardinality(Staying(c)) + Cardinality(Putting(c))
                        <= MaxItems + Cardinality(Handlers)
    BY DEF Cutting
  <2>1. Staying(c) = {} /\ Putting(c) = {}
    BY DEF Staying, Putting, Into, Busy
  <2>2. Cardinality(Handlers) \in Nat
    BY HandlersAssumption, FS_CardinalityType
  <2> QED
    BY <2>1, <2>2, FS_EmptySet, BoundsAssumption
<1> QED
  BY <1>1, <1>2, <1>3, <1>4 DEF Inv

\* What the account of a cache is made of does not change.
LEMMA SameAccount ==
    ASSUME Cutting, kills' = kills,
           \A c \in Caches :
             /\ Staying(c)' = Staying(c) /\ Putting(c)' = Putting(c)
             /\ Looking(c) => Looking(c)'
    PROVE  Cutting'
BY DEF Cutting

\* An event goes to its next place and has nothing to store.
LEMMA MoveStep ==
    ASSUME Inv, NEW h \in Handlers, Busy(h), req[h].pc # "ended",
           NEW r \in Requests, r.url = req[h].url, r.html = req[h].html, r.into = req[h].into,
           req' = [req EXCEPT ![h] = r], UNCHANGED <<db, cache, todo, old, kills>>,
           r.pc \in {"match", "fetch"} => r.into = "articles",
           r.html => r.answer # "error" /\ (r.into = "sections" => r.answer # "bad")
    PROVE  Inv'
<1>1. \A g \in Handlers : req'[g] = IF g = h THEN r ELSE req[g]
  BY DEF Inv, TypeOK
<1>2. TypeOK'
  BY DEF Inv, TypeOK
<1>3. \A g \in Handlers : \A c : (Busy(g)' <=> Busy(g)) /\ (Into(g, c)' <=> Into(g, c))
  BY <1>1, RequestFacts DEF Busy, Into
<1>4. \A g \in Handlers : \A u : Marks(g, u)' <=> Marks(g, u)
  BY <1>1, <1>3, RequestFacts DEF Marks
<1>5. Placed'
  BY <1>1, <1>3, RequestFacts DEF Inv, Placed, Busy
<1>6. PageOrOffline'
  BY <1>1 DEF Inv, PageOrOffline
<1>7. Marking'
  BY <1>1, <1>3, <1>4 DEF Inv, Marking, Marked
<1>8. Cutting'
  <2>1. \A c \in Caches : /\ Staying(c)' = Staying(c) /\ Putting(c)' = Putting(c)
                          /\ Looking(c) => Looking(c)'
    BY <1>3 DEF Staying, Putting, Looking
  <2> QED
    BY <2>1, SameAccount DEF Inv
<1> QED
  BY <1>2, <1>5, <1>6, <1>7, <1>8 DEF Inv, Finite

\* A handler takes an event, or is done with one.
LEMMA TurnStep ==
    ASSUME Inv, NEW h \in Handlers, NEW r \in Requests \cup {Free},
           \/ ~Busy(h) /\ r \in Requests /\ r.pc # "ended" /\ r.answer = "none"
           \/ Busy(h) /\ r = Free,
           todo[h] = {}, old[h] = {},
           req' = [req EXCEPT ![h] = r], UNCHANGED <<db, cache, todo, old, kills>>,
           r \in Requests /\ r.pc \in {"match", "fetch"} => r.into = "articles"
    PROVE  Inv'
<1>1. \A g \in Handlers : req'[g] = IF g = h THEN r ELSE req[g]
  BY DEF Inv, TypeOK
<1>2. TypeOK'
  BY DEF Inv, TypeOK
<1>3. \A g \in Handlers \ {h} : \A c : (Busy(g)' <=> Busy(g)) /\ (Into(g, c)' <=> Into(g, c))
  BY <1>1 DEF Busy, Into
<1>4. \A g \in Handlers : \A u : Marks(g, u)' <=> Marks(g, u)
  BY <1>1, <1>3 DEF Marks
<1>5. Placed'
  BY <1>1, <1>3, RequestFacts DEF Inv, Placed, Busy
<1>6. PageOrOffline'
  BY <1>1, RequestFacts DEF Inv, PageOrOffline, Busy
<1>7. Marking'
  BY <1>1, <1>3, <1>4 DEF Inv, Marking, Marked
<1>8. Cutting'
  <2>1. \A c \in Caches : /\ Staying(c)' = Staying(c) /\ Putting(c)' = Putting(c)
                          /\ Looking(c) => Looking(c)'
    BY <1>3 DEF Staying, Putting, Looking
  <2> QED
    BY <2>1, SameAccount DEF Inv
<1> QED
  BY <1>2, <1>5, <1>6, <1>7, <1>8 DEF Inv, Finite

-----------------------------------------------------------------------------
(* The promises nobody waits for.                                          *)

\* A fetched page is about to be stored.
LEMMA StoreStep ==
    ASSUME Inv, NEW h \in Handlers, Raced(h)
    PROVE  Inv'
<1> DEFINE r == req'[h]
<1>1. Busy(h) /\ req[h] \in Requests /\ todo[h] = {} /\ old[h] = {}
  BY BusyFacts DEF Inv, Raced, Placed, Places
<1>2. /\ req' = [req EXCEPT ![h] = r] /\ r \in Requests /\ r.pc = "ended"
      /\ r.url = req[h].url /\ r.html = req[h].html /\ r.into = req[h].into
      /\ r.answer \in {req[h].answer, "page"}
  BY <1>1 DEF Inv, TypeOK, Raced, Answer, Go, Requests, Places, Answers
<1>3. \A g \in Handlers : /\ req'[g] = IF g = h THEN r ELSE req[g]
                          /\ g # h => todo'[g] = todo[g]
  BY <1>2 DEF Inv, TypeOK, Raced, Store
<1>4. /\ {"put", "keys"} \subseteq todo'[h]
      /\ req[h].into = "sections" => "mark" \in todo'[h]
      /\ todo' \in [Handlers -> SUBSET {"put", "keys", "mark"}]
  BY DEF Inv, TypeOK, Raced, Store
<1>5. UNCHANGED <<db, cache, old, kills>>
  BY DEF Raced
<1> HIDE DEF r
<1>6. TypeOK'
  BY <1>2, <1>4, <1>5 DEF Inv, TypeOK
<1>7. \A g \in Handlers : \A c : (Busy(g)' <=> Busy(g)) /\ (Into(g, c)' <=> Into(g, c))
  BY <1>1, <1>2, <1>3, RequestFacts DEF Busy, Into
<1>8. Placed'
  BY <1>2, <1>3, <1>5, <1>7, RequestFacts DEF Inv, Placed, Busy
<1>9. PageOrOffline'
  BY <1>1, <1>2, <1>3, RequestFacts DEF Inv, PageOrOffline, Busy
<1>10. Marking'
  <2>1. \A u : Marked(u) => Marked(u)'
    BY <1>1, <1>3, <1>5, <1>7 DEF Marked, Marks
  <2>2. Into(h, "sections") => Marked(req[h].url)'
    BY <1>1, <1>2, <1>4, <1>7 DEF Marked, Marks, Into
  <2> QED
    BY <1>2, <1>3, <1>5, <1>7, <2>1, <2>2 DEF Inv, Marking
<1>11. Cutting'
  <2> SUFFICES ASSUME kills = 0, NEW c \in Caches, ~Looking(c)'
               PROVE  (Cardinality(Staying(c)) + Cardinality(Putting(c))
                        <= MaxItems + Cardinality(Handlers))'
    BY <1>5 DEF Cutting
  <2>1. ~Into(h, c) /\ ~Looking(c)
    BY <1>1, <1>3, <1>4, <1>7 DEF Looking
  <2>2. Staying(c)' = Staying(c)
    BY <1>5, <1>7 DEF Staying
  <2>3. Putting(c)' = Putting(c)
    BY <2>1, <1>3, <1>7 DEF Putting
  <2> QED
    BY <2>1, <2>2, <2>3 DEF Inv, Cutting
<1> QED
  BY <1>5, <1>6, <1>8, <1>9, <1>10, <1>11 DEF Inv, Finite

\* Steps of an event that has ended change no request.
LEMMA SameRequests ==
    ASSUME req' = req
    PROVE  \A g \in Handlers : \A c : (Busy(g)' <=> Busy(g)) /\ (Into(g, c)' <=> Into(g, c))
BY DEF Busy, Into

\* An event with something left to do has ended.
LEMMA LeftOver ==
    ASSUME Inv, NEW h \in Handlers, todo[h] # {} \/ old[h] # {}
    PROVE  /\ Busy(h) /\ req[h].pc = "ended" /\ req[h] \in Requests
           /\ req[h].into \in Caches /\ req[h].url \in Urls
BY BusyFacts, RequestFacts DEF Inv, Placed

LEMMA PutStep ==
    ASSUME Inv, NEW h \in Handlers, Put(h)
    PROVE  Inv'
<1> DEFINE i == req[h].into  x == req[h].url
<1>1. Busy(h) /\ req[h].pc = "ended" /\ i \in Caches /\ x \in Urls
  BY LeftOver DEF Put
<1>2. UNCHANGED <<db, req, old, kills>>
  BY DEF Put
<1>3. /\ \A g \in Handlers : todo'[g] = IF g = h THEN todo[h] \ {"put"} ELSE todo[g]
      /\ \A c \in Caches : cache'[c] = IF c = i THEN cache[i] \cup {x} ELSE cache[c]
  BY <1>1 DEF Inv, TypeOK, Put
<1>4. TypeOK'
  BY <1>1 DEF Inv, TypeOK, Put
<1> HIDE DEF i, x
<1>5. \A g \in Handlers : \A c : (Busy(g)' <=> Busy(g)) /\ (Into(g, c)' <=> Into(g, c))
  BY <1>2, SameRequests
<1>6. Placed' /\ PageOrOffline'
  BY <1>1, <1>2, <1>3, <1>5 DEF Inv, Placed, PageOrOffline
<1>7. Marking'
  <2>1. \A u : Marked(u)' <=> Marked(u)
    BY <1>2, <1>3, <1>5 DEF Marked, Marks
  <2>2. kills = 0 /\ i = "sections" => Marked(x)
    BY <1>1 DEF Inv, Marking, Into, Put, i, x
  <2> QED
    BY <1>2, <1>3, <1>5, <2>1, <2>2 DEF Inv, Marking, Caches
<1>8. Finite'
  BY <1>3, FS_AddElement DEF Inv, Finite
<1>9. Cutting'
  <2> SUFFICES ASSUME kills = 0, NEW c \in Caches, ~Looking(c)'
               PROVE  (Cardinality(Staying(c)) + Cardinality(Putting(c))
                        <= MaxItems + Cardinality(Handlers))'
    BY <1>2 DEF Cutting
  <2>1. ~Looking(c)
    BY <1>3, <1>5 DEF Looking
  <2>2. Cardinality(Staying(c)) + Cardinality(Putting(c)) <= MaxItems + Cardinality(Handlers)
    BY <2>1 DEF Inv, Cutting
  <2>3. CASE c # i
    <3>1. Staying(c)' = Staying(c)
      BY <1>2, <1>3, <1>5, <2>3 DEF Staying
    <3>2. Putting(c)' = Putting(c)
      BY <1>3, <1>5, <2>3 DEF Putting, Into, i
    <3> QED
      BY <2>2, <3>1, <3>2
  <2>4. CASE c = i
    <3>1. IsFiniteSet(Staying(c)) /\ IsFiniteSet(Putting(c))
      <4>1. Staying(c) \subseteq cache[c] /\ Putting(c) \subseteq Handlers
        BY DEF Staying, Putting
      <4> QED
        BY <4>1, FS_Subset, HandlersAssumption DEF Inv, Finite
    <3>2. Staying(c)' \subseteq Staying(c) \cup {x}
      BY <1>2, <1>3, <1>5, <2>4 DEF Staying
    <3>3. Cardinality(Staying(c)') <= Cardinality(Staying(c)) + 1
      <4>1. /\ IsFiniteSet(Staying(c) \cup {x})
            /\ Cardinality(Staying(c) \cup {x}) <= Cardinality(Staying(c)) + 1
        <5>1. /\ IsFiniteSet(Staying(c) \cup {x})
              /\ Cardinality(Staying(c) \cup {x})
                   \in {Cardinality(Staying(c)), Cardinality(Staying(c)) + 1}
          BY <3>1, FS_AddElement
        <5>2. Cardinality(Staying(c)) \in Nat
          BY <3>1, FS_CardinalityType
        <5> QED
          BY <5>1, <5>2
      <4>2. Cardinality(Staying(c)') <= Cardinality(Staying(c) \cup {x}) /\ IsFiniteSet(Staying(c)')
        BY <3>2, <4>1, FS_Subset
      <4> QED
        BY <4>1, <4>2, <3>1, FS_CardinalityType
    <3>4. h \in Putting(c) /\ Putting(c)' = Putting(c) \ {h}
      BY <1>1, <1>3, <1>5, <2>4 DEF Putting, Put, Into, i
    <3>5. Cardinality(Putting(c)') = Cardinality(Putting(c)) - 1
      BY <3>1, <3>4, FS_RemoveElement
    <3>6. /\ Cardinality(Staying(c)) \in Nat /\ Cardinality(Putting(c)) \in Nat
          /\ Cardinality(Staying(c)') \in Nat /\ Cardinality(Handlers) \in Nat
      <4>1. IsFiniteSet(Staying(c)')
        BY <3>1, <3>2, FS_AddElement, FS_Subset
      <4> QED
        BY <3>1, <4>1, HandlersAssumption, FS_CardinalityType
    <3> HIDE DEF Staying, Putting
    <3> QED
      BY <1>2, <2>2, <3>3, <3>5, <3>6, BoundsAssumption
  <2> QED
    BY <2>3, <2>4
<1> QED
  BY <1>4, <1>6, <1>7, <1>8, <1>9 DEF Inv

LEMMA KeysStep ==
    ASSUME Inv, NEW h \in Handlers, Keys(h)
    PROVE  Inv'
<1> DEFINE i == req[h].into
<1>1. Busy(h) /\ req[h].pc = "ended" /\ i \in Caches
  BY LeftOver DEF Keys
<1>2. UNCHANGED <<db, cache, req, kills>>
  BY DEF Keys
<1>3. PICK keys \in SUBSET cache[i] :
        Cardinality(keys) = Beyond(cache[i]) /\ old' = [old EXCEPT ![h] = keys]
  BY DEF Keys
<1>4. \A g \in Handlers : /\ todo'[g] = IF g = h THEN todo[h] \ {"keys"} ELSE todo[g]
                          /\ old'[g] = IF g = h THEN keys ELSE old[g]
  BY <1>3 DEF Inv, TypeOK, Keys
<1>5. TypeOK'
  BY <1>1, <1>2, <1>3 DEF Inv, TypeOK, Keys
<1>6. \A g \in Handlers : \A c : (Busy(g)' <=> Busy(g)) /\ (Into(g, c)' <=> Into(g, c))
  BY <1>2, SameRequests
<1>7. Placed' /\ PageOrOffline'
  BY <1>1, <1>2, <1>4, <1>6 DEF Inv, Placed, PageOrOffline
<1>8. Marking'
  <2>1. \A u : Marked(u)' <=> Marked(u)
    BY <1>2, <1>4, <1>6 DEF Marked, Marks
  <2> QED
    BY <1>2, <1>4, <1>6, <2>1 DEF Inv, Marking
<1>9. Cutting'
  <2> SUFFICES ASSUME kills = 0, NEW c \in Caches, ~Looking(c)'
               PROVE  (Cardinality(Staying(c)) + Cardinality(Putting(c))
                        <= MaxItems + Cardinality(Handlers))'
    BY <1>2 DEF Cutting
  <2>1. CASE c # i
    <3>1. ~Looking(c)
      BY <1>4, <1>6, <2>1 DEF Looking, Into, i
    <3>2. Staying(c)' = Staying(c)
      BY <1>2, <1>4, <1>6, <2>1 DEF Staying, Into, i
    <3>3. Putting(c)' = Putting(c)
      BY <1>4, <1>6 DEF Putting
    <3> QED
      BY <3>1, <3>2, <3>3 DEF Inv, Cutting
  <2>2. CASE c = i
    <3>1. IsFiniteSet(cache[c]) /\ IsFiniteSet(cache[c] \ keys)
      BY FS_Subset DEF Inv, Finite
    <3>2. Staying(c)' \subseteq cache[c] \ keys
      BY <1>1, <1>2, <1>4, <1>6, <2>2 DEF Staying, Into, i
    <3>3. Cardinality(cache[c] \ keys) <= MaxItems
      <4>1. cache[c] \cap keys = keys
        BY <1>3, <2>2
      <4>2. Cardinality(cache[c] \ keys) = Cardinality(cache[c]) - Cardinality(keys)
        <5>1. IsFiniteSet(keys)
          BY <3>1, <1>3, <2>2, FS_Subset
        <5> QED
          BY <3>1, <4>1, <5>1, FS_Difference
      <4>3. Cardinality(cache[c]) \in Nat
        BY <3>1, FS_CardinalityType
      <4> QED
        BY <1>3, <2>2, <4>2, <4>3, BoundsAssumption DEF Beyond
    <3>4. Putting(c)' \subseteq Handlers
      BY DEF Putting
    <3>5. /\ IsFiniteSet(Staying(c)') /\ Cardinality(Staying(c)') <= Cardinality(cache[c] \ keys)
          /\ IsFiniteSet(Putting(c)') /\ Cardinality(Putting(c)') <= Cardinality(Handlers)
      BY <3>1, <3>2, <3>4, FS_Subset, HandlersAssumption
    <3>6. /\ Cardinality(Staying(c)') \in Nat /\ Cardinality(Putting(c)') \in Nat
          /\ Cardinality(Handlers) \in Nat /\ Cardinality(cache[c] \ keys) \in Nat
      BY <3>1, <3>5, HandlersAssumption, FS_CardinalityType
    <3> HIDE DEF Staying, Putting
    <3> QED
      BY <3>3, <3>5, <3>6, BoundsAssumption
  <2> QED
    BY <2>1, <2>2
<1> QED
  BY <1>2, <1>5, <1>7, <1>8, <1>9 DEF Inv, Finite

LEMMA DeleteStep ==
    ASSUME Inv, NEW h \in Handlers, Delete(h)
    PROVE  Inv'
<1> DEFINE i == req[h].into
<1>1. Busy(h) /\ req[h].pc = "ended" /\ i \in Caches
  BY LeftOver DEF Delete
<1>2. UNCHANGED <<db, req, todo, kills>>
  BY DEF Delete
<1>3. /\ \A g \in Handlers : old'[g] = IF g = h THEN {} ELSE old[g]
      /\ \A c \in Caches : cache'[c] = IF c = i THEN cache[i] \ old[h] ELSE cache[c]
  BY <1>1 DEF Inv, TypeOK, Delete
<1>4. TypeOK'
  BY <1>1 DEF Inv, TypeOK, Delete
<1>5. \A g \in Handlers : \A c : (Busy(g)' <=> Busy(g)) /\ (Into(g, c)' <=> Into(g, c))
  BY <1>2, SameRequests
<1>6. Placed' /\ PageOrOffline'
  BY <1>1, <1>2, <1>3, <1>5 DEF Inv, Placed, PageOrOffline
<1>7. \A c \in Caches : cache'[c] \subseteq cache[c]
  BY <1>3
<1>8. Marking'
  <2>1. \A u : Marked(u)' <=> Marked(u)
    BY <1>2, <1>5 DEF Marked, Marks
  <2> QED
    BY <1>2, <1>5, <1>7, <2>1 DEF Inv, Marking, Caches
<1>9. Finite'
  BY <1>7, FS_Subset DEF Inv, Finite
<1>10. Cutting'
  <2>1. \A c \in Caches : Staying(c)' = Staying(c)
    BY <1>1, <1>3, <1>5 DEF Staying, Into, i
  <2>2. \A c \in Caches : Putting(c)' = Putting(c) /\ (Looking(c) => Looking(c)')
    BY <1>2, <1>5 DEF Putting, Looking
  <2> QED
    BY <1>2, <2>1, <2>2, SameAccount DEF Inv
<1> QED
  BY <1>4, <1>6, <1>8, <1>9, <1>10 DEF Inv

LEMMA MarkStep ==
    ASSUME Inv, NEW h \in Handlers, Mark(h)
    PROVE  Inv'
<1> DEFINE x == req[h].url
<1>1. Busy(h) /\ req[h].pc = "ended" /\ x \in Urls
  BY LeftOver DEF Mark
<1>2. UNCHANGED <<cache, req, old, kills>>
  BY DEF Mark
<1>3. /\ \A g \in Handlers : todo'[g] = IF g = h THEN todo[h] \ {"mark"} ELSE todo[g]
      /\ \A u \in Urls : db'[u] = IF u = x THEN "cached" ELSE db[u]
  BY <1>1 DEF Inv, TypeOK, Mark
<1>4. TypeOK'
  BY <1>1 DEF Inv, TypeOK, Mark
<1>5. \A g \in Handlers : \A c : (Busy(g)' <=> Busy(g)) /\ (Into(g, c)' <=> Into(g, c))
  BY <1>2, SameRequests
<1>6. Placed' /\ PageOrOffline'
  BY <1>1, <1>2, <1>3, <1>5 DEF Inv, Placed, PageOrOffline
<1>7. Marking'
  <2>1. \A u \in Urls : Marked(u) => Marked(u)'
    BY <1>2, <1>3, <1>5 DEF Marked, Marks, x
  <2>2. \A g \in Handlers : Busy(g) => req[g].url \in Urls
    BY BusyFacts, RequestFacts DEF Inv
  <2>3. cache["sections"] \subseteq Urls
    BY DEF Inv, TypeOK, Caches
  <2> QED
    BY <1>2, <1>3, <1>5, <2>1, <2>2, <2>3 DEF Inv, Marking, Into
<1>8. Cutting'
  <2>1. \A c \in Caches : /\ Staying(c)' = Staying(c) /\ Putting(c)' = Putting(c)
                          /\ Looking(c) => Looking(c)'
    BY <1>2, <1>3, <1>5 DEF Staying, Putting, Looking
  <2> QED
    BY <1>2, <2>1, SameAccount DEF Inv
<1> QED
  BY <1>2, <1>4, <1>6, <1>7, <1>8 DEF Inv, Finite

LEMMA StopStep == Inv /\ Stop => Inv'
<1> SUFFICES ASSUME Inv, Stop PROVE Inv'
  OBVIOUS
<1>1. /\ UNCHANGED <<db, cache>> /\ kills' = kills + 1 /\ kills < MaxKills
      /\ \A h \in Handlers : req'[h] = Free /\ todo'[h] = {} /\ old'[h] = {}
  BY DEF Stop
<1>2. kills \in Nat /\ kills' # 0
  BY <1>1, BoundsAssumption DEF Inv, TypeOK
<1>3. TypeOK'
  BY <1>1, <1>2, BoundsAssumption DEF Inv, TypeOK, Stop
<1>4. Placed' /\ PageOrOffline'
  BY <1>1 DEF Placed, PageOrOffline, Busy
<1> QED
  BY <1>1, <1>2, <1>3, <1>4 DEF Inv, Finite, Marking, Cutting

-----------------------------------------------------------------------------

LEMMA RequestStep ==
    ASSUME Inv, NEW h \in Handlers, NEW u \in Urls, NEW html \in BOOLEAN,
           Request(h, u, html) \/ PleaseCache(h, u)
    PROVE  Inv'
<1>1. ~Busy(h) /\ todo[h] = {} /\ old[h] = {}
  BY DEF Inv, Placed, Request, PleaseCache, Busy
<1>2. PICK r \in Requests :
        /\ req' = [req EXCEPT ![h] = r]
        /\ r.pc # "ended" /\ r.answer = "none"
        /\ r.pc \in {"match", "fetch"} => r.into = "articles"
  <2>1. PICK pc \in {"race", "match", "background"}, x \in BOOLEAN, into \in Caches :
          /\ req' = [req EXCEPT ![h] = [pc |-> pc, url |-> u, html |-> x, into |-> into,
                                        answer |-> "none"]]
          /\ pc = "match" => into = "articles"
    BY DEF Request, PleaseCache, Caches
  <2> DEFINE r == [pc |-> pc, url |-> u, html |-> x, into |-> into, answer |-> "none"]
  <2>2. r \in Requests
    BY DEF Requests, Places, Answers
  <2> QED
    BY <2>1, <2>2
<1>3. UNCHANGED <<db, cache, todo, old, kills>>
  BY DEF Request, PleaseCache
<1> QED
  BY <1>1, <1>2, <1>3, TurnStep

LEMMA EndStep ==
    ASSUME Inv, NEW h \in Handlers, End(h)
    PROVE  Inv'
<1>1. Busy(h)
  BY BusyFacts DEF Inv, End, Places
<1> QED
  BY <1>1, RequestFacts, TurnStep DEF End

\* The steps of an event that store nothing.
LEMMA AnswerStep ==
    ASSUME Inv, NEW h \in Handlers,
           Match(h) \/ TimedOut(h) \/ Failed(h) \/ Fallback(h) \/ Passed(h)
    PROVE  Inv'
<1> DEFINE r == req'[h]
<1>1. Busy(h) /\ req[h].pc # "ended" /\ req[h] \in Requests
  BY BusyFacts DEF Inv, Match, TimedOut, Failed, Fallback, Passed, Places
<1>2. /\ req' = [req EXCEPT ![h] = r] /\ r \in Requests
      /\ r.url = req[h].url /\ r.html = req[h].html /\ r.into = req[h].into
  BY <1>1 DEF Inv, TypeOK, Match, TimedOut, Failed, Fallback, Passed, Answer, Go, Offline,
              Requests, Places, Answers
<1>3. r.pc \in {"match", "fetch"} => r.into = "articles"
  BY <1>1 DEF Inv, TypeOK, Placed, Match, TimedOut, Failed, Fallback, Passed, Answer, Go, Offline,
              Requests
<1>4. r.html => r.answer # "error" /\ (r.into = "sections" => r.answer # "bad")
  BY <1>1 DEF Inv, TypeOK, Placed, PageOrOffline, Busy, Match, TimedOut, Failed, Fallback, Passed,
              Answer, Go, Offline, Requests
<1>5. UNCHANGED <<db, cache, todo, old, kills>>
  BY DEF Match, TimedOut, Failed, Fallback, Passed
<1> QED
  BY <1>1, <1>2, <1>3, <1>4, <1>5, MoveStep

LEMMA StepInv == Inv /\ [Next]_vars => Inv'
<1> SUFFICES ASSUME Inv, [Next]_vars PROVE Inv'
  OBVIOUS
<1>1. ASSUME NEW h \in Handlers, NEW u \in Urls, NEW html \in BOOLEAN, Request(h, u, html)
      PROVE  Inv'
  BY <1>1, RequestStep
<1>2. ASSUME NEW h \in Handlers, NEW u \in Urls \ Sections, PleaseCache(h, u)
      PROVE  Inv'
  BY <1>2, RequestStep
<1>3. ASSUME NEW h \in Handlers, Step(h) \/ TimedOut(h)
      PROVE  Inv'
  <2>1. CASE Raced(h)
    BY <2>1, StoreStep
  <2>2. CASE Match(h) \/ TimedOut(h) \/ Failed(h) \/ Fallback(h) \/ Passed(h)
    BY <2>2, AnswerStep
  <2>3. CASE Put(h)
    BY <2>3, PutStep
  <2>4. CASE Keys(h)
    BY <2>4, KeysStep
  <2>5. CASE Delete(h)
    BY <2>5, DeleteStep
  <2>6. CASE Mark(h)
    BY <2>6, MarkStep
  <2>7. CASE End(h)
    BY <2>7, EndStep
  <2> QED
    BY <1>3, <2>1, <2>2, <2>3, <2>4, <2>5, <2>6, <2>7 DEF Step
<1>4. CASE Stop
  BY <1>4, StopStep
<1>5. CASE UNCHANGED vars
  BY <1>5 DEF vars, Inv, TypeOK, Placed, Busy, PageOrOffline, Marking, Into, Marked, Marks,
              Finite, Cutting, Staying, Putting, Looking
<1> QED
  BY <1>1, <1>2, <1>3, <1>4, <1>5 DEF Next

LEMMA Invariance == Spec => []Inv
BY InitInv, StepInv, PTL DEF Spec

-----------------------------------------------------------------------------

\* The database, the caches and the requests keep their types.
THEOREM CachingTyped == Spec => []TypeOK
BY Invariance, PTL DEF Inv

\* A reader gets a page or is told to be offline, whatever the network does and
\* whenever the three seconds are over (the catch blocks of both handlers).
THEOREM ReadersAnswered == Spec => []PageOrOffline
BY Invariance, PTL DEF Inv

\* At rest a cache holds at most MaxItems and one page for each handler,
\* whatever the order of the puts, the looks at the keys and the deletions.
THEOREM CachesBounded == Spec => []Bounded
<1>1. Inv => Bounded
  <2> SUFFICES ASSUME Inv, \A h \in Handlers : req[h] = Free, kills = 0, NEW c \in Caches
               PROVE  Cardinality(cache[c]) <= MaxItems + Cardinality(Handlers)
    BY DEF Bounded
  <2>1. Staying(c) = cache[c] /\ Putting(c) = {} /\ ~Looking(c)
    BY DEF Staying, Putting, Looking, Into, Busy
  <2>2. Cardinality(cache[c]) \in Nat
    BY FS_CardinalityType DEF Inv, Finite
  <2>3. Cardinality(cache[c]) + 0 <= MaxItems + Cardinality(Handlers)
    BY <2>1, FS_EmptySet DEF Inv, Cutting
  <2> QED
    BY <2>2, <2>3
<1> QED
  BY <1>1, Invariance, PTL

\* At rest every cached section is marked in the database (db_update).
THEOREM SectionsMarked == Spec => []CachedIsMarked
<1>1. Inv => CachedIsMarked
  BY DEF Inv, CachedIsMarked, Marking, Marked, Marks, Busy, Holds
<1> QED
  BY <1>1, Invariance, PTL
=============================================================================
