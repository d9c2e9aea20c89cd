--------------------------- MODULE ThemeBuildProofs ---------------------------
(* For any number of edits: whatever order gulp runs its tasks in, a build  *)
(* leaves the minified form of the latest sources, and what it does to the *)
(* theme is what ThemeReleases allows.  The reason is that a minifier and  *)
(* the task it waits for are never at work on the same file at once        *)
(* (Ordered), so that what a minifier has read is what is there when it    *)
(* writes; `sw' may hash a file and write its hash after the file has      *)
(* changed, but files only move forward.                                   *)
EXTENDS ThemeBuild, TLAPS

\* The task that makes an asset of its sources, and the one that minifies it.
Maker(a) == IF a = "css" THEN "sass" ELSE "js"
Minifier(a) == IF a = "css" THEN "cssmin" ELSE "jsmin"

Ordered ==
    \A a \in Assets :
      task[Minifier(a)] \in {"running", "done"} => task[Maker(a)] = "done"

\* What a task that makes or minifies has read, and what that leaves in dist.
Making ==
    \A a \in Assets :
      /\ dist[a].version <= src[a]
      /\ task[Maker(a)] = "running" => got[Maker(a)][a] = [version |-> src[a], min |-> FALSE]
      /\ task[Maker(a)] = "done" => dist[a].version = src[a]
      /\ task[Minifier(a)] = "running" => got[Minifier(a)][a] = [version |-> src[a], min |-> TRUE]
      /\ task[Minifier(a)] = "done" => dist[a] = [version |-> src[a], min |-> TRUE]

\* The hashes a worker lists are of files that are there or have been there.
Listing ==
    \A a \in Assets :
      /\ swjs # Blank => swjs[a].version <= dist[a].version
      /\ task["sw"] = "running" => got["sw"][a].version <= dist[a].version

Inv == TypeOK /\ Ordered /\ Making /\ Listing

-----------------------------------------------------------------------------

LEMMA AssetTasks ==
    /\ \A a \in Assets :
         /\ Maker(a) \in {"sass", "js"} /\ Minifier(a) \in {"cssmin", "jsmin"}
         /\ Maker(a) \in Tasks /\ Minifier(a) \in Tasks
         /\ Output(Maker(a)) = a /\ Output(Minifier(a)) = a
         /\ Needs(Minifier(a)) = {Maker(a)}
    /\ \A t \in Tasks : Output(t) \in Assets
    /\ \A t \in Tasks : t = "sw" \/ t = Maker(Output(t)) \/ t = Minifier(Output(t))
    /\ \A a, b \in Assets : a # b => Maker(a) # Maker(b) /\ Minifier(a) # Minifier(b)
    /\ "sw" \in Tasks
BY DEF Assets, Maker, Minifier, Tasks, Output, Needs

LEMMA InitInv == Init => Inv
<1> SUFFICES ASSUME Init PROVE Inv
  OBVIOUS
<1>1. Built \in Hashes /\ \A a \in Assets : Built[a].version = 0
  BY BuildAssumption DEF Built, Hashes, Content
<1>2. TypeOK
  <2>1. src \in [Assets -> 0 .. MaxEdits]
    BY BuildAssumption DEF Init
  <2>2. task \in [Tasks -> Stages] /\ got \in [Tasks -> Hashes]
    BY <1>1 DEF Init, Stages
  <2> QED
    BY <1>1, <2>1, <2>2 DEF Init, TypeOK, Generated
<1> QED
  BY <1>1, <1>2, AssetTasks DEF Init, Inv, Ordered, Making, Listing

\* Whatever developers do while gulp rests.
LEMMA RestStep ==
    ASSUME Inv,
           src' \in [Assets -> 0 .. MaxEdits], \A a \in Assets : src[a] <= src'[a],
           task' \in [Tasks -> Stages],
           \/ \A t \in Tasks : task'[t] \in {"none", "due"}
           \/ Idle /\ task' = task /\ src' = src,
           swjs' \in {swjs, Blank}, watching' \in BOOLEAN, UNCHANGED <<dist, got>>
    PROVE  Inv'
<1>1. TypeOK'
  BY DEF Inv, TypeOK, Generated
<1>2. Ordered'
  BY AssetTasks DEF Inv, Ordered
<1>3. Listing'
  BY AssetTasks DEF Inv, Listing, Idle
<1>4. Making'
  <2> SUFFICES ASSUME NEW a \in Assets
               PROVE  /\ dist[a].version <= src'[a]
                      /\ task'[Maker(a)] # "running" /\ task'[Minifier(a)] # "running"
                      /\ task'[Maker(a)] = "done" => dist[a].version = src'[a]
                      /\ task'[Minifier(a)] = "done" => dist[a] = [version |-> src'[a], min |-> TRUE]
    BY DEF Making
  <2>1. dist[a].version <= src'[a]
    <3>1. dist[a] \in Content /\ src[a] \in 0 .. MaxEdits /\ src'[a] \in 0 .. MaxEdits
      BY DEF Inv, TypeOK, Hashes
    <3>2. dist[a].version \in 0 .. MaxEdits
      BY <3>1 DEF Content
    <3>3. dist[a].version <= src[a] /\ src[a] <= src'[a]
      BY DEF Inv, Making
    <3> QED
      BY <3>1, <3>2, <3>3, BuildAssumption
  <2>2. CASE \A t \in Tasks : task'[t] \in {"none", "due"}
    <3>1. task'[Maker(a)] \in {"none", "due"} /\ task'[Minifier(a)] \in {"none", "due"}
      BY <2>2, AssetTasks
    <3> QED
      BY <2>1, <3>1
  <2>3. CASE Idle /\ task' = task /\ src' = src
    <3>1. task'[Maker(a)] # "running" /\ task'[Minifier(a)] # "running"
      BY <2>3, AssetTasks DEF Idle
    <3> QED
      BY <2>1, <2>3, <3>1 DEF Inv, Making
  <2> QED
    BY <2>2, <2>3
<1> QED
  BY <1>1, <1>2, <1>3, <1>4 DEF Inv

LEMMA EditStep == ASSUME Inv, NEW a \in Assets, Edit(a) PROVE Inv'
<1>1. src' \in [Assets -> 0 .. MaxEdits] /\ \A b \in Assets : src[b] <= src'[b]
  BY BuildAssumption DEF Edit, Inv, TypeOK
<1>2. task' \in [Tasks -> Stages] /\ \A t \in Tasks : task'[t] \in {"none", "due"}
  BY DEF Edit, Stages
<1> QED
  BY <1>1, <1>2, RestStep DEF Edit, Inv, TypeOK

LEMMA CommandStep == ASSUME Inv, NEW c \in Commands, Command(c) PROVE Inv'
<1>1. task' \in [Tasks -> Stages] /\ \A t \in Tasks : task'[t] \in {"none", "due"}
  BY DEF Command, Stages
<1>2. src' = src /\ \A a \in Assets : src[a] <= src'[a]
  BY BuildAssumption DEF Command, Inv, TypeOK
<1> QED
  BY <1>1, <1>2, RestStep DEF Command, Inv, TypeOK

LEMMA WatchStep == Inv /\ (Watch \/ StopWatching) => Inv'
<1> SUFFICES ASSUME Inv, Watch \/ StopWatching PROVE Inv'
  OBVIOUS
<1>1. src' = src /\ \A a \in Assets : src[a] <= src'[a]
  BY BuildAssumption DEF Watch, StopWatching, Inv, TypeOK
<1> QED
  BY <1>1, RestStep DEF Watch, StopWatching, Inv, TypeOK

\* What a task reads is the content of files.
LEMMA ReadType == ASSUME TypeOK, NEW t \in Tasks PROVE Read(t) \in Hashes
<1>1. dist \in Hashes /\ Output(t) \in Assets /\ src[Output(t)] \in 0 .. MaxEdits
  BY AssetTasks DEF TypeOK
<1>2. dist[Output(t)] \in Content
  BY <1>1 DEF Hashes
<1>3. [version |-> src[Output(t)], min |-> FALSE] \in Content
  BY <1>1 DEF Content
<1>4. [dist[Output(t)] EXCEPT !.min = TRUE] \in Content
  BY <1>2 DEF Content
<1> QED
  BY <1>1, <1>3, <1>4 DEF Read, Hashes

LEMMA StartStep == ASSUME Inv, NEW t \in Tasks, Start(t) PROVE Inv'
<1>1. /\ task' \in [Tasks -> Stages] /\ got' \in [Tasks -> Hashes]
      /\ \A u \in Tasks : task'[u] = IF u = t THEN "running" ELSE task[u]
      /\ \A u \in Tasks : got'[u] = IF u = t THEN Read(t) ELSE got[u]
      /\ UNCHANGED <<src, dist, swjs, watching>> /\ task[t] = "due"
  BY ReadType DEF Start, Inv, TypeOK, Stages
<1>2. TypeOK'
  BY <1>1 DEF Inv, TypeOK
<1>3. Ordered'
  <2> SUFFICES ASSUME NEW a \in Assets, task'[Minifier(a)] \in {"running", "done"}
               PROVE  task'[Maker(a)] = "done"
    BY DEF Ordered
  <2>1. CASE t = Minifier(a)
    BY <1>1, <2>1, AssetTasks DEF Start
  <2>2. CASE t # Minifier(a)
    BY <1>1, <2>2, AssetTasks DEF Inv, Ordered
  <2> QED
    BY <2>1, <2>2
<1>4. Making'
  <2> SUFFICES ASSUME NEW a \in Assets
               PROVE  /\ task'[Maker(a)] = "running" =>
                           got'[Maker(a)][a] = [version |-> src[a], min |-> FALSE]
                      /\ task'[Minifier(a)] = "running" =>
                           got'[Minifier(a)][a] = [version |-> src[a], min |-> TRUE]
                      /\ task'[Maker(a)] = "done" => task[Maker(a)] = "done"
                      /\ task'[Minifier(a)] = "done" => task[Minifier(a)] = "done"
    BY <1>1 DEF Making, Inv
  <2>1. dist \in Hashes /\ dist[a] \in Content
    BY DEF Inv, TypeOK, Hashes
  <2>2. t = Maker(a) => Read(t)[a] = [version |-> src[a], min |-> FALSE]
    BY <2>1, AssetTasks DEF Read, Hashes
  <2>3. t = Minifier(a) => Read(t)[a] = [version |-> src[a], min |-> TRUE]
    <3> SUFFICES ASSUME t = Minifier(a) PROVE Read(t)[a] = [version |-> src[a], min |-> TRUE]
      OBVIOUS
    <3>1. dist[a].version = src[a]
      BY AssetTasks DEF Start, Inv, Making
    <3>2. Read(t)[a] = [dist[a] EXCEPT !.min = TRUE]
      BY <2>1, AssetTasks DEF Read, Hashes
    <3> QED
      BY <2>1, <3>1, <3>2 DEF Content
  <2> QED
    BY <1>1, <2>2, <2>3, AssetTasks DEF Inv, Making
<1>5. Listing'
  <2>1. Read("sw") = dist
    BY DEF Read
  <2>2. \A a \in Assets : dist[a].version <= dist[a].version
    BY BuildAssumption DEF Inv, TypeOK, Hashes, Content
  <2> QED
    BY <1>1, <2>1, <2>2, AssetTasks DEF Inv, Listing
<1> QED
  BY <1>2, <1>3, <1>4, <1>5 DEF Inv

\* The file of an asset a task has made or minified.
LEMMA WroteStep ==
    ASSUME Inv, NEW a \in Assets, NEW t \in Tasks, t \in {Maker(a), Minifier(a)}, Finish(t)
    PROVE  /\ Inv'
           /\ \A b \in Assets : dist[b].version <= dist'[b].version
<1>1. /\ t # "sw" /\ Output(t) = a
      /\ task' \in [Tasks -> Stages] /\ got' \in [Tasks -> Hashes]
      /\ \A u \in Tasks : task'[u] = IF u = t THEN "done" ELSE task[u]
      /\ \A u \in Tasks : u # t => got'[u] = got[u]
      /\ UNCHANGED <<src, swjs, watching>> /\ task[t] = "running"
  <2>1. t # "sw" /\ Output(t) = a
    BY AssetTasks
  <2>2. Built \in Hashes
    BY BuildAssumption DEF Built, Hashes, Content
  <2> QED
    BY <2>1, <2>2 DEF Finish, Inv, TypeOK, Stages
<1>2. /\ dist' = [dist EXCEPT ![a] = got[t][a]]
      /\ got[t][a].version = src[a]
      /\ t = Minifier(a) => got[t][a] = [version |-> src[a], min |-> TRUE]
  <2>1. dist' = [dist EXCEPT ![a] = got[t][a]]
    BY <1>1 DEF Finish
  <2>2. CASE t = Maker(a)
    <3>1. got[t][a] = [version |-> src[a], min |-> FALSE]
      BY <1>1, <2>2 DEF Inv, Making
    <3>2. t # Minifier(a)
      BY <2>2, AssetTasks
    <3> QED
      BY <2>1, <3>1, <3>2
  <2>3. CASE t = Minifier(a)
    <3>1. got[t][a] = [version |-> src[a], min |-> TRUE]
      BY <1>1, <2>3 DEF Inv, Making
    <3> QED
      BY <2>1, <3>1
  <2> QED
    BY <2>2, <2>3
<1>3. /\ \A b \in Assets : dist[b] \in Content /\ src[b] \in 0 .. MaxEdits
      /\ got[t][a] \in Content
  BY DEF Inv, TypeOK, Hashes
<1>4. \A b \in Assets : dist'[b] = IF b = a THEN got[t][a] ELSE dist[b]
  BY <1>2 DEF Inv, TypeOK, Hashes
<1>5. dist' \in Hashes
  BY <1>2, <1>3 DEF Inv, TypeOK, Hashes
<1>6. \A b \in Assets : dist[b].version \in Nat /\ src[b] \in Nat /\ dist[b].version <= src[b]
  <2>1. \A b \in Assets : dist[b].version \in 0 .. MaxEdits
    BY <1>3 DEF Content
  <2>2. \A n \in 0 .. MaxEdits : n \in Nat
    BY BuildAssumption
  <2> QED
    BY <1>3, <2>1, <2>2 DEF Inv, Making
<1>7. \A b \in Assets : /\ dist'[b].version \in Nat
                        /\ dist[b].version <= dist'[b].version
                        /\ dist'[b].version <= src[b]
  <2>1. \A v \in Nat : v <= v
    OBVIOUS
  <2> QED
    BY <1>2, <1>4, <1>6, <2>1
<1>8. TypeOK'
  BY <1>1, <1>5 DEF Inv, TypeOK
<1>9. Ordered'
  <2> SUFFICES ASSUME NEW b \in Assets, task'[Minifier(b)] \in {"running", "done"}
               PROVE  task'[Maker(b)] = "done"
    BY DEF Ordered
  <2>1. task[Minifier(b)] \in {"running", "done"}
    BY <1>1, AssetTasks
  <2> QED
    BY <1>1, <2>1, AssetTasks DEF Inv, Ordered
<1>10. Making'
  <2> SUFFICES ASSUME NEW b \in Assets
               PROVE  /\ task'[Maker(b)] = "running" =>
                           got'[Maker(b)][b] = [version |-> src[b], min |-> FALSE]
                      /\ task'[Maker(b)] = "done" => dist'[b].version = src[b]
                      /\ task'[Minifier(b)] = "running" =>
                           got'[Minifier(b)][b] = [version |-> src[b], min |-> TRUE]
                      /\ task'[Minifier(b)] = "done" =>
                           dist'[b] = [version |-> src[b], min |-> TRUE]
    BY <1>1, <1>7 DEF Making
  <2>1. CASE b # a
    <3>1. t # Maker(b) /\ t # Minifier(b)
      BY <1>1, <2>1, AssetTasks
    <3>2. dist'[b] = dist[b] /\ task'[Maker(b)] = task[Maker(b)]
          /\ task'[Minifier(b)] = task[Minifier(b)]
          /\ got'[Maker(b)] = got[Maker(b)] /\ got'[Minifier(b)] = got[Minifier(b)]
      BY <1>1, <1>4, <2>1, <3>1, AssetTasks
    <3> QED
      BY <3>2 DEF Inv, Making
  <2>2. CASE b = a /\ t = Maker(a)
    <3>1. task'[Minifier(a)] \notin {"running", "done"} /\ task'[Maker(a)] = "done"
      BY <1>1, <2>2, AssetTasks DEF Inv, Ordered
    <3> QED
      BY <1>2, <1>4, <2>2, <3>1
  <2>3. CASE b = a /\ t = Minifier(a)
    <3>1. task'[Minifier(a)] = "done" /\ task'[Maker(a)] # "running"
      BY <1>1, <2>3, AssetTasks DEF Inv, Ordered
    <3> QED
      BY <1>2, <1>4, <2>3, <3>1
  <2> QED
    BY <2>1, <2>2, <2>3
<1>11. Listing'
  <2> SUFFICES ASSUME NEW b \in Assets
               PROVE  /\ swjs # Blank => swjs[b].version <= dist'[b].version
                      /\ task["sw"] = "running" => got["sw"][b].version <= dist'[b].version
    BY <1>1, AssetTasks DEF Listing
  <2>1. swjs # Blank => swjs[b].version \in Nat
    BY BuildAssumption DEF Inv, TypeOK, Generated, Hashes, Content
  <2>2. got["sw"][b].version \in Nat
    BY AssetTasks, BuildAssumption DEF Inv, TypeOK, Hashes, Content
  <2> QED
    BY <1>6, <1>7, <2>1, <2>2 DEF Inv, Listing
<1> QED
  BY <1>7, <1>8, <1>9, <1>10, <1>11 DEF Inv

\* The task sw has hashed what is in dist, or was.
LEMMA HashedStep == Inv /\ Finish("sw") => Inv' /\ dist' = dist
<1> SUFFICES ASSUME Inv, Finish("sw") PROVE Inv' /\ dist' = dist
  OBVIOUS
<1>1. /\ task' \in [Tasks -> Stages] /\ got' \in [Tasks -> Hashes]
      /\ \A u \in Tasks : task'[u] = IF u = "sw" THEN "done" ELSE task[u]
      /\ \A u \in Tasks : u # "sw" => got'[u] = got[u]
      /\ UNCHANGED <<src, dist, watching>> /\ task["sw"] = "running"
      /\ swjs' = got["sw"] /\ got["sw"] \in Hashes
  <2>1. Built \in Hashes
    BY BuildAssumption DEF Built, Hashes, Content
  <2> QED
    BY <2>1, AssetTasks DEF Finish, Inv, TypeOK, Stages
<1>2. TypeOK'
  BY <1>1 DEF Inv, TypeOK, Generated
<1>3. \A a \in Assets : Maker(a) # "sw" /\ Minifier(a) # "sw"
  BY AssetTasks
<1>4. Ordered' /\ Making'
  BY <1>1, <1>3, AssetTasks DEF Inv, Ordered, Making
<1>5. Listing'
  BY <1>1, AssetTasks DEF Inv, Listing
<1> QED
  BY <1>1, <1>2, <1>4, <1>5 DEF Inv

LEMMA FinishStep == ASSUME Inv, NEW t \in Tasks, Finish(t) PROVE Inv'
BY AssetTasks, WroteStep, HashedStep

LEMMA StepInv == Inv /\ [Next]_vars => Inv'
<1> SUFFICES ASSUME Inv, [Next]_vars PROVE Inv'
  OBVIOUS
<1>1. CASE UNCHANGED vars
  BY <1>1 DEF vars, Inv, TypeOK, Ordered, Making, Listing
<1> QED
  BY <1>1, EditStep, CommandStep, StartStep, FinishStep, WatchStep DEF Next

LEMMA Invariance == Spec => []Inv
BY InitInv, StepInv, PTL DEF Spec

-----------------------------------------------------------------------------

\* gulp and the theme are always in one of their states.
THEOREM BuildTyped == Spec => []TypeOK
<1>1. Inv => TypeOK
  BY DEF Inv
<1> QED
  BY <1>1, Invariance, PTL

\* A build that is done has left the minified form of the latest sources.
THEOREM BuildsComplete == Spec => []BuildIsComplete
<1>1. Inv => BuildIsComplete
  BY AssetTasks DEF Inv, Making, BuildIsComplete
<1> QED
  BY <1>1, Invariance, PTL

\* What is built, as ThemeReleases has it.
Allowed ==
    /\ [a \in Assets |-> dist[a].version] \in Releases!Lists
    /\ Listed \in {l \in Releases!Lists :
                     Releases!AtMost(l, [a \in Assets |-> dist[a].version])} \cup {Blank}

LEMMA ListedIsAtMost == Inv => Allowed
<1> SUFFICES ASSUME TypeOK, Listing PROVE Allowed
  BY DEF Inv
<1>1. [a \in Assets |-> dist[a].version] \in Releases!Lists
  BY DEF TypeOK, Hashes, Content, Releases!Lists, Releases!Versions
<1>2. CASE swjs = Blank
  <2>1. Listed = Blank
    BY <1>2 DEF Listed
  <2> QED
    BY <1>1, <2>1 DEF Allowed
<1>3. CASE swjs # Blank
  <2>1. swjs \in Hashes
    BY <1>3 DEF TypeOK, Generated
  <2>2. [a \in Assets |-> swjs[a].version] \in Releases!Lists
    BY <2>1 DEF Hashes, Content, Releases!Lists, Releases!Versions
  <2>3. Listed = [a \in Assets |-> swjs[a].version]
    BY <1>3 DEF Listed
  <2>4. Releases!AtMost(Listed, [a \in Assets |-> dist[a].version])
    BY <1>3, <2>3 DEF Listing, Releases!AtMost
  <2> QED
    BY <1>1, <2>2, <2>3, <2>4 DEF Allowed
<1> QED
  BY <1>2, <1>3

\* Files only move forward.
LEMMA NeverBack ==
    ASSUME Inv, Next \/ UNCHANGED vars, NEW a \in Assets
    PROVE  dist[a].version <= dist'[a].version
<1>1. dist' = dist \/ \E t \in Tasks : Finish(t)
  BY DEF Next, Edit, Command, Start, Watch, StopWatching, vars
<1>2. dist[a].version <= dist[a].version
  BY BuildAssumption DEF Inv, TypeOK, Hashes, Content
<1>3. ASSUME NEW t \in Tasks, Finish(t) PROVE dist[a].version <= dist'[a].version
  BY <1>2, <1>3, AssetTasks, WroteStep, HashedStep
<1> QED
  BY <1>1, <1>2, <1>3

\* What gulp does to a theme is what its installations rely on: the build
\* implements ThemeReleases.
THEOREM BuildImplements == Spec => ImplementsReleases
<1>1. Init => Releases!ReleasesInit
  <2> SUFFICES ASSUME Init PROVE Releases!ReleasesInit
    OBVIOUS
  <2>1. Built \in Hashes /\ \A a \in Assets : Built[a].version = 0
    BY BuildAssumption DEF Built, Hashes, Content
  <2>2. dist = Built /\ swjs = Built /\ swjs # Blank
    BY <2>1, BuildAssumption DEF Init
  <2> QED
    BY <2>1, <2>2 DEF Releases!ReleasesInit, Listed
<1>2. Inv /\ Allowed' /\ [Next]_vars =>
        [Releases!Rebuild]_<<[a \in Assets |-> dist[a].version], Listed>>
  <2> SUFFICES ASSUME Inv, Allowed', [Next]_vars PROVE Releases!Rebuild
    OBVIOUS
  <2>1. \A a \in Assets : dist[a].version <= dist'[a].version
    BY NeverBack
  <2> QED
    BY <2>1 DEF Allowed, Releases!Rebuild, Releases!AtMost
<1> QED
  BY <1>1, <1>2, Invariance, ListedIsAtMost, PTL DEF Spec, ImplementsReleases, Releases!ReleasesSpec
=============================================================================
