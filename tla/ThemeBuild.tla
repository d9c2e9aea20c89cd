------------------------------ MODULE ThemeBuild ------------------------------
(***************************************************************************)
(* The gulp build of the default theme (gulpfile.js).                      *)
(*                                                                         *)
(* A developer edits the theme's sources and runs gulp: `sass' and `js'    *)
(* write public/dist/style.css and all.js, `cssmin' and `jsmin' minify     *)
(* them in place, `sw' hashes what is in dist and writes the list of       *)
(* hashes to public/sw.js, and `build' runs them all. gulp 3 starts every  *)
(* task as soon as the tasks it names are done, so `sw' runs beside the    *)
(* tasks whose results it hashes. The task `version' rewrites a marker no  *)
(* template has, and is left out; sources always compile.                  *)
(***************************************************************************)
EXTENDS Naturals

CONSTANTS
    Commands,   \* the gulp commands developers use
    Blank,      \* the empty public/sw.js `watch' leaves
    MaxEdits    \* bound on the edits of each source

VARIABLES
    src,        \* the version of the sources of each asset
    dist,       \* public/dist: the asset files
    swjs,       \* public/sw.js: the hashes it lists, or Blank
    task,       \* what gulp has done with each task of the command it runs
    got,        \* what a running task has read, Built for the others
    watching    \* a `gulp watch' is running

Assets == {"css", "js"}
Content == [version : 0 .. MaxEdits, min : BOOLEAN]

\* sw.js is a function of the hashes of the assets; a hash stands for the
\* content it is of.
Hashes == [Assets -> Content]
Generated == Hashes \cup {Blank}

ASSUME BuildAssumption == MaxEdits \in Nat /\ Blank \notin Hashes

Tasks == {"sass", "js", "cssmin", "jsmin", "sw"}
Stages == {"none", "due", "running", "done"}

\* Mutant of Needs: jsmin does not wait for js.
NeedsLess(t) == IF t = "cssmin" THEN {"sass"} ELSE {}

\* Mutant of Needs: sass and cssmin name each other.
NeedsEachOther(t) ==
    CASE t = "cssmin" -> {"sass"}
      [] t = "sass" -> {"cssmin"}
      [] t = "jsmin" -> {"js"}
      [] OTHER -> {}

\* The tasks a task names, which gulp completes before it starts.
Needs(t) ==
    CASE t = "cssmin" -> {"sass"}
      [] t = "jsmin" -> {"js"}
      [] OTHER -> {}

TasksOf(c) == IF c = "build" THEN Tasks ELSE {c} \cup Needs(c)

\* The asset a task writes.
Output(t) == IF t \in {"sass", "cssmin"} THEN "css" ELSE "js"

Idle == \A t \in Tasks : task[t] \notin {"due", "running"}

TypeOK ==
    /\ src \in [Assets -> 0 .. MaxEdits]
    /\ dist \in Hashes
    /\ swjs \in Generated
    /\ task \in [Tasks -> Stages]
    /\ got \in [Tasks -> Hashes]
    /\ watching \in BOOLEAN

\* A theme that was built, and whose worker was generated after that.
Built == [a \in Assets |-> [version |-> 0, min |-> TRUE]]

Init ==
    /\ src = [a \in Assets |-> 0]
    /\ dist = Built
    /\ swjs = Built
    /\ task = [t \in Tasks |-> "none"]
    /\ got = [t \in Tasks |-> Built]
    /\ watching = FALSE

-----------------------------------------------------------------------------

\* Developers edit between the commands they run; `watch' runs sass or js when
\* their sources change.
Edit(a) ==
    /\ Idle
    /\ src[a] < MaxEdits
    /\ src' = [src EXCEPT ![a] = @ + 1]
    /\ task' = [t \in Tasks |->
                 IF watching /\ t = (IF a = "css" THEN "sass" ELSE "js") THEN "due" ELSE "none"]
    /\ UNCHANGED <<dist, swjs, got, watching>>

Command(c) ==
    /\ Idle
    /\ task' = [t \in Tasks |-> IF t \in TasksOf(c) THEN "due" ELSE "none"]
    /\ UNCHANGED <<src, dist, swjs, got, watching>>

\* `watch' empties the service worker.
Watch ==
    /\ Idle
    /\ ~watching
    /\ watching' = TRUE
    /\ swjs' = Blank
    /\ UNCHANGED <<src, dist, task, got>>

StopWatching ==
    /\ Idle
    /\ watching
    /\ watching' = FALSE
    /\ UNCHANGED <<src, dist, swjs, task, got>>

\* Mutant of Read: sw hashes the sources.
ReadSources(t) ==
    CASE t \in {"sass", "js"} ->
           [dist EXCEPT ![Output(t)] = [version |-> src[Output(t)], min |-> FALSE]]
      [] t \in {"cssmin", "jsmin"} -> [dist EXCEPT ![Output(t)].min = TRUE]
      [] OTHER -> [a \in Assets |-> [version |-> src[a], min |-> FALSE]]

\* Mutant of Read: a minifier loses what it reads.
ReadNothing(t) ==
    CASE t \in {"sass", "js"} ->
           [dist EXCEPT ![Output(t)] = [version |-> src[Output(t)], min |-> FALSE]]
      [] t \in {"cssmin", "jsmin"} -> [dist EXCEPT ![Output(t)] = [min |-> TRUE]]
      [] OTHER -> dist

\* A task reads its input: the sources, the file it minifies, or all of dist.
Read(t) ==
    CASE t \in {"sass", "js"} ->
           [dist EXCEPT ![Output(t)] = [version |-> src[Output(t)], min |-> FALSE]]
      [] t \in {"cssmin", "jsmin"} -> [dist EXCEPT ![Output(t)].min = TRUE]
      [] OTHER -> dist

Start(t) ==
    /\ task[t] = "due"
    /\ \A u \in Needs(t) : task[u] = "done"
    /\ task' = [task EXCEPT ![t] = "running"]
    /\ got' = [got EXCEPT ![t] = Read(t)]
    /\ UNCHANGED <<src, dist, swjs, watching>>

Finish(t) ==
    /\ task[t] = "running"
    /\ task' = [task EXCEPT ![t] = "done"]
    /\ got' = [got EXCEPT ![t] = Built]
    /\ IF t = "sw"
       THEN swjs' = got[t] /\ UNCHANGED dist
       ELSE dist' = [dist EXCEPT ![Output(t)] = got[t][Output(t)]] /\ UNCHANGED swjs
    /\ UNCHANGED <<src, watching>>

Next ==
    \/ \E a \in Assets : Edit(a)
    \/ \E c \in Commands : Command(c)
    \/ \E t \in Tasks : Start(t) \/ Finish(t)
    \/ Watch \/ StopWatching

vars == <<src, dist, swjs, task, got, watching>>

\* gulp goes on with the tasks it has begun.
Spec == Init /\ [][Next]_vars /\ WF_vars(\E t \in Tasks : Start(t) \/ Finish(t))

-----------------------------------------------------------------------------

\* What a `gulp build' leaves in dist is the minified form of the latest
\* sources, whatever order its tasks ran in (gulpfile.js, the tasks that cssmin
\* and jsmin name; README.md of the theme, "For applying changes for production").
BuildIsComplete ==
    Idle /\ (\A t \in Tasks : task[t] = "done") =>
        \A a \in Assets : dist[a] = [version |-> src[a], min |-> TRUE]

\* The builds are those ThemeReleases allows: no order of the tasks brings an
\* older file back, and sw.js lists hashes of files that exist or have existed.
Listed == IF swjs = Blank THEN Blank ELSE [a \in Assets |-> swjs[a].version]

Releases == INSTANCE ThemeReleases WITH
    MaxVersion <- MaxEdits,
    files <- [a \in Assets |-> dist[a].version],
    listed <- Listed

ImplementsReleases == Releases!ReleasesSpec

\* Every command ends: no task waits for one that never starts.
CommandsEnd == []<>Idle
=============================================================================
