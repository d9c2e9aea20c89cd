---------------------------- MODULE ThemeReleases ----------------------------
(***************************************************************************)
(* What an installation relies on of the theme's build: the files of a     *)
(* theme only move forward, and its service worker lists versions the      *)
(* files have or have had. The worker need not list those they have now.   *)
(***************************************************************************)
EXTENDS Naturals

CONSTANTS
    Assets,      \* the files a worker lists
    MaxVersion,  \* bound on their versions
    Blank        \* an empty sw.js

VARIABLES
    files,       \* version of each file
    listed       \* versions sw.js lists

Versions == 0 .. MaxVersion
Lists == [Assets -> Versions]
Scripts == Lists \cup {Blank}

AtMost(v, w) == \A a \in Assets : v[a] <= w[a]

ReleasesTypeOK ==
    /\ files \in Lists
    /\ listed \in Scripts

ReleasesInit ==
    /\ files = [a \in Assets |-> 0]
    /\ listed = files

\* A build that goes as far as it goes.
Rebuild ==
    /\ files' \in Lists
    /\ AtMost(files, files')
    /\ listed' \in {l \in Lists : AtMost(l, files')} \cup {Blank}

ReleasesSpec == ReleasesInit /\ [][Rebuild]_<<files, listed>>
=============================================================================
