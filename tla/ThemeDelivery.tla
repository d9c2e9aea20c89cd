---------------------------- MODULE ThemeDelivery ----------------------------
(***************************************************************************)
(* From the sources of a theme to the screen of a reader: a developer      *)
(* builds the theme (ThemeReleases), installs what is built on a tenant    *)
(* (ThemeInstall), and a browser that knows the site caches it             *)
(* (PrecacheWorker), all at their own pace.                                *)
(***************************************************************************)
EXTENDS Naturals

CONSTANTS Blank, None, Missing, MaxVersion, MaxInstalls, MaxFaults

VARIABLES
    files, listed,
    theme, backup, pc, release, good, installs, failures, crashes,
    cache, installing, waiting, active, activating, stale, late

Assets == {"css", "js"}

INSTANCE ThemeReleases
INSTANCE ThemeInstall
INSTANCE PrecacheWorker

buildVars == <<files, listed>>
installVars == <<theme, backup, pc, release, good, installs, failures, crashes>>
workerVars == <<cache, installing, waiting, active, activating, stale, late>>
vars == <<buildVars, installVars, workerVars>>

ASSUME BoundsAssumption ==
    MaxVersion \in Nat /\ MaxInstalls \in Nat /\ MaxFaults \in Nat
ASSUME ValuesAssumption ==
    /\ None # Missing /\ Blank # None /\ Blank # Missing
    /\ {None, Missing, Blank} \cap (Versions \cup Lists) = {}

TypeOK ==
    /\ ReleasesTypeOK
    /\ InstallTypeOK(Versions, Scripts)
    /\ WorkerTypeOK

\* What gulp has built, as a release.
Built(f, l) == [css |-> f["css"], js |-> f["js"], sw |-> l]

Init == ReleasesInit /\ InstallInit(Built(files, listed)) /\ WorkerInit

\* The theme is built, as often as its developers like, and installed while
\* gulp is not at work on it.
Release == Rebuild /\ Begin(Built(files', listed'))

Next ==
    \/ Release /\ UNCHANGED workerVars
    \/ (Continue \/ Fail \/ Crash) /\ UNCHANGED <<buildVars, workerVars>>
    \/ WorkerNext /\ UNCHANGED <<buildVars, installVars>>

\* What a browser does on its own, once somebody reads the site.
Browse ==
    \/ Register \/ ListCached \/ Installed \/ Activate
    \/ ListOld \/ Activated \/ \E k \in stale : Drop(k)

\* An installation goes on unless its process dies; pages register the worker as
\* long as somebody reads the site, and a browser goes on with what it does; the
\* network may fail a browser any number of times, but not always.
Fairness ==
    /\ WF_vars(Continue /\ UNCHANGED <<buildVars, workerVars>>)
    /\ WF_vars(Browse /\ UNCHANGED <<buildVars, installVars>>)
    /\ SF_vars((\E a \in Assets : Fetch(a)) /\ UNCHANGED <<buildVars, installVars>>)

Spec == Init /\ [][Next]_vars /\ Fairness

-----------------------------------------------------------------------------

\* The site has a whole theme, whose worker was generated for its files.
SiteMatches ==
    /\ theme # None
    /\ \A f \in Files : theme[f] # Missing
    /\ theme["sw"] # Blank
    /\ \A a \in Assets : theme["sw"][a] = theme[a]

\* The browser has nothing left to do.
Settled ==
    /\ installing = None /\ waiting = None /\ activating = "no"
    /\ active = Site("sw")

\* Once a browser has settled on the worker of a site that is consistent,
\* readers see the site's files: no key ever gets the body of an older file,
\* although files change while they are fetched (sw.js: the keys carry hashes;
\* ThemeService.php: a release is copied into a directory of its own). That no
\* installation failed is needed: see the hazards.
FreshAssets ==
    failures = 0 /\ SiteMatches /\ Settled =>
        \A a \in Assets : Served(a) = theme[a]

\* A browser comes to run the worker of a site that has a whole theme
\* (service-worker-registration.js, sw.js: skipWaiting).
Updated ==
    <>[](SiteMatches => active = theme["sw"])
=============================================================================
