-------------------------- MODULE ThemeDeliveryProofs --------------------------
(* For any number of versions, installations and failures: installations   *)
(* that fail are undone, a browser that has installed its first worker can *)
(* serve every file offline, and a browser never serves an older file than *)
(* the site it has settled on.  The last holds although the files change   *)
(* while they are fetched, and although sw.js may list old hashes: as long *)
(* as no installation is undone, what a site has only moves forward, so    *)
(* that the body under a key is never older than the version the key is    *)
(* for, nor newer than what is installed (Between).                        *)
EXTENDS ThemeDelivery, TLAPS

\* What a theme may be while the release r is copied.
Partial(d, r) == d # None => \A f \in Files : d[f] \in {Missing, r[f]}

\* A script that does not ask for what is newer than the release r.
UpToDate(s, r) == s \in Lists => AtMost(s, r)

Between ==
    failures = 0 =>
      /\ pc # "restore"
      /\ \A a \in Assets : release[a] = files[a]
      /\ listed = release["sw"] /\ UpToDate(listed, release)
      /\ Partial(theme, release)
      /\ installing # None => UpToDate(installing.script, release)
      /\ \A k \in late : k[2] <= release[k[1]]
      /\ \A k \in Keys : Cached(k) => k[2] <= cache[k] /\ cache[k] <= release[k[1]]

\* What will be brought back if the installation fails.
Undoable ==
    crashes = 0 =>
      IF pc = "idle" THEN theme = good /\ backup = None ELSE backup = good

\* A browser that has had no worker drops nothing, and has what it has fetched.
First ==
    active = None =>
      /\ activating = "no" /\ stale = {}
      /\ installing # None /\ installing.pc = "fetch" /\ installing.script \in Lists =>
           \A a \in Assets \ installing.todo : Cached(KeyOf(installing.script, a))
      /\ waiting \in Lists => \A a \in Assets : Cached(KeyOf(waiting, a))

\* An empty script asks for nothing.
Asking == installing # None /\ installing.todo # {} => installing.script \in Lists

Inv == TypeOK /\ Between /\ Undoable /\ First /\ Asking

-----------------------------------------------------------------------------
(* The values the modules share.                                           *)

LEMMA Values ==
    /\ Versions = 0 .. MaxVersion /\ MaxVersion \in Nat
    /\ WorkerLists = Lists /\ WorkerScripts = Scripts
    /\ None # Missing /\ Blank # None /\ Blank # Missing
    /\ None \notin Versions /\ Missing \notin Versions /\ Blank \notin Versions
    /\ None \notin Lists /\ Missing \notin Lists /\ Blank \notin Lists
    /\ None \notin Scripts /\ Missing \notin Scripts
BY BoundsAssumption, ValuesAssumption
   DEF Versions, WorkerLists, WorkerScripts, Lists, Scripts

\* A release, a theme and a file of them.
LEMMA ThemeTypes ==
    /\ \A r \in Theme(Versions, Scripts) : \A a \in Assets : r[a] \in Versions
    /\ \A r \in Theme(Versions, Scripts) : r["sw"] \in Scripts
    /\ \A d \in Directory(Versions, Scripts) : d # None =>
         d \in Theme(Versions \cup {Missing}, Scripts \cup {Missing})
    /\ \A d \in Theme(Versions \cup {Missing}, Scripts \cup {Missing}) :
         /\ d \in Directory(Versions, Scripts)
         /\ \A a \in Assets : d[a] \in Versions \cup {Missing}
         /\ d["sw"] \in Scripts \cup {Missing}
    /\ Theme(Versions, Scripts) \subseteq Directory(Versions, Scripts)
    /\ None \in Directory(Versions, Scripts)
    /\ Assets = {"css", "js"}
BY DEF Theme, Directory, Assets

LEMMA SiteType ==
    ASSUME TypeOK
    PROVE  /\ Site("sw") \in Scripts \cup {Missing}
           /\ \A a \in Assets : Site(a) \in Versions \cup {Missing}
BY ThemeTypes DEF TypeOK, InstallTypeOK, Site

-----------------------------------------------------------------------------
(* Installations.                                                          *)

LEMMA InitInv == Init => Inv
<1> SUFFICES ASSUME Init PROVE Inv
  OBVIOUS
<1> USE DEF Init, ReleasesInit, InstallInit, WorkerInit
<1>1. files \in Lists /\ listed = files /\ release = Built(files, listed)
  BY Values DEF Lists
<1>2. release \in Theme(Versions, Scripts) /\ (\A a \in Assets : release[a] = files[a])
      /\ release["sw"] = listed
  BY <1>1 DEF Built, Theme, Lists, Scripts, Assets
<1>3. ReleasesTypeOK
  BY <1>1 DEF ReleasesTypeOK, Scripts
<1>4. InstallTypeOK(Versions, Scripts)
  BY <1>2, BoundsAssumption, ThemeTypes DEF InstallTypeOK
<1>5. WorkerTypeOK
  BY Values DEF WorkerTypeOK
<1>6. UpToDate(listed, release)
  <2>1. \A a \in Assets : files[a] \in 0 .. MaxVersion /\ release[a] = files[a]
    BY <1>1, <1>2, Values DEF Lists
  <2> QED
    BY <1>1, <2>1, Values DEF UpToDate, AtMost
<1>7. Between
  BY <1>2, <1>6, Values DEF Between, Partial, Cached
<1>8. Undoable
  BY DEF Undoable
<1>9. First
  BY Values DEF First
<1> QED
  BY <1>3, <1>4, <1>5, <1>7, <1>8, <1>9 DEF Inv, TypeOK, Asking

\* A release: the files have moved forward, and the theme is away.
LEMMA ReleaseStep == Inv /\ Release /\ UNCHANGED workerVars => Inv'
<1> SUFFICES ASSUME Inv, Release, UNCHANGED workerVars PROVE Inv'
  OBVIOUS
<1>1. /\ files \in Lists /\ files' \in Lists /\ AtMost(files, files')
      /\ listed' \in Scripts /\ (listed' # Blank => AtMost(listed', files'))
      /\ release' = Built(files', listed')
  BY DEF Release, Rebuild, Begin, Inv, TypeOK, ReleasesTypeOK, Scripts
<1>2. release' \in Theme(Versions, Scripts) /\ (\A a \in Assets : release'[a] = files'[a])
      /\ release'["sw"] = listed'
  BY <1>1 DEF Built, Theme, Lists, Assets
<1>3. UNCHANGED <<cache, installing, waiting, active, activating, stale, late>>
  BY DEF workerVars
<1>4. /\ pc = "idle" /\ pc' = "mirror" /\ theme' = None
      /\ backup' = IF theme # None THEN theme ELSE backup
      /\ installs' \in 0 .. MaxInstalls
      /\ UNCHANGED <<good, failures, crashes>>
  BY BoundsAssumption DEF Release, Begin, Inv, TypeOK, InstallTypeOK
<1>5. TypeOK'
  <2>1. ReleasesTypeOK'
    BY <1>1 DEF ReleasesTypeOK
  <2>2. InstallTypeOK(Versions, Scripts)'
    BY <1>2, <1>4, ThemeTypes DEF Inv, TypeOK, InstallTypeOK, Versions, Scripts, Lists
  <2>3. WorkerTypeOK'
    BY <1>3 DEF Inv, TypeOK, WorkerTypeOK
  <2> QED
    BY <2>1, <2>2, <2>3 DEF TypeOK
<1>6. Between'
  <2> SUFFICES ASSUME failures = 0 PROVE Between'
    BY <1>4 DEF Between
  <2>1. \A a \in Assets : /\ release[a] \in Nat /\ release'[a] \in Nat
                          /\ release[a] <= release'[a]
    BY <1>1, <1>2, Values DEF Inv, Between, Lists, AtMost
  <2>2. ASSUME NEW s, UpToDate(s, release) PROVE UpToDate(s, release')
    <3> SUFFICES ASSUME s \in Lists, NEW a \in Assets PROVE s[a] <= release'[a]
      BY DEF UpToDate, AtMost
    <3>1. s[a] \in Nat /\ s[a] <= release[a]
      BY <2>2, Values DEF UpToDate, AtMost, Lists
    <3> QED
      BY <2>1, <3>1
  <2>3. UpToDate(listed', release')
    <3>1. CASE listed' = Blank
      BY <3>1, Values DEF UpToDate
    <3>2. CASE listed' # Blank
      BY <1>1, <1>2, <3>2 DEF UpToDate, AtMost
    <3> QED
      BY <3>1, <3>2
  <2>4. installing' # None => UpToDate(installing'.script, release')
    BY <1>3, <2>2 DEF Inv, Between
  <2>5. ASSUME NEW k \in late' PROVE k[2] <= release'[k[1]]
    <3>1. k \in late /\ k[1] \in Assets /\ k[2] \in Nat
      BY <1>3, <2>5, Values DEF Inv, TypeOK, WorkerTypeOK, Keys
    <3> QED
      BY <2>1, <3>1 DEF Inv, Between
  <2>6. ASSUME NEW k \in Keys, cache[k] # Missing
        PROVE  k[2] <= cache[k] /\ cache[k] <= release'[k[1]]
    <3>1. k[1] \in Assets /\ cache[k] \in Nat
      BY <2>6, Values DEF Inv, TypeOK, WorkerTypeOK, Keys
    <3>2. k[2] <= cache[k] /\ cache[k] <= release[k[1]]
      BY <2>6 DEF Inv, Between, Cached
    <3> QED
      BY <2>1, <3>1, <3>2
  <2> QED
    BY <1>2, <1>3, <1>4, <2>3, <2>4, <2>5, <2>6 DEF Between, Partial, Cached, Keys, Versions
<1>7. Undoable'
  BY <1>4 DEF Inv, Undoable
<1>8. First'
  BY <1>3 DEF Inv, First, Cached, KeyOf, Lists, Versions
<1> QED
  BY <1>3, <1>5, <1>6, <1>7, <1>8 DEF Inv, Asking

\* A step of an installation, which neither the build nor the browser takes.
LEMMA InstallStep ==
    ASSUME Inv, UNCHANGED <<buildVars, workerVars>>, release' = release,
           InstallTypeOK(Versions, Scripts)',
           failures' = 0 => failures = 0 /\ pc' # "restore" /\ Partial(theme', release'),
           Undoable'
    PROVE  Inv'
<1>1. UNCHANGED <<files, listed, cache, installing, waiting, active, activating, stale, late>>
  BY DEF buildVars, workerVars
<1>2. TypeOK'
  BY <1>1 DEF Inv, TypeOK, ReleasesTypeOK, WorkerTypeOK
<1>3. Between'
  BY <1>1 DEF Inv, Between, Partial, UpToDate, AtMost, Cached
<1>4. First' /\ Asking'
  BY <1>1 DEF Inv, First, Asking, Cached, KeyOf
<1> QED
  BY <1>2, <1>3, <1>4 DEF Inv

LEMMA MakeDirectoryStep == Inv /\ MakeDirectory /\ UNCHANGED <<buildVars, workerVars>> => Inv'
<1> SUFFICES ASSUME Inv, MakeDirectory, UNCHANGED <<buildVars, workerVars>> PROVE Inv'
  OBVIOUS
<1>1. theme' \in Directory(Versions, Scripts)
  BY DEF MakeDirectory, Directory, Theme, Files
<1>2. InstallTypeOK(Versions, Scripts)'
  BY <1>1 DEF MakeDirectory, Inv, TypeOK, InstallTypeOK, Versions, Scripts, Lists
<1>3. failures' = 0 => failures = 0 /\ pc' # "restore" /\ Partial(theme', release')
  BY DEF MakeDirectory, Partial
<1>4. Undoable'
  BY DEF MakeDirectory, Inv, Undoable
<1> QED
  BY <1>2, <1>3, <1>4, InstallStep DEF MakeDirectory

LEMMA CopyStep ==
    ASSUME Inv, NEW f \in Files, Copy(f), UNCHANGED <<buildVars, workerVars>> PROVE Inv'
<1>1. theme \in Theme(Versions \cup {Missing}, Scripts \cup {Missing})
      /\ release \in Theme(Versions, Scripts)
  BY ThemeTypes DEF Copy, Inv, TypeOK, InstallTypeOK
<1>2. theme' \in Theme(Versions \cup {Missing}, Scripts \cup {Missing})
      /\ \A g \in Files : theme'[g] = IF g = f THEN release[f] ELSE theme[g]
  BY <1>1 DEF Copy, Theme, Files
<1>3. InstallTypeOK(Versions, Scripts)'
  BY <1>2, ThemeTypes DEF Copy, Inv, TypeOK, InstallTypeOK, Versions, Scripts, Lists
<1>4. failures' = 0 => failures = 0 /\ pc' # "restore" /\ Partial(theme', release')
  BY <1>2 DEF Copy, Inv, Between, Partial
<1>5. Undoable'
  BY DEF Copy, Inv, Undoable
<1> QED
  BY <1>3, <1>4, <1>5, InstallStep DEF Copy

LEMMA MirroredStep == Inv /\ Mirrored /\ UNCHANGED <<buildVars, workerVars>> => Inv'
<1> SUFFICES ASSUME Inv, Mirrored, UNCHANGED <<buildVars, workerVars>> PROVE Inv'
  OBVIOUS
<1>1. InstallTypeOK(Versions, Scripts)'
  BY DEF Mirrored, Inv, TypeOK, InstallTypeOK, Versions, Scripts, Lists
<1>2. failures' = 0 => failures = 0 /\ pc' # "restore" /\ Partial(theme', release')
  BY DEF Mirrored, Inv, Between, Partial
<1>3. Undoable'
  BY DEF Mirrored, Inv, Undoable
<1> QED
  BY <1>1, <1>2, <1>3, InstallStep DEF Mirrored

LEMMA CompleteStep == Inv /\ Complete /\ UNCHANGED <<buildVars, workerVars>> => Inv'
<1> SUFFICES ASSUME Inv, Complete, UNCHANGED <<buildVars, workerVars>> PROVE Inv'
  OBVIOUS
<1>1. InstallTypeOK(Versions, Scripts)'
  BY ThemeTypes DEF Complete, Inv, TypeOK, InstallTypeOK, Versions, Scripts, Lists
<1>2. failures' = 0 => failures = 0 /\ pc' # "restore" /\ Partial(theme', release')
  BY DEF Complete, Inv, Between, Partial
<1>3. Undoable'
  BY DEF Complete, Inv, Undoable
<1> QED
  BY <1>1, <1>2, <1>3, InstallStep DEF Complete

LEMMA FailStep == Inv /\ Fail /\ UNCHANGED <<buildVars, workerVars>> => Inv'
<1> SUFFICES ASSUME Inv, Fail, UNCHANGED <<buildVars, workerVars>> PROVE Inv'
  OBVIOUS
<1>1. failures' \in 0 .. MaxFaults /\ failures' # 0
  BY BoundsAssumption DEF Fail, Inv, TypeOK, InstallTypeOK
<1>2. InstallTypeOK(Versions, Scripts)'
  BY <1>1, ThemeTypes DEF Fail, Inv, TypeOK, InstallTypeOK, Versions, Scripts, Lists
<1>3. Undoable'
  BY DEF Fail, Inv, Undoable
<1> QED
  BY <1>1, <1>2, <1>3, InstallStep DEF Fail

LEMMA RestoreStep == Inv /\ Restore /\ UNCHANGED <<buildVars, workerVars>> => Inv'
<1> SUFFICES ASSUME Inv, Restore, UNCHANGED <<buildVars, workerVars>> PROVE Inv'
  OBVIOUS
<1>1. InstallTypeOK(Versions, Scripts)'
  BY ThemeTypes DEF Restore, Inv, TypeOK, InstallTypeOK, Versions, Scripts, Lists
<1>2. failures' # 0
  BY DEF Restore, Inv, Between
<1>3. Undoable'
  BY DEF Restore, Inv, Undoable
<1> QED
  BY <1>1, <1>2, <1>3, InstallStep DEF Restore

LEMMA CrashStep == Inv /\ Crash /\ UNCHANGED <<buildVars, workerVars>> => Inv'
<1> SUFFICES ASSUME Inv, Crash, UNCHANGED <<buildVars, workerVars>> PROVE Inv'
  OBVIOUS
<1>1. crashes' \in 0 .. MaxFaults /\ crashes' # 0
  BY BoundsAssumption DEF Crash, Inv, TypeOK, InstallTypeOK
<1>2. InstallTypeOK(Versions, Scripts)'
  BY <1>1 DEF Crash, Inv, TypeOK, InstallTypeOK, Versions, Scripts, Lists
<1>3. failures' = 0 => failures = 0 /\ pc' # "restore" /\ Partial(theme', release')
  BY DEF Crash, Inv, Between, Partial
<1>4. Undoable'
  BY <1>1 DEF Undoable
<1> QED
  BY <1>2, <1>3, <1>4, InstallStep DEF Crash

-----------------------------------------------------------------------------
(* The browser.                                                            *)

\* A step of the browser, which changes neither the theme nor its release.
LEMMA BrowserStep ==
    ASSUME Inv, UNCHANGED <<buildVars, installVars>>, WorkerTypeOK', First', Asking',
           failures = 0 =>
             /\ installing' # None => UpToDate(installing'.script, release)
             /\ \A k \in late' : k[2] <= release[k[1]]
             /\ \A k \in Keys : cache'[k] # Missing =>
                  k[2] <= cache'[k] /\ cache'[k] <= release[k[1]]
    PROVE  Inv'
<1>1. UNCHANGED <<files, listed, theme, backup, pc, release, good, installs, failures, crashes>>
  BY DEF buildVars, installVars
<1>2. TypeOK'
  BY <1>1 DEF Inv, TypeOK, ReleasesTypeOK, InstallTypeOK, Versions, Scripts, Lists
<1>3. Between'
  BY <1>1 DEF Inv, Between, Partial, UpToDate, AtMost, Cached
<1>4. Undoable'
  BY <1>1 DEF Inv, Undoable
<1> QED
  BY <1>2, <1>3, <1>4 DEF Inv

\* Most of them leave the cache and the requests for it alone.
LEMMA QuietBrowserStep ==
    ASSUME Inv, UNCHANGED <<buildVars, installVars, cache, late>>, WorkerTypeOK', First', Asking',
           installing' # None =>
             \/ installing # None /\ installing'.script = installing.script
             \/ failures = 0 => UpToDate(installing'.script, release)
    PROVE  Inv'
<1>1. failures = 0 =>
        /\ installing' # None => UpToDate(installing'.script, release)
        /\ \A k \in late' : k[2] <= release[k[1]]
        /\ \A k \in Keys : cache'[k] # Missing =>
             k[2] <= cache'[k] /\ cache'[k] <= release[k[1]]
  BY DEF Inv, Between, Cached
<1> QED
  BY <1>1, BrowserStep

LEMMA RegisterStep == Inv /\ Register /\ UNCHANGED <<buildVars, installVars>> => Inv'
<1> SUFFICES ASSUME Inv, Register, UNCHANGED <<buildVars, installVars>> PROVE Inv'
  OBVIOUS
<1>1. Site("sw") \in Scripts
  BY SiteType DEF Register, Inv
<1>2. WorkerTypeOK'
  BY <1>1, Values DEF Register, Inv, TypeOK, WorkerTypeOK, Installing, Keys
<1>3. First' /\ Asking'
  BY DEF Register, Inv, First, Asking, Cached, KeyOf
<1>4. failures = 0 => UpToDate(installing'.script, release)
  BY DEF Register, Inv, Between, Partial, Site, Files
<1> QED
  BY <1>2, <1>3, <1>4, QuietBrowserStep DEF Register

LEMMA ListCachedStep == Inv /\ ListCached /\ UNCHANGED <<buildVars, installVars>> => Inv'
<1> SUFFICES ASSUME Inv, ListCached, UNCHANGED <<buildVars, installVars>> PROVE Inv'
  OBVIOUS
<1>1. installing \in Installing /\ installing.script \in Scripts
  BY Values DEF ListCached, Inv, TypeOK, WorkerTypeOK, Installing
<1>2. /\ installing' \in Installing /\ installing'.script = installing.script
      /\ installing.script \in Lists =>
           \A a \in Assets \ installing'.todo : Cached(KeyOf(installing.script, a))
      /\ installing'.todo # {} => installing.script \in Lists
  BY <1>1, Values DEF ListCached, Installing, Scripts
<1>3. WorkerTypeOK'
  BY <1>2 DEF ListCached, Inv, TypeOK, WorkerTypeOK
<1>4. First' /\ Asking'
  BY <1>1, <1>2 DEF ListCached, Inv, First, Asking, Cached, KeyOf, Scripts
<1>5. installing # None
  BY DEF ListCached
<1> QED
  BY <1>2, <1>3, <1>4, <1>5, QuietBrowserStep DEF ListCached

\* What a worker fetches is not older than what it asks for.
LEMMA FetchStep ==
    ASSUME Inv, NEW a \in Assets, Fetch(a), UNCHANGED <<buildVars, installVars>> PROVE Inv'
<1> DEFINE k0 == KeyOf(installing.script, a)
<1>1. installing # None /\ installing \in Installing /\ installing.script \in Lists
  BY DEF Fetch, Inv, TypeOK, WorkerTypeOK, Asking
<1>2. Site(a) \in Versions /\ Site(a) # Missing
  BY SiteType DEF Fetch, Inv
<1>3. k0 \in Keys /\ k0[1] = a /\ k0[2] = installing.script[a] /\ k0[2] \in Versions
  BY <1>1 DEF KeyOf, Keys, Lists
<1>4. cache' = [cache EXCEPT ![k0] = Site(a)] /\ cache \in [Keys -> Versions \cup {Missing}]
  BY DEF Fetch, Inv, TypeOK, WorkerTypeOK
<1>5. installing' \in Installing /\ installing'.script = installing.script
      /\ installing'.pc = installing.pc /\ installing'.todo = installing.todo \ {a}
  BY <1>1, Values DEF Fetch, Installing
<1>6. UNCHANGED <<waiting, active, activating, stale, late>>
  BY DEF Fetch
<1> HIDE DEF k0
<1>7. WorkerTypeOK'
  BY <1>2, <1>3, <1>4, <1>5, <1>6 DEF Inv, TypeOK, WorkerTypeOK
<1>8. Asking'
  BY <1>1, <1>5 DEF Asking
<1>9. First'
  <2>1. \A k \in Keys : Cached(k) => cache'[k] # Missing
    BY <1>2, <1>4 DEF Cached
  <2>2. cache'[k0] # Missing
    BY <1>2, <1>3, <1>4
  <2>3. \A b \in Assets : \A l \in Lists : KeyOf(l, b) \in Keys
    BY DEF KeyOf, Keys, Lists
  <2> QED
    BY <1>1, <1>5, <1>6, <2>1, <2>2, <2>3 DEF Inv, First, Cached, KeyOf, k0
<1>10. ASSUME failures = 0
       PROVE  /\ UpToDate(installing'.script, release)
              /\ \A k \in late' : k[2] <= release[k[1]]
              /\ \A k \in Keys : cache'[k] # Missing =>
                   k[2] <= cache'[k] /\ cache'[k] <= release[k[1]]
  <2>1. UpToDate(installing.script, release) /\ Partial(theme, release)
    BY <1>1, <1>10 DEF Inv, Between
  <2>2. Site(a) = release[a] /\ a \in Files
    BY <1>2, <2>1 DEF Site, Partial, Files, Assets
  <2>3. k0[2] <= release[k0[1]]
    BY <1>1, <1>3, <2>1 DEF UpToDate, AtMost
  <2>4. \A k \in Keys : cache'[k] = IF k = k0 THEN release[a] ELSE cache[k]
    BY <1>4, <2>2
  <2>5. release[a] <= release[a]
    BY <1>2, <2>2, Values
  <2> QED
    BY <1>3, <1>5, <1>6, <1>10, <2>1, <2>3, <2>4, <2>5 DEF Inv, Between, Cached
<1> QED
  BY <1>7, <1>8, <1>9, <1>10, BrowserStep

\* So is what a worker fetches after its installation has failed.
LEMMA FetchedLateStep ==
    ASSUME Inv, NEW k0 \in Keys, FetchedLate(k0), UNCHANGED <<buildVars, installVars>>
    PROVE  Inv'
<1>1. k0[1] \in Assets /\ k0[2] \in Versions
  BY DEF Keys
<1>2. Site(k0[1]) \in Versions \cup {Missing}
  BY <1>1, SiteType DEF Inv
<1>3. cache \in [Keys -> Versions \cup {Missing}] /\ late \in SUBSET Keys /\ k0 \in late
  BY DEF FetchedLate, Inv, TypeOK, WorkerTypeOK
<1>4. \/ cache' = cache
      \/ cache' = [cache EXCEPT ![k0] = Site(k0[1])] /\ Site(k0[1]) # Missing
  BY DEF FetchedLate
<1>5. late' = late \ {k0} /\ UNCHANGED <<installing, waiting, active, activating, stale>>
  BY DEF FetchedLate
<1>6. WorkerTypeOK' /\ Asking'
  BY <1>2, <1>3, <1>4, <1>5 DEF Inv, TypeOK, WorkerTypeOK, Asking
<1>7. First'
  <2>1. \A k \in Keys : Cached(k) => cache'[k] # Missing
    BY <1>3, <1>4 DEF Cached
  <2>2. \A b \in Assets : \A l \in Lists : KeyOf(l, b) \in Keys
    BY DEF KeyOf, Keys, Lists
  <2> QED
    BY <1>5, <2>1, <2>2 DEF Inv, First, Cached, KeyOf
<1>8. ASSUME failures = 0, NEW k \in Keys, cache'[k] # Missing
      PROVE  k[2] <= cache'[k] /\ cache'[k] <= release[k[1]]
  <2>1. CASE cache'[k] = cache[k]
    BY <1>8, <2>1 DEF Inv, Between, Cached
  <2>2. CASE cache'[k] # cache[k]
    <3>1. k = k0 /\ cache'[k] = Site(k0[1]) /\ Site(k0[1]) # Missing
      BY <1>3, <1>4, <2>2
    <3>2. Site(k0[1]) = release[k0[1]]
      BY <1>1, <1>8, <3>1 DEF Site, Inv, Between, Partial, Files, Assets
    <3>3. k0[2] <= release[k0[1]]
      BY <1>3, <1>8 DEF Inv, Between
    <3>4. release[k0[1]] <= release[k0[1]]
      BY <1>2, <3>1, <3>2, Values
    <3> QED
      BY <3>1, <3>2, <3>3, <3>4
  <2> QED
    BY <2>1, <2>2
<1>9. failures = 0 =>
        /\ installing' # None => UpToDate(installing'.script, release)
        /\ \A k \in late' : k[2] <= release[k[1]]
  BY <1>5 DEF Inv, Between
<1> QED
  BY <1>6, <1>7, <1>8, <1>9, BrowserStep

\* What a worker leaves behind is not asked for what the theme has not had.
LEMMA FetchFailsStep ==
    ASSUME Inv, NEW a \in Assets, FetchFails(a), UNCHANGED <<buildVars, installVars>>
    PROVE  Inv'
<1>1. installing # None /\ installing \in Installing /\ installing.script \in Lists
  BY DEF FetchFails, Inv, TypeOK, WorkerTypeOK, Asking
<1>2. late' = {KeyOf(installing.script, b) : b \in installing.todo \ {a}}
      /\ installing' = None /\ UNCHANGED <<cache, waiting, active, activating, stale>>
  BY DEF FetchFails
<1>3. \A k \in late' : k \in Keys /\ k[1] \in Assets /\ k[2] = installing.script[k[1]]
  BY <1>1, <1>2 DEF Installing, KeyOf, Keys, Lists
<1>4. WorkerTypeOK' /\ Asking'
  BY <1>2, <1>3 DEF Inv, TypeOK, WorkerTypeOK, Asking
<1>5. First'
  BY <1>2 DEF Inv, First, Cached, KeyOf
<1>6. failures = 0 => \A k \in late' : k[2] <= release[k[1]]
  BY <1>1, <1>3 DEF Inv, Between, UpToDate, AtMost
<1>7. failures = 0 => \A k \in Keys : cache'[k] # Missing =>
        k[2] <= cache'[k] /\ cache'[k] <= release[k[1]]
  BY <1>2 DEF Inv, Between, Cached
<1> QED
  BY <1>2, <1>4, <1>5, <1>6, <1>7, BrowserStep

LEMMA InstalledStep == Inv /\ Installed /\ UNCHANGED <<buildVars, installVars>> => Inv'
<1> SUFFICES ASSUME Inv, Installed, UNCHANGED <<buildVars, installVars>> PROVE Inv'
  OBVIOUS
<1>1. installing # None /\ installing \in Installing /\ installing.script \in Scripts
  BY Values DEF Installed, Inv, TypeOK, WorkerTypeOK, Installing
<1>2. WorkerTypeOK' /\ Asking'
  BY <1>1, Values DEF Installed, Inv, TypeOK, WorkerTypeOK, Asking
<1>3. First'
  BY <1>1 DEF Installed, Inv, First, Cached, KeyOf
<1> QED
  BY <1>2, <1>3, QuietBrowserStep DEF Installed

\* A browser that activates a worker has one from then on.
LEMMA ActivateStep ==
    Inv /\ (Activate \/ PagesClosed) /\ UNCHANGED <<buildVars, installVars>> => Inv'
<1> SUFFICES ASSUME Inv, Activate \/ PagesClosed, UNCHANGED <<buildVars, installVars>> PROVE Inv'
  OBVIOUS
<1>1. active' # None /\ active' \in Scripts /\ waiting' = None
      /\ activating' \in {"no", "list"} /\ UNCHANGED <<cache, installing, stale, late>>
  BY Values DEF Activate, PagesClosed, Inv, TypeOK, WorkerTypeOK, Scripts
<1>2. WorkerTypeOK' /\ Asking' /\ First'
  BY <1>1, Values DEF Inv, TypeOK, WorkerTypeOK, Asking, First
<1> QED
  BY <1>1, <1>2, QuietBrowserStep

\* Keys are only dropped for an active worker.
LEMMA ListOldStep ==
    Inv /\ (ListOld \/ Activated) /\ UNCHANGED <<buildVars, installVars>> => Inv'
<1> SUFFICES ASSUME Inv, ListOld \/ Activated, UNCHANGED <<buildVars, installVars>> PROVE Inv'
  OBVIOUS
<1>1. active # None
  BY DEF ListOld, Activated, Inv, First
<1>2. stale' \in SUBSET Keys /\ activating' \in {"no", "drop"}
      /\ UNCHANGED <<cache, installing, waiting, active, late>>
  BY DEF ListOld, Activated, Inv, TypeOK, WorkerTypeOK
<1>3. WorkerTypeOK' /\ Asking' /\ First'
  BY <1>1, <1>2 DEF Inv, TypeOK, WorkerTypeOK, Asking, First
<1> QED
  BY <1>2, <1>3, QuietBrowserStep

LEMMA DropStep ==
    ASSUME Inv, NEW k0 \in Keys, Drop(k0), UNCHANGED <<buildVars, installVars>> PROVE Inv'
<1>1. active # None
  BY DEF Drop, Inv, First
<1>2. cache \in [Keys -> Versions \cup {Missing}]
      /\ cache' = [cache EXCEPT ![k0] = Missing] /\ stale' = stale \ {k0}
      /\ UNCHANGED <<installing, waiting, active, activating, late>>
  BY DEF Drop, Inv, TypeOK, WorkerTypeOK
<1>3. WorkerTypeOK' /\ Asking' /\ First'
  BY <1>1, <1>2 DEF Inv, TypeOK, WorkerTypeOK, Asking, First
<1>4. \A k \in Keys : cache'[k] # Missing => Cached(k) /\ cache'[k] = cache[k]
  BY <1>2 DEF Cached
<1>5. failures = 0 =>
        /\ installing' # None => UpToDate(installing'.script, release)
        /\ \A k \in late' : k[2] <= release[k[1]]
        /\ \A k \in Keys : cache'[k] # Missing =>
             k[2] <= cache'[k] /\ cache'[k] <= release[k[1]]
  BY <1>2, <1>4 DEF Inv, Between
<1> QED
  BY <1>3, <1>5, BrowserStep

-----------------------------------------------------------------------------

LEMMA StepInv == Inv /\ [Next]_vars => Inv'
<1> SUFFICES ASSUME Inv, [Next]_vars PROVE Inv'
  OBVIOUS
<1>1. CASE Release /\ UNCHANGED workerVars
  BY <1>1, ReleaseStep
<1>2. CASE (Continue \/ Fail \/ Crash) /\ UNCHANGED <<buildVars, workerVars>>
  BY <1>2, MakeDirectoryStep, CopyStep, MirroredStep, CompleteStep, RestoreStep, FailStep,
     CrashStep DEF Continue
<1>3. CASE WorkerNext /\ UNCHANGED <<buildVars, installVars>>
  BY <1>3, RegisterStep, ListCachedStep, FetchStep, FetchFailsStep, FetchedLateStep,
     InstalledStep, ActivateStep, ListOldStep, DropStep DEF WorkerNext
<1>4. CASE UNCHANGED vars
  <2>1. UNCHANGED <<buildVars, installVars, cache, late>> /\ UNCHANGED workerVars
    BY <1>4 DEF vars, workerVars
  <2>2. WorkerTypeOK' /\ First' /\ Asking'
    BY <2>1 DEF workerVars, Inv, TypeOK, WorkerTypeOK, First, Asking, Cached, KeyOf
  <2> QED
    BY <2>1, <2>2, QuietBrowserStep DEF workerVars
<1> QED
  BY <1>1, <1>2, <1>3, <1>4 DEF Next

LEMMA Invariance == Spec => []Inv
BY InitInv, StepInv, PTL DEF Spec

\* The build, the installation and the browser are always in one of their states.
THEOREM DeliveryTyped == Spec => []TypeOK
<1>1. Inv => TypeOK
  BY DEF Inv
<1> QED
  BY <1>1, Invariance, PTL

\* A tenant whose installation fails has the theme it had before, unless the
\* process dies (ThemeService.php).
THEOREM InstallationsReverted == Spec => []Reverted
<1>1. Inv => Reverted
  BY DEF Inv, Undoable, Reverted
<1> QED
  BY <1>1, Invariance, PTL

\* A browser that has installed its first worker has every file the worker
\* lists (service-worker-registration.js).
THEOREM OfflineReady == Spec => []FirstInstallComplete
<1>1. Inv => FirstInstallComplete
  <2> SUFFICES ASSUME Inv, waiting \in WorkerLists, active = None, NEW k \in KeysOf(waiting)
               PROVE  Cached(k)
    BY DEF FirstInstallComplete
  <2>1. PICK a \in Assets : k = KeyOf(waiting, a)
    BY DEF KeysOf
  <2> QED
    BY <2>1, Values DEF Inv, First
<1> QED
  BY <1>1, Invariance, PTL

\* Whatever order sw.js was generated in, and however often the files changed
\* while they were fetched, a browser that has settled serves those of the site.
THEOREM ReadersUpToDate == Spec => []FreshAssets
<1>1. Inv => FreshAssets
  <2> SUFFICES ASSUME Inv, failures = 0, SiteMatches, Settled, NEW a \in Assets,
                      active \in WorkerLists, Cached(KeyOf(active, a))
               PROVE  cache[KeyOf(active, a)] = theme[a]
    BY DEF FreshAssets, Served, Site, SiteMatches
  <2> DEFINE k == KeyOf(active, a)
  <2>1. active = theme["sw"] /\ active[a] = theme[a] /\ theme # None /\ theme[a] # Missing
    BY DEF SiteMatches, Settled, Site, Files, Assets
  <2>2. theme[a] = release[a] /\ k \in Keys /\ k[1] = a /\ k[2] = theme[a]
    BY <2>1, Values DEF Inv, Between, Partial, Files, Assets, KeyOf, Keys, Lists
  <2>3. theme[a] \in Nat /\ cache[k] \in Nat
    <3>1. release[a] \in Versions
      BY ThemeTypes DEF Inv, TypeOK, InstallTypeOK
    <3>2. cache[k] \in Versions
      BY <2>2 DEF Inv, TypeOK, WorkerTypeOK, Cached
    <3> QED
      BY <2>2, <3>1, <3>2, Values
  <2>4. k[2] <= cache[k] /\ cache[k] <= release[k[1]]
    BY <2>2 DEF Inv, Between
  <2> QED
    BY <2>2, <2>3, <2>4
<1> QED
  BY <1>1, Invariance, PTL
=============================================================================
