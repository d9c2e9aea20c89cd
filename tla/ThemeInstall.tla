----------------------------- MODULE ThemeInstall -----------------------------
(***************************************************************************)
(* Installing a release of the theme on a tenant (ThemeService,            *)
(* TenantAwareThemeInstaller): the tenant's theme is moved to a backup, a  *)
(* copy of the release takes its place file by file, and what fails brings *)
(* the backup back. Visitors get the files of the tenant's theme all the   *)
(* while (StaticThemeAssetsController).                                    *)
(*                                                                         *)
(* Three files stand for a theme: its stylesheet, its script and sw.js.    *)
(***************************************************************************)
EXTENDS Naturals

CONSTANTS
    None,         \* no such directory
    Missing,      \* no such file
    MaxInstalls,  \* bound on the installations
    MaxFaults     \* bound on those that fail or whose process dies

VARIABLES
    theme,        \* the tenant's theme: file to content
    backup,       \* the backup of the theme before
    pc,           \* place of the installation, "idle" if none runs
    release,      \* what it installs, or what the last one did
    good,         \* the theme after the last installation that succeeded
    installs, failures, crashes

Files == {"css", "js", "sw"}

Theme(V, S) == [css : V, js : V, sw : S]
Directory(V, S) == Theme(V \cup {Missing}, S \cup {Missing}) \cup {None}

\* V are the versions of files, S the scripts of workers.
InstallTypeOK(V, S) ==
    /\ theme \in Directory(V, S)
    /\ backup \in Directory(V, S)
    /\ pc \in {"idle", "mirror", "process", "restore"}
    /\ release \in Theme(V, S)
    /\ good \in Directory(V, S)
    /\ installs \in 0 .. MaxInstalls
    /\ failures \in 0 .. MaxFaults
    /\ crashes \in 0 .. MaxFaults

InstallInit(r) ==
    /\ theme = None
    /\ backup = None
    /\ pc = "idle"
    /\ release = r
    /\ good = None
    /\ installs = 0
    /\ failures = 0
    /\ crashes = 0

\* The file a visitor gets, if any.
File(f) == IF theme = None THEN Missing ELSE theme[f]

-----------------------------------------------------------------------------

\* Mutant of Begin: the release is copied over the theme it replaces.
BeginInPlace(r) ==
    /\ pc = "idle"
    /\ installs < MaxInstalls
    /\ installs' = installs + 1
    /\ pc' = "mirror"
    /\ release' = r
    /\ backup' = theme
    /\ UNCHANGED <<theme, good, failures, crashes>>

\* rename() overwrites an earlier backup.
Begin(r) ==
    /\ pc = "idle"
    /\ installs < MaxInstalls
    /\ installs' = installs + 1
    /\ pc' = "mirror"
    /\ release' = r
    /\ theme' = None
    /\ backup' = IF theme # None THEN theme ELSE backup
    /\ UNCHANGED <<good, failures, crashes>>

\* One step of mirror(): the directory, then its files in any order.
MakeDirectory ==
    /\ pc = "mirror"
    /\ theme = None
    /\ theme' = [f \in Files |-> Missing]
    /\ UNCHANGED <<backup, pc, release, good, installs, failures, crashes>>

Copy(f) ==
    /\ pc = "mirror"
    /\ theme # None
    /\ theme[f] # release[f]
    /\ theme' = [theme EXCEPT ![f] = release[f]]
    /\ UNCHANGED <<backup, pc, release, good, installs, failures, crashes>>

Mirrored ==
    /\ pc = "mirror"
    /\ theme = release
    /\ pc' = "process"
    /\ UNCHANGED <<theme, backup, release, good, installs, failures, crashes>>

\* The theme's data are processed and the backup is removed.
Complete ==
    /\ pc = "process"
    /\ pc' = "idle"
    /\ backup' = None
    /\ good' = theme
    /\ UNCHANGED <<theme, release, installs, failures, crashes>>

\* An exception of mirror() or of the processing: the theme is removed, ...
Fail ==
    /\ pc \in {"mirror", "process"}
    /\ failures + crashes < MaxFaults
    /\ failures' = failures + 1
    /\ pc' = "restore"
    /\ theme' = None
    /\ UNCHANGED <<backup, release, good, installs, crashes>>

\* Mutant of Restore: the backup stays where it is.
RestoreNothing ==
    /\ pc = "restore"
    /\ pc' = "idle"
    /\ UNCHANGED <<theme, backup, release, good, installs, failures, crashes>>

\* ... and its backup, if there is one, takes its place.
Restore ==
    /\ pc = "restore"
    /\ pc' = "idle"
    /\ theme' = backup
    /\ backup' = None
    /\ UNCHANGED <<release, good, installs, failures, crashes>>

Crash ==
    /\ pc # "idle"
    /\ failures + crashes < MaxFaults
    /\ crashes' = crashes + 1
    /\ pc' = "idle"
    /\ UNCHANGED <<theme, backup, release, good, installs, failures>>

\* An installation that has begun.
Continue ==
    \/ MakeDirectory
    \/ \E f \in Files : Copy(f)
    \/ Mirrored \/ Complete \/ Restore

-----------------------------------------------------------------------------

\* Whatever becomes of an installation, unless its process dies the tenant has
\* the theme of the last one that succeeded (ThemeService.php: the rename, and
\* the catch block that undoes it; ThemeSetupCommand: "files are reverted to
\* previous version!").
Reverted == pc = "idle" /\ crashes = 0 => theme = good
=============================================================================
