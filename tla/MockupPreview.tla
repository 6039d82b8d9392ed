---------------------------- MODULE MockupPreview ----------------------------
(***************************************************************************)
(* The preview server of the mockup sandbox: a Vite plugin that keeps a    *)
(* generated module, the list of the mockup components on disk, up to date *)
(* while files come and go, and the page that renders one of them.         *)
(*                                                                         *)
(* A scan of the directory takes time: a file that comes or goes meanwhile *)
(* may or may not be in its result.  The watcher (chokidar), the delivery  *)
(* of a changed module to the page and the loading of a module (Vite) are  *)
(* external: the watcher compares what it has reported with the disk, so a *)
(* change that is undone before it looks is never reported, and it reports *)
(* nothing of what its first look finds (ignoreInitial).  A scan that      *)
(* fails takes the process with it, since nobody handles the rejection.    *)
(***************************************************************************)
EXTENDS Integers

CONSTANTS
    Target,         \* the files of mockups that can be previewed
    Hidden,         \* files with a name, or in a directory, that begins with _
    Exports,        \* file -> kinds of functions it exports
    MaxEdits,       \* bound: files that come or go
    MaxCrashes,     \* bound: processes that die
    MaxVisits       \* bound: pages opened

ASSUME ConstantAssumption ==
    /\ Target \cap Hidden = {}
    /\ Exports \in [Target \cup Hidden -> SUBSET {"default", "Preview", "named", "other"}]
    /\ MaxEdits \in Nat /\ MaxCrashes \in Nat /\ MaxVisits \in Nat

File == Target \cup Hidden
Gallery == "gallery"        \* a path without a component
NotYet == [files |-> {}, written |-> FALSE]

VARIABLES
    disk,           \* the files under src/components/mockups
    watched,        \* the files the watcher knows of
    phase,          \* of the process: down, starting, watching, ready
    built,          \* has buildStart been called?
    refreshInFlight, refreshQueued,
    scan,           \* the scan in flight: what it must and what it may find
    currentSource,  \* the list last generated by this process, or NotYet
    generated,      \* the generated module on disk
    missed,         \* changes since the scan began that nobody will report
    page,           \* the page: path, modules, and what it shows
    loads,          \* the modules it is loading
    budget          \* what is left of the bounded events

vars == <<disk, watched, phase, built, refreshInFlight, refreshQueued, scan,
          currentSource, generated, missed, page, loads, budget>>
scanning == <<refreshInFlight, refreshQueued, scan, missed>>
sources == <<currentSource, generated>>
browser == <<page, loads>>

NoScan == [sure |-> {}, maybe |-> {}]
NoPage == [path |-> Gallery, modules |-> {}, gen |-> 0,
           component |-> 0, error |-> 0, text |-> "none"]

Up == phase \in {"watching", "ready"}
Unreported == {f \in File : (f \in disk) # (f \in watched)}
Discoverable == disk \cap Target

Init ==
    /\ disk \in SUBSET File /\ generated \in SUBSET Target
    /\ watched = {} /\ phase = "down" /\ built = FALSE
    /\ refreshInFlight = FALSE /\ refreshQueued = FALSE /\ scan = NoScan
    /\ currentSource = NotYet
    /\ missed = {}
    /\ page = NoPage /\ loads = {}
    /\ budget = [edits |-> MaxEdits, crashes |-> MaxCrashes, visits |-> MaxVisits]

(***************************************************************************)
(* refresh(): start a scan, or have the one in flight followed by another. *)
(***************************************************************************)

StartScan ==
    /\ refreshInFlight' = TRUE
    /\ scan' = [sure |-> Discoverable, maybe |-> {}]
    /\ missed' = {}

MutantRefresh == IF refreshInFlight THEN UNCHANGED scanning
                 ELSE StartScan /\ UNCHANGED refreshQueued

Refresh ==
    IF refreshInFlight
    THEN refreshQueued' = TRUE /\ UNCHANGED <<refreshInFlight, scan, missed>>
    ELSE StartScan /\ UNCHANGED refreshQueued

(* The module is written if its text is not what this process wrote last.  *)
Generate(found) ==
    IF currentSource = [files |-> found, written |-> TRUE]
    THEN UNCHANGED sources
    ELSE /\ currentSource' = [files |-> found, written |-> TRUE]
         /\ generated' = found

(* The scan ends, and the one that was asked for meanwhile begins.         *)
FinishScan ==
    /\ refreshInFlight
    /\ \E some \in SUBSET scan.maybe : Generate(scan.sure \cup some)
    /\ refreshQueued' = FALSE
    /\ IF refreshQueued THEN StartScan
       ELSE refreshInFlight' = FALSE /\ scan' = NoScan /\ UNCHANGED missed
    /\ UNCHANGED <<disk, watched, phase, built, browser, budget>>

(***************************************************************************)
(* The process.                                                            *)
(***************************************************************************)
(* configureServer: a refresh is awaited, then the watcher is set up.      *)
ConfigureServer ==
    /\ phase = "down"
    /\ phase' = "starting" /\ Refresh
    /\ UNCHANGED <<disk, watched, built, sources, browser, budget>>

WatchMockups ==
    /\ phase = "starting" /\ ~refreshInFlight
    /\ phase' = "watching"
    /\ UNCHANGED <<disk, watched, built, scanning, sources, browser, budget>>

(* The watcher has taken its first look at the directory.                  *)
WatcherReady ==
    /\ phase = "watching"
    /\ phase' = "ready" /\ watched' = disk
    /\ UNCHANGED <<disk, built, scanning, sources, browser, budget>>

BuildStart ==
    /\ Up /\ ~built
    /\ built' = TRUE /\ Refresh
    /\ UNCHANGED <<disk, watched, phase, sources, browser, budget>>

MutantIsOfInterest(f) == f \in Target /\ f \in disk

(* "add" of a file that is a target, "unlink" of any file.                 *)
IsOfInterest(f) == f \in Target \/ f \notin disk

(* The watcher reports a file that has come or gone.                       *)
Notify(f) ==
    /\ phase = "ready" /\ f \in Unreported
    /\ watched' = IF f \in disk THEN watched \cup {f} ELSE watched \ {f}
    /\ IF IsOfInterest(f) THEN Refresh ELSE UNCHANGED scanning
    /\ UNCHANGED <<disk, phase, built, sources, browser, budget>>

Crash ==
    /\ phase # "down" /\ budget.crashes > 0
    /\ budget' = [budget EXCEPT !.crashes = @ - 1]
    /\ phase' = "down" /\ built' = FALSE /\ watched' = {}
    /\ refreshInFlight' = FALSE /\ refreshQueued' = FALSE /\ scan' = NoScan
    /\ currentSource' = NotYet /\ missed' = {}
    /\ UNCHANGED <<disk, generated, browser>>

(* Somebody saves a new mockup, or removes one.                            *)
EditFile(f) ==
    /\ budget.edits > 0 /\ budget' = [budget EXCEPT !.edits = @ - 1]
    /\ disk' = IF f \in disk THEN disk \ {f} ELSE disk \cup {f}
    /\ scan' = IF refreshInFlight /\ f \in Target
               THEN [sure |-> scan.sure \ {f}, maybe |-> scan.maybe \cup {f}]
               ELSE scan
    /\ missed' = IF phase # "ready" \/ f \in Unreported
                 THEN missed \cup {f} ELSE missed
    /\ UNCHANGED <<watched, phase, built, refreshInFlight, refreshQueued,
                   sources, browser>>

(***************************************************************************)
(* The page.                                                               *)
(***************************************************************************)
(* What of a module is rendered: default, Preview, the name of the file,   *)
(* or the last function it exports.                                        *)
resolveComponent(exports) ==
    CASE "default" \in exports -> "default"
      [] "Preview" \in exports -> "Preview"
      [] "named" \in exports -> "named"
      [] "other" \in exports -> "other"
      [] OTHER -> "none"

(* The effect of PreviewRenderer: what it loaded before is cancelled.      *)
Cancelled == {[l EXCEPT !.cancelled = TRUE] : l \in loads}

Rendered(path, modules, gen) ==
    [path |-> path, modules |-> modules, gen |-> gen, component |-> 0,
     error |-> IF path # Gallery /\ path \notin modules THEN gen ELSE 0,
     text |-> IF path # Gallery /\ path \notin modules THEN "not found" ELSE "none"]

Loading(path, modules, gen) ==
    IF path \in modules THEN {[file |-> path, gen |-> gen, cancelled |-> FALSE]} ELSE {}

(* App: the path says which component, once for the life of the document.  *)
OpenPage(path) ==
    /\ Up /\ budget.visits > 0
    /\ budget' = [budget EXCEPT !.visits = @ - 1]
    /\ page' = Rendered(path, generated, 1)
    /\ loads' = Loading(path, generated, 1)
    /\ UNCHANGED <<disk, watched, phase, built, scanning, sources>>

(* A changed module reaches the page, which renders with the new list.     *)
Deliver ==
    /\ Up /\ page.gen # 0 /\ page.modules # generated
    /\ page' = Rendered(page.path, generated, page.gen + 1)
    /\ loads' = Cancelled \cup Loading(page.path, generated, page.gen + 1)
    /\ UNCHANGED <<disk, watched, phase, built, scanning, sources, budget>>

MutantShow(load, text) ==
    IF text = "none" THEN [page EXCEPT !.component = load.gen]
    ELSE [page EXCEPT !.error = load.gen, !.text = text]

Show(load, text) ==
    IF load.cancelled THEN page
    ELSE IF text = "none" THEN [page EXCEPT !.component = load.gen]
    ELSE [page EXCEPT !.error = load.gen, !.text = text]

shouldAutoRescan(f) == Up /\ f \notin disk

(* A module has been loaded, or could not be; the request for a file that  *)
(* is gone ends in a 404, and that makes the server look again.            *)
LoadEnds(l) ==
    /\ l \in loads
    /\ loads' = loads \ {l}
    /\ page' = Show(l, IF ~Up \/ l.file \notin disk THEN "failed"
                       ELSE IF resolveComponent(Exports[l.file]) = "none" THEN "no export"
                       ELSE "none")
    /\ IF shouldAutoRescan(l.file) THEN Refresh ELSE UNCHANGED scanning
    /\ UNCHANGED <<disk, watched, phase, built, sources, budget>>

Process == ConfigureServer \/ WatchMockups \/ WatcherReady \/ BuildStart \/ FinishScan
SomeNotify == \E f \in File : Notify(f)
SomeLoadEnds == \E l \in loads : LoadEnds(l)

Next ==
    \/ Process \/ SomeNotify \/ Crash
    \/ \E f \in File : EditFile(f)
    \/ \E path \in File \cup {Gallery} : OpenPage(path)
    \/ Deliver \/ SomeLoadEnds

Spec == Init /\ [][Next]_vars

(* A process that died is started again, scans and loads end, the watcher  *)
(* looks at the directory, and Vite delivers what has changed.             *)
FairSpec ==
    /\ Spec /\ WF_vars(Process) /\ WF_vars(SomeNotify)
    /\ WF_vars(Deliver) /\ WF_vars(SomeLoadEnds)
-----------------------------------------------------------------------------
Page == [path : File \cup {Gallery}, modules : SUBSET Target, gen : Nat,
         component : Nat, error : Nat,
         text : {"none", "not found", "no export", "failed"}]
Load == [file : File, gen : Nat, cancelled : BOOLEAN]

(* The types of the variables. *)
TypeOK ==
    /\ disk \subseteq File /\ watched \subseteq File
    /\ phase \in {"down", "starting", "watching", "ready"} /\ built \in BOOLEAN
    /\ refreshInFlight \in BOOLEAN /\ refreshQueued \in BOOLEAN
    /\ refreshQueued => refreshInFlight
    /\ scan \in [sure : SUBSET Target, maybe : SUBSET Target]
    /\ currentSource \in [files : SUBSET Target, written : BOOLEAN]
    /\ generated \subseteq Target /\ missed \subseteq File
    /\ page \in Page /\ loads \subseteq Load
    /\ budget \in [edits : Nat, crashes : Nat, visits : Nat]

(* When no scan runs and the watcher has reported every change, the module *)
(* on disk lists exactly the components there are: no report is lost that  *)
(* came while a scan was in flight, in the first scan or in a follow-up,   *)
(* and no file of an earlier run is left in it (refresh).                  *)
GeneratedIsCurrent ==
    /\ phase = "ready" /\ ~refreshInFlight
    /\ Unreported = {} /\ missed = {}
    => generated = Discoverable

(* What the page shows was made of the list it has now: a module that was  *)
(* loaded for an earlier one does not replace it, and a component and an   *)
(* error are not shown together (PreviewRenderer).                         *)
ShownIsCurrent ==
    /\ page.component \in {0, page.gen} /\ page.error \in {0, page.gen}
    /\ page.component = 0 \/ page.error = 0

(* When the changes cease, the page ends up with the list of the files on  *)
(* disk, and says "No component found" of its path if and only if there is *)
(* none, through restarts, scans that overlap and lists that arrive late.  *)
PreviewSettles ==
    <>[](\/ missed # {} \/ page.gen = 0
         \/ /\ page.modules = Discoverable
            /\ page.path # Gallery =>
                  (page.text = "not found" <=> page.path \notin Discoverable))
-----------------------------------------------------------------------------
(* Refuted: the same without an exception for the changes nobody reports,  *)
(* which are those made before its first look and those undone before its  *)
(* next, though a scan came between.                                       *)
EveryChangeIsGenerated ==
    phase = "ready" /\ built /\ ~refreshInFlight /\ Unreported = {}
        => generated = Discoverable
=============================================================================
