------------------------ MODULE MockupPreviewProofs ------------------------
(***************************************************************************)
(* MockupPreview for any sets of files and any bounds: the types, that the *)
(* generated module is current when everything has been reported, and that *)
(* the page shows what belongs to its list.                                *)
(***************************************************************************)
EXTENDS MockupPreview, TLAPS

(***************************************************************************)
(* The inductive invariant.  A scan in flight is right about every file    *)
(* that has not changed since it began; of a file that has, somebody will  *)
(* hear: the watcher has it to report, a follow-up is queued, or it counts *)
(* as missed.  When no scan runs, the same holds of the generated module.  *)
(***************************************************************************)
ToReport(f) == phase = "ready" /\ (f \in disk) # (f \in watched)

ScanInv ==
    /\ currentSource.written => generated = currentSource.files
    /\ phase = "down" => ~refreshInFlight
    /\ refreshInFlight =>
          \A f \in Target \ scan.maybe : f \in scan.sure <=> f \in disk
    /\ refreshInFlight =>
          \A f \in scan.maybe : ToReport(f) \/ refreshQueued \/ f \in missed
    /\ ~refreshInFlight /\ phase # "down" =>
          /\ currentSource.written
          /\ \A f \in Target :
                (f \in currentSource.files <=> f \in disk) \/ ToReport(f) \/ f \in missed

PageInv ==
    /\ ShownIsCurrent
    /\ \A l \in loads : l.cancelled \/
          /\ l = [file |-> page.path, gen |-> page.gen, cancelled |-> FALSE]
          /\ page.component = 0 /\ page.error = 0

(* A scan that begins, and none, have the type of a scan. *)
LEMMA EmptyScanType ==
  /\ [sure |-> Discoverable, maybe |-> {}] \in [sure : SUBSET Target, maybe : SUBSET Target]
  /\ NoScan \in [sure : SUBSET Target, maybe : SUBSET Target]
<1>1. Discoverable \in SUBSET Target /\ {} \in SUBSET Target
  BY DEF Discoverable
<1> QED
  BY <1>1 DEF NoScan

(* Refresh has the types right. *)
LEMMA RefreshTypes ==
  ASSUME TypeOK, Refresh
  PROVE  /\ refreshInFlight' \in BOOLEAN /\ refreshQueued' \in BOOLEAN
         /\ refreshQueued' => refreshInFlight'
         /\ scan' \in [sure : SUBSET Target, maybe : SUBSET Target]
         /\ missed' \subseteq File
<1>1. CASE refreshInFlight
  BY <1>1 DEF TypeOK, Refresh
<1>2. CASE ~refreshInFlight
  <2>1. scan' = [sure |-> Discoverable, maybe |-> {}]
        /\ refreshInFlight' = TRUE /\ missed' = {} /\ refreshQueued' = refreshQueued
    BY <1>2 DEF Refresh, StartScan
  <2> QED
    BY <2>1, EmptyScanType DEF TypeOK
<1> QED
  BY <1>1, <1>2

(* Show keeps the type of the page. *)
LEMMA ShowType ==
  ASSUME page \in Page, NEW l \in Load,
         NEW text \in {"none", "not found", "no export", "failed"}
  PROVE  Show(l, text) \in Page
BY DEF Page, Load, Show

(* Rendering gives a page and loads of their types. *)
LEMMA RenderedType ==
  ASSUME NEW path \in File \cup {Gallery}, NEW modules \in SUBSET Target, NEW gen \in Nat
  PROVE  /\ Rendered(path, modules, gen) \in Page
         /\ Loading(path, modules, gen) \subseteq Load
<1>1. Rendered(path, modules, gen) \in Page
  BY DEF Rendered, Page
<1>2. ASSUME path \in modules
      PROVE  [file |-> path, gen |-> gen, cancelled |-> FALSE] \in Load
  <2>1. path \in File
    BY <1>2 DEF File
  <2> QED
    BY <2>1 DEF Load
<1> QED
  BY <1>1, <1>2 DEF Loading

(* The types hold in every reachable state. *)
LEMMA InitTypeOK == Init => TypeOK
<1> SUFFICES ASSUME Init PROVE TypeOK
  OBVIOUS
<1>1. NotYet \in [files : SUBSET Target, written : BOOLEAN]
  BY DEF NotYet
<1>2. NoPage \in Page
  BY DEF NoPage, Page
<1>3. budget \in [edits : Nat, crashes : Nat, visits : Nat]
  BY ConstantAssumption DEF Init
<1> QED
  BY <1>1, <1>2, <1>3, EmptyScanType DEF Init, TypeOK

LEMMA NextTypeOK == TypeOK /\ [Next]_vars => TypeOK'
<1> SUFFICES ASSUME TypeOK, [Next]_vars PROVE TypeOK'
  OBVIOUS
<1>1. CASE ConfigureServer
  BY <1>1, RefreshTypes DEF TypeOK, ConfigureServer, sources, browser
<1>2. CASE WatchMockups
  BY <1>2 DEF TypeOK, WatchMockups, scanning, sources, browser
<1>3. CASE WatcherReady
  BY <1>3 DEF TypeOK, WatcherReady, scanning, sources, browser
<1>4. CASE BuildStart
  BY <1>4, RefreshTypes DEF TypeOK, BuildStart, sources, browser
<1>5. CASE FinishScan
  <2>1. /\ currentSource' \in [files : SUBSET Target, written : BOOLEAN]
        /\ generated' \subseteq Target
    <3> PICK some \in SUBSET scan.maybe : Generate(scan.sure \cup some)
      BY <1>5 DEF FinishScan
    <3>1. scan.sure \cup some \in SUBSET Target
      BY DEF TypeOK
    <3>2. [files |-> scan.sure \cup some, written |-> TRUE]
             \in [files : SUBSET Target, written : BOOLEAN]
      BY <3>1
    <3>3. UNCHANGED sources \/ ( /\ currentSource' = [files |-> scan.sure \cup some,
                                                     written |-> TRUE]
                                /\ generated' = scan.sure \cup some )
      BY DEF Generate
    <3> QED
      BY <3>1, <3>2, <3>3 DEF TypeOK, sources
  <2>2. /\ refreshInFlight' \in BOOLEAN /\ refreshQueued' \in BOOLEAN
        /\ refreshQueued' => refreshInFlight'
        /\ scan' \in [sure : SUBSET Target, maybe : SUBSET Target]
        /\ missed' \subseteq File
    <3>1. CASE refreshQueued
      BY <1>5, <3>1, EmptyScanType DEF FinishScan, StartScan
    <3>2. CASE ~refreshQueued
      BY <1>5, <3>2, EmptyScanType DEF TypeOK, FinishScan
    <3> QED
      BY <3>1, <3>2
  <2> QED
    BY <1>5, <2>1, <2>2 DEF TypeOK, FinishScan, browser
<1>6. CASE SomeNotify
  <2> PICK f \in File : Notify(f)
    BY <1>6 DEF SomeNotify
  <2>1. /\ refreshInFlight' \in BOOLEAN /\ refreshQueued' \in BOOLEAN
        /\ refreshQueued' => refreshInFlight'
        /\ scan' \in [sure : SUBSET Target, maybe : SUBSET Target]
        /\ missed' \subseteq File
    BY RefreshTypes DEF TypeOK, Notify, scanning
  <2> QED
    BY <2>1 DEF TypeOK, Notify, sources, browser
<1>7. CASE Crash
  <2>1. NotYet \in [files : SUBSET Target, written : BOOLEAN]
    BY DEF NotYet
  <2>2. budget' \in [edits : Nat, crashes : Nat, visits : Nat]
    BY <1>7 DEF TypeOK, Crash
  <2> QED
    BY <1>7, <2>1, <2>2, EmptyScanType DEF TypeOK, Crash, browser
<1>8. CASE \E f \in File : EditFile(f)
  <2> PICK f \in File : EditFile(f)
    BY <1>8
  <2>1. scan' \in [sure : SUBSET Target, maybe : SUBSET Target]
    BY DEF TypeOK, EditFile
  <2>2. disk' \subseteq File /\ missed' \subseteq File
        /\ budget' \in [edits : Nat, crashes : Nat, visits : Nat]
    BY DEF TypeOK, EditFile
  <2> QED
    BY <2>1, <2>2 DEF TypeOK, EditFile, sources, browser
<1>9. CASE \E path \in File \cup {Gallery} : OpenPage(path)
  <2> PICK path \in File \cup {Gallery} : OpenPage(path)
    BY <1>9
  <2>1. page' \in Page /\ loads' \subseteq Load
    BY RenderedType DEF TypeOK, OpenPage
  <2> QED
    BY <2>1 DEF TypeOK, OpenPage, scanning, sources
<1>10. CASE Deliver
  <2>1. page.path \in File \cup {Gallery} /\ page.gen + 1 \in Nat
    <3>1. page \in Page
      BY DEF TypeOK
    <3>2. page.path \in File \cup {Gallery} /\ page.gen \in Nat
      BY <3>1 DEF Page
    <3> QED
      BY <3>2
  <2>2. page' \in Page
    BY <1>10, <2>1, RenderedType DEF TypeOK, Deliver
  <2>3. Cancelled \subseteq Load
    BY DEF TypeOK, Cancelled, Load
  <2>4. Loading(page.path, generated, page.gen + 1) \subseteq Load
    BY <2>1, RenderedType DEF TypeOK
  <2> QED
    BY <1>10, <2>2, <2>3, <2>4 DEF TypeOK, Deliver, scanning, sources
<1>11. CASE SomeLoadEnds
  <2> PICK l \in loads : LoadEnds(l)
    BY <1>11 DEF SomeLoadEnds
  <2>1. l \in Load
    BY DEF TypeOK
  <2>2. page' \in Page
    BY <2>1, ShowType DEF TypeOK, LoadEnds
  <2>3. /\ refreshInFlight' \in BOOLEAN /\ refreshQueued' \in BOOLEAN
        /\ refreshQueued' => refreshInFlight'
        /\ scan' \in [sure : SUBSET Target, maybe : SUBSET Target]
        /\ missed' \subseteq File
    BY RefreshTypes DEF TypeOK, LoadEnds, scanning
  <2> QED
    BY <2>2, <2>3 DEF TypeOK, LoadEnds, sources
<1>12. CASE UNCHANGED vars
  BY <1>12 DEF TypeOK, vars
<1> QED
  BY <1>1, <1>2, <1>3, <1>4, <1>5, <1>6, <1>7, <1>8, <1>9, <1>10, <1>11, <1>12
     DEF Next, Process

(* The variables keep their types, whatever files there are and however    *)
(* often the process dies.                                                 *)
THEOREM TypeSafety == Spec => []TypeOK
BY InitTypeOK, NextTypeOK, PTL DEF Spec

(* Whatever asks for a refresh, a scan that begins with it or after it     *)
(* sees the files as they are.                                             *)
LEMMA RefreshKeeps ==
  ASSUME TypeOK, ScanInv, Refresh, phase' # "down", UNCHANGED <<disk, sources>>
  PROVE  ScanInv'
<1>1. CASE refreshInFlight
  BY <1>1 DEF ScanInv, Refresh, sources
<1>2. CASE ~refreshInFlight
  <2>1. scan'.sure = disk \cap Target /\ scan'.maybe = {} /\ refreshInFlight'
    BY <1>2 DEF Refresh, StartScan, Discoverable
  <2> QED
    BY <2>1 DEF ScanInv, sources
<1> QED
  BY <1>1, <1>2

(* ScanInv speaks of these variables. *)
LEMMA ScanInvFrame ==
  ASSUME ScanInv, UNCHANGED <<disk, watched, phase, scanning, sources>>
  PROVE  ScanInv'
BY DEF ScanInv, ToReport, scanning, sources

LEMMA FinishScanKeeps ==
  ASSUME TypeOK, ScanInv, FinishScan
  PROVE  ScanInv'
<1> PICK some \in SUBSET scan.maybe : Generate(scan.sure \cup some)
  BY DEF FinishScan
<1>1. currentSource'.written /\ currentSource'.files = scan.sure \cup some
      /\ generated' = currentSource'.files
  BY DEF Generate, ScanInv, sources
<1>2. UNCHANGED <<disk, watched, phase>> /\ phase # "down"
  BY DEF FinishScan, ScanInv
<1>3. CASE refreshQueued
  <2>1. scan'.sure = disk \cap Target /\ scan'.maybe = {} /\ refreshInFlight'
    BY <1>3 DEF FinishScan, StartScan, Discoverable
  <2> QED
    BY <1>1, <1>2, <2>1 DEF ScanInv
<1>4. CASE ~refreshQueued
  <2>1. ~refreshInFlight' /\ missed' = missed
    BY <1>4 DEF FinishScan
  <2>2. ASSUME NEW f \in Target
        PROVE  (f \in currentSource'.files <=> f \in disk) \/ ToReport(f) \/ f \in missed
    <3>1. CASE f \in scan.maybe
      BY <1>4, <3>1 DEF ScanInv, FinishScan
    <3>2. CASE f \notin scan.maybe
      <4>1. f \in scan.sure <=> f \in disk
        BY <3>2 DEF ScanInv, FinishScan
      <4> QED
        BY <1>1, <3>2, <4>1
    <3> QED
      BY <3>1, <3>2
  <2>3. \A f : ToReport(f)' = ToReport(f)
    BY <1>2 DEF ToReport
  <2> QED
    BY <1>1, <1>2, <2>1, <2>2, <2>3 DEF ScanInv
<1> QED
  BY <1>3, <1>4

(* What is known of the files a change does not touch stays as it was.     *)
LEMMA EditFileKeeps ==
  ASSUME TypeOK, ScanInv, NEW f \in File, EditFile(f)
  PROVE  ScanInv'
<1>1. UNCHANGED <<watched, phase, refreshInFlight, refreshQueued, sources>>
  BY DEF EditFile
<1>2. \A g \in File \ {f} : (g \in disk') = (g \in disk)
  BY DEF EditFile
<1>3. \A g \in File \ {f} : ToReport(g)' = ToReport(g)
  BY <1>1, <1>2 DEF ToReport
<1>4. missed \subseteq missed'
  BY DEF EditFile
<1>5. ToReport(f)' \/ f \in missed'
  BY <1>1 DEF EditFile, ToReport, Unreported
<1>6. CASE refreshInFlight
  <2>1. ASSUME NEW g \in Target, g \notin scan'.maybe
        PROVE  g \in scan'.sure <=> g \in disk'
    <3>1. g # f /\ g \notin scan.maybe
      BY <1>6, <2>1 DEF EditFile, TypeOK
    <3>2. g \in scan'.sure <=> g \in scan.sure
      BY <1>6, <3>1 DEF EditFile, TypeOK
    <3> QED
      BY <1>2, <1>6, <3>1, <3>2 DEF ScanInv, File
  <2>2. ASSUME NEW g \in scan'.maybe
        PROVE  ToReport(g)' \/ refreshQueued' \/ g \in missed'
    <3>1. CASE g = f
      BY <1>5, <3>1
    <3>2. CASE g # f
      <4>1. g \in scan.maybe /\ g \in File
        BY <1>6, <3>2 DEF EditFile, TypeOK, File
      <4> QED
        BY <1>1, <1>3, <1>4, <1>6, <3>2, <4>1 DEF ScanInv
    <3> QED
      BY <3>1, <3>2
  <2> QED
    BY <1>1, <1>6, <2>1, <2>2 DEF ScanInv, sources
<1>7. CASE ~refreshInFlight
  <2>1. ASSUME NEW g \in Target, phase # "down"
        PROVE  (g \in currentSource.files <=> g \in disk') \/ ToReport(g)' \/ g \in missed'
    <3>1. CASE g = f
      BY <1>5, <3>1
    <3>2. CASE g # f
      <4>1. (g \in currentSource.files <=> g \in disk) \/ ToReport(g) \/ g \in missed
        BY <1>7, <2>1 DEF ScanInv
      <4> QED
        BY <1>2, <1>3, <1>4, <3>2, <4>1 DEF File
    <3> QED
      BY <3>1, <3>2
  <2> QED
    BY <1>1, <1>7, <2>1 DEF ScanInv, sources
<1> QED
  BY <1>6, <1>7

LEMMA NotifyKeeps ==
  ASSUME TypeOK, ScanInv, NEW f \in File, Notify(f)
  PROVE  ScanInv'
<1>1. CASE IsOfInterest(f)
  BY <1>1, RefreshKeeps DEF Notify, sources
<1>2. CASE ~IsOfInterest(f)
  <2>1. UNCHANGED <<disk, phase, scanning, sources>>
    BY <1>2 DEF Notify
  <2>2. \A g \in Target : ToReport(g)' = ToReport(g)
    BY <1>2, <2>1 DEF Notify, IsOfInterest, ToReport
  <2>3. scan.maybe \subseteq Target
    BY DEF TypeOK
  <2> QED
    BY <2>1, <2>2, <2>3 DEF ScanInv, scanning, sources
<1> QED
  BY <1>1, <1>2

LEMMA NextScanInv == TypeOK /\ ScanInv /\ [Next]_vars => ScanInv'
<1> SUFFICES ASSUME TypeOK, ScanInv, [Next]_vars PROVE ScanInv'
  OBVIOUS
<1>1. CASE ConfigureServer
  BY <1>1, RefreshKeeps DEF ConfigureServer, sources
<1>2. CASE WatchMockups
  <2>1. \A f : ToReport(f)' = ToReport(f)
    BY <1>2 DEF WatchMockups, ToReport
  <2> QED
    BY <1>2, <2>1 DEF WatchMockups, ScanInv, scanning, sources
<1>3. CASE WatcherReady
  <2>1. \A f : ~ToReport(f)
    BY <1>3 DEF WatcherReady, ToReport
  <2> QED
    BY <1>3, <2>1 DEF WatcherReady, ScanInv, scanning, sources
<1>4. CASE BuildStart
  BY <1>4, RefreshKeeps DEF BuildStart, Up, sources
<1>5. CASE FinishScan
  BY <1>5, FinishScanKeeps
<1>6. CASE SomeNotify
  BY <1>6, NotifyKeeps DEF SomeNotify
<1>7. CASE Crash
  BY <1>7 DEF Crash, ScanInv, NotYet
<1>8. CASE \E f \in File : EditFile(f)
  BY <1>8, EditFileKeeps
<1>9. CASE \E path \in File \cup {Gallery} : OpenPage(path)
  BY <1>9, ScanInvFrame DEF OpenPage
<1>10. CASE Deliver
  BY <1>10, ScanInvFrame DEF Deliver
<1>11. CASE SomeLoadEnds
  <2> PICK l \in loads : LoadEnds(l)
    BY <1>11 DEF SomeLoadEnds
  <2>1. CASE shouldAutoRescan(l.file)
    BY <2>1, RefreshKeeps DEF LoadEnds, shouldAutoRescan, Up, sources
  <2>2. CASE ~shouldAutoRescan(l.file)
    BY <2>2, ScanInvFrame DEF LoadEnds
  <2> QED
    BY <2>1, <2>2
<1>12. CASE UNCHANGED vars
  BY <1>12, ScanInvFrame DEF vars, scanning, sources
<1> QED
  BY <1>1, <1>2, <1>3, <1>4, <1>5, <1>6, <1>7, <1>8, <1>9, <1>10, <1>11, <1>12
     DEF Next, Process

(* A report that comes while a scan is in flight is not lost: when no scan *)
(* runs and nothing is left to report, the generated module lists exactly  *)
(* the components on disk (refresh and its queue of one).                  *)
THEOREM GeneratedSafety == Spec => []GeneratedIsCurrent
<1>1. Init => ScanInv
  BY DEF Init, ScanInv, NotYet
<1>2. TypeOK /\ ScanInv => GeneratedIsCurrent
  <2> SUFFICES ASSUME TypeOK, ScanInv, phase = "ready", ~refreshInFlight,
                      Unreported = {}, missed = {}
               PROVE  generated = Discoverable
    BY DEF GeneratedIsCurrent
  <2>1. generated = currentSource.files /\ generated \subseteq Target
    BY DEF ScanInv, TypeOK
  <2>2. \A f \in Target : ~ToReport(f)
    BY DEF ToReport, Unreported, File
  <2>3. \A f \in Target : f \in currentSource.files <=> f \in disk
    BY <2>2 DEF ScanInv
  <2> QED
    BY <2>1, <2>3 DEF Discoverable
<1> QED
  BY <1>1, <1>2, InitTypeOK, NextTypeOK, NextScanInv, PTL DEF Spec

LEMMA PageInvFrame == ASSUME PageInv, UNCHANGED browser PROVE PageInv'
BY DEF PageInv, ShownIsCurrent, browser

LEMMA NextPageInv == TypeOK /\ PageInv /\ [Next]_vars => PageInv'
<1> SUFFICES ASSUME TypeOK, PageInv, [Next]_vars PROVE PageInv'
  OBVIOUS
<1>1. CASE Process
  BY <1>1, PageInvFrame DEF Process, ConfigureServer, WatchMockups, WatcherReady,
                            BuildStart, FinishScan
<1>2. CASE SomeNotify
  BY <1>2, PageInvFrame DEF SomeNotify, Notify
<1>3. CASE Crash
  BY <1>3, PageInvFrame DEF Crash
<1>4. CASE \E f \in File : EditFile(f)
  BY <1>4, PageInvFrame DEF EditFile
<1>5. CASE \E path \in File \cup {Gallery} : OpenPage(path)
  <2> PICK path \in File \cup {Gallery} : OpenPage(path)
    BY <1>5
  <2> QED
    BY DEF OpenPage, Rendered, Loading, PageInv, ShownIsCurrent
<1>6. CASE Deliver
  <2>1. \A l \in Cancelled : l.cancelled
    BY DEF Cancelled, TypeOK, Load
  <2>2. page' = Rendered(page.path, generated, page.gen + 1)
        /\ loads' = Cancelled \cup Loading(page.path, generated, page.gen + 1)
    BY <1>6 DEF Deliver
  <2>3. ShownIsCurrent'
    BY <2>2 DEF ShownIsCurrent, Rendered
  <2>4. ASSUME NEW l \in Loading(page.path, generated, page.gen + 1)
        PROVE  /\ l = [file |-> page'.path, gen |-> page'.gen, cancelled |-> FALSE]
               /\ page'.component = 0 /\ page'.error = 0
    <3>1. page.path \in generated /\ l = [file |-> page.path, gen |-> page.gen + 1,
                                         cancelled |-> FALSE]
      BY <2>4 DEF Loading
    <3> QED
      BY <2>2, <3>1 DEF Rendered
  <2> QED
    BY <2>1, <2>2, <2>3, <2>4 DEF PageInv
<1>7. CASE SomeLoadEnds
  <2> PICK l \in loads : LoadEnds(l)
    BY <1>7 DEF SomeLoadEnds
  <2> PICK text : page' = Show(l, text)
    BY DEF LoadEnds
  <2>1. loads' = loads \ {l} /\ page \in Page /\ l \in Load
    BY DEF LoadEnds, TypeOK
  <2>2. CASE l.cancelled
    BY <2>1, <2>2 DEF Show, PageInv, ShownIsCurrent
  <2>3. CASE ~l.cancelled
    <3>1. l.gen = page.gen /\ page.component = 0 /\ page.error = 0
      BY <2>3 DEF PageInv
    <3>2. ShownIsCurrent'
      BY <2>1, <2>3, <3>1 DEF Show, ShownIsCurrent, Page
    <3>3. \A k \in loads' : k.cancelled
      BY <2>1, <2>3 DEF PageInv
    <3> QED
      BY <3>2, <3>3 DEF PageInv
  <2> QED
    BY <2>2, <2>3
<1>8. CASE UNCHANGED vars
  BY <1>8, PageInvFrame DEF vars, browser
<1> QED
  BY <1>1, <1>2, <1>3, <1>4, <1>5, <1>6, <1>7, <1>8 DEF Next

(* What the page shows was loaded for the list it has: the effect that was *)
(* cleaned up does not speak again (PreviewRenderer's cancelled flag).     *)
THEOREM ShownSafety == Spec => []ShownIsCurrent
<1>1. Init => PageInv
  BY DEF Init, PageInv, ShownIsCurrent, NoPage
<1>2. PageInv => ShownIsCurrent
  BY DEF PageInv
<1> QED
  BY <1>1, <1>2, InitTypeOK, NextTypeOK, NextPageInv, PTL DEF Spec
=============================================================================
