----------------------------- MODULE MCSurfaces -----------------------------
(***************************************************************************)
(* The surfaces around the universe, each on its small instance: the       *)
(* desktop shell, the runner of a developer, the documents of a source,    *)
(* the list of sources, the feed of what is indexed, the import of a code  *)
(* folder, the settings and the local resources.  One of them is chosen at *)
(* the start and runs alone; the others keep one initial state.            *)
(***************************************************************************)
EXTENDS DesktopApp, DevRunner, SourceDocuments, KnowledgeShelf, IngestActivity, FolderImport,
        SettingsForms, LocalResources

CONSTANTS d1, d2, s1, s2, p1, p2, r1, r2, main, util, photo, data, q6, q8

-----------------------------------------------------------------------------
\* Visits to the documents of a source: what it holds, what the visitor may do.
Trip(one, two, may, clicks) ==
  [shelf |-> [d \in {d1, d2} |-> IF d = d1 THEN one ELSE two], may |-> may \cup {"open"}, clicks |-> clicks]
MCTrips == { Trip("processing", "gone", {"visit", "row", "upload"}, 4),
             Trip("processing", "gone", {"choose", "row"}, 3),
             Trip("processing", "processing", {"choose", "batch", "filter"}, 4),
             Trip("failed", "failed", {"choose", "purge"}, 6),
             Trip("failed", "paused", {"choose", "batch"}, 4),
             Trip("ready", "processing", {"rename", "delete", "choose"}, 4) }

-----------------------------------------------------------------------------
\* Files of a folder: two of code, one that is not text, one of a kind turned off.
MCSort == [p \in {main, util, photo, data} |->
             CASE p \in {main, util} -> "plain" [] p = photo -> "binary" [] OTHER -> "off"]

-----------------------------------------------------------------------------
VARIABLE part
surfaceVars == <<desktopVars, devVars, benchVars, shelfVars, feedVars, folderVars, formVars, resourceVars, part>>

SurfacesInit ==
    /\ part \in {"desktop", "dev", "documents", "shelf", "feed", "folder", "forms", "resources"}
    /\ DesktopInit /\ (part # "desktop" => app.darwin /\ ~app.foreign /\ app.install = "whole")
    /\ DevInit /\ (part # "dev" => dev.apis = {} /\ dev.web = "none")
    /\ BenchInit /\ (part # "documents" => bench.trip = CHOOSE t \in Trips : TRUE)
    /\ ShelfInit /\ (part # "shelf" => held = Nothing /\ shelf.compact)
    /\ FeedInit /\ (part # "feed" => works = [p \in Papers |-> "ready"])
    /\ FolderInit /\ (part # "folder" => stock = [r \in Roots |-> [p \in Paths |-> 0]])
    /\ FormInit /\ (part # "forms" => form.quick = "closed" /\ form.page.tab = "other")
    /\ ResourceInit
    /\ part # "resources" => tools.part = "models" /\ tools.ticked = {q6} /\ \A i \in Items : machine[i] = "absent"

SurfacesNext ==
    \/ /\ part = "desktop" /\ DesktopNext
       /\ UNCHANGED <<devVars, benchVars, shelfVars, feedVars, folderVars, formVars, resourceVars, part>>
    \/ /\ part = "dev" /\ DevNext
       /\ UNCHANGED <<desktopVars, benchVars, shelfVars, feedVars, folderVars, formVars, resourceVars, part>>
    \/ /\ part = "documents" /\ BenchNext
       /\ UNCHANGED <<desktopVars, devVars, shelfVars, feedVars, folderVars, formVars, resourceVars, part>>
    \/ /\ part = "shelf" /\ ShelfNext
       /\ UNCHANGED <<desktopVars, devVars, benchVars, feedVars, folderVars, formVars, resourceVars, part>>
    \/ /\ part = "feed" /\ FeedNext
       /\ UNCHANGED <<desktopVars, devVars, benchVars, shelfVars, folderVars, formVars, resourceVars, part>>
    \/ /\ part = "folder" /\ FolderNext
       /\ UNCHANGED <<desktopVars, devVars, benchVars, shelfVars, feedVars, formVars, resourceVars, part>>
    \/ /\ part = "forms" /\ FormNext
       /\ UNCHANGED <<desktopVars, devVars, benchVars, shelfVars, feedVars, folderVars, resourceVars, part>>
    \/ /\ part = "resources" /\ ResourceNext
       /\ UNCHANGED <<desktopVars, devVars, benchVars, shelfVars, feedVars, folderVars, formVars, part>>

SurfacesSpec ==
    /\ SurfacesInit /\ [][SurfacesNext]_surfaceVars
    /\ <>[](part = "shelf" /\ Awaited) => []<><<Attended>>_shelfVars
    /\ ResourceFairness

-----------------------------------------------------------------------------
\* The documents of a source as its page and its feed show them.
DocumentsConsistent == BenchConsistent /\ FeedTellsOneStory

\* The forms of the settings and the resources they manage.
SettingsConsistent == FormsConsistent /\ ResourcesConsistent
=============================================================================
