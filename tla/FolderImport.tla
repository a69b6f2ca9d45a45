----------------------------- MODULE FolderImport -----------------------------
(* The import of a code folder (code-folder-import.tsx, lib/code-folder-        *)
(* import.ts): the files picked are classified, read and hashed, the server      *)
(* plans which are new or changed, and those are sent one by one.  The disk and   *)
(* the server change between the steps.                                          *)
EXTENDS Naturals, FiniteSets

CONSTANTS Roots,         \* folders
          NoRoot,        \* no folder
          Paths,         \* files, in every folder
          Sort,          \* what each path is: "plain", "off", "blocked" or "binary"
          MaxEdits,      \* bound: changes of the disk and of the server
          MaxPicks       \* bound: folders picked

ASSUME FolderAssumption == NoRoot \notin Roots /\ MaxEdits \in Nat

VARIABLES disk, stock, folder
folderVars == <<disk, stock, folder>>

\* Blocked and unselected by its name, or dropped once it is read.
Wanted(path) == Sort[path] = "plain"
NoPlan == [root |-> NoRoot, status |-> [p \in {} |-> "new"]]

FolderInit ==
  /\ disk = [r \in Roots |-> [p \in Paths |-> 1]]
  /\ stock \in [Roots -> [Paths -> {0}] \cup [Paths -> {0, 1}]]
  /\ \A r \in Roots, p \in Paths : ~Wanted(p) => stock[r][p] = 0
  /\ folder = [busy |-> "no", root |-> NoRoot, picked |-> [p \in Paths |-> 0], files |-> [p \in {} |-> 0],
               plan |-> NoPlan, left |-> {}, sent |-> 0, told |-> "none", shrunk |-> FALSE,
               edits |-> 0, picks |-> 0]

(***************************************************************************)
(* Picking, scanning, planning.                                            *)
(***************************************************************************)
\* Mutant: the plan of the folder before stays until the next one is known.
PickKeepsPlan == \E r \in Roots :
  /\ folder.busy = "no" /\ folder.picks < MaxPicks
  /\ folder' = [folder EXCEPT !.busy = "scan", !.root = r, !.picked = disk[r], !.told = "none", !.picks = @ + 1]
  /\ UNCHANGED <<disk, stock>>
PickFolder == \E r \in Roots :
  /\ folder.busy = "no" /\ folder.picks < MaxPicks
  /\ folder' = [folder EXCEPT !.busy = "scan", !.root = r, !.picked = disk[r], !.plan = NoPlan, !.told = "none", !.picks = @ + 1]
  /\ UNCHANGED <<disk, stock>>
\* A file that changed since it was picked cannot be read any more.
ScanReads ==
  /\ folder.busy = "scan" /\ \A p \in Paths : (Sort[p] \in {"plain", "binary"}) => disk[folder.root][p] = folder.picked[p]
  /\ folder' = [folder EXCEPT !.busy = "plan", !.files = [p \in {q \in Paths : Wanted(q)} |-> folder.picked[p]]]
  /\ UNCHANGED <<disk, stock>>
ScanFails ==
  /\ folder.busy = "scan" /\ \E p \in Paths : Sort[p] \in {"plain", "binary"} /\ disk[folder.root][p] # folder.picked[p]
  /\ folder' = [folder EXCEPT !.busy = "no", !.told = "scanFailed"] /\ UNCHANGED <<disk, stock>>
StatusOf(path) == CASE stock[folder.root][path] = 0 -> "new"
                    [] stock[folder.root][path] = folder.files[path] -> "unchanged"
                    [] OTHER -> "changed"
PlanArrives ==
  /\ folder.busy = "plan"
  /\ folder' = [folder EXCEPT !.busy = "no", !.plan = [root |-> folder.root,
                                                       status |-> [p \in DOMAIN folder.files |-> StatusOf(p)]]]
  /\ UNCHANGED <<disk, stock>>
PlanFails ==
  /\ folder.busy = "plan"
  /\ folder' = [folder EXCEPT !.busy = "no", !.told = "scanFailed"] /\ UNCHANGED <<disk, stock>>

(***************************************************************************)
(* Sending.                                                                *)
(***************************************************************************)
Uploadable == {p \in DOMAIN folder.plan.status : folder.plan.status[p] \in {"new", "changed"}}
\* The plan stays when its files are sent: the button sends them again.
SendPlan ==
  /\ folder.busy = "no" /\ Uploadable # {} /\ folder.sent < MaxPicks
  /\ folder' = [folder EXCEPT !.busy = "send", !.left = Uploadable, !.told = "none", !.shrunk = FALSE, !.sent = @ + 1]
  /\ UNCHANGED <<disk, stock>>
SendFile == \E p \in folder.left :
  /\ folder.busy = "send" /\ disk[folder.root][p] = folder.files[p]
  /\ stock' = [stock EXCEPT ![folder.root][p] = folder.files[p]]
  /\ folder' = [folder EXCEPT !.left = @ \ {p}]
  /\ UNCHANGED disk
SendFileFails ==
  /\ folder.busy = "send" /\ folder.left # {}
  /\ folder' = [folder EXCEPT !.busy = "no", !.left = {}, !.told = "uploadFailed"] /\ UNCHANGED <<disk, stock>>
SendEnds ==
  /\ folder.busy = "send" /\ folder.left = {}
  /\ folder' = [folder EXCEPT !.busy = "no", !.told = "uploaded"] /\ UNCHANGED <<disk, stock>>

DiskChanges == \E r \in Roots, p \in Paths :
  /\ folder.edits < MaxEdits
  /\ disk' = [disk EXCEPT ![r][p] = @ + 1]
  /\ folder' = [folder EXCEPT !.edits = @ + 1] /\ UNCHANGED stock
\* Elsewhere a document of the folder is deleted.
StockShrinks == \E r \in Roots, p \in Paths :
  /\ folder.edits < MaxEdits /\ stock[r][p] > 0
  /\ stock' = [stock EXCEPT ![r][p] = 0]
  /\ folder' = [folder EXCEPT !.edits = @ + 1, !.shrunk = TRUE] /\ UNCHANGED disk

FolderNext ==
  \/ PickFolder \/ ScanReads \/ ScanFails \/ PlanArrives \/ PlanFails
  \/ SendPlan \/ SendFile \/ SendFileFails \/ SendEnds \/ DiskChanges \/ StockShrinks
FolderSpec == FolderInit /\ [][FolderNext]_folderVars

(***************************************************************************)
(* Properties.                                                             *)
(***************************************************************************)
\* A plan is carried out with the files it was made for, only files that are
\* wanted arrive, and what is reported as sent is there in the version hashed,
\* unless a document was deleted elsewhere since this pass began.
FolderConsistent ==
  /\ folder.plan # NoPlan => folder.plan.root = folder.root /\ DOMAIN folder.plan.status = DOMAIN folder.files
  /\ \A r \in Roots, p \in Paths : stock[r][p] > 0 => Wanted(p)
  /\ (folder.told = "uploaded" /\ ~folder.shrunk) =>
       \A p \in Uploadable : stock[folder.root][p] = folder.files[p]
=============================================================================
