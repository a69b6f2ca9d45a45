--------------------------- MODULE SourceDocuments ---------------------------
(* The documents of a source as its page shows them: use-source-content.ts     *)
(* reads and polls them, document-list.tsx operates on one, on many, deletes    *)
(* behind a password and renames, upload-zone.tsx and code-folder-import.tsx     *)
(* add some.  The server works on its own; every request is answered later and  *)
(* in any order, and what a handler captured when it began is what it uses.     *)
EXTENDS Naturals, FiniteSets

CONSTANTS Docs,       \* documents
          Recent,     \* those of the first page of the list, read whatever their status
          Matching,   \* those that match the words of the filter
          NoDoc,      \* no document
          MaxReads,   \* bound: reads under way
          Trips       \* bound: what the server holds at first, what the reader may do and how often

Shown     == {"processing", "paused", "failed", "ready"}

\* At first the server holds every document at some status, or not at all.
ASSUME BenchAssumption == \A trip \in Trips : trip.shelf \in [Docs -> Shown \cup {"gone"}]

VARIABLES docs, bench
benchVars == <<docs, bench>>

Tabs      == Shown
RowKinds  == {"pause", "resume", "reprocess", "rename"}
Outcomes  == {"done", "refused", "lost"}   \* lost: done, and the answer never came

(***************************************************************************)
(* The server.                                                             *)
(***************************************************************************)
From(kind) == CASE kind = "pause" -> {"processing"}
                [] kind = "resume" -> {"paused"}
                [] kind = "reprocess" -> {"failed"}
                [] kind = "upload" -> Shown \cup {"gone"}
                [] OTHER -> Shown
To(kind, status) == CASE kind = "pause" -> "paused"
                      [] kind \in {"resume", "reprocess", "upload"} -> "processing"
                      [] kind = "delete" -> "gone"
                      [] OTHER -> status

\* Reads under way see a document at whatever status it has while they go on.
Changed(b, d, status) == [b EXCEPT !.reads = {[r EXCEPT !.seen[d] = @ \cup {status}] : r \in b.reads}]

\* A request of kind about d comes out so: what it does to the server, and to what is under way.
Happens(kind, d, outcome) ==
  IF outcome = "refused" THEN UNCHANGED docs
  ELSE /\ docs[d] \in From(kind)
       /\ docs' = [docs EXCEPT ![d] = To(kind, @)]
Aware(b, kind, d, outcome) ==
  LET c == IF outcome = "refused" THEN b ELSE Changed(b, d, To(kind, docs[d]))
  IN  IF outcome # "done" THEN c
      ELSE [c EXCEPT !.dirty = TRUE, !.failed = FALSE, !.reads = {[r EXCEPT !.fresh = FALSE] : r \in c.reads}]

(***************************************************************************)
(* Reading and polling (use-source-content.ts).                            *)
(***************************************************************************)
Refreshed(b, now) == [b EXCEPT !.reads = @ \cup {[seen |-> [d \in Docs |-> {now[d]}], fresh |-> TRUE]}]
Emptied(b) == [b EXCEPT !.loaded = FALSE, !.shown = [d \in Docs |-> "gone"], !.error = FALSE]

\* What a read makes of a document: one of the statuses it had meanwhile; one that
\* moved between two of the lists may be in none, unless it is on the first page.
Readings(r, d) == r.seen[d] \cup (IF d \notin Recent /\ Cardinality(r.seen[d]) > 1 THEN {"gone"} ELSE {})

Room    == Cardinality(bench.reads) < MaxReads
Clicked == [bench EXCEPT !.clicks = @ + 1]
May(what) == bench.clicks < bench.trip.clicks /\ what \in bench.trip.may
Processing == \E d \in Docs : bench.shown[d] = "processing"

BenchInit ==
  /\ \E trip \in Trips :
     /\ docs = trip.shelf
     /\ bench = [trip |-> trip, active |-> FALSE, hidden |-> FALSE, loaded |-> FALSE, shown |-> [d \in Docs |-> "gone"], error |-> FALSE,
                 reads |-> {}, dirty |-> FALSE, failed |-> FALSE, clicks |-> 0,
                 tab |-> "ready", filtered |-> FALSE, selected |-> {}, rows |-> {}, pending |-> NoDoc,
                 batch |-> [kind |-> "none", left |-> {}, ok |-> FALSE, bad |-> FALSE],
                 renaming |-> NoDoc, deleting |-> NoDoc, deletes |-> {}, asking |-> FALSE, purges |-> {},
                 upload |-> [kind |-> "none", left |-> {}, ok |-> FALSE]]

Activate ==
  /\ ~bench.active /\ Room
  /\ May("open") /\ bench' = Refreshed(Emptied([Clicked EXCEPT !.active = TRUE]), docs) /\ UNCHANGED docs
Deactivate == bench.active /\ May("visit") /\ bench' = Emptied([Clicked EXCEPT !.active = FALSE]) /\ UNCHANGED docs
Hide == May("visit") /\ bench' = [Clicked EXCEPT !.hidden = ~@] /\ UNCHANGED docs
Poll ==
  /\ bench.active /\ Processing /\ ~bench.hidden /\ Room
  /\ bench' = Refreshed(bench, docs) /\ UNCHANGED docs
Retry ==
  /\ bench.active /\ bench.error /\ Room
  /\ bench' = Refreshed(bench, docs) /\ UNCHANGED docs
ReadDone == \E r \in bench.reads :
  \E shown \in [Docs -> Shown \cup {"gone"}] :
    /\ \A d \in Docs : shown[d] \in Readings(r, d)
    /\ bench' = [bench EXCEPT !.reads = @ \ {r}, !.loaded = TRUE, !.shown = shown, !.error = FALSE,
                              !.dirty = @ /\ ~r.fresh, !.failed = @ /\ ~r.fresh]
    /\ UNCHANGED docs
ReadFails == \E r \in bench.reads :
  /\ bench' = [bench EXCEPT !.reads = @ \ {r}, !.error = TRUE, !.failed = @ \/ r.fresh]
  /\ UNCHANGED docs
ServerWorks == \E d \in Docs, status \in {"ready", "failed"} :
  /\ docs[d] = "processing"
  /\ docs' = [docs EXCEPT ![d] = status]
  /\ bench' = Changed(bench, d, status)

(***************************************************************************)
(* The list: a tab, a filter, a selection; dialogs are modal.               *)
(***************************************************************************)
Modal   == bench.renaming # NoDoc \/ bench.deleting # NoDoc \/ bench.asking
AtList  == bench.active /\ bench.loaded /\ ~Modal

Visible == {d \in Docs : bench.shown[d] = bench.tab /\ (bench.filtered => d \in Matching)}
Selectable == IF bench.tab = "ready" THEN {} ELSE Visible
Chosen  == Visible \cap bench.selected


SelectTab == \E tab \in Tabs \ {bench.tab} :
  AtList /\ May("choose") /\ bench' = [Clicked EXCEPT !.tab = tab, !.selected = {}] /\ UNCHANGED docs
Filter == AtList /\ May("filter") /\ bench' = [Clicked EXCEPT !.filtered = ~@, !.selected = {}] /\ UNCHANGED docs
Toggle == \E d \in Selectable :
  /\ AtList
  /\ May("choose") /\ bench' = [Clicked EXCEPT !.selected = IF d \in @ THEN @ \ {d} ELSE @ \cup {d}] /\ UNCHANGED docs
SelectAll ==
  AtList /\ Selectable # {} /\ bench.batch.kind = "none" /\ May("choose") /\ bench' = [Clicked EXCEPT !.selected = Selectable] /\ UNCHANGED docs
ClearSelection ==
  AtList /\ bench.selected # {} /\ bench.batch.kind = "none" /\ May("choose") /\ bench' = [Clicked EXCEPT !.selected = {}] /\ UNCHANGED docs

(***************************************************************************)
(* One document.                                                           *)
(***************************************************************************)
StartRow == \E kind \in RowKinds \ {"rename"}, d \in Visible :
  /\ AtList /\ Room /\ bench.shown[d] \in From(kind) /\ bench.pending # d
  /\ May("row") /\ bench' = [Clicked EXCEPT !.rows = @ \cup {[kind |-> kind, doc |-> d]}, !.pending = d]
  /\ UNCHANGED docs
RowDone == \E row \in bench.rows, outcome \in Outcomes :
  /\ Happens(row.kind, row.doc, outcome)
  /\ LET b == Aware([bench EXCEPT !.rows = @ \ {row}, !.pending = IF row.kind = "rename" THEN @ ELSE NoDoc,
                                  !.renaming = IF row.kind = "rename" /\ outcome = "done" THEN NoDoc ELSE @],
                    row.kind, row.doc, outcome)
     IN  bench' = IF outcome = "done" THEN Refreshed(b, docs') ELSE b
OpenRename == \E d \in Visible : AtList /\ May("rename") /\ bench' = [Clicked EXCEPT !.renaming = d] /\ UNCHANGED docs
CommitRename ==
  /\ bench.renaming # NoDoc /\ Room /\ ~\E row \in bench.rows : row.kind = "rename"
  /\ May("rename") /\ bench' = [Clicked EXCEPT !.rows = @ \cup {[kind |-> "rename", doc |-> bench.renaming]}]
  /\ UNCHANGED docs
CloseRename == bench.renaming # NoDoc /\ May("rename") /\ bench' = [Clicked EXCEPT !.renaming = NoDoc] /\ UNCHANGED docs

\* The button waits for its run and then closes the dialog; the Enter key does neither.
OpenDelete == \E d \in Visible : AtList /\ May("delete") /\ bench' = [Clicked EXCEPT !.deleting = d] /\ UNCHANGED docs
ConfirmDelete == \E via \in {"button", "key"}, right \in BOOLEAN :
  /\ bench.deleting # NoDoc /\ Room /\ ~\E run \in bench.deletes : run.via = via \/ run.via = "button"
  /\ May("delete") /\ bench' = [Clicked EXCEPT !.deletes = @ \cup {[via |-> via, doc |-> bench.deleting, right |-> right]}]
  /\ UNCHANGED docs
DeleteDone == \E run \in bench.deletes, outcome \in Outcomes :
  /\ outcome # "refused" => run.right
  /\ Happens("delete", run.doc, outcome)
  /\ LET b == Aware([bench EXCEPT !.deletes = @ \ {run},
                                  !.deleting = IF outcome = "done" /\ run.via = "button" THEN NoDoc ELSE @],
                    "delete", run.doc, outcome)
     IN  bench' = IF outcome = "done" THEN Refreshed(b, docs') ELSE b
CancelDelete ==
  /\ bench.deleting # NoDoc /\ ~\E run \in bench.deletes : run.via = "button"
  /\ May("delete") /\ bench' = [Clicked EXCEPT !.deleting = NoDoc] /\ UNCHANGED docs

(***************************************************************************)
(* Many documents: those chosen when the button is pressed, one by one.     *)
(***************************************************************************)
BatchKind == CASE bench.tab = "processing" -> "pause" [] bench.tab = "paused" -> "resume" [] OTHER -> "reprocess"
RunBatch ==
  /\ AtList /\ Room /\ bench.batch.kind = "none" /\ bench.tab # "ready" /\ Chosen # {}
  /\ May("batch") /\ bench' = [Clicked EXCEPT !.batch = [kind |-> BatchKind, left |-> Chosen, ok |-> FALSE, bad |-> FALSE]]
  /\ UNCHANGED docs
BatchStep == \E d \in bench.batch.left, outcome \in Outcomes :
  /\ Happens(bench.batch.kind, d, outcome)
  /\ bench' = Aware([bench EXCEPT !.batch.left = @ \ {d}, !.batch.ok = @ \/ outcome = "done",
                                  !.batch.bad = @ \/ outcome # "done"], bench.batch.kind, d, outcome)
NoBatch == [kind |-> "none", left |-> {}, ok |-> FALSE, bad |-> FALSE]
\* Mutant: the list is read again only when every document went well.
BatchEndsQuietly ==
  /\ bench.batch.kind # "none" /\ bench.batch.left = {}
  /\ LET b == [bench EXCEPT !.batch = NoBatch, !.selected = {}]
     IN  bench' = IF bench.batch.ok /\ ~bench.batch.bad THEN Refreshed(b, docs) ELSE b
  /\ UNCHANGED docs
BatchEnds ==
  /\ bench.batch.kind # "none" /\ bench.batch.left = {}
  /\ LET b == [bench EXCEPT !.batch = NoBatch, !.selected = {}]
     IN  bench' = IF bench.batch.ok THEN Refreshed(b, docs) ELSE b
  /\ UNCHANGED docs

AskPurge ==
  /\ AtList /\ bench.selected # {} /\ bench.batch.kind = "none"
  /\ May("purge") /\ bench' = [Clicked EXCEPT !.asking = TRUE] /\ UNCHANGED docs
ConfirmPurge == \E via \in {"button", "key"}, right \in BOOLEAN :
  /\ bench.asking /\ Room /\ Chosen # {} /\ ~\E run \in bench.purges : run.via = via \/ run.via = "button"
  /\ May("purge") /\ bench' = [Clicked EXCEPT !.purges = @ \cup {[via |-> via, left |-> Chosen, right |-> right, ok |-> FALSE, bad |-> FALSE]}]
  /\ UNCHANGED docs
PurgeStep == \E run \in bench.purges : \E d \in run.left, outcome \in Outcomes :
  /\ outcome # "refused" => run.right
  /\ Happens("delete", d, outcome)
  /\ bench' = Aware([bench EXCEPT !.purges = (@ \ {run}) \cup
                       {[run EXCEPT !.left = @ \ {d}, !.ok = @ \/ outcome = "done", !.bad = @ \/ outcome # "done"]}],
                    "delete", d, outcome)
PurgeEnds == \E run \in bench.purges :
  /\ run.left = {}
  /\ LET b == [bench EXCEPT !.purges = @ \ {run}, !.selected = {}, !.asking = @ /\ ~run.ok /\ run.bad]
     IN  bench' = IF run.ok THEN Refreshed(b, docs) ELSE b
  /\ UNCHANGED docs
CancelPurge ==
  /\ bench.asking /\ ~\E run \in bench.purges : run.via = "button"
  /\ May("purge") /\ bench' = [Clicked EXCEPT !.asking = FALSE] /\ UNCHANGED docs

(***************************************************************************)
(* More documents: files one by one, or the new and changed files of a      *)
(* folder, whose first failure ends the run without a word to the list.     *)
(***************************************************************************)
StartUpload == \E kind \in {"files", "folder"}, some \in SUBSET Docs \ {{}} :
  /\ bench.active /\ Room /\ ~Modal /\ bench.upload.kind = "none"
  /\ May("upload") /\ bench' = [Clicked EXCEPT !.upload = [kind |-> kind, left |-> some, ok |-> FALSE]]
  /\ UNCHANGED docs
UploadStep == \E d \in bench.upload.left, outcome \in Outcomes :
  /\ bench.upload.kind = "folder" => outcome = "done"
  /\ Happens("upload", d, outcome)
  /\ bench' = Aware([bench EXCEPT !.upload.left = @ \ {d}, !.upload.ok = @ \/ outcome = "done"], "upload", d, outcome)
NoUpload == [kind |-> "none", left |-> {}, ok |-> FALSE]
FolderFails ==
  /\ bench.upload.kind = "folder" /\ bench.upload.left # {}
  /\ bench' = [bench EXCEPT !.upload = NoUpload, !.failed = bench.dirty]
  /\ UNCHANGED docs
UploadEnds ==
  /\ bench.upload.kind # "none" /\ bench.upload.left = {}
  /\ LET b == [bench EXCEPT !.upload = NoUpload]
     IN  bench' = IF bench.upload.ok THEN Refreshed(b, docs) ELSE b
  /\ UNCHANGED docs

BenchNext ==
  \/ Activate \/ Deactivate \/ Hide \/ Poll \/ Retry \/ ReadDone \/ ReadFails \/ ServerWorks
  \/ SelectTab \/ Filter \/ Toggle \/ SelectAll \/ ClearSelection
  \/ StartRow \/ RowDone \/ OpenRename \/ CommitRename \/ CloseRename \/ OpenDelete \/ ConfirmDelete \/ DeleteDone \/ CancelDelete
  \/ RunBatch \/ BatchStep \/ BatchEnds \/ AskPurge \/ ConfirmPurge \/ PurgeStep \/ PurgeEnds \/ CancelPurge
  \/ StartUpload \/ UploadStep \/ FolderFails \/ UploadEnds

BenchSpec == BenchInit /\ [][BenchNext]_benchVars

(***************************************************************************)
(* Properties.                                                             *)
(***************************************************************************)
BenchTypeOK ==
  /\ bench.tab \in Tabs /\ bench.selected \subseteq Docs /\ bench.pending \in Docs \cup {NoDoc}
  /\ bench.shown \in [Docs -> Shown \cup {"gone"}] /\ docs \in [Docs -> Shown \cup {"gone"}]
  /\ \A r \in bench.reads : \A d \in Docs : r.seen[d] # {}

\* What the server has acknowledged is shown, or a read asked for afterwards is
\* on its way, or will be when the run is over; only a read that failed, or a
\* folder that failed half-way, leaves the list behind.
Running == bench.batch.kind # "none" \/ bench.purges # {} \/ bench.upload.kind # "none"
ChangesAreRead == bench.dirty => Running \/ bench.failed \/ \E r \in bench.reads : r.fresh

\* The page of a source never rests on what it knows to be old
\* (use-source-content.ts, document-list.tsx).
BenchConsistent == BenchTypeOK /\ ChangesAreRead

\* The comment of document-list.tsx: when every deletion failed, as with a wrong
\* password, the dialog stays open for another try.
RetryFindsItsDocuments == [][(PurgeEnds /\ bench'.asking) => bench'.selected = bench.selected]_benchVars
=============================================================================
