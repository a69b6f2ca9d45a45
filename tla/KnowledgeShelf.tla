---------------------------- MODULE KnowledgeShelf ----------------------------
(* The list of the knowledge sources: one request at a time is shared by all    *)
(* who ask (knowledge-provider.tsx), a workspace asks when it is entered and     *)
(* again ten seconds after each answer (knowledge-workspace.tsx), and sources    *)
(* are created, edited and deleted meanwhile (source-create-form.tsx,            *)
(* edit-source-dialog.tsx, source-card.tsx).                                     *)
EXTENDS Naturals, FiniteSets

CONSTANTS Sources,       \* sources
          NoSource,      \* no source
          MaxChanges,    \* bound: changes of the server
          MaxLapses,     \* bound: requests that fail
          MaxGestures    \* bound: what the reader does

VARIABLES held, shelf
shelfVars == <<held, shelf>>

Nothing == [s \in Sources |-> 0]      \* the version of each source, 0 when there is none

ShelfInit ==
  /\ held \in {[s \in Sources |-> IF s \in have THEN 1 ELSE 0] : have \in SUBSET Sources}
  /\ \E compact \in BOOLEAN :
     shelf = [compact |-> compact, active |-> FALSE, items |-> Nothing, loaded |-> FALSE, known |-> FALSE, error |-> FALSE,
              ask |-> "none", answer |-> Nothing, tick |-> "off", works |-> {}, edited |-> NoSource,
              deleted |-> NoSource, creating |-> FALSE, open |-> NoSource, screen |-> "documents",
              changes |-> 0, lapses |-> 0, gestures |-> 0]

(***************************************************************************)
(* The shared request.                                                     *)
(***************************************************************************)
Asked(k) == [k EXCEPT !.ask = IF @ = "none" THEN "sent" ELSE @]
AskedOnce(k) == IF k.known THEN k ELSE Asked(k)
\* The tick that waited for the request is set again, whatever became of it.
AskOver(k) == [k EXCEPT !.ask = "none", !.answer = Nothing, !.tick = IF @ = "waiting" THEN "armed" ELSE @]
\* Mutant: a request that failed stays the one to wait for.
AskFailsForGood ==
  /\ shelf.ask # "none" /\ shelf.lapses < MaxLapses
  /\ shelf' = [shelf EXCEPT !.loaded = TRUE, !.error = TRUE, !.lapses = @ + 1, !.answer = Nothing, !.ask = "failed",
                            !.tick = IF @ = "waiting" THEN "armed" ELSE @]
  /\ UNCHANGED held
\* Mutant: the dialogs of a card outlive it.
CardsLinger(k, items) == [k EXCEPT !.items = items]
\* A card leaves with its source, and its dialogs with it.
Cards(k, items) == [k EXCEPT !.items = items,
                             !.edited  = IF @ # NoSource /\ items[@] = 0 THEN NoSource ELSE @,
                             !.deleted = IF @ # NoSource /\ items[@] = 0 THEN NoSource ELSE @]

ServerReads ==
  /\ shelf.ask = "sent"
  /\ shelf' = [shelf EXCEPT !.ask = "read", !.answer = held] /\ UNCHANGED held
AskAnswered ==
  /\ shelf.ask = "read"
  /\ shelf' = AskOver(Cards([shelf EXCEPT !.loaded = TRUE, !.known = TRUE, !.error = FALSE], shelf.answer))
  /\ UNCHANGED held
AskFails ==
  /\ shelf.ask # "none" /\ shelf.lapses < MaxLapses
  /\ shelf' = AskOver([shelf EXCEPT !.loaded = TRUE, !.error = TRUE, !.lapses = @ + 1])
  /\ UNCHANGED held
ServerChanges == \E s \in Sources :
  /\ held[s] > 0 /\ shelf.changes < MaxChanges
  /\ held' = [held EXCEPT ![s] = @ + 1]
  /\ shelf' = [shelf EXCEPT !.changes = @ + 1]

(***************************************************************************)
(* The workspace.                                                          *)
(***************************************************************************)
Gesture(k) == [k EXCEPT !.gestures = @ + 1]
MayGesture == shelf.gestures < MaxGestures

EnterShelf ==
  /\ ~shelf.active
  /\ shelf' = Asked(AskedOnce([shelf EXCEPT !.active = TRUE, !.tick = "armed"])) /\ UNCHANGED held
\* Another mode, or another page of the panel: no more ticks, what was asked is still answered.
LeaveShelf ==
  /\ shelf.active /\ MayGesture
  /\ shelf' = [Gesture(shelf) EXCEPT !.active = FALSE, !.tick = "off"] /\ UNCHANGED held
TickFires ==
  /\ shelf.tick = "armed"
  /\ shelf' = Asked([shelf EXCEPT !.tick = "waiting"]) /\ UNCHANGED held
RefreshShelf ==
  /\ shelf.active /\ MayGesture /\ (shelf.compact \/ shelf.error)
  /\ shelf' = Asked(Gesture(shelf)) /\ UNCHANGED held
OpenSource == \E s \in Sources :
  /\ shelf.active /\ shelf.compact /\ shelf.open = NoSource /\ ~shelf.creating /\ shelf.items[s] > 0 /\ MayGesture
  /\ shelf' = [Gesture(shelf) EXCEPT !.open = s, !.screen = "documents"] /\ UNCHANGED held
BackToShelf ==
  /\ shelf.active /\ shelf.open # NoSource /\ MayGesture
  /\ shelf' = IF shelf.screen = "add" THEN [Gesture(shelf) EXCEPT !.screen = "documents"]
              ELSE [Gesture(shelf) EXCEPT !.open = NoSource]
  /\ UNCHANGED held

(***************************************************************************)
(* Creating, editing and deleting: a form sends one request at a time.      *)
(***************************************************************************)
Work(kind, s) == [kind |-> kind, source |-> s, phase |-> "sent"]
Busy(kind) == \E w \in shelf.works : w.kind = kind
Cardless == shelf.edited = NoSource /\ shelf.deleted = NoSource /\ ~shelf.creating

OpenCreate ==
  /\ shelf.active /\ shelf.loaded /\ Cardless /\ shelf.open = NoSource /\ MayGesture
  /\ shelf' = [Gesture(shelf) EXCEPT !.creating = TRUE] /\ UNCHANGED held
CancelCreate ==
  /\ shelf.creating /\ MayGesture /\ shelf' = [Gesture(shelf) EXCEPT !.creating = FALSE] /\ UNCHANGED held
SubmitCreate == \E s \in Sources :
  /\ shelf.creating /\ ~Busy("create") /\ held[s] = 0 /\ shelf.items[s] = 0 /\ shelf.changes < MaxChanges
  /\ shelf' = [shelf EXCEPT !.works = @ \cup {Work("create", s)}, !.changes = @ + 1] /\ UNCHANGED held
OpenEdit == \E s \in Sources :
  /\ shelf.active /\ ~shelf.compact /\ Cardless /\ shelf.items[s] > 0 /\ MayGesture
  /\ shelf' = [Gesture(shelf) EXCEPT !.edited = s] /\ UNCHANGED held
SubmitEdit ==
  /\ shelf.edited # NoSource /\ ~Busy("edit") /\ shelf.changes < MaxChanges
  /\ shelf' = [shelf EXCEPT !.works = @ \cup {Work("edit", shelf.edited)}, !.changes = @ + 1] /\ UNCHANGED held
CloseEdit == shelf.edited # NoSource /\ MayGesture /\ shelf' = [Gesture(shelf) EXCEPT !.edited = NoSource] /\ UNCHANGED held
OpenShelfDelete == \E s \in Sources :
  /\ shelf.active /\ ~shelf.compact /\ Cardless /\ shelf.items[s] > 0 /\ MayGesture
  /\ shelf' = [Gesture(shelf) EXCEPT !.deleted = s] /\ UNCHANGED held
SubmitDelete ==
  /\ shelf.deleted # NoSource /\ ~Busy("delete") /\ shelf.changes < MaxChanges
  /\ shelf' = [shelf EXCEPT !.works = @ \cup {Work("delete", shelf.deleted)}, !.changes = @ + 1] /\ UNCHANGED held

CloseDelete ==
  /\ shelf.deleted # NoSource /\ ~Busy("delete") /\ MayGesture
  /\ shelf' = [Gesture(shelf) EXCEPT !.deleted = NoSource] /\ UNCHANGED held

Made(kind, version) == CASE kind = "create" -> 1 [] kind = "delete" -> 0 [] OTHER -> version + 1
WorkDone == \E w \in shelf.works :
  /\ w.phase = "sent" /\ (w.kind = "create" <=> held[w.source] = 0)
  /\ held' = [held EXCEPT ![w.source] = Made(w.kind, @)]
  /\ shelf' = [shelf EXCEPT !.works = (@ \ {w}) \cup {[w EXCEPT !.phase = "done"]}]
\* Refused, or done with the answer lost: the form stays, and nothing is asked.
WorkLost == \E w \in shelf.works :
  /\ shelf.lapses < MaxLapses
  /\ shelf' = [shelf EXCEPT !.works = @ \ {w}, !.lapses = @ + 1] /\ UNCHANGED held
WorkAnswered == \E w \in shelf.works :
  /\ w.phase = "done"
  /\ LET k == [shelf EXCEPT !.works = @ \ {w}]
     IN  shelf' = CASE w.kind = "create" ->
                         [Cards(k, [k.items EXCEPT ![w.source] = 1]) EXCEPT !.known = TRUE, !.loaded = TRUE, !.error = FALSE,
                            !.creating = FALSE, !.open = IF k.compact THEN w.source ELSE @,
                            !.screen = IF k.compact THEN "add" ELSE @]
                    [] w.kind = "edit" -> Asked([k EXCEPT !.edited = IF @ = w.source THEN NoSource ELSE @])
                    [] OTHER -> Asked([k EXCEPT !.deleted = IF @ = w.source THEN NoSource ELSE @])
  /\ UNCHANGED held

ShelfNext ==
  \/ ServerReads \/ AskAnswered \/ AskFails \/ ServerChanges
  \/ EnterShelf \/ LeaveShelf \/ TickFires \/ RefreshShelf \/ OpenSource \/ BackToShelf
  \/ OpenCreate \/ CancelCreate \/ SubmitCreate \/ OpenEdit \/ SubmitEdit \/ CloseEdit
  \/ OpenShelfDelete \/ SubmitDelete \/ CloseDelete
  \/ WorkDone \/ WorkLost \/ WorkAnswered

\* The timer runs while the workspace is active, and a request comes to an end.
Attended == TickFires \/ ServerReads \/ AskAnswered \/ EnterShelf
Awaited  == shelf.tick = "armed" \/ shelf.ask \in {"sent", "read"} \/ ~shelf.active
ShelfSpec ==
  /\ ShelfInit /\ [][ShelfNext]_shelfVars
  /\ <>[]Awaited => []<><<Attended>>_shelfVars

(***************************************************************************)
(* Properties.                                                             *)
(***************************************************************************)
ShelfTypeOK ==
  /\ shelf.ask \in {"none", "sent", "read"} /\ shelf.tick \in {"off", "armed", "waiting"}
  /\ shelf.works \subseteq [kind : {"create", "edit", "delete"}, source : Sources, phase : {"sent", "done"}]
  /\ {shelf.edited, shelf.deleted, shelf.open} \subseteq Sources \cup {NoSource}

\* The workspace in front looks again: its timer is set, or waits for a request
\* that is under way; a dialog is about a card that is there.
ShelfConsistent ==
  /\ ShelfTypeOK
  /\ shelf.active <=> shelf.tick # "off"
  /\ shelf.tick = "waiting" => shelf.ask # "none"
  /\ shelf.edited # NoSource => shelf.items[shelf.edited] > 0
  /\ shelf.deleted # NoSource => shelf.items[shelf.deleted] > 0

\* Whatever was asked, joined, failed or overwritten meanwhile, the list of the
\* workspace comes to what the server holds once the changes are over.
ShelfCatchesUp == []<>(shelf.items = held)
=============================================================================
