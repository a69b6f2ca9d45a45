------------------------------ MODULE SettingsForms ------------------------------
(* The settings that are kept on the server as one configuration, and the forms  *)
(* that write it: the model form (model-config-form.tsx), the knowledge form     *)
(* (knowledge-config-form.tsx), the system form with its maintenance section     *)
(* (system-config-form.tsx), and the first-run dialog (quick-model-setup-dialog). *)
(* A tab that is left is unmounted: what it asked for still happens, and its      *)
(* answer finds nobody.                                                           *)
EXTENDS Naturals, FiniteSets

CONSTANTS MaxMounts,     \* bound: tabs opened
          MaxTouches,    \* bound: edits and clicks
          MaxRefusals    \* bound: requests that fail

VARIABLES config, form
formVars == <<config, form>>

SettingsTabs == {"model", "knowledge", "system", "other"}
FieldsOf(tab) == CASE tab = "model" -> {"generation", "parser"} [] tab = "knowledge" -> {"retrieval"}
                   [] tab = "system" -> {"clean", "limits"} [] OTHER -> {}
Fields == UNION {FieldsOf(t) : t \in SettingsTabs}
Recommended == [f \in Fields |-> 0]
Part(values, fields) == [f \in fields |-> values[f]]
Overlay(values, patch) == [f \in Fields |-> IF f \in DOMAIN patch THEN patch[f] ELSE values[f]]

Call(op, mount, patch) == [op |-> op, mount |-> mount, patch |-> patch, stage |-> "sent", out |-> Recommended, since |-> {}]
Nobody == [f \in {} |-> 0]
\* A fresh page: nothing is known, and the tab asks for what it shows.
Asks(tab, mount) ==
  IF tab = "other" THEN {}
  ELSE {Call("load", mount, Nobody)} \cup (IF tab = "system" THEN {Call("status", mount, Nobody)} ELSE {})
Mounted(tab, mount, calls) ==
  [tab |-> tab, mount |-> mount, phase |-> IF tab = "other" THEN "ready" ELSE "loading", draft |-> Recommended,
   loaded |-> Recommended, touched |-> FALSE, key |-> FALSE, saving |-> FALSE, testing |-> FALSE, verdict |-> FALSE,
   status |-> "unknown", busy |-> FALSE, cleaning |-> FALSE, confirm |-> FALSE, behind |-> {},
   calls |-> calls \cup Asks(tab, mount)]

FormInit ==
  /\ \E quick \in BOOLEAN : \E t \in SettingsTabs :
       form = [page |-> Mounted(t, 1, {}), caps |-> 0, quick |-> IF quick THEN "open" ELSE "closed",
               touches |-> 0, refusals |-> 0]
  /\ config = [values |-> Recommended, pending |-> FALSE]

Touch(k) == [k EXCEPT !.touches = @ + 1]
CanTouch == form.touches < MaxTouches /\ form.quick = "closed" /\ ~form.page.confirm
Sent(p, op, patch) == [p EXCEPT !.calls = @ \cup {Call(op, p.mount, patch)}]
Here(p, c) == c.mount = p.mount
Filled(p, c) == [p EXCEPT !.draft = Overlay(@, Part(c.out, FieldsOf(p.tab))), !.loaded = c.out, !.touched = FALSE,
                          !.key = FALSE, !.phase = "ready", !.behind = c.since]

(***************************************************************************)
(* The server.                                                             *)
(***************************************************************************)
Wrote(c, values) == CASE c.op = "save" -> Overlay(values, c.patch)
                      [] c.op = "arm" -> [values EXCEPT !["clean"] = 1]
                      [] c.op = "setup" -> [values EXCEPT !["parser"] = 1]
                      [] c.op = "quick" -> [values EXCEPT !["generation"] = 1, !["parser"] = 1]
                      [] OTHER -> values
\* The fields written since an answer was given, and since the form was filled, are remembered.
Serve == \E c \in form.page.calls :
  /\ c.stage = "sent"
  /\ LET values  == Wrote(c, config.values)
         changed == {f \in Fields : values[f] # config.values[f]}
         others  == {[d EXCEPT !.since = IF d.stage = "done" THEN @ \cup changed ELSE @] : d \in form.page.calls \ {c}}
     IN  /\ config' = [values |-> values, pending |-> config.pending \/ c.op \in {"trigger", "pend"}]
         /\ form' = [form EXCEPT !.page.calls = others \cup {[c EXCEPT !.stage = "done", !.out = values]},
                                 !.page.behind = @ \cup changed]
\* The request is refused, or its answer is lost.
Refuse == \E c \in form.page.calls :
  /\ c.stage \in {"sent", "done"} /\ form.refusals < MaxRefusals
  /\ form' = [form EXCEPT !.page.calls = (@ \ {c}) \cup {[c EXCEPT !.stage = "failed"]}, !.refusals = @ + 1]
  /\ UNCHANGED config

(***************************************************************************)
(* The answers.                                                            *)
(***************************************************************************)
Over(p, c) == [p EXCEPT !.calls = @ \ {c}]
LoadEnds == \E c \in form.page.calls :
  /\ c.op = "load" /\ c.stage \in {"done", "failed"}
  /\ LET p == Over(form.page, c)
     IN  form' = [form EXCEPT !.page = IF ~Here(p, c) THEN p
                                       ELSE IF c.stage = "failed" THEN [p EXCEPT !.phase = "error"]
                                       ELSE Filled(p, c)]
  /\ UNCHANGED config
\* What came back fills the form again, and what was typed meanwhile is gone.
Refilled(p, c) == IF Here(p, c) THEN Filled(p, c) ELSE p
\* Saved: the form is filled with the answer, then the app asks what it can do now.
WriteEnds == \E c \in form.page.calls :
  /\ c.op \in {"save", "setup"} /\ c.stage \in {"done", "failed"}
  /\ LET p == Over(form.page, c)
     IN  form' = [form EXCEPT !.page =
           IF c.stage = "failed" THEN [p EXCEPT !.saving = IF Here(p, c) THEN FALSE ELSE @]
           ELSE LET q == Refilled(p, c) IN [q EXCEPT !.calls = @ \cup {Call("caps", c.mount, Nobody)}]]
  /\ UNCHANGED config
CapsEnd == \E c \in form.page.calls :
  /\ c.op = "caps" /\ c.stage \in {"done", "failed"}
  /\ LET p == Over(form.page, c)
     IN  form' = [form EXCEPT !.page = [p EXCEPT !.saving = IF Here(p, c) THEN FALSE ELSE @],
                              !.caps = IF c.stage = "done" THEN c.out["generation"] ELSE @]
  /\ UNCHANGED config
TestEnds == \E c \in form.page.calls :
  /\ c.op = "test" /\ c.stage \in {"done", "failed"}
  /\ LET p == Over(form.page, c)
     IN  form' = [form EXCEPT !.page = IF Here(p, c) THEN [p EXCEPT !.testing = FALSE, !.verdict = TRUE] ELSE p]
  /\ UNCHANGED config
\* The status of the maintenance: without it the section offers nothing.
StatusEnds == \E c \in form.page.calls :
  /\ c.op = "status" /\ c.stage \in {"done", "failed"}
  /\ LET p == Over(form.page, c)
     IN  form' = [form EXCEPT !.page = IF ~Here(p, c) THEN p
                                       ELSE [p EXCEPT !.status = IF c.stage = "done" THEN "known" ELSE "unknown",
                                                      !.busy = FALSE]]
  /\ UNCHANGED config
TriggerEnds == \E c \in form.page.calls :
  /\ c.op = "trigger" /\ c.stage \in {"done", "failed"}
  /\ LET p == Over(form.page, c)
     IN  form' = [form EXCEPT !.page = IF c.stage = "failed" THEN [p EXCEPT !.busy = IF Here(p, c) THEN FALSE ELSE @]
                                       ELSE [p EXCEPT !.calls = @ \cup {Call("status", c.mount, Nobody)}]]
  /\ UNCHANGED config
\* The three steps of a cleanup: the switch, the order for the next start, the restart.
ArmEnds == \E c \in form.page.calls :
  /\ c.op = "arm" /\ c.stage \in {"done", "failed"}
  /\ LET p == Over(form.page, c)
     IN  form' = [form EXCEPT !.page = IF c.stage = "failed" THEN [p EXCEPT !.cleaning = FALSE]
                                       ELSE [p EXCEPT !.calls = @ \cup {Call("pend", c.mount, Nobody)}]]
  /\ UNCHANGED config
PendEnds == \E c \in form.page.calls :
  /\ c.op = "pend" /\ c.stage \in {"done", "failed"}
  /\ LET p == Over(form.page, c)
         told == [p EXCEPT !.cleaning = FALSE, !.confirm = FALSE, !.calls = @ \cup {Call("status", c.mount, Nobody)}]
     IN  form' = [form EXCEPT !.page = IF c.stage = "failed" THEN [p EXCEPT !.cleaning = FALSE] ELSE told]
  /\ UNCHANGED config
\* The app starts again, at the desktop's request or the reader's: the order is carried out.
AppStarts ==
  /\ config.pending /\ form.page.mount < MaxMounts
  /\ config' = [config EXCEPT !.pending = FALSE]
  /\ form' = [form EXCEPT !.page = Mounted("other", form.page.mount + 1, {}),
                          !.caps = config.values["generation"], !.quick = "closed"]
QuickEnds == \E c \in form.page.calls :
  /\ c.op = "quick" /\ c.stage \in {"done", "failed"}
  /\ form' = [form EXCEPT !.page = Over(@, c), !.quick = IF c.stage = "done" THEN "closed" ELSE "open",
                          !.caps = IF c.stage = "done" THEN c.out["generation"] ELSE @]
  /\ UNCHANGED config

(***************************************************************************)
(* The reader.                                                             *)
(***************************************************************************)
OpenTab == \E t \in SettingsTabs \ {form.page.tab} :
  /\ CanTouch /\ form.page.mount < MaxMounts
  /\ form' = [Touch(form) EXCEPT !.page = Mounted(t, form.page.mount + 1, form.page.calls)] /\ UNCHANGED config
RetryLoad ==
  /\ CanTouch /\ form.page.phase = "error"
  /\ form' = [Touch(form) EXCEPT !.page = Sent([@ EXCEPT !.phase = "loading"], "load", Nobody)]
  /\ UNCHANGED config
EditField == \E f \in FieldsOf(form.page.tab) :
  /\ CanTouch /\ form.page.phase = "ready"
  /\ form' = [Touch(form) EXCEPT !.page.draft[f] = 1 - @, !.page.touched = TRUE]
  /\ UNCHANGED config
EditKey ==
  /\ CanTouch /\ form.page.phase = "ready" /\ form.page.tab = "model" /\ ~form.page.key
  /\ form' = [Touch(form) EXCEPT !.page.key = TRUE, !.page.touched = TRUE] /\ UNCHANGED config
\* The fields of the form at their recommended values, and the typed keys away.
ResetForm ==
  /\ CanTouch /\ form.page.phase = "ready" /\ form.page.tab # "other" /\ ~form.page.saving /\ ~form.page.testing
  /\ form' = [Touch(form) EXCEPT !.page.draft = Recommended, !.page.touched = TRUE, !.page.key = FALSE,
                                 !.page.verdict = FALSE]
  /\ UNCHANGED config
SaveForm ==
  /\ CanTouch /\ form.page.phase = "ready" /\ form.page.tab # "other" /\ ~form.page.saving /\ ~form.page.testing
  /\ form' = [Touch(form) EXCEPT !.page = Sent([@ EXCEPT !.saving = TRUE, !.verdict = FALSE], "save",
                                               Part(@.draft, FieldsOf(@.tab)))]
  /\ UNCHANGED config
TestForm ==
  /\ CanTouch /\ form.page.phase = "ready" /\ form.page.tab = "model" /\ ~form.page.saving /\ ~form.page.testing
  /\ form' = [Touch(form) EXCEPT !.page = Sent([@ EXCEPT !.testing = TRUE, !.verdict = FALSE], "test", Nobody)]
  /\ UNCHANGED config
\* The key of the generation is reused for the parser that has none.
SetupParser ==
  /\ CanTouch /\ form.page.phase = "ready" /\ form.page.tab = "model" /\ ~form.page.saving /\ ~form.page.testing
  /\ form.page.loaded["generation"] = 1 /\ form.page.loaded["parser"] = 0
  /\ form' = [Touch(form) EXCEPT !.page = Sent([@ EXCEPT !.saving = TRUE], "setup", Nobody)] /\ UNCHANGED config
MaintainNow ==
  /\ CanTouch /\ form.page.phase = "ready" /\ form.page.tab = "system" /\ form.page.status = "known"
  /\ ~form.page.busy /\ ~form.page.cleaning
  /\ form' = [Touch(form) EXCEPT !.page = Sent([@ EXCEPT !.busy = TRUE], "trigger", Nobody)] /\ UNCHANGED config
AskClean ==
  /\ CanTouch /\ form.page.phase = "ready" /\ form.page.tab = "system" /\ form.page.status = "known"
  /\ ~form.page.busy /\ ~form.page.cleaning
  /\ form' = [Touch(form) EXCEPT !.page.confirm = TRUE] /\ UNCHANGED config
ConfirmClean ==
  /\ form.page.confirm /\ ~form.page.cleaning
  /\ form' = [form EXCEPT !.page = Sent([@ EXCEPT !.cleaning = TRUE], "arm", Nobody)] /\ UNCHANGED config
CancelClean ==
  /\ form.page.confirm /\ ~form.page.cleaning
  /\ form' = [form EXCEPT !.page.confirm = FALSE] /\ UNCHANGED config
SubmitQuick ==
  /\ form.quick = "open" /\ form.touches < MaxTouches
  /\ form' = [Touch(form) EXCEPT !.quick = "saving", !.page = Sent(@, "quick", Nobody)] /\ UNCHANGED config
SkipQuick ==
  /\ form.quick = "open" /\ form' = [form EXCEPT !.quick = "closed"] /\ UNCHANGED config

FormNext ==
  \/ Serve \/ Refuse \/ LoadEnds \/ WriteEnds \/ CapsEnd \/ TestEnds \/ StatusEnds \/ TriggerEnds \/ ArmEnds \/ PendEnds
  \/ AppStarts \/ QuickEnds \/ OpenTab \/ RetryLoad \/ EditField \/ EditKey \/ ResetForm \/ SaveForm \/ TestForm
  \/ SetupParser \/ MaintainNow \/ AskClean \/ ConfirmClean \/ CancelClean \/ SubmitQuick \/ SkipQuick
FormSpec == FormInit /\ [][FormNext]_formVars

(***************************************************************************)
(* Properties.                                                             *)
(***************************************************************************)
Own(ops) == {c \in form.page.calls : Here(form.page, c) /\ c.op \in ops}

\* The buttons of the form in front tell what is under way: one write or one test
\* at a time, and a switch that shows work has a request that will end it. A form
\* that nobody touched, that waits for nothing and that nothing else wrote to
\* behind its back shows what the server holds.
FormsConsistent ==
  /\ form.page.saving <=> Own({"save", "setup", "caps"}) # {}
  /\ form.page.testing <=> Own({"test"}) # {}
  /\ ~(form.page.saving /\ form.page.testing)
  /\ Cardinality(Own({"save", "setup", "test", "caps"})) <= 1
  /\ form.page.cleaning <=> Own({"arm", "pend"}) # {}
  /\ form.page.cleaning => form.page.confirm
  /\ form.quick = "saving" <=> \E c \in form.page.calls : c.op = "quick"
  /\ form.page.phase = "ready" /\ ~form.page.touched /\ Own({"save", "setup"}) = {} =>
       \A f \in FieldsOf(form.page.tab) \ form.page.behind : form.page.draft[f] = config.values[f]
=============================================================================
