------------------------------ MODULE LocalResources ------------------------------
(* What the machine of the server has to fetch before it can be used, and the    *)
(* parts of the model form that watch it: the local embedding models and the     *)
(* local reranker (model-config-form.tsx, local-model-manager.ts), and the code  *)
(* grammars (tree-sitter-resource-card.tsx). A fetch goes on at the server; the   *)
(* form asks again while what it last saw is under way. Its tests answer for the  *)
(* draft they were asked about.                                                   *)
EXTENDS Naturals, FiniteSets

CONSTANTS Models,        \* the embedding models
          NoVerdict,     \* no test has an answer that is shown
          AtStart,          \* bound: what may be there at the start, sets of items
          MaxStatusReads,      \* bound: requests for a status under way
          MaxHands,      \* bound: what the reader does
          MaxDrops       \* bound: requests that fail

\* What the form of the embedding says while it is edited.
Drafts == [provider : {"api", "local"}, model : Models, context : {0, 1}]

\* An answer that is not there is no draft and no model.
ASSUME ResourceAssumption == NoVerdict \notin Drafts \cup Models

VARIABLES machine, tools
resourceVars == <<machine, tools>>

Items == {"backend", "ranker", "grammars"} \cup Models
Watched == Items \ {"grammars"}
States == {"absent", "fetching", "paused", "ready"}
NothingSeen == [i \in Items |-> "absent"]

ResourceInit ==
  /\ machine \in {[i \in Items |-> IF i \in have THEN "ready" ELSE "absent"] : have \in AtStart}
  /\ \E m \in Models : \E part \in {"models", "ranker", "grammars"} :
     tools = [part |-> part, seen |-> NothingSeen, known |-> FALSE, ticked |-> {m}, action |-> "none", reads |-> {},
              draft |-> [provider |-> "local", model |-> m, context |-> 0], testing |-> FALSE, verdict |-> NoVerdict,
              asked |-> NoVerdict, rank |-> [model |-> m, asked |-> NoVerdict, verdict |-> NoVerdict], card |-> "absent", cardBusy |-> FALSE, order |-> "none", hands |-> 0, drops |-> 0]

Hand(k) == [k EXCEPT !.hands = @ + 1]
CanAct == tools.hands < MaxHands
Spare == Cardinality(tools.reads) < MaxStatusReads
CanDrop == tools.drops < MaxDrops

(***************************************************************************)
(* The status of the models: asked for at the start, by the reader, and     *)
(* every second and a half while the last one seen is under way. Answers    *)
(* carry what was so when the server looked, and may overtake each other.   *)
(***************************************************************************)
\* Mutant: only the runtime is watched, the downloads are not.
WatchesRuntime(seen) == seen["backend"] = "fetching"
Updating(seen) == \E i \in Watched : seen[i] = "fetching"
Seen(part) == [i \in Items |-> IF (i = "grammars") <=> (part = "grammars") THEN machine[i] ELSE "absent"]
Read(part, stage) == [part |-> part, stage |-> stage, saw |-> NothingSeen]
AskStatus(k) == [k EXCEPT !.reads = @ \cup {Read("models", "sent")}]

LoadStatus ==
  /\ tools.part # "grammars" /\ ~tools.known /\ Read("models", "sent") \notin tools.reads
  /\ tools' = AskStatus(tools) /\ UNCHANGED machine
PollStatus ==
  /\ tools.known /\ Updating(tools.seen) /\ Spare
  /\ tools' = AskStatus(tools) /\ UNCHANGED machine
RefreshStatus ==
  /\ tools.known /\ CanAct /\ Spare
  /\ tools' = AskStatus(Hand(tools)) /\ UNCHANGED machine
ServerLooks == \E r \in tools.reads :
  /\ r.stage = "sent"
  /\ tools' = [tools EXCEPT !.reads = (@ \ {r}) \cup {[r EXCEPT !.stage = "looked", !.saw = Seen(r.part)]}]
  /\ UNCHANGED machine
StatusArrives == \E r \in tools.reads :
  /\ r.part = "models" /\ r.stage = "looked"
  /\ tools' = [tools EXCEPT !.reads = @ \ {r}, !.known = TRUE, !.seen = r.saw]
  /\ UNCHANGED machine
\* The failure is told, and the old status stays.
StatusFails == \E r \in tools.reads :
  /\ CanDrop
  /\ tools' = [tools EXCEPT !.reads = @ \ {r}, !.drops = @ + 1] /\ UNCHANGED machine
\* A fetch ends, well or not, whoever watches it.
FetchEnds == \E i \in Items : \E end \in {"ready", "absent"} :
  /\ machine[i] = "fetching"
  /\ machine' = [machine EXCEPT ![i] = end] /\ UNCHANGED tools

(***************************************************************************)
(* Fetching: one order of the form at a time.                              *)
(***************************************************************************)
Ordered == CASE tools.action = "backend" -> {"backend"} [] tools.action = "rerankerBackend" -> {"ranker"}
             [] tools.action = "download" -> tools.ticked [] OTHER -> {}
InstallBackend ==
  /\ tools.part = "models" /\ tools.known /\ tools.draft.provider = "local" /\ tools.seen["backend"] # "ready"
  /\ tools.action = "none" /\ CanAct
  /\ tools' = [Hand(tools) EXCEPT !.action = "backend", !.order = "sent"] /\ UNCHANGED machine
InstallReranker ==
  /\ tools.part = "ranker" /\ tools.known /\ tools.seen["ranker"] # "ready" /\ tools.action = "none" /\ CanAct
  /\ tools' = [Hand(tools) EXCEPT !.action = "rerankerBackend", !.order = "sent"] /\ UNCHANGED machine
DownloadModels ==
  /\ tools.known /\ tools.action = "none" /\ tools.ticked # {} /\ tools.seen["backend"] = "ready" /\ CanAct
  /\ tools' = [Hand(tools) EXCEPT !.action = "download", !.order = "sent"] /\ UNCHANGED machine
TickModel == \E m \in Models :
  /\ tools.known /\ tools.action # "download" /\ CanAct
  /\ tools' = [Hand(tools) EXCEPT !.ticked = IF m \in @ THEN @ \ {m} ELSE @ \cup {m}] /\ UNCHANGED machine
ServerFetches ==
  /\ tools.order = "sent"
  /\ machine' = [i \in Items |-> IF i \in Ordered /\ machine[i] # "ready" THEN "fetching" ELSE machine[i]]
  /\ tools' = [tools EXCEPT !.order = "taken"]
OrderAnswered ==
  /\ tools.order = "taken"
  /\ tools' = [tools EXCEPT !.order = "none", !.action = "none", !.seen = Seen("models")]
  /\ UNCHANGED machine
OrderLost ==
  /\ tools.order # "none" /\ CanDrop
  /\ tools' = [tools EXCEPT !.order = "none", !.action = "none", !.drops = @ + 1] /\ UNCHANGED machine

(***************************************************************************)
(* The test of the local embedding.                                        *)
(***************************************************************************)
\* A change of the draft takes the answer of a test away.
Drafted(k, draft) == [k EXCEPT !.draft = draft, !.verdict = IF draft = k.draft THEN @ ELSE NoVerdict]
ChooseProvider == \E p \in {"api", "local"} \ {tools.draft.provider} :
  /\ tools.part = "models" /\ tools.known /\ CanAct
  /\ tools' = Drafted(Hand(tools), [tools.draft EXCEPT !.provider = p]) /\ UNCHANGED machine
ChooseModel == \E m \in Models \ {tools.draft.model} :
  /\ tools.part = "models" /\ tools.known /\ tools.draft.provider = "local" /\ CanAct
  /\ tools' = Drafted(Hand(tools), [tools.draft EXCEPT !.model = m]) /\ UNCHANGED machine
EditContext ==
  /\ tools.part = "models" /\ tools.known /\ tools.draft.provider = "local" /\ CanAct
  /\ tools' = Drafted(Hand(tools), [tools.draft EXCEPT !.context = 1 - @]) /\ UNCHANGED machine
TestEmbedding ==
  /\ tools.part = "models" /\ tools.known /\ ~tools.testing /\ tools.action = "none" /\ tools.draft.provider = "local" /\ CanAct
  /\ tools.seen["backend"] = "ready" /\ tools.seen[tools.draft.model] = "ready"
  /\ tools' = [Hand(tools) EXCEPT !.testing = TRUE, !.verdict = NoVerdict, !.asked = tools.draft] /\ UNCHANGED machine
\* Mutant: an answer is shown whatever became of the draft.
ShowsAnyAnswer(k) == [k EXCEPT !.testing = FALSE, !.verdict = k.asked, !.asked = NoVerdict]
\* The answer of a test of another draft is not shown.
TestOver(k) == [k EXCEPT !.testing = FALSE, !.verdict = IF k.asked = k.draft THEN k.asked ELSE @, !.asked = NoVerdict]
TestAnswered ==
  /\ tools.testing
  /\ tools' = TestOver(tools) /\ UNCHANGED machine

(***************************************************************************)
(* The test of the local reranker, which is not told from which draft it    *)
(* comes, and keeps its answer when another file is chosen.                 *)
(***************************************************************************)
ChooseRanker == \E m \in Models \ {tools.rank.model} :
  /\ tools.part = "ranker" /\ tools.known /\ CanAct
  /\ tools' = [Hand(tools) EXCEPT !.rank.model = m] /\ UNCHANGED machine
TestReranker ==
  /\ tools.part = "ranker" /\ tools.known /\ tools.rank.asked = NoVerdict /\ tools.action = "none" /\ CanAct
  /\ tools.seen["ranker"] = "ready" /\ tools.seen[tools.rank.model] = "ready"
  /\ tools' = [Hand(tools) EXCEPT !.rank.asked = tools.rank.model, !.rank.verdict = NoVerdict] /\ UNCHANGED machine
RerankerAnswered ==
  /\ tools.rank.asked # NoVerdict
  /\ tools' = [tools EXCEPT !.rank.verdict = tools.rank.asked, !.rank.asked = NoVerdict] /\ UNCHANGED machine

(***************************************************************************)
(* The grammars: a card of its own, asking every two seconds.              *)
(***************************************************************************)
AskCard(k) == [k EXCEPT !.reads = @ \cup {Read("grammars", "sent")}]
PollCard ==
  /\ tools.card = "fetching" /\ Spare
  /\ tools' = AskCard(tools) /\ UNCHANGED machine
OpenCard ==
  /\ CanAct /\ tools.part = "grammars" /\ tools.card = "absent" /\ Read("grammars", "sent") \notin tools.reads
  /\ tools' = AskCard(Hand(tools)) /\ UNCHANGED machine
CardArrives == \E r \in tools.reads :
  /\ r.part = "grammars" /\ r.stage = "looked"
  /\ tools' = [tools EXCEPT !.reads = @ \ {r}, !.card = r.saw["grammars"]] /\ UNCHANGED machine
\* Download, pause, resume and repair: one at a time, nothing when all is there.
OrderCard == \E from \in {"absent", "fetching", "paused"} :
  /\ tools.part = "grammars" /\ tools.card = from /\ ~tools.cardBusy /\ CanAct
  /\ tools' = [Hand(tools) EXCEPT !.cardBusy = TRUE] /\ UNCHANGED machine
CardAnswered == \E to \in States :
  /\ tools.cardBusy
  /\ to = CASE machine["grammars"] = "ready" -> "ready" [] tools.card = "fetching" -> "paused" [] OTHER -> "fetching"
  /\ machine' = [machine EXCEPT !["grammars"] = to]
  /\ tools' = [tools EXCEPT !.cardBusy = FALSE, !.card = to]
CardFails ==
  /\ tools.cardBusy /\ CanDrop
  /\ tools' = [tools EXCEPT !.cardBusy = FALSE, !.drops = @ + 1] /\ UNCHANGED machine

ResourceNext ==
  \/ LoadStatus \/ PollStatus \/ RefreshStatus \/ ServerLooks \/ StatusArrives \/ StatusFails \/ FetchEnds
  \/ InstallBackend \/ InstallReranker \/ DownloadModels \/ TickModel \/ ServerFetches \/ OrderAnswered \/ OrderLost
  \/ ChooseProvider \/ ChooseModel \/ EditContext \/ TestEmbedding \/ TestAnswered
  \/ ChooseRanker \/ TestReranker \/ RerankerAnswered
  \/ PollCard \/ OpenCard \/ CardArrives \/ OrderCard \/ CardAnswered \/ CardFails

\* While the last status seen is under way the timer asks, and answers arrive;
\* what the server fetches comes to an end.
ResourceFairness ==
  /\ <>[](tools.known /\ Updating(tools.seen)) => []<><<StatusArrives>>_resourceVars
  /\ <>[](\E i \in Watched : machine[i] = "fetching") => []<><<FetchEnds>>_resourceVars
ResourceSpec == ResourceInit /\ [][ResourceNext]_resourceVars /\ ResourceFairness

(***************************************************************************)
(* Properties.                                                             *)
(***************************************************************************)
ResourceTypeOK ==
  /\ machine \in [Items -> States] /\ tools.seen \in [Items -> States] /\ tools.ticked \subseteq Models
  /\ tools.action \in {"none", "backend", "rerankerBackend", "download"} /\ tools.order \in {"none", "sent", "taken"}

\* The answer of a test that is on the screen is about the draft on the screen,
\* however often the draft changed while the test ran, and an order that disables
\* the buttons is under way.
ResourcesConsistent ==
  /\ ResourceTypeOK
  /\ tools.verdict # NoVerdict => tools.verdict = tools.draft
  /\ tools.testing <=> tools.asked # NoVerdict
  /\ tools.rank.asked # NoVerdict => tools.rank.verdict = NoVerdict
  /\ tools.action # "none" <=> tools.order # "none"

\* What the form shows as being fetched does not stay so when the fetch is over,
\* though answers overtake each other and some are lost.
FetchIsFollowed == []<>(\A i \in Watched : tools.seen[i] # "fetching")
=============================================================================
