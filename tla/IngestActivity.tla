---------------------------- MODULE IngestActivity ----------------------------
(* The activity of a source (ingest-activity-panel.tsx): every three seconds    *)
(* the statuses of the documents touched last are read, whatever became of the   *)
(* reads before, and a status that differs from the one known is an event.       *)
EXTENDS Naturals, Sequences, FiniteSets

CONSTANTS Papers,        \* documents
          FeedLimit,     \* documents an answer tells
          FeedEvents,    \* events kept
          MaxTicks,      \* bound: reads begun
          MaxTurns       \* bound: changes of status, of the panel and of the page

ASSUME FeedAssumption == IsFiniteSet(Papers) /\ FeedEvents \in Nat

VARIABLES works, feed
feedVars == <<works, feed>>

FeedStatuses == {"pending", "extracting", "failed", "ready"}
Unseen == "unseen"
FeedInit ==
  /\ works \in [Papers -> {"pending", "ready"}]
  /\ feed = [active |-> FALSE, hidden |-> FALSE, era |-> 0, reads |-> {}, snapshot |-> [p \in Papers |-> Unseen],
             events |-> <<>>, ticks |-> 0, turns |-> 0]

FeedOpens == ~feed.active /\ feed' = [feed EXCEPT !.active = TRUE] /\ UNCHANGED works
\* The panel goes, or shows another source: reads under way are not listened to any more.
FeedCloses ==
  /\ feed.active /\ feed.turns < MaxTurns
  /\ feed' = [feed EXCEPT !.active = FALSE, !.era = @ + 1, !.turns = @ + 1] /\ UNCHANGED works
FeedHides == feed.turns < MaxTurns /\ feed' = [feed EXCEPT !.hidden = ~@, !.turns = @ + 1] /\ UNCHANGED works
FeedTicks == \E told \in SUBSET Papers :
  /\ feed.active /\ ~feed.hidden /\ feed.ticks < MaxTicks /\ Cardinality(told) <= FeedLimit
  /\ feed' = [feed EXCEPT !.reads = @ \cup {[era |-> feed.era, saw |-> [p \in told |-> works[p]]]},
                          !.ticks = @ + 1]
  /\ UNCHANGED works

Differs(saw) == {p \in DOMAIN saw : feed.snapshot[p] # Unseen /\ feed.snapshot[p] # saw[p]}
Orders(ps) == {o \in [1..Cardinality(ps) -> ps] : \A p \in ps : \E i \in DOMAIN o : o[i] = p}
Event(p, saw) == [doc |-> p, from |-> feed.snapshot[p], to |-> saw[p]]
Front(es) == SubSeq(es, 1, IF Len(es) < FeedEvents THEN Len(es) ELSE FeedEvents)
FeedAnswers == \E read \in feed.reads : \E o \in Orders(Differs(read.saw)) :
  /\ feed' = IF read.era # feed.era THEN [feed EXCEPT !.reads = @ \ {read}]
             ELSE [feed EXCEPT !.reads = @ \ {read},
                     !.snapshot = [p \in Papers |-> IF p \in DOMAIN read.saw THEN read.saw[p] ELSE @[p]],
                     !.events = Front([i \in DOMAIN o |-> Event(o[i], read.saw)] \o @)]
  /\ UNCHANGED works
FeedFails == \E read \in feed.reads : feed' = [feed EXCEPT !.reads = @ \ {read}] /\ UNCHANGED works
PaperMoves == \E p \in Papers, status \in FeedStatuses :
  /\ works[p] # status /\ feed.turns < MaxTurns
  /\ works' = [works EXCEPT ![p] = status]
  /\ feed' = [feed EXCEPT !.turns = @ + 1]

FeedNext == FeedOpens \/ FeedCloses \/ FeedHides \/ FeedTicks \/ FeedAnswers \/ FeedFails \/ PaperMoves
FeedSpec == FeedInit /\ [][FeedNext]_feedVars

(***************************************************************************)
(* Properties.                                                             *)
(***************************************************************************)
\* No event from a to b is of the document of event i.
Silent(i, a, b) == \A k \in a..b : feed.events[k].doc # feed.events[i].doc

\* The events of a document are one story: each begins where the one before it
\* ended, and the last ends at the status known, in whatever order the answers
\* came and whichever documents they told of.  The newest comes first.
FeedTellsOneStory == \A i \in DOMAIN feed.events :
  LET e == feed.events[i]
  IN  /\ e.from # e.to
      /\ Silent(i, 1, i - 1) => e.to = feed.snapshot[e.doc]
      /\ \A j \in i + 1..Len(feed.events) :
           (feed.events[j].doc = e.doc /\ Silent(i, i + 1, j - 1)) => e.from = feed.events[j].to
=============================================================================
