---------------------------- MODULE MCConversation ----------------------------
(***************************************************************************)
(* The instances on which TLC checks the conversation runtime.  Each       *)
(* scenario opens one dimension and keeps the others small; TLC explores   *)
(* all of them in one run.                                                 *)
(***************************************************************************)
EXTENDS ConversationRuntime

CONSTANTS s1, s2, t1, t2

Bound(sessions, threads, turns, deltas, calls, loads, drops, faults, wire) ==
    [sessions |-> sessions, mounts |-> sessions \ {s1}, threads |-> threads,
     turns |-> turns, deltas |-> deltas, calls |-> calls, loads |-> loads, drops |-> drops,
     faults |-> faults, wire |-> wire]

MCScenarios ==
    { Bound({s1}, {t1}, 1, 2, 0, 0, 0, 1, 2),            \* an answer, delta by delta
      Bound({s1}, {t1}, 1, 1, 1, 0, 0, 1, 1),            \* a tool call and its approval
      Bound({s1}, {t1}, 1, 0, 2, 0, 0, 0, 1),            \* two calls of a batch
      Bound({s1}, {t1}, 1, 0, 0, 2, 0, 1, 1),            \* pages of history around a run
      Bound({s1}, {t1}, 2, 0, 0, 1, 0, 0, 1),            \* two turns
      Bound({s1}, {t1}, 1, 0, 0, 1, 2, 0, 1),            \* deletions around a run
      Bound({s1, s2}, {t1, t2}, 1, 0, 0, 0, 1, 0, 1) }   \* two sessions, room for one
=============================================================================
