---------------------------- MODULE ExtractPromise ----------------------------
(***************************************************************************)
(* What the extraction of a document promises to those who see only its    *)
(* job row and its status: chunks are announced as processed one at a      *)
(* time, an announcement is never withdrawn, and the document is complete  *)
(* only when all chunks are announced (ProcessOutcome of sag/dto.py).      *)
(***************************************************************************)
EXTENDS FiniteSets

CONSTANT Chunk

VARIABLES announced, complete

promise == <<announced, complete>>

Init == announced = {} /\ complete = FALSE

Announce(c) ==
    /\ ~complete
    /\ c \notin announced
    /\ announced' = announced \union {c}
    /\ UNCHANGED complete

Complete ==
    /\ announced = Chunk
    /\ complete' = TRUE
    /\ UNCHANGED announced

Next == Complete \/ \E c \in Chunk : Announce(c)

Spec == Init /\ [][Next]_promise

===============================================================================
