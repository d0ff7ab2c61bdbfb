----------------------------- MODULE RecordQueue -----------------------------
(***************************************************************************)
(* What the logger's buffer promises: the newest records, in the order     *)
(* they were taken, leave from the front a few at a time.                  *)
(***************************************************************************)
EXTENDS Sequences, SequencesExt, Integers

CONSTANTS Snapshot, BufferSize, MaxWrites

VARIABLE queue

Newest(q) == IF Len(q) > BufferSize THEN Tail(q) ELSE q

\* A record comes in, and some from the front go to the card.
Log(s, written) ==
    LET kept == Newest(Append(queue, s))
    IN  /\ written <= MaxWrites /\ written <= Len(kept)
        /\ queue' = SubSeq(kept, written + 1, Len(kept))

Init == queue = <<>>
Next == \E s \in Snapshot, written \in 0 .. MaxWrites : Log(s, written)
Spec == Init /\ [][Next]_queue
=============================================================================
