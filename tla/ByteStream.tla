------------------------------ MODULE ByteStream ------------------------------
(***************************************************************************)
(* What the multiplexer is promised of the connection below it: one          *)
(* direction of a stream of bytes.  They arrive in the order they were       *)
(* written, each once, and the end is reported when all of them have         *)
(* arrived and never before.  A stream may break; it then says so.           *)
(***************************************************************************)
EXTENDS Naturals, Sequences, SequencesExt

VARIABLES written,     \* what the writer's calls have accepted
          delivered,   \* what the reader's calls have returned
          closed,      \* the writer has closed
          ended,       \* the reader has been told that there is no more
          broken       \* the reader has been given an error

stream == <<written, delivered, closed, ended, broken>>

Init == /\ written = <<>> /\ delivered = <<>>
        /\ closed = FALSE /\ ended = FALSE /\ broken = FALSE

Write ==
    /\ ~closed
    /\ IsStrictPrefix(written, written')
    /\ UNCHANGED <<delivered, closed, ended, broken>>

Close ==
    /\ ~closed /\ closed' = TRUE
    /\ UNCHANGED <<written, delivered, ended, broken>>

Deliver ==
    /\ ~broken /\ ~ended
    /\ \E n \in (Len(delivered) + 1) .. Len(written) : delivered' = SubSeq(written, 1, n)
    /\ UNCHANGED <<written, closed, ended, broken>>

End ==
    /\ ~broken /\ ~ended
    /\ closed /\ delivered = written
    /\ ended' = TRUE
    /\ UNCHANGED <<written, delivered, closed, broken>>

Break ==
    /\ ~broken /\ ~ended /\ broken' = TRUE
    /\ UNCHANGED <<written, delivered, closed, ended>>

Next == Write \/ Close \/ Deliver \/ End \/ Break

Hurry == closed /\ Deliver

\* What never happens: a byte lost, doubled or out of order, an end before the end.
Safety == Init /\ [][Next]_stream

\* And what does: a reader that goes on asking is given what a writer that has closed wrote,
\* and the end.
Spec == Safety /\ WF_stream(Hurry) /\ WF_stream(End)
=============================================================================
