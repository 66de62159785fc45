---------------------------- MODULE OrderedStream ----------------------------
(* What a CS2 data channel promises its reader: the messages of the peer, each  *)
(* once and in order, until the connection ends; and while it does not end, all *)
(* of them.                                                                     *)
EXTENDS Naturals, Sequences

CONSTANT Messages       \* the messages the peer sends, in order

VARIABLES out,          \* the messages read
          closed        \* the connection has ended

stream == <<out, closed>>

Init == out = <<>> /\ closed = FALSE

\* Messages that were complete when the connection ended may still be read.
Read ==
  /\ Len(out) < Len(Messages)
  /\ out' = Append(out, Messages[Len(out) + 1])
  /\ UNCHANGED closed

Close == ~closed /\ closed' = TRUE /\ UNCHANGED out

Next == Read \/ Close

Spec == Init /\ [][Next]_stream /\ WF_stream(Read /\ ~closed)
=============================================================================
