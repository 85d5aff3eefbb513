-------------------------------- MODULE ChanSpec --------------------------------
(***************************************************************************)
(* What a channel received over the connection promises its reader: the    *)
(* values that were accepted come out in order, without gaps and without   *)
(* repetition, until the stream ends; then what is left is dropped at once *)
(* and nothing comes after it.                                             *)
(***************************************************************************)
EXTENDS Naturals, Sequences

VARIABLES accepted, got, ended
specVars == <<accepted, got, ended>>

SpecInit == accepted = <<>> /\ got = <<>> /\ ended = FALSE

\* A further value is accepted.
Accept ==
  /\ ~ended
  /\ accepted' = Append(accepted, Len(accepted) + 1)
  /\ UNCHANGED <<got, ended>>

\* The reader receives the oldest value it has not received.
Deliver ==
  /\ ~ended /\ Len(got) < Len(accepted)
  /\ got' = Append(got, accepted[Len(got) + 1])
  /\ UNCHANGED <<accepted, ended>>

\* The stream ends.
End == ended' = TRUE /\ UNCHANGED <<accepted, got>>

SpecNext == Accept \/ Deliver \/ End
ChanFIFO == SpecInit /\ [][SpecNext]_specVars
=============================================================================
