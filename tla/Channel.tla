------------------------------ MODULE Channel -------------------------------
(***************************************************************************)
(* What a connection promises of its stream: what the host says is heard,  *)
(* once, in order and as it was said.  Items are heard some at a time;     *)
(* when the connection ends, or a new one begins, nothing is left of it.   *)
(***************************************************************************)
EXTENDS Sequences, SequencesExt

VARIABLES said, heard

Init == said = <<>> /\ heard = <<>>

Say == IsPrefix(said, said') /\ UNCHANGED heard

Hear ==
    /\ IsPrefix(heard, heard') /\ IsPrefix(heard', said)
    /\ UNCHANGED said

End == said' = <<>> /\ heard' = <<>>

Spec == Init /\ [][Say \/ Hear \/ End]_<<said, heard>>
=============================================================================
