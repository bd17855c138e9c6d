------------------------------ MODULE MCStream ------------------------------
(* A turn of a few pieces: each is a pair that came as two code points, after a NUL. *)
EXTENDS Stream

Piece == {<<"nul", "high", "low">>}
=============================================================================
