--------------------------- MODULE MCSourceApply ----------------------------
(* SourceApply with two sources that the kernel accepts, so that an old    *)
(* and a new profile can be told apart, and one that it rejects.           *)
EXTENDS SourceApply
=============================================================================
