---------------------------- MODULE MCSizeLimits ----------------------------
(* SizeLimits for TLC. *)
EXTENDS SizeLimits

\* A value of which one fits a frame and two do not.
LargeValues == {MiB - 64}

=============================================================================
