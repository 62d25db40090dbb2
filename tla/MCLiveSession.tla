---------------------------- MODULE MCLiveSession ----------------------------
(* An instance of LiveSession for TLC.                                     *)
EXTENDS LiveSession

CONSTANTS s1, s2

TwoSessions == {s1, s2}

=============================================================================
