---------------------------- MODULE MCSavedCards ----------------------------
(* Instances of SavedCards for TLC.                                        *)
EXTENDS SavedCards

CONSTANTS c1, c2, r1, r2

MCCards == {c1, c2}
MCReaders == {r1, r2}
OneReader == {r1}

=============================================================================
