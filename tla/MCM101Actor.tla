---------------------------- MODULE MCM101Actor -----------------------------
(* Small instances of M101Actor for TLC.                                   *)
EXTENDS M101Actor

CONSTANTS c1, c2, c3, u1, u2

MCCallers == {c1, c2, c3}

MCUrls == {u1, u2}
=============================================================================
