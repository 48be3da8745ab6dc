--------------------------- MODULE MCTemplateCache ---------------------------
(* Finite instances of TemplateCache for TLC.                              *)
EXTENDS TemplateCache

CONSTANTS v1, v2, u1, u2

OneHome == [v \in {v1} |-> u1]
TwoHomes == [v \in {v1, v2} |-> IF v = v1 THEN u1 ELSE u2]

(* The first URL has a zip only.                                           *)
ZipAndTar == [u \in Url |-> IF u = u1 THEN {"zip"} ELSE {"tar", "zip"}]

=============================================================================
