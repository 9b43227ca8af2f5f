---------------------------- MODULE MCHealthWatch ----------------------------
(* Small instances of HealthWatch. *)
EXTENDS HealthWatch

CONSTANTS p1, p2, files, webui
McProcs == {p1, p2}
\* A file server that has no /health, and a web application that has any page.
McForeign == {files, webui}
McReply == [f \in McForeign |-> IF f = webui THEN "UP" ELSE "DEGRADED"]
=============================================================================
