--------------------------- MODULE MCSnippetStore ---------------------------
(***************************************************************************)
(* Small instances of SnippetStore: of the two versions, one has the       *)
(* longer source and the other the longer metadata.                        *)
(***************************************************************************)
EXTENDS SnippetStore

CONSTANTS c1, c2, c3, v1, v2, n1

MCSize == [part \in Parts |->
             [v \in Versions |-> IF (part = "js") = (v = v1) THEN 2 ELSE 1]]
=============================================================================
