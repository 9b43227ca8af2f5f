--------------------------- MODULE MCQbitSession ----------------------------
(***************************************************************************)
(* Small instances of QbitSession.  Three concurrent calls address one     *)
(* WebUI (MCOneTarget), or two of them one WebUI and the third another     *)
(* (MCTwoTargets) on a host of its own (MCOwnHosts) or, behind another     *)
(* port, on the same host (MCSharedHost).                                  *)
(***************************************************************************)
EXTENDS QbitSession

CONSTANTS c1, c2, c3, b1, b2, h1, h2

MCTwoTargets == [c \in Calls |-> IF c = c3 THEN b2 ELSE b1]
MCOneTarget  == [c \in Calls |-> b1]
MCOwnHosts   == [b \in BaseUrls |-> IF b = b2 THEN h2 ELSE h1]
MCSharedHost == [b \in BaseUrls |-> h1]
=============================================================================
