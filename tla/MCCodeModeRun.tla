--------------------------- MODULE MCCodeModeRun ----------------------------
(***************************************************************************)
(* Small instances of CodeModeRun.  CodeModeRun.cfg: one script that makes *)
(* up to three bridge calls of each kind, two snippet ids, so that a       *)
(* snippet could nest if the code let it, and a thread for each level.     *)
(* CodeModePool.cfg: two scripts that run a snippet each on a pool with as *)
(* many threads as there are scripts.                                      *)
(***************************************************************************)
EXTENDS CodeModeRun

CONSTANTS s1, s2, n1, n2
=============================================================================
