----------------------------- MODULE ScriptTree ------------------------------
(***************************************************************************)
(* What Code Mode promises of the scripts that run at one time: a script   *)
(* was started from outside, or by a running script that was, and none     *)
(* goes on after the one that started it.                                  *)
(***************************************************************************)
CONSTANTS Ids, None

VARIABLES
  active,  \* the scripts that run
  starter  \* starter[s]: the script that started s, None for all others

treeVars == <<active, starter>>

Init == active = {} /\ starter = [s \in Ids |-> None]

\* A script starts, from outside or by a script that was not started by another.
Begin(s, p) ==
  /\ s \notin active
  /\ p = None \/ (p \in active /\ starter[p] = None)
  /\ active' = active \cup {s}
  /\ starter' = [starter EXCEPT ![s] = p]

\* Scripts end together with those they started.
End(gone) ==
  /\ gone # {} /\ gone \subseteq active
  /\ \A s \in active : starter[s] \in gone => s \in gone
  /\ active' = active \ gone
  /\ starter' = [s \in Ids |-> IF s \in gone THEN None ELSE starter[s]]

Next ==
  \/ \E s \in Ids, p \in Ids \cup {None} : Begin(s, p)
  \/ \E gone \in SUBSET Ids : End(gone)

Spec == Init /\ [][Next]_treeVars
=============================================================================
