------------------------------ MODULE HealthFeed ------------------------------
(***************************************************************************)
(* What `rustarr watch` promises of its event stream: a line is printed    *)
(* only when it differs from the last one, and names a state that the      *)
(* server was in at some moment since the poll that saw it began.          *)
(***************************************************************************)
CONSTANTS States, Nothing

VARIABLES
  world,  \* the state the server is in
  said,   \* the last line, Nothing before the first
  since   \* the states it was in since the poll began

feedVars == <<world, said, since>>

Init == world \in States /\ said = Nothing /\ since = {world}

\* The server changes.
Change ==
  /\ world' \in States
  /\ since' = since \cup {world'}
  /\ UNCHANGED said

\* A poll begins.
Begin == since' = {world} /\ UNCHANGED <<world, said>>

\* A poll ends with news.
Report ==
  /\ said' \in since /\ said' # said
  /\ UNCHANGED <<world, since>>

Next == Change \/ Begin \/ Report

Spec == Init /\ [][Next]_feedVars
=============================================================================
