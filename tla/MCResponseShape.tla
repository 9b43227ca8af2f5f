--------------------------- MODULE MCResponseShape ---------------------------
(* Small instances of ResponseShape. *)
EXTENDS ResponseShape

CONSTANTS a, b, dot, dotdot

McNames == {a, b}
McPaths == {<<a>>, <<dot, a>>, <<a, b>>, <<b, dotdot, a>>}

SmallEntry == [ok \in BOOLEAN |-> IF ok THEN 2 ELSE 6]
LargeEntry == [ok \in BOOLEAN |-> IF ok THEN 6 ELSE 12]

\* "{truncated_calls: N}" and "[logs truncated ...]": a digit more at three.
McSentinel == [f \in Fields |-> [d \in 1..4 |-> (IF f = "calls" THEN 3 ELSE 4) + d \div 3]]

\* Arrays of zero to four entries, of few bytes or of many, the newest first.
CallTails == {<<>>, <<2, 4, 6, 8>>, <<12, 14, 16>>}
LogTails == {<<>>, <<2, 4, 6, 8>>, <<12, 14, 16>>}
TailOf(t) == [k \in 0..Len(t) |-> IF k = 0 THEN 0 ELSE t[k]]

McPayloads ==
  {[result |-> r, marker |-> 4, rest |-> 2,
    count |-> [f \in Fields |-> IF f = "calls" THEN Len(c) ELSE Len(l)],
    tail |-> [f \in Fields |-> IF f = "calls" THEN TailOf(c) ELSE TailOf(l)]] :
   r \in {1, 9}, c \in CallTails, l \in LogTails}
=============================================================================
