---------------------------- MODULE SnippetStore ----------------------------
(***************************************************************************)
(* The snippet store: a snippet is a source file <name>.js and a metadata  *)
(* file <name>.json, which saves and deletes of several requests and CLI   *)
(* processes change without a lock, one system call at a time.             *)
(*                                                                         *)
(* Abstractions.  A file is Absent or a sequence of blocks, each tagged    *)
(* with the version whose bytes it holds; names are valid and the store's  *)
(* directory exists.  list and load_source only read: Shown is what they   *)
(* return between them.                                                    *)
(***************************************************************************)
EXTENDS Naturals, Sequences, Functions

CONSTANTS
  Clients,   \* requests and processes that use the store
  Names,     \* snippet names
  Versions,  \* what is saved: a source and its description
  Size,      \* Size[part][v]: the blocks of each file of version v
  Absent,    \* no file
  MaxOps     \* bound on the operations

Parts == {"js", "json"}

ASSUME StoreAssumption ==
  /\ Size \in [Parts -> [Versions -> Nat \ {0}]]
  /\ Absent \notin Seq(Versions)
  /\ {"none", "any", "broken"} \cap Versions = {}
  /\ MaxOps \in Nat

VARIABLES
  file,        \* file[n][part]: what the path leads to
  op,          \* op[c]: the operation in progress
  step,        \* step[c]: its next system call
  handle,      \* handle[c]: whether the path still leads to the file c opened
  begun,       \* operations begun
  \* history
  overlapped,  \* clients whose operation met another on the same name
  collided,    \* <<n, part>> opened while another save had it open
  failed,      \* names on which an operation failed or was killed
  expected,    \* expected[n]: the snippet, as the last operation left it
  written,     \* <<n, v>> of which the whole source was written
  created,     \* created[n]: how often a save made the source file
  deleted      \* deleted[n]: how many deletes returned true

history == <<overlapped, collided, failed, expected, written, created, deleted>>
vars == <<file, op, step, handle, begun, history>>

Opening == [js |-> "open js", json |-> "open json"]
Writing == [js |-> "write js", json |-> "write json"]
NoOp == [kind |-> "none"]
Ops == [kind : {"save"}, name : Names, version : Versions]
         \cup [kind : {"delete"}, name : Names, existed : BOOLEAN]
Bytes(part, v) == [i \in 1..Size[part][v] |-> v]

TypeOK ==
  /\ \A n \in Names : \A part \in Parts :
        \/ file[n][part] = Absent
        \/ \E v \in Versions :
              file[n][part] \in UNION {[1..k -> Versions] : k \in 0..Size[part][v]}
  /\ op \in [Clients -> Ops \cup {NoOp}]
  /\ step \in [Clients -> {"idle", "exists", "unlink js", "unlink json"}
                            \cup Range(Opening) \cup Range(Writing)]
  /\ handle \in [Clients -> {"none", "live", "dead"}]
  /\ begun \in 0..MaxOps
  /\ overlapped \subseteq Clients /\ collided \subseteq Names \X Parts
  /\ failed \subseteq Names /\ written \subseteq Names \X Versions
  /\ expected \in [Names -> Versions \cup {"none", "any"}]
  /\ {created, deleted} \subseteq [Names -> Nat]

Init ==
  /\ file = [n \in Names |-> [part \in Parts |-> Absent]]
  /\ op = [c \in Clients |-> NoOp]
  /\ step = [c \in Clients |-> "idle"]
  /\ handle = [c \in Clients |-> "none"]
  /\ begun = 0
  /\ overlapped = {} /\ collided = {} /\ failed = {} /\ written = {}
  /\ expected = [n \in Names |-> "none"]
  /\ created = [n \in Names |-> 0]
  /\ deleted = [n \in Names |-> 0]

Active(n) == {c \in Clients : op[c] # NoOp /\ op[c].name = n}
\* The other clients that have this file open.
Writers(c, n, part) ==
  {d \in Active(n) \ {c} : step[d] = Writing[part] /\ handle[d] = "live"}

\* What list and load_source show of n.
Shown(n) ==
  IF file[n]["js"] = Absent THEN "none"
  ELSE IF \E v \in Versions : \A part \in Parts : file[n][part] = Bytes(part, v)
       THEN CHOOSE v \in Versions : file[n]["js"] = Bytes("js", v)
       ELSE "broken"
-----------------------------------------------------------------------------
Goto(c, there) == step' = [step EXCEPT ![c] = there]
Set(n, part, content) == file' = [file EXCEPT ![n][part] = content]

\* Mutant: the metadata is written before the source.
BugOrder == <<"json", "js">>
\* save writes the source first, then the metadata.
Order == <<"js", "json">>

\* snippet_save or snippet_delete calls the store.
Begin(c, o) ==
  /\ op[c] = NoOp /\ begun < MaxOps
  /\ begun' = begun + 1
  /\ op' = [op EXCEPT ![c] = o]
  /\ Goto(c, IF o.kind = "save" THEN Opening[Order[1]] ELSE "exists")
  /\ overlapped' = IF Active(o.name) = {} THEN overlapped
                   ELSE overlapped \cup Active(o.name) \cup {c}
  /\ expected' = [expected EXCEPT ![o.name] = "any"]
  /\ UNCHANGED <<file, handle, collided, failed, written, created, deleted>>

\* The operation returns; the snippet is as it should be if nothing interfered.
End(c, outcome) ==
  /\ op' = [op EXCEPT ![c] = NoOp]
  /\ Goto(c, "idle")
  /\ overlapped' = overlapped \ {c}
  /\ expected' = [expected EXCEPT
                    ![op[c].name] = IF c \in overlapped THEN "any" ELSE outcome]

Opens(c, part, content) ==
  LET n == op[c].name IN
  /\ step[c] = Opening[part]
  /\ Goto(c, Writing[part])
  /\ handle' = [handle EXCEPT ![c] = "live"]
  /\ Set(n, part, content)
  /\ created' = IF part = "js" /\ file[n][part] = Absent
                THEN [created EXCEPT ![n] = @ + 1] ELSE created
  /\ collided' = IF Writers(c, n, part) = {} THEN collided \ {<<n, part>>}
                 ELSE collided \cup {<<n, part>>}
  /\ UNCHANGED <<op, begun, overlapped, failed, expected, written, deleted>>

\* Mutant: an existing file is opened without truncating it.
BugOpen(c, part) ==
  LET old == file[op[c].name][part] IN
  Opens(c, part, IF old = Absent THEN <<>> ELSE old)
\* fs::write creates or truncates the file, ...
Open(c, part) == op[c] # NoOp /\ Opens(c, part, <<>>)

\* Mutant: the bytes are appended.
BugOverwrite(old, new) == old \o new
\* Bytes written at the start of a file leave what lies beyond them.
Overwrite(old, new) ==
  [i \in 1..(IF Len(old) > Len(new) THEN Len(old) ELSE Len(new)) |->
     IF i <= Len(new) THEN new[i] ELSE old[i]]

\* A write to a file that was unlinked meanwhile is lost.
Put(c, part, bytes) ==
  LET n == op[c].name IN
  IF handle[c] = "live" THEN Set(n, part, Overwrite(file[n][part], bytes))
  ELSE UNCHANGED file

\* ... and writes the bytes.
Write(c, part) ==
  LET n == op[c].name
      v == op[c].version
      next == IF part = Order[1] THEN Opening[Order[2]] ELSE "idle"
  IN
  /\ step[c] = Writing[part]
  /\ Put(c, part, Bytes(part, v))
  /\ handle' = [handle EXCEPT ![c] = "none"]
  /\ written' = IF part = "js" THEN written \cup {<<n, v>>} ELSE written
  /\ IF next = "idle" THEN End(c, v)
     ELSE Goto(c, next) /\ UNCHANGED <<op, overlapped, expected>>
  /\ UNCHANGED <<begun, collided, failed, created, deleted>>

\* Mutant: the metadata stands for the snippet.
BugExists(n) == file[n]["json"] # Absent
Exists(n) == file[n]["js"] # Absent

\* delete looks for the source, ...
Look(c) ==
  LET there == Exists(op[c].name) IN
  /\ step[c] = "exists"
  /\ op' = [op EXCEPT ![c].existed = there]
  /\ Goto(c, IF there THEN "unlink js" ELSE "unlink json")
  /\ UNCHANGED <<file, handle, begun, history>>

\* Open files lose their path when it is unlinked.
Orphans(n, part) ==
  handle' = [d \in Clients |->
    IF d \in Active(n) /\ step[d] = Writing[part] /\ handle[d] = "live"
    THEN "dead" ELSE handle[d]]

\* Mutant: a source that is already gone counts as deleted.
BugUnlinkable(n) == TRUE
Unlinkable(n) == file[n]["js"] # Absent

\* ... unlinks it (an error, if it is gone by now: see Fail), ...
Unlink(c) ==
  LET n == op[c].name IN
  /\ step[c] = "unlink js" /\ Unlinkable(n)
  /\ Set(n, "js", Absent)
  /\ Orphans(n, "js")
  /\ Goto(c, "unlink json")
  /\ UNCHANGED <<op, begun, history>>

\* ... and tries to unlink the metadata, ignoring errors.
UnlinkMeta(c) ==
  LET n == op[c].name IN
  /\ step[c] = "unlink json"
  /\ \/ Set(n, "json", Absent) /\ Orphans(n, "json")
     \/ UNCHANGED <<file, handle>>
  /\ deleted' = IF op[c].existed THEN [deleted EXCEPT ![n] = @ + 1] ELSE deleted
  /\ End(c, "none")
  /\ UNCHANGED <<begun, collided, failed, written, created>>

\* A system call fails, a write after some of its bytes, or the process is killed.
Fail(c) ==
  /\ op[c] # NoOp
  /\ failed' = failed \cup {op[c].name}
  /\ handle' = [handle EXCEPT ![c] = "none"]
  /\ \/ UNCHANGED file
     \/ \E part \in Parts :
          /\ step[c] = Writing[part]
          /\ \E k \in 1..(Size[part][op[c].version] - 1) :
                Put(c, part, SubSeq(Bytes(part, op[c].version), 1, k))
  /\ End(c, "any")
  /\ UNCHANGED <<begun, collided, written, created, deleted>>

Next ==
  \E c \in Clients :
    \/ \E n \in Names :
         \/ \E v \in Versions : Begin(c, [kind |-> "save", name |-> n, version |-> v])
         \/ Begin(c, [kind |-> "delete", name |-> n, existed |-> FALSE])
    \/ \E part \in Parts : Open(c, part) \/ Write(c, part)
    \/ Look(c) \/ Unlink(c) \/ UnlinkMeta(c) \/ Fail(c)

Spec == Init /\ [][Next]_vars
-----------------------------------------------------------------------------
(***************************************************************************)
(* Properties.                                                             *)
(***************************************************************************)

\* After an operation that met no other and did not fail, whatever failures and
\* collisions came before it, load and list show exactly what it left.
AloneIsExact == \A n \in Names : expected[n] \in {"any", Shown(n)}

\* A file holds parts of two versions only if two saves had it open at once: a
\* failed or killed save leaves a beginning of one version.
Mixed(content) == \E i, j \in DOMAIN content : content[i] # content[j]
MixNeedsCollision ==
  \A n \in Names : \A part \in Parts :
     file[n][part] # Absent /\ Mixed(file[n][part]) => <<n, part>> \in collided

\* The metadata list shows is never that of a save whose source was not written
\* to its end.
MetaNeverAhead ==
  \A n \in Names : \A v \in Versions :
     file[n]["json"] = Bytes("json", v) => <<n, v>> \in written

\* However deletes race, at most one returns true for each source file created,
\* and none for a file that is still there.
OneDeletePerFile ==
  \A n \in Names :
     deleted[n] + (IF file[n]["js"] = Absent THEN 0 ELSE 1) <= created[n]
=============================================================================
