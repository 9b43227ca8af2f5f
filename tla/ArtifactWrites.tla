--------------------------- MODULE ArtifactWrites ---------------------------
(***************************************************************************)
(* The artifacts of one Code Mode run: writeArtifact validates a path that *)
(* a script supplies, writes the file under the run's directory and pushes *)
(* an entry, for a refused attempt too, onto the response's artifacts.     *)
(*                                                                         *)
(* Abstractions.  A path is the sequence of its components; a component    *)
(* that is rejected for its spelling ("%2e%2e", a NUL) is one that is no   *)
(* name.  The content of attempt i is i.                                   *)
(***************************************************************************)
EXTENDS Naturals, Sequences, Functions, FiniteSets

CONSTANTS
  Names,         \* components that name a file or a directory
  Dot, DotDot,   \* the components . and ..
  Paths,         \* the paths scripts ask for, of these and of any other component
  MaxArtifacts,  \* CODEMODE_MAX_ARTIFACTS
  EntryBytes,    \* EntryBytes[ok]: the bytes of an entry in the response
  MaxAttempts    \* bound on the attempts of a run

ASSUME ArtifactAssumption ==
  /\ MaxArtifacts \in Nat /\ MaxAttempts \in Nat
  /\ EntryBytes \in [BOOLEAN -> Nat]
  /\ Dot \notin Names /\ DotDot \notin Names /\ Dot # DotDot
  /\ \A path \in Paths : path \in Seq(Range(path))

VARIABLES
  files,    \* files[f]: the attempt whose content the file f holds, 0 for a part of one
  dirs,     \* the directories made below the run's
  written,  \* the count that is held against MaxArtifacts
  entries,  \* the response's artifacts: the path asked for, and whether it was written
  bytes     \* their size

artifactVars == <<files, dirs, written, entries, bytes>>

ArtifactInit ==
  files = <<>> /\ dirs = {} /\ written = 0 /\ entries = <<>> /\ bytes = 0

\* Mutant: .. is not rejected (the cleaning then drops it).
BugValid(path) == \E i \in DOMAIN path : path[i] \in Names
\* validate_artifact_path: names and dots only, and at least one name.
Valid(path) ==
  /\ \A i \in DOMAIN path : path[i] \in Names \cup {Dot}
  /\ \E i \in DOMAIN path : path[i] \in Names

\* What the loop over the components has collected after k of them: a name is
\* pushed, anything else is skipped.
Cleaning(path) ==
  LET at[k \in 0..Len(path)] ==
        CASE k = 0 -> <<>>
          [] k > 0 /\ path[k] \in Names -> Append(at[k - 1], path[k])
          [] OTHER -> at[k - 1]
  IN at

\* The path relative to the run's directory.
Clean(path) == Cleaning(path)[Len(path)]

Parents(f) == {SubSeq(f, 1, k) : k \in 1..(Len(f) - 1)}

\* Whether the directory lets a file be written at f.
Possible(f) == Parents(f) \cap DOMAIN files = {} /\ f \notin dirs

Accepted(path, large) == written < MaxArtifacts /\ ~large /\ Valid(path)

Push(path, ok) ==
  /\ Len(entries) < MaxAttempts
  /\ entries' = Append(entries, [path |-> path, ok |-> ok])
  /\ bytes' = bytes + EntryBytes[ok]

Put(f, content) ==
  files' = [g \in DOMAIN files \cup {f} |-> IF g = f THEN content ELSE files[g]]

\* The cap, the content's size, the path, or something in the way.
Refuse(path, large) ==
  /\ ~Accepted(path, large) \/ ~Possible(Clean(path))
  /\ Push(path, FALSE)
  /\ UNCHANGED <<files, dirs, written>>

\* The file is written and counted.
Write(path, large) ==
  /\ Accepted(path, large) /\ Possible(Clean(path))
  /\ dirs' = dirs \cup Parents(Clean(path))
  /\ Put(Clean(path), Len(entries) + 1)
  /\ written' = written + 1
  /\ Push(path, TRUE)

\* The disk fails, before the file is opened or after it was truncated; what is
\* left of the attempt is not counted.
Tear(path, large) ==
  /\ Accepted(path, large) /\ Possible(Clean(path))
  /\ dirs' = dirs \cup Parents(Clean(path))
  /\ Put(Clean(path), 0) \/ UNCHANGED files
  /\ Push(path, FALSE)
  /\ UNCHANGED written

Attempt ==
  \E path \in Paths, large \in BOOLEAN :
     Refuse(path, large) \/ Write(path, large) \/ Tear(path, large)
-----------------------------------------------------------------------------
\* Where the operating system would resolve a path, from the run's directory: the
\* reference against which the validation is judged.  The directory itself is <<>>,
\* and what is above it is not told apart from it.
Resolving(path) ==
  LET at[k \in 0..Len(path)] ==
        CASE k = 0 -> <<>>
          [] k > 0 /\ path[k] = Dot -> at[k - 1]
          [] k > 0 /\ path[k] = DotDot -> SubSeq(at[k - 1], 1, Len(at[k - 1]) - 1)
          [] OTHER -> Append(at[k - 1], path[k])
  IN at

Resolve(path) == Resolving(path)[Len(path)]

Receipts == {i \in DOMAIN entries : entries[i].ok}

\* An entry that says "ok" has its own file, where the path it was asked for leads:
\* no attempt on another path, refused, torn or accepted, takes it away.  These
\* entries are what is held against the cap, and they keep to it, however many
\* attempts are torn or refused (write_codemode_artifact, validate_artifact_path,
\* resolve_under_root).
ReceiptsTrue ==
  /\ \A i \in Receipts :
        LET f == Resolve(entries[i].path)
        IN (\A j \in (i + 1)..Len(entries) : Resolve(entries[j].path) # f)
              => f \in DOMAIN files /\ files[f] = i
  /\ written = Cardinality(Receipts) /\ written <= MaxArtifacts
=============================================================================
