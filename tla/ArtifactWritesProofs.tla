------------------------ MODULE ArtifactWritesProofs ------------------------
(***************************************************************************)
(* What the validation and the cleaning of a path yield for every path, by *)
(* induction over its components, and the invariant of the files a run     *)
(* writes.                                                                 *)
(*                                                                         *)
(* Induction is stated about a set of numbers, for which no operator has   *)
(* to be instantiated: that a non-empty set of naturals has a least        *)
(* element follows from the well-foundedness of strict inclusion on the    *)
(* finite subsets of Nat, through n |-> 0..n.                              *)
(***************************************************************************)
EXTENDS ArtifactWrites, FiniteSetTheorems, TLAPS

\* A non-empty set of naturals has a least element.
LEMMA NatLeast ==
  ASSUME NEW S, S \subseteq Nat, S # {}
  PROVE  \E n \in S : \A m \in S : n <= m
<1> DEFINE T == {0..n : n \in S}
<1>1. T \subseteq FiniteSubsetsOf(Nat)
  <2>1. ASSUME NEW n \in S PROVE IsFiniteSet(0..n)
    BY FS_Interval, n \in Int, 0 \in Int
  <2>2. QED
    BY <2>1 DEF FiniteSubsetsOf
<1>2. IsWellFoundedOn(StrictSubsetOrdering(Nat), FiniteSubsetsOf(Nat))
  BY FS_StrictSubsetOrderingWellFounded
<1>3. T # {}
  OBVIOUS
<1> HIDE DEF T
<1>4. PICK x \in T : \A y \in T : ~ (<<y, x>> \in StrictSubsetOrdering(Nat))
  BY <1>1, <1>2, <1>3, WFMin
<1>5. PICK n \in S : x = 0..n
  BY DEF T
<1>6. ASSUME NEW m \in S, m < n PROVE FALSE
  <2>1. 0..m \subseteq Nat /\ 0..n \subseteq Nat /\ 0..m \subseteq 0..n /\ n \in 0..n /\ n \notin 0..m
    BY <1>6
  <2>2. <<0..m, 0..n>> \in StrictSubsetOrdering(Nat)
    BY <2>1 DEF StrictSubsetOrdering
  <2>3. 0..m \in T
    BY DEF T
  <2>4. QED
    BY <1>4, <1>5, <2>2, <2>3
<1>7. QED
  BY <1>6

\* A set that holds 0 and is closed under successor holds every natural.
LEMMA SetInduction ==
  ASSUME NEW S, 0 \in S, \A n \in Nat : n \in S => n + 1 \in S
  PROVE  Nat \subseteq S
<1> SUFFICES ASSUME Nat \ S # {} PROVE FALSE
  OBVIOUS
<1>1. PICK n \in Nat \ S : \A m \in Nat \ S : n <= m
  BY NatLeast
<1>2. n # 0 /\ n - 1 \in Nat /\ n - 1 \in S
  BY <1>1
<1>3. QED
  BY <1>1, <1>2
-----------------------------------------------------------------------------
\* On a valid path the reference takes the same step at every component.
LEMMA ResolveIsClean ==
  ASSUME NEW path, path \in Seq(Range(path)), Valid(path)
  PROVE  Resolve(path) = Clean(path)
<1>1. \A i \in 1..Len(path) : path[i] \in Names \cup {Dot}
  BY DEF Valid
<1>2. ASSUME NEW at
      PROVE  [k \in 0..Len(path) |->
                CASE k = 0 -> <<>>
                  [] k > 0 /\ path[k] = Dot -> at[k - 1]
                  [] k > 0 /\ path[k] = DotDot -> SubSeq(at[k - 1], 1, Len(at[k - 1]) - 1)
                  [] OTHER -> Append(at[k - 1], path[k])]
             = [k \in 0..Len(path) |->
                  CASE k = 0 -> <<>>
                    [] k > 0 /\ path[k] \in Names -> Append(at[k - 1], path[k])
                    [] OTHER -> at[k - 1]]
  <2>1. \A k \in 0..Len(path) : k > 0 => path[k] \in Names \cup {Dot}
    BY <1>1
  <2>2. QED
    BY <2>1, ArtifactAssumption
<1>3. Resolving(path) = Cleaning(path)
  BY <1>2, Zenon DEF Resolving, Cleaning
<1>4. QED
  BY <1>3 DEF Resolve, Clean

\* The recursive definition has a solution, so that it says what the loop does.
LEMMA CleaningUnfolds ==
  ASSUME NEW path, path \in Seq(Range(path))
  PROVE  Cleaning(path) =
           [k \in 0..Len(path) |->
              CASE k = 0 -> <<>>
                [] k > 0 /\ path[k] \in Names -> Append(Cleaning(path)[k - 1], path[k])
                [] OTHER -> Cleaning(path)[k - 1]]
<1> DEFINE Solves(g, n) ==
             g = [k \in 0..n |-> CASE k = 0 -> <<>>
                                   [] k > 0 /\ path[k] \in Names -> Append(g[k - 1], path[k])
                                   [] OTHER -> g[k - 1]]
           S == {n \in Nat : \E g : Solves(g, n)}
<1>1. 0 \in S
  <2>1. Solves([k \in 0..0 |-> <<>>], 0)
    OBVIOUS
  <2>2. QED
    BY <2>1, Zenon
<1>2. ASSUME NEW n \in Nat, n \in S PROVE n + 1 \in S
  <2>1. PICK g : Solves(g, n)
    BY <1>2
  <2> DEFINE last == IF path[n + 1] \in Names THEN Append(g[n], path[n + 1]) ELSE g[n]
             h == [k \in 0..(n + 1) |-> IF k = n + 1 THEN last ELSE g[k]]
  <2>2. \A k \in 0..n : g[k] = CASE k = 0 -> <<>>
                                 [] k > 0 /\ path[k] \in Names -> Append(g[k - 1], path[k])
                                 [] OTHER -> g[k - 1]
    BY <2>1
  <2>3. \A k \in 0..(n + 1) : h[k] = CASE k = 0 -> <<>>
                                       [] k > 0 /\ path[k] \in Names -> Append(h[k - 1], path[k])
                                       [] OTHER -> h[k - 1]
    <3>1. \A k \in 1..(n + 1) : k - 1 \in 0..n /\ h[k - 1] = g[k - 1]
      OBVIOUS
    <3>2. QED
      BY <2>2, <3>1
  <2>4. Solves(h, n + 1)
    BY <2>3
  <2> HIDE DEF h
  <2>5. n + 1 \in Nat
    OBVIOUS
  <2>6. QED
    BY <2>4, <2>5, Zenon
<1>3. Len(path) \in S
  <2> HIDE DEF S
  <2>1. Nat \subseteq S
    BY <1>1, <1>2, SetInduction
  <2>2. QED
    BY <2>1
<1>4. \E g : Solves(g, Len(path))
  BY <1>3
<1>5. Cleaning(path) = CHOOSE g : Solves(g, Len(path))
  BY DEF Cleaning
<1>6. QED
  BY <1>4, <1>5

\* What is collected is a path of names, and not the empty one once a name was seen:
\* a cleaned path leads below the run's directory.
LEMMA CleanStaysInside ==
  ASSUME NEW path, path \in Seq(Range(path)), Valid(path)
  PROVE  Clean(path) \in Seq(Names) \ {<<>>}
<1> DEFINE Named(k) == \E i \in 1..k : path[i] \in Names
           S == {k \in Nat : k <= Len(path) =>
                   /\ Cleaning(path)[k] \in Seq(Names)
                   /\ Named(k) => Cleaning(path)[k] # <<>>}
<1>1. /\ Cleaning(path)[0] = <<>>
      /\ \A k \in 1..Len(path) :
           Cleaning(path)[k] = IF path[k] \in Names THEN Append(Cleaning(path)[k - 1], path[k])
                                                    ELSE Cleaning(path)[k - 1]
  <2> DEFINE at == Cleaning(path)
  <2>1. at = [k \in 0..Len(path) |-> CASE k = 0 -> <<>>
                                       [] k > 0 /\ path[k] \in Names -> Append(at[k - 1], path[k])
                                       [] OTHER -> at[k - 1]]
    BY CleaningUnfolds
  <2> HIDE DEF at
  <2>2. /\ at[0] = <<>>
        /\ \A k \in 1..Len(path) :
             at[k] = IF path[k] \in Names THEN Append(at[k - 1], path[k]) ELSE at[k - 1]
    <3>1. Len(path) \in Nat /\ 0 \in 0..Len(path) /\ \A k \in 1..Len(path) : k \in 0..Len(path) /\ k # 0 /\ k > 0
      OBVIOUS
    <3>2. at[0] = <<>>
      BY <2>1, <3>1
    <3>3. ASSUME NEW k \in 1..Len(path)
          PROVE  at[k] = IF path[k] \in Names THEN Append(at[k - 1], path[k]) ELSE at[k - 1]
      BY <2>1, <3>1
    <3>4. QED
      BY <3>2, <3>3
  <2>3. QED
    BY <2>2 DEF at
<1>2. 0 \in S
  <2>1. ~Named(0)
    OBVIOUS
  <2>2. Cleaning(path)[0] \in Seq(Names)
    BY <1>1
  <2>3. QED
    BY <2>1, <2>2
<1>3. ASSUME NEW n \in Nat, n \in S PROVE n + 1 \in S
  <2> SUFFICES ASSUME n + 1 <= Len(path)
               PROVE  /\ Cleaning(path)[n + 1] \in Seq(Names)
                      /\ Named(n + 1) => Cleaning(path)[n + 1] # <<>>
    OBVIOUS
  <2>1. /\ Cleaning(path)[n] \in Seq(Names)
        /\ Named(n) => Cleaning(path)[n] # <<>>
    BY <1>3
  <2>2. n + 1 \in 1..Len(path) /\ (n + 1) - 1 = n
    OBVIOUS
  <2>3. CASE path[n + 1] \in Names
    <3>1. Cleaning(path)[n + 1] = Append(Cleaning(path)[n], path[n + 1])
      BY <1>1, <2>2, <2>3
    <3>2. QED
      BY <2>1, <2>3, <3>1
  <2>4. CASE path[n + 1] \notin Names
    <3>1. Cleaning(path)[n + 1] = Cleaning(path)[n]
      BY <1>1, <2>2, <2>4
    <3>2. Named(n + 1) => Named(n)
      BY <2>4
    <3>3. QED
      BY <2>1, <3>1, <3>2
  <2>5. QED
    BY <2>3, <2>4
<1>4. Len(path) \in S
  <2> HIDE DEF S
  <2>1. Nat \subseteq S
    BY <1>2, <1>3, SetInduction
  <2>2. QED
    BY <2>1
<1>5. Named(Len(path))
  BY DEF Valid
<1>6. QED
  BY <1>4, <1>5 DEF Clean

-----------------------------------------------------------------------------
\* What is below the run's directory.
Below == Seq(Names) \ {<<>>}

\* The files and the directories form a tree below the run's directory.
Tree ==
  /\ DOMAIN files \cup dirs \subseteq Below
  /\ \A f \in DOMAIN files : f \notin dirs /\ Parents(f) \subseteq dirs

Records == entries \in Seq([path : Paths, ok : BOOLEAN])

AInv == Records /\ Tree /\ ReceiptsTrue

LEMMA ParentsBelow ==
  ASSUME NEW f \in Below
  PROVE  Parents(f) \subseteq Below /\ f \notin Parents(f)
<1> SUFFICES ASSUME NEW k \in 1..(Len(f) - 1)
             PROVE  SubSeq(f, 1, k) \in Below /\ f # SubSeq(f, 1, k)
  BY DEF Parents
<1>1. SubSeq(f, 1, k) \in Seq(Names) /\ Len(SubSeq(f, 1, k)) = k
  BY DEF Below
<1>2. QED
  BY <1>1 DEF Below

LEMMA ArtifactStarts == ArtifactInit => AInv
BY FS_EmptySet, ArtifactAssumption
DEF ArtifactInit, AInv, Records, Tree, ReceiptsTrue, Receipts

\* An attempt on a path writes, if anything, the file the path leads to.
LEMMA AttemptWrites ==
  ASSUME Attempt
  PROVE  \E path \in Paths, ok \in BOOLEAN :
            LET f == Resolve(path)
            IN  /\ entries' = Append(entries, [path |-> path, ok |-> ok])
                /\ \/ ~ok /\ UNCHANGED <<files, dirs>>
                   \/ /\ f \in Below /\ Possible(f) /\ dirs' = dirs \cup Parents(f)
                      /\ \/ ~ok /\ UNCHANGED files
                         \/ ~ok /\ Put(f, 0)
                         \/ ok /\ Put(f, Len(entries) + 1)
                /\ \/ ~ok /\ UNCHANGED written
                   \/ ok /\ written < MaxArtifacts /\ written' = written + 1
<1>1. PICK path \in Paths, large \in BOOLEAN : Refuse(path, large) \/ Write(path, large) \/ Tear(path, large)
  BY DEF Attempt
<1>2. Valid(path) => Clean(path) = Resolve(path) /\ Resolve(path) \in Below
  BY ResolveIsClean, CleanStaysInside, ArtifactAssumption DEF Below
<1>3. CASE Refuse(path, large)
  BY <1>3 DEF Refuse, Push
<1>4. CASE Write(path, large)
  BY <1>2, <1>4 DEF Write, Push, Accepted
<1>5. CASE Tear(path, large)
  BY <1>2, <1>5 DEF Tear, Push, Accepted
<1>6. QED
  BY <1>1, <1>3, <1>4, <1>5

LEMMA AttemptKeeps == ASSUME AInv, Attempt PROVE AInv'
<1> DEFINE n == Len(entries)
<1>1. PICK path \in Paths, ok \in BOOLEAN :
            LET f == Resolve(path)
            IN  /\ entries' = Append(entries, [path |-> path, ok |-> ok])
                /\ \/ ~ok /\ UNCHANGED <<files, dirs>>
                   \/ /\ f \in Below /\ Possible(f) /\ dirs' = dirs \cup Parents(f)
                      /\ \/ ~ok /\ UNCHANGED files
                         \/ ~ok /\ Put(f, 0)
                         \/ ok /\ Put(f, Len(entries) + 1)
                /\ \/ ~ok /\ UNCHANGED written
                   \/ ok /\ written < MaxArtifacts /\ written' = written + 1
  BY AttemptWrites
<1> DEFINE f == Resolve(path)
<1>2. Records' /\ n \in Nat /\ n' = n + 1
      /\ entries'[n + 1] = [path |-> path, ok |-> ok]
      /\ \A i \in 1..n : entries'[i] = entries[i]
  BY <1>1 DEF AInv, Records
<1>3. \/ UNCHANGED <<files, dirs>>
      \/ /\ f \in Below /\ Possible(f) /\ dirs' = dirs \cup Parents(f)
         /\ UNCHANGED files \/ \E c : Put(f, c)
  BY <1>1
<1>4. Tree'
  <2>1. CASE UNCHANGED <<files, dirs>>
    BY <2>1 DEF AInv, Tree
  <2>2. CASE f \in Below /\ Possible(f) /\ dirs' = dirs \cup Parents(f) /\ DOMAIN files' \subseteq DOMAIN files \cup {f}
    <3>1. Parents(f) \subseteq Below /\ f \notin Parents(f)
      BY <2>2, ParentsBelow
    <3> HIDE DEF f
    <3>2. QED
      BY <2>2, <3>1 DEF AInv, Tree, Possible
  <2>3. QED
    BY <1>3, <2>1, <2>2 DEF Put
<1>5. ASSUME NEW i \in 1..n, entries[i].ok,
             \A j \in (i + 1)..(n + 1) : Resolve(entries'[j].path) # Resolve(entries[i].path)
      PROVE  Resolve(entries[i].path) \in DOMAIN files' /\ files'[Resolve(entries[i].path)] = i
  <2>1. Resolve(entries[i].path) # f
    BY <1>2, <1>5
  <2>2. \A j \in (i + 1)..n : Resolve(entries[j].path) # Resolve(entries[i].path)
    BY <1>2, <1>5
  <2>3. Resolve(entries[i].path) \in DOMAIN files /\ files[Resolve(entries[i].path)] = i
    BY <1>5, <2>2 DEF AInv, ReceiptsTrue, Receipts, Records
  <2> HIDE DEF f
  <2>4. QED
    BY <1>3, <2>1, <2>3 DEF Put
<1>6. ok => f \in DOMAIN files' /\ files'[f] = n + 1
  <2>1. SUFFICES ASSUME ok PROVE f \in DOMAIN files' /\ files'[f] = n + 1
    OBVIOUS
  <2>2. Put(f, n + 1)
    BY <1>1, <2>1
  <2> HIDE DEF f, n
  <2>3. QED
    BY <2>2 DEF Put
<1>7. written' = Cardinality(Receipts') /\ written' <= MaxArtifacts
  <2>1. Receipts \subseteq 1..n /\ IsFiniteSet(Receipts) /\ n + 1 \notin Receipts
    <3>1. Receipts \subseteq 1..n
      BY DEF Receipts, AInv, Records
    <3>2. IsFiniteSet(1..n)
      BY <1>2, FS_Interval, 1 \in Int
    <3>3. n + 1 \notin 1..n
      BY <1>2
    <3>4. IsFiniteSet(Receipts)
      BY <3>1, <3>2, FS_Subset
    <3> QED
      BY <3>1, <3>3, <3>4
  <2>2. Receipts' = IF ok THEN Receipts \cup {n + 1} ELSE Receipts
    BY <1>2 DEF Receipts, AInv, Records
  <2>3. Cardinality(Receipts) \in Nat /\ written = Cardinality(Receipts) /\ written <= MaxArtifacts
    BY <2>1, FS_CardinalityType DEF AInv, ReceiptsTrue
  <2>4. Cardinality(Receipts \cup {n + 1}) = Cardinality(Receipts) + 1
    BY <2>1, FS_AddElement
  <2>5. CASE ok
    BY ONLY <1>1, <2>2, <2>3, <2>4, <2>5, ArtifactAssumption
  <2>6. CASE ~ok
    BY ONLY <1>1, <2>2, <2>3, <2>6
  <2> QED
    BY <2>5, <2>6
<1>8. ReceiptsTrue'
  <2>1. \A i \in Receipts' : i \in 1..(n + 1) /\ entries'[i].ok
    BY <1>2 DEF Receipts, Records
  <2>2. \A i \in Receipts' : (i \in 1..n /\ entries[i].ok) \/ (i = n + 1 /\ ok)
    BY <1>2, <2>1
  <2> QED
    BY <1>2, <1>5, <1>6, <1>7, <2>2 DEF ReceiptsTrue, Records
<1>9. QED
  BY <1>2, <1>4, <1>8 DEF AInv
=============================================================================
